------------------------------ MODULE IrStream ------------------------------
(***************************************************************************)
(* The intermediate representation (IR) of a streamed response: events,    *)
(* blocks and deltas (src/rust/crates/oxa-ir/src/event.rs, request.rs),    *)
(* and the grammar every emitted stream has to obey.                       *)
(*                                                                         *)
(* The grammar is stated declaratively, by the pairs of events that may    *)
(* be adjacent.  Every event but message_start carries the index of its    *)
(* block, so the block structure, the contiguity of the indexes and the    *)
(* correspondence between a block and its deltas are all local facts, and  *)
(* no state machine is needed to say which streams are legal.  The state   *)
(* machine of the code is IrChecker; the two are compared there.           *)
(*                                                                         *)
(* A text (a fragment, a name, a tool input) is a sequence of opaque       *)
(* characters, so the empty text and concatenation mean what they mean in  *)
(* the code.  Identifiers are opaque; "" is the empty one.                 *)
(***************************************************************************)
EXTENDS Integers, Sequences, SequencesExt

(* Characters and identifiers.  The few values that the converters write
   themselves are listed: what STRING contains is unknown to the provers. *)
Tokens == STRING \union {"", "anthropic", "{}", "{input:", "}"}

Text == Seq(Tokens)

(* Blocks.  `text` is the text, thinking or input of the block; `signature`
   is the opaque replay token of a thinking block (<<>> when absent) and
   `citations` lists the sources of the citations a text block starts with. *)
Block(kind, id, name, text) ==
  [kind |-> kind, id |-> id, name |-> name, text |-> text,
   signature |-> <<>>, citations |-> <<>>]

TextBlock == Block("text", "", <<>>, <<>>)
ThinkingBlock == Block("thinking", "", <<>>, <<>>)
ToolUseBlock(id, name, input) == Block("tool_use", id, name, input)
CustomToolUseBlock(id, name, input) == Block("custom_tool_use", id, name, input)

ApplyPatchKinds == {"apply_patch_tool_use", "apply_patch_tool_result"}

(* Blocks that carry everything in their start event and take no delta. *)
AtomicKinds ==
  {"redacted_thinking", "encrypted_content", "tool_reference", "web_search_call"}
    \union ApplyPatchKinds

ToolKinds == {"tool_use", "custom_tool_use"}

StreamedKinds == {"text", "thinking"} \union ToolKinds \union AtomicKinds

(* The text of a citation_delta is the source of its citation. *)
Delta(type, text) == [type |-> type, text |-> text]

MessageStart == [type |-> "message_start"]
BlockStart(i, b) == [type |-> "content_block_start", index |-> i, block |-> b]
BlockDelta(i, d) == [type |-> "content_block_delta", index |-> i, delta |-> d]
BlockStop(i) == [type |-> "content_block_stop", index |-> i]
MessageDelta(stop, sequence, usage) ==
  [type |-> "message_delta", stop_reason |-> stop, stop_sequence |-> sequence,
   usage |-> usage]
MessageDone == [type |-> "message_done"]

Usage(input, output) == [input |-> input, output |-> output]
NoUsage == Usage(0, 0)

(* The events there are, for the type invariants. *)
BlockKinds ==
  StreamedKinds \union {"image", "document", "custom_tool_result", "tool_result",
                        "refusal", "compaction"}
DeltaTypes ==
  {"text_delta", "input_json_delta", "custom_tool_input_delta", "thinking_delta",
   "signature_delta", "citation_delta"}
StopReasons == {"end_turn", "max_tokens", "stop_sequence", "tool_use", "refusal", "other"}

Blocks ==
  [kind : BlockKinds, id : Tokens, name : Text, text : Text, signature : Text,
   citations : Text]
Deltas == [type : DeltaTypes, text : Text]
Usages == [input : Int, output : Int]

IrEvents ==
  [type : {"message_start", "message_done"}]
    \union [type : {"content_block_start"}, index : Nat, block : Blocks]
    \union [type : {"content_block_delta"}, index : Nat, delta : Deltas]
    \union [type : {"content_block_stop"}, index : Nat]
    \union [type : {"message_delta"}, stop_reason : StopReasons, stop_sequence : Text,
            usage : Usages]

IsStart(e) == e.type = "content_block_start"
IsDelta(e) == e.type = "content_block_delta"
IsStop(e) == e.type = "content_block_stop"

-----------------------------------------------------------------------------
(* The grammar: INV-5 and INV-6 of src/spec/01-intermediate-representation
   and the delta correspondence of its section 5.2. *)

BlockFamily(b) ==
  CASE b.kind = "text" -> "text"
    [] b.kind = "thinking" -> "thinking"
    [] b.kind = "tool_use" -> "tool"
    [] b.kind = "custom_tool_use" -> "custom"
    [] OTHER -> "atomic"

DeltaFamily(d) ==
  CASE d.type \in {"text_delta", "citation_delta"} -> "text"
    [] d.type \in {"thinking_delta", "signature_delta"} -> "thinking"
    [] d.type = "input_json_delta" -> "tool"
    [] d.type = "custom_tool_input_delta" -> "custom"
    [] OTHER -> "unknown"

(* f closes the region between two blocks: a block with index i or the
   terminal pair comes next. *)
OpensAt(f, i) ==
  \/ IsStart(f) /\ f.index = i
  \/ f.type = "message_delta"

(* f continues the block with index i and family fam, or closes it. *)
Continues(f, i, fam) ==
  \/ IsStop(f) /\ f.index = i
  \/ IsDelta(f) /\ f.index = i /\ DeltaFamily(f.delta) = fam

(* The events that may come right after e. *)
Follows(e, f) ==
  \/ e.type = "message_start" /\ OpensAt(f, 0)
  \/ IsStart(e) /\ Continues(f, e.index, BlockFamily(e.block))
  \/ IsDelta(e) /\ Continues(f, e.index, DeltaFamily(e.delta))
                /\ (e.delta.type = "signature_delta" => IsStop(f))
  \/ IsStop(e) /\ OpensAt(f, e.index + 1)
  \/ e.type = "message_delta" /\ f.type = "message_done"

(* What one event must satisfy whatever surrounds it. *)
EventOK(e) ==
  /\ IsStart(e) =>
       /\ e.block.kind \in StreamedKinds
       /\ e.block.kind \in {"custom_tool_use"} \union ApplyPatchKinds => e.block.id # ""
       /\ e.block.kind = "custom_tool_use" => e.block.name # <<>>
  /\ e.type = "message_delta" =>
       (e.stop_sequence # <<>> => e.stop_reason = "stop_sequence")

InOrder(s) ==
  /\ s # <<>> => s[1].type = "message_start"
  /\ \A i \in 1..(Len(s) - 1) : Follows(s[i], s[i + 1])

WellFormed(s) == InOrder(s) /\ \A i \in 1..Len(s) : EventOK(s[i])

Complete(s) == WellFormed(s) /\ s # <<>> /\ s[Len(s)].type = "message_done"

-----------------------------------------------------------------------------
(* What a stream says, read off the events alone. *)

Concat(texts) == FlattenSeq(texts)

StartsOf(s, kinds) == SelectSeq(s, LAMBDA e : IsStart(e) /\ e.block.kind \in kinds)

Stopped(s, i) == \E k \in 1..Len(s) : IsStop(s[k]) /\ s[k].index = i

(* The tool block that starts at k and stops at m, and what its fragments
   spell. *)
IsToolUnit(s, k, m) ==
  /\ k < m
  /\ IsStart(s[k]) /\ s[k].block.kind \in ToolKinds
  /\ \A n \in (k + 1)..(m - 1) : IsDelta(s[n])
  /\ IsStop(s[m])

Fragments(s, k, m) == [n \in 1..(m - k - 1) |-> s[k + n].delta.text]

(* INV-1: the input of a finished tool block is the concatenation of its
   fragments.  A stream handed to an encoder may leave all of them out
   (lenient); one produced by a decoder may do so for an empty input only. *)
InputExact(input, fragments, lenient) ==
  IF fragments = <<>> THEN lenient \/ input = <<>> ELSE Concat(fragments) = input

ToolInputsExact(s, lenient) ==
  \A k, m \in 1..Len(s) :
    IsToolUnit(s, k, m) => InputExact(s[k].block.text, Fragments(s, k, m), lenient)

-----------------------------------------------------------------------------
(* What a decoder hands over: a legal beginning of a stream, tool blocks
   whole and with their exact input, and the terminal pair together. *)

Terminated(s) == \E k \in 1..Len(s) : s[k].type = "message_delta"

ToolBlocksWhole(s) ==
  \A k \in 1..Len(s) :
    IsStart(s[k]) /\ s[k].block.kind \in ToolKinds =>
      \E m \in 1..Len(s) : IsToolUnit(s, k, m)

Promise(s) ==
  /\ WellFormed(s)
  /\ ToolBlocksWhole(s)
  /\ ToolInputsExact(s, FALSE)
  /\ Terminated(s) => Complete(s)
=============================================================================
