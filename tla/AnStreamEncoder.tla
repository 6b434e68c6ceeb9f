-------------------------- MODULE AnStreamEncoder ---------------------------
(***************************************************************************)
(* StreamEncoder of src/rust/crates/oxa-anthropic/src/streamout.rs: IR     *)
(* events in, Anthropic events and losses out.  Blocks without an          *)
(* Anthropic form take no native index; the input of a custom tool is held *)
(* back until its stop, which sends it wrapped in one fragment; what a     *)
(* thinking block starts with is sent at its stop if no delta brought it.  *)
(*                                                                         *)
(* `enc` is the struct; `wire` and `losses` are everything the caller      *)
(* received.  `open` merges block_open and the five open_* flags, of which *)
(* at most one is set.  A loss names the block or native index it is       *)
(* reported at.  All errors but one leave the struct as it was.            *)
(*                                                                         *)
(* A citation is its source, or "malformed" for one of Anthropic whose     *)
(* value is not JSON: refused like one of an unknown source.               *)
(***************************************************************************)
EXTENDS AnWire, FiniteSets

CONSTANTS
  Events,     \* the IR events the caller may apply
  MaxApplied, \* bound: successful calls of apply considered
  MaxResumed  \* bound: those that come after the first error

(* Only a text block has a field for citations. *)
ASSUME EncoderAssumption ==
  /\ Events \subseteq IrEvents
  /\ \A e \in Events : IsStart(e) /\ e.block.citations # <<>> => e.block.kind = "text"
  /\ MaxApplied \in Nat /\ MaxResumed \in Nat

VARIABLES
  enc,        \* the StreamEncoder
  applied,    \* history: the events apply accepted
  refused     \* history: the first event it refused, and after how many
              \* accepted ones; an Option

vars == <<enc, applied, refused>>

NewEncoder ==
  [started |-> FALSE, next_index |-> 0, next_wire_index |-> 0, open_index |-> 0,
   open_ir_index |-> 0, open |-> "none", custom_seen |-> FALSE, tool_seen |-> FALSE,
   thinking_input |-> <<>>, thinking_signature |-> <<>>, thinking_parts |-> <<>>,
   signature_seen |-> FALSE, tool_input |-> <<>>, tool_parts |-> <<>>,
   citation_loss_seen |-> FALSE, delta_seen |-> FALSE, done |-> FALSE,
   wire |-> <<>>, losses |-> <<>>]

(* The struct and what it hands over, for the type invariant. *)
OpenKinds == {"none", "text", "thinking", "redacted", "tool", "custom", "atomic"}

LossKinds == {"citations", "block", "stop_reason"}

Encoders ==
  [started : BOOLEAN, next_index : Nat, next_wire_index : Nat, open_index : Nat,
   open_ir_index : Nat, open : OpenKinds, custom_seen : BOOLEAN, tool_seen : BOOLEAN,
   thinking_input : Text, thinking_signature : Text, thinking_parts : Seq(Text),
   signature_seen : BOOLEAN, tool_input : Text, tool_parts : Seq(Text),
   citation_loss_seen : BOOLEAN, delta_seen : BOOLEAN, done : BOOLEAN,
   wire : Seq(WireEvents), losses : Seq(LossKinds \X Int)]

Accepted(event, e, wire) ==
  /\ enc' = [e EXCEPT !.wire = @ \o wire]
  /\ applied' = Append(applied, event)
  /\ UNCHANGED refused

Refused(event, e) ==
  /\ enc' = e
  /\ refused' = IF refused = None THEN Some([after |-> Len(applied), event |-> event])
                ELSE refused
  /\ UNCHANGED applied

Lose(e, what) == [e EXCEPT !.losses = Append(@, what)]

Receives(event, type) == event.type = type /\ ~enc.done

ApplyAfterDone(event) == enc.done /\ Refused(event, enc)

ApplyMessageStart(event) ==
  /\ Receives(event, "message_start")
  /\ \/ /\ ~enc.started
        /\ Accepted(event, [enc EXCEPT !.started = TRUE], <<WireMessageStart(TRUE)>>)
     \/ /\ enc.started
        /\ Refused(event, enc)

-----------------------------------------------------------------------------
(* ContentBlockStart *)

(* Blocks that exist in the IR stream only. *)
OmittedKinds == {"web_search_call", "encrypted_content"} \union ApplyPatchKinds

(* Mutant of CustomKinds: one of the two kinds is forgotten. *)
PatchResultOnly == {"apply_patch_tool_result"}

(* Those that may leave the message without the call it stopped for. *)
CustomKinds == ApplyPatchKinds

EncodableKinds == {"text", "thinking", "redacted_thinking"} \union ToolKinds \union OmittedKinds

StartAccepted(e, event) ==
  /\ e.started /\ e.open = "none" /\ event.index = e.next_index
  /\ event.block.kind \in EncodableKinds
  /\ event.block.kind \in ToolKinds => event.block.id # "" /\ event.block.name # <<>>

(* A block with a native form takes the next native index. *)
Open(e, kind) ==
  [e EXCEPT !.next_index = @ + 1, !.open = kind, !.open_ir_index = e.next_index,
            !.open_index = e.next_wire_index, !.next_wire_index = @ + 1]

ApplyBlockStartRefused(event) ==
  /\ Receives(event, "content_block_start")
  /\ ~StartAccepted(enc, event)
  /\ Refused(event, enc)

Starting(event, kinds) ==
  /\ Receives(event, "content_block_start")
  /\ StartAccepted(enc, event)
  /\ event.block.kind \in kinds

Sources(block) == {block.citations[k] : k \in 1..Len(block.citations)}

(* encode_response_citations: those of OpenAI are dropped with one loss. *)
ApplyTextStart(event) ==
  /\ Starting(event, {"text"})
  /\ Sources(event.block) \subseteq {"anthropic", "openai"}
  /\ LET sources == Sources(event.block)
         opened == [Open(enc, "text") EXCEPT !.citation_loss_seen = "openai" \in sources]
         block == [NativeBlock("text", "", <<>>, event.block.text) EXCEPT
                     !.citations = IF "anthropic" \in sources THEN "valid" ELSE "none"]
     IN  Accepted(event, IF "openai" \in sources
                         THEN Lose(opened, <<"citations", opened.open_index>>) ELSE opened,
                  <<WireBlockStart(opened.open_index, Some(block))>>)

(* The one error that comes after the changes: the block stays open. *)
ApplyTextStartUnknownSource(event) ==
  /\ Starting(event, {"text"})
  /\ ~(Sources(event.block) \subseteq {"anthropic", "openai"})
  /\ Refused(event, [Open(enc, "text") EXCEPT !.citation_loss_seen = FALSE])

ApplyThinkingStart(event) ==
  /\ Starting(event, {"thinking"})
  /\ Accepted(event, [Open(enc, "thinking") EXCEPT
                        !.thinking_input = event.block.text,
                        !.thinking_signature = event.block.signature,
                        !.thinking_parts = <<>>, !.signature_seen = FALSE],
              <<WireBlockStart(enc.next_wire_index,
                               Some(NativeBlock("thinking", "", <<>>, <<>>)))>>)

ApplyRedactedStart(event) ==
  /\ Starting(event, {"redacted_thinking"})
  /\ Accepted(event, Open(enc, "redacted"),
              <<WireBlockStart(enc.next_wire_index,
                  Some(NativeBlock("redacted_thinking", "", <<>>, event.block.text)))>>)

(* Both kinds of tool start with an empty object for an input. *)
ApplyToolStart(event) ==
  /\ Starting(event, ToolKinds)
  /\ LET b == event.block
     IN  Accepted(event, [Open(enc, IF b.kind = "tool_use" THEN "tool" ELSE "custom") EXCEPT
                            !.tool_seen = TRUE, !.tool_input = b.text, !.tool_parts = <<>>],
                  <<WireBlockStart(enc.next_wire_index,
                      Some(NativeBlock("tool_use", b.id, b.name, <<"{}">>)))>>)

ApplyOmittedStart(event) ==
  /\ Starting(event, OmittedKinds)
  /\ Accepted(event, Lose([enc EXCEPT !.next_index = @ + 1, !.open = "atomic",
                                      !.open_ir_index = event.index,
                                      !.custom_seen = @ \/ event.block.kind \in CustomKinds],
                          <<"block", event.index>>), <<>>)

ApplyBlockStart(event) ==
  \/ ApplyBlockStartRefused(event)
  \/ ApplyTextStart(event)
  \/ ApplyTextStartUnknownSource(event)
  \/ ApplyThinkingStart(event)
  \/ ApplyRedactedStart(event)
  \/ ApplyToolStart(event)
  \/ ApplyOmittedStart(event)

-----------------------------------------------------------------------------
(* ContentBlockDelta *)

ThinkingDeltas == {"thinking_delta", "signature_delta"}

(* What the open block makes of a delta.  The last arm of the match takes
   a custom_tool_input_delta in any block that reaches it. *)
DeltaAccepted(e, event) ==
  /\ event.index = e.open_ir_index
  /\ \/ e.open = "custom" /\ event.delta.type = "custom_tool_input_delta"
     \/ e.open = "thinking" /\ event.delta.type \in ThinkingDeltas /\ ~e.signature_seen
     \/ e.open = "text" /\ event.delta.type = "text_delta"
     \/ e.open = "text" /\ event.delta.type = "citation_delta"
                        /\ event.delta.text[1] \in {"anthropic", "openai"}
     \/ e.open = "tool" /\ event.delta.type = "input_json_delta"
     \/ e.open \in {"text", "thinking", "tool"}
          /\ event.delta.type = "custom_tool_input_delta"

ApplyDeltaRefused(event) ==
  /\ Receives(event, "content_block_delta")
  /\ ~DeltaAccepted(enc, event)
  /\ Refused(event, enc)

Continuing(event, types) ==
  /\ Receives(event, "content_block_delta")
  /\ DeltaAccepted(enc, event)
  /\ event.delta.type \in types

SentDelta(type, text) == WireBlockDelta(enc.open_index, Some(NativeDelta(type, Some(text))))

ApplyTextDelta(event) ==
  /\ Continuing(event, {"text_delta"})
  /\ Accepted(event, enc, <<SentDelta("text_delta", event.delta.text)>>)

ApplyCitationDelta(event) ==
  /\ Continuing(event, {"citation_delta"})
  /\ \/ /\ event.delta.text[1] = "anthropic"
        /\ Accepted(event, enc,
                    <<WireBlockDelta(enc.open_index, Some(CitationsDelta("valid")))>>)
     \/ /\ event.delta.text[1] = "openai" /\ enc.citation_loss_seen
        /\ Accepted(event, enc, <<>>)
     \/ /\ event.delta.text[1] = "openai" /\ ~enc.citation_loss_seen
        /\ Accepted(event, Lose([enc EXCEPT !.citation_loss_seen = TRUE],
                                <<"citations", enc.open_index>>), <<>>)

ApplyThinkingDelta(event) ==
  /\ Continuing(event, {"thinking_delta"})
  /\ Accepted(event, [enc EXCEPT !.thinking_parts = Append(@, event.delta.text)],
              <<SentDelta("thinking_delta", event.delta.text)>>)

ApplySignatureDelta(event) ==
  /\ Continuing(event, {"signature_delta"})
  /\ Accepted(event, [enc EXCEPT !.signature_seen = TRUE],
              <<SentDelta("signature_delta", event.delta.text)>>)

ApplyInputJsonDelta(event) ==
  /\ Continuing(event, {"input_json_delta"})
  /\ Accepted(event, [enc EXCEPT !.tool_parts = Append(@, event.delta.text)],
              <<SentDelta("input_json_delta", event.delta.text)>>)

(* Only an open custom block remembers the fragment. *)
ApplyCustomInputDelta(event) ==
  /\ Continuing(event, {"custom_tool_input_delta"})
  /\ Accepted(event, IF enc.open = "custom"
                     THEN [enc EXCEPT !.tool_parts = Append(@, event.delta.text)] ELSE enc,
              <<>>)

ApplyBlockDelta(event) ==
  \/ ApplyDeltaRefused(event)
  \/ ApplyTextDelta(event)
  \/ ApplyCitationDelta(event)
  \/ ApplyThinkingDelta(event)
  \/ ApplySignatureDelta(event)
  \/ ApplyInputJsonDelta(event)
  \/ ApplyCustomInputDelta(event)

-----------------------------------------------------------------------------
(* ContentBlockStop *)

(* Mutant of StopAccepted: the fragments are not compared with the input. *)
StopAcceptedUnchecked(e, event) ==
  e.open # "none" /\ event.index = e.open_ir_index

StopAccepted(e, event) ==
  /\ e.open # "none" /\ event.index = e.open_ir_index
  /\ e.open \in {"tool", "custom"} /\ e.tool_parts # <<>> =>
       Concat(e.tool_parts) = e.tool_input

ApplyStopRefused(event) ==
  /\ Receives(event, "content_block_stop")
  /\ ~StopAccepted(enc, event)
  /\ Refused(event, enc)

Stopping(event, kinds) ==
  /\ Receives(event, "content_block_stop")
  /\ StopAccepted(enc, event)
  /\ enc.open \in kinds

SentStop == <<WireBlockStop(enc.open_index)>>

Closed(e) == [e EXCEPT !.open = "none"]

ApplyRedactedStop(event) ==
  /\ Stopping(event, {"redacted"})
  /\ Accepted(event, Closed(enc), SentStop)

ApplyOmittedStop(event) ==
  /\ Stopping(event, {"atomic"})
  /\ Accepted(event, Closed(enc), <<>>)

(* Mutant of ThinkingRest: the thinking of the start is sent again. *)
ThinkingAgain(e) ==
  (IF e.thinking_input # <<>>
   THEN <<SentDelta("thinking_delta", e.thinking_input)>> ELSE <<>>)
  \o (IF ~e.signature_seen /\ e.thinking_signature # <<>>
      THEN <<SentDelta("signature_delta", e.thinking_signature)>> ELSE <<>>)

(* What the deltas left out of the start of the thinking block. *)
ThinkingRest(e) ==
  (IF e.thinking_parts = <<>> /\ e.thinking_input # <<>>
   THEN <<SentDelta("thinking_delta", e.thinking_input)>> ELSE <<>>)
  \o (IF ~e.signature_seen /\ e.thinking_signature # <<>>
      THEN <<SentDelta("signature_delta", e.thinking_signature)>> ELSE <<>>)

ApplyThinkingStop(event) ==
  /\ Stopping(event, {"thinking"})
  /\ Accepted(event, [Closed(enc) EXCEPT !.thinking_input = <<>>, !.thinking_signature = <<>>,
                                         !.thinking_parts = <<>>, !.signature_seen = FALSE],
              ThinkingRest(enc) \o SentStop)

(* A function call without fragments sends its input in one; a custom call
   always sends its input here, wrapped. *)
InputRest(e) ==
  CASE e.open = "custom" -> <<SentDelta("input_json_delta", Wrap(e.tool_input))>>
    [] e.open = "tool" /\ e.tool_parts = <<>> -> <<SentDelta("input_json_delta", e.tool_input)>>
    [] OTHER -> <<>>

ApplyContentStop(event) ==
  /\ Stopping(event, {"text", "tool", "custom"})
  /\ Accepted(event, [Closed(enc) EXCEPT !.tool_input = <<>>, !.tool_parts = <<>>],
              InputRest(enc) \o SentStop)

ApplyBlockStop(event) ==
  \/ ApplyStopRefused(event)
  \/ ApplyRedactedStop(event)
  \/ ApplyOmittedStop(event)
  \/ ApplyThinkingStop(event)
  \/ ApplyContentStop(event)

-----------------------------------------------------------------------------
(* MessageDelta and MessageDone *)

(* Mutant of EffectiveStop: tool_use without a tool has no counterpart. *)
EffectiveStopStrict(e, stop) == IF stop = "tool_use" /\ ~e.tool_seen THEN "other" ELSE stop

EffectiveStop(e, stop) == IF stop = "tool_use" /\ ~e.tool_seen THEN "end_turn" ELSE stop

(* encode_stop_reason refuses "other". *)
TerminalAccepted(e, event) ==
  /\ e.started /\ e.open = "none" /\ ~e.delta_seen
  /\ EffectiveStop(e, event.stop_reason) # "other"

ApplyMessageDelta(event) ==
  /\ Receives(event, "message_delta")
  /\ \/ ~TerminalAccepted(enc, event) /\ Refused(event, enc)
     \/ /\ TerminalAccepted(enc, event)
        /\ LET stop == EffectiveStop(enc, event.stop_reason)
               seen == [enc EXCEPT !.delta_seen = TRUE]
           IN  Accepted(event, IF stop # event.stop_reason /\ enc.custom_seen
                               THEN Lose(seen, <<"stop_reason", -1>>) ELSE seen,
                        <<WireMessageDelta(
                            Some(Terminal(stop, IF stop = "stop_sequence"
                                                THEN event.stop_sequence ELSE <<>>)),
                            Some(event.usage))>>)

(* Only delta_seen is looked at. *)
ApplyMessageDone(event) ==
  /\ Receives(event, "message_done")
  /\ \/ ~enc.delta_seen /\ Refused(event, enc)
     \/ enc.delta_seen /\ Accepted(event, [enc EXCEPT !.done = TRUE], <<WireMessageStop>>)

Apply(event) ==
  \/ ApplyAfterDone(event)
  \/ ApplyMessageStart(event)
  \/ ApplyBlockStart(event)
  \/ ApplyBlockDelta(event)
  \/ ApplyBlockStop(event)
  \/ ApplyMessageDelta(event)
  \/ ApplyMessageDone(event)

Init ==
  /\ enc = NewEncoder
  /\ applied = <<>>
  /\ refused = None

Next ==
  /\ Len(applied) < MaxApplied
  /\ refused # None => Len(applied) < refused[1].after + MaxResumed
  /\ \E event \in Events : Apply(event)

Spec == Init /\ [][Next]_vars

-----------------------------------------------------------------------------
(* Properties, stated over what was applied and what was received. *)

Faultless == refused = None

(* The block that the event at k of the stream s belongs to, the blocks of
   s that have a native form, the native index of one that starts at k,
   and whether one of these kinds came up to k. *)
BlockAt(s, k) == CHOOSE j \in 1..k : IsStart(s[j]) /\ s[j].index = s[k].index

NativeAt(s) == {j \in 1..Len(s) : IsStart(s[j]) /\ s[j].block.kind \notin OmittedKinds}

NativeIndex(s, k) == Cardinality({j \in NativeAt(s) : j < k})

Brought(s, k, kinds) == \E j \in 1..k : IsStart(s[j]) /\ s[j].block.kind \in kinds

BlockOf(k) == BlockAt(applied, k)

(* The two things the encoder lets through: a custom fragment in a block
   of another kind, and anything that separates the terminal pair. *)
Stray(k) ==
  \/ /\ IsDelta(applied[k]) /\ applied[k].delta.type = "custom_tool_input_delta"
     /\ applied[BlockOf(k)].block.kind \in {"text", "thinking", "tool_use"}
  \/ \E j \in 1..(k - 1) :
       /\ applied[j].type = "message_delta"
       /\ ~(j = k - 1 /\ applied[k].type = "message_done")

(* N-S-1, N-S-2 but for these: everything else the encoder accepts is in
   grammar order, with the exact input of every tool. *)
AcceptsLittleElse ==
  Faultless /\ (\A k \in 1..Len(applied) : ~Stray(k)) =>
    InOrder(applied) /\ ToolInputsExact(applied, TRUE)

(* Why the last event of s may be refused although s is in grammar order. *)
Unencodable(s) ==
  LET e == s[Len(s)]
  IN  \/ IsStart(e) /\ e.block.kind \notin EncodableKinds
      \/ IsStart(e) /\ e.block.kind \in ToolKinds /\ (e.block.id = "" \/ e.block.name = <<>>)
      \/ IsStart(e) /\ ~(Sources(e.block) \subseteq {"anthropic", "openai"})
      \/ IsDelta(e) /\ e.delta.type = "citation_delta"
                    /\ e.delta.text[1] \notin {"anthropic", "openai"}
      \/ IsStop(e) /\ ~ToolInputsExact(s, TRUE)
      \/ e.type = "message_delta" /\ e.stop_reason = "other"

(* ... and it refuses nothing else: the first error has a reason. *)
RefusesOnlyForCause ==
  ~Faultless =>
    LET s == Append(SubSeq(applied, 1, refused[1].after), refused[1].event)
    IN  ~InOrder(s) \/ Unencodable(s)

(* What the native block with index i says of a delta, ... *)
Says(i, type, text) == WireBlockDelta(i, Some(NativeDelta(type, Some(text))))

Carried(i, delta) ==
  CASE delta.type \in {"text_delta", "input_json_delta"} \union ThinkingDeltas ->
         <<Says(i, delta.type, delta.text)>>
    [] delta.type = "citation_delta" /\ delta.text[1] = "anthropic" ->
         <<WireBlockDelta(i, Some(CitationsDelta("valid")))>>
    [] OTHER -> <<>>

(* ... and, before it stops, of the parts that no delta has brought, when
   deltas of these types came. *)
Remainder(i, block, types) ==
  CASE block.kind = "tool_use" /\ "input_json_delta" \notin types ->
         <<Says(i, "input_json_delta", block.text)>>
    [] block.kind = "custom_tool_use" -> <<Says(i, "input_json_delta", Wrap(block.text))>>
    [] block.kind = "thinking" ->
         (IF block.text # <<>> /\ "thinking_delta" \notin types
          THEN <<Says(i, "thinking_delta", block.text)>> ELSE <<>>)
         \o (IF block.signature # <<>> /\ "signature_delta" \notin types
             THEN <<Says(i, "signature_delta", block.signature)>> ELSE <<>>)
    [] OTHER -> <<>>

NativeForm(block) ==
  CASE block.kind = "text" ->
         [NativeBlock("text", "", <<>>, block.text) EXCEPT
            !.citations = IF "anthropic" \in Sources(block) THEN "valid" ELSE "none"]
    [] block.kind = "thinking" -> NativeBlock("thinking", "", <<>>, <<>>)
    [] block.kind = "redacted_thinking" -> NativeBlock(block.kind, "", <<>>, block.text)
    [] OTHER -> NativeBlock("tool_use", block.id, block.name, <<"{}">>)

(* A message without a call cannot have stopped for one. *)
NativeTerminal(e, called) ==
  LET stop == IF e.stop_reason = "tool_use" /\ ~called THEN "end_turn" ELSE e.stop_reason
  IN  WireMessageDelta(Some(Terminal(stop, IF stop = "stop_sequence" THEN e.stop_sequence ELSE <<>>)),
                       Some(e.usage))

(* The native events that stand for the event e: of this block with the
   native index i, which had deltas of these types, in a message that made
   a call or none. *)
NativeFor(e, block, i, types, called) ==
  CASE e.type = "message_start" -> <<WireMessageStart(TRUE)>>
    [] IsStart(e) /\ block.kind \notin OmittedKinds ->
         <<WireBlockStart(i, Some(NativeForm(block)))>>
    [] IsDelta(e) -> Carried(i, e.delta)
    [] IsStop(e) /\ block.kind \notin OmittedKinds ->
         Remainder(i, block, types) \o <<WireBlockStop(i)>>
    [] e.type = "message_delta" -> <<NativeTerminal(e, called)>>
    [] e.type = "message_done" -> <<WireMessageStop>>
    [] OTHER -> <<>>

TypesIn(s, b, k) == {s[n].delta.type : n \in {n \in b..k : IsDelta(s[n])}}

OutputOf(s, k) ==
  LET b == BlockAt(s, k)
  IN  NativeFor(s[k], s[b].block, NativeIndex(s, b), TypesIn(s, b, k), Brought(s, k, ToolKinds))

(* The stop at k ends a thinking block whose thinking no delta brought but
   whose signature one did.  N-S-11 puts the signature last; the code has
   sent it by then. *)
ThinkingComesLate(s, k) ==
  LET b == BlockAt(s, k)
      types == TypesIn(s, b, k)
  IN  /\ IsStop(s[k]) /\ s[b].block.kind = "thinking" /\ s[b].block.text # <<>>
      /\ "signature_delta" \in types /\ "thinking_delta" \notin types

(* N-S-2: what comes out is, event by event and each in its own block, what
   came in: contiguous native indexes over the blocks that have a native
   form, every fragment in the block it names, what no fragment brought
   sent once at the stop, a stop reason that fits the blocks.  Nothing is
   said of a stream in which thinking comes late. *)
OutputIsBlockwise ==
  Faultless /\ (\A k \in 1..Len(applied) : ~ThinkingComesLate(applied, k)) =>
    enc.wire = Concat([k \in 1..Len(applied) |-> OutputOf(applied, k)])

CitesOpenAI(k) ==
  \/ IsStart(applied[k]) /\ "openai" \in Sources(applied[k].block)
  \/ IsDelta(applied[k]) /\ applied[k].delta.type = "citation_delta"
                       /\ applied[k].delta.text[1] = "openai"

Kinds == {applied[k].block.kind : k \in {k \in 1..Len(applied) : IsStart(applied[k])}}

GapsAt(k) ==
  LET e == applied[k]
      firstCitation == CitesOpenAI(k) /\ ~\E j \in BlockOf(k)..(k - 1) : CitesOpenAI(j)
  IN  CASE IsStart(e) /\ e.block.kind \in OmittedKinds -> <<<<"block", e.index>>>>
        [] (IsStart(e) \/ IsDelta(e)) /\ firstCitation ->
             <<<<"citations", NativeIndex(applied, BlockOf(k))>>>>
        [] /\ e.type = "message_delta" /\ e.stop_reason = "tool_use"
           /\ Kinds \intersect ToolKinds = {} /\ Kinds \intersect ApplyPatchKinds # {} ->
             <<<<"stop_reason", -1>>>>
        [] OTHER -> <<>>

(* README: semantic gaps are never silent.  One loss per omitted block,
   one per text block with citations of OpenAI, at the first of them, and
   one when tool_use cannot be the stop reason; in the order of the gaps. *)
LossesInOrderOfGaps ==
  Faultless /\ InOrder(applied) =>
    enc.losses = Concat([k \in 1..Len(applied) |-> GapsAt(k)])
=============================================================================
