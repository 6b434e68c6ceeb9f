------------------------------- MODULE AnWire -------------------------------
(***************************************************************************)
(* The Anthropic Messages stream event                                     *)
(* (src/rust/crates/oxa-anthropic/src/types.rs), as much of it as the      *)
(* stream converters tell apart.  An Option is a sequence of at most one   *)
(* element, an absent index is -1.                                         *)
(***************************************************************************)
EXTENDS IrStream

None == <<>>
Some(v) == <<v>>

(* A content_block: `text` is its text, thinking, raw tool input or
   redacted data (<<>> when absent); `citations` is what a text block
   starts with: "none", "valid", "unknown" (a citation type the IR cannot
   carry) or "malformed". *)
NativeBlock(kind, id, name, text) ==
  [kind |-> kind, id |-> id, name |-> name, text |-> text,
   signature |-> <<>>, citations |-> "none"]

(* A delta of a block: an Option of text, partial_json, thinking or
   signature, and for a citations_delta the citation: "missing", or one of
   the values above. *)
NativeDelta(type, text) == [type |-> type, text |-> text, citation |-> "missing"]
CitationsDelta(citation) == [type |-> "citations_delta", text |-> None, citation |-> citation]

(* The delta of a message_delta; a missing stop_reason is "". *)
Terminal(stop, sequence) == [stop_reason |-> stop, stop_sequence |-> sequence]

Option(S) == {o \in Seq(S) : Len(o) <= 1}

(* A provider may send any kind, type or reason; the ones listed are those
   the encoder writes. *)
NativeKinds == STRING \union {"text", "thinking", "redacted_thinking", "tool_use"}
NativeTypes ==
  STRING \union {"text_delta", "thinking_delta", "signature_delta", "input_json_delta",
                 "citations_delta"}

NativeBlocks ==
  [kind : NativeKinds, id : Tokens, name : Text, text : Text,
   signature : Text, citations : {"none", "valid", "unknown", "malformed"}]
NativeDeltas ==
  [type : NativeTypes, text : Option(Text),
   citation : {"missing", "valid", "unknown", "malformed"}]
Terminals == [stop_reason : Tokens \union StopReasons, stop_sequence : Text]

WireMessageStart(message) == [kind |-> "message_start", message |-> message]
WireBlockStart(i, block) == [kind |-> "content_block_start", index |-> i, block |-> block]
WireBlockDelta(i, delta) == [kind |-> "content_block_delta", index |-> i, delta |-> delta]
WireBlockStop(i) == [kind |-> "content_block_stop", index |-> i]
WireMessageDelta(delta, usage) == [kind |-> "message_delta", delta |-> delta, usage |-> usage]
WireMessageStop == [kind |-> "message_stop"]
WireOther(kind) == [kind |-> kind]

KnownEvents ==
  {"message_start", "content_block_start", "content_block_delta", "content_block_stop",
   "message_delta", "message_stop"}

WireEvents ==
  [kind : {"message_start"}, message : BOOLEAN]
    \union [kind : {"content_block_start"}, index : Int, block : Option(NativeBlocks)]
    \union [kind : {"content_block_delta"}, index : Int, delta : Option(NativeDeltas)]
    \union [kind : {"content_block_stop"}, index : Int]
    \union [kind : {"message_delta"}, delta : Option(Terminals),
            usage : Option(Usages)]
    \union [kind : {"message_stop"}]
    \union [kind : STRING \ KnownEvents]

(* A custom tool's input travels as the only member of a JSON object
   (extract_custom_input, oxa-anthropic/src/normalize.rs): two characters
   stand for what comes before and after the text in {"input":"..."}. *)
Opening == "{input:"
Closing == "}"

Wrap(text) == <<Opening>> \o text \o <<Closing>>

IsWrapped(raw) ==
  /\ Len(raw) >= 2 /\ raw[1] = Opening /\ raw[Len(raw)] = Closing
  /\ \A k \in 2..(Len(raw) - 1) : raw[k] \notin {Opening, Closing}

Unwrap(raw) == SubSeq(raw, 2, Len(raw) - 1)
=============================================================================
