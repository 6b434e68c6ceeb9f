----------------------------- MODULE IrChecker ------------------------------
(***************************************************************************)
(* The event-stream validator of src/rust/crates/oxa-ir/src/checker.rs:    *)
(* validate_with reads a stream one event at a time and stops at the first *)
(* violation.  `lenient` is its parameter allow_synthesized: FALSE for     *)
(* validate_event_stream, TRUE for validate_event_stream_for_encoder.      *)
(***************************************************************************)
EXTENDS IrStream

CONSTANTS
  Events,      \* the events a stream under validation may contain
  MaxEvents    \* bound: the longest stream considered

ASSUME MaxEventsAssumption == MaxEvents \in Nat

(* The texts that reach the checker are sequences of characters. *)
ASSUME EventsAssumption ==
  \A e \in Events : /\ IsStart(e) => e.block.text \in Text
                    /\ IsDelta(e) => e.delta.text \in Text

VARIABLES
  lenient,     \* allow_synthesized
  stream,      \* the events read so far, the offending one included
  phase,       \* NeedStart, Blocks, NeedMessageDone or Done
  next_index,  \* the index the next block has to carry
  open,        \* the open block, or Closed
  verdict      \* "reading", then "accepted" or "violation"

vars == <<lenient, stream, phase, next_index, open, verdict>>

OpenKinds == {"Text", "Thinking", "Tool", "CustomTool", "Atomic"}

OpenBlocks ==
  [kind : OpenKinds \union {"none"}, index : Int, signature_seen : BOOLEAN,
   input : Text, fragments : Text, fragment_count : Nat]

OpenBlock(kind, index, input) ==
  [kind |-> kind, index |-> index, signature_seen |-> FALSE,
   input |-> input, fragments |-> <<>>, fragment_count |-> 0]

Closed == OpenBlock("none", -1, <<>>)

(* Which OpenBlock variant a started block becomes. *)
OpenKind(b) ==
  CASE b.kind = "text" -> "Text"
    [] b.kind = "thinking" -> "Thinking"
    [] b.kind = "tool_use" -> "Tool"
    [] b.kind = "custom_tool_use" -> "CustomTool"
    [] OTHER -> "Atomic"

(* The blocks the match on ContentBlockStart lets through. *)
StartableBlock(b) ==
  /\ b.kind \in StreamedKinds
  /\ b.kind = "custom_tool_use" => b.id # "" /\ b.name # <<>>
  /\ b.kind \in ApplyPatchKinds => b.id # ""

(* Mutant of Accepts: the signature does not end the thinking deltas. *)
AcceptsAfterSignature(o, d) ==
  \/ o.kind = "Text" /\ d.type \in {"text_delta", "citation_delta"}
  \/ o.kind = "Thinking" /\ d.type \in {"thinking_delta", "signature_delta"}
  \/ o.kind = "Tool" /\ d.type = "input_json_delta"
  \/ o.kind = "CustomTool" /\ d.type = "custom_tool_input_delta"

(* The (open block, delta) pairs the match on ContentBlockDelta accepts. *)
Accepts(o, d) ==
  \/ o.kind = "Text" /\ d.type \in {"text_delta", "citation_delta"}
  \/ o.kind = "Thinking" /\ d.type \in {"thinking_delta", "signature_delta"}
                         /\ ~o.signature_seen
  \/ o.kind = "Tool" /\ d.type = "input_json_delta"
  \/ o.kind = "CustomTool" /\ d.type = "custom_tool_input_delta"

(* Mutant of ToolInputValid: an input without fragments always passes. *)
ToolInputOptional(o) == o.fragment_count = 0 \/ o.input = o.fragments

(* validate_tool_input: the check made when a tool block closes. *)
ToolInputValid(o) ==
  IF o.fragment_count = 0
  THEN o.input = <<>> \/ lenient
  ELSE o.input = o.fragments

InputOf(b) == IF b.kind \in ToolKinds THEN b.text ELSE <<>>

(* Mutant of Opened: the index is read after it was incremented. *)
OpenedAfterIncrement(e) ==
  OpenBlock(OpenKind(e.block), e.index + 1, InputOf(e.block))

(* The OpenBlock a content_block_start creates. *)
Opened(e) ==
  OpenBlock(OpenKind(e.block), e.index, InputOf(e.block))

(* What an accepted delta leaves in the open block. *)
Absorbed(o, d) ==
  CASE d.type = "signature_delta" -> [o EXCEPT !.signature_seen = TRUE]
    [] d.type \in {"input_json_delta", "custom_tool_input_delta"} ->
         [o EXCEPT !.fragments = @ \o d.text, !.fragment_count = @ + 1]
    [] OTHER -> o

(* The conditions under which the code reads e without a violation. *)
Legal(e) ==
  \/ /\ e.type = "message_start"
     /\ phase = "NeedStart"
  \/ /\ e.type = "content_block_start"
     /\ phase = "Blocks"
     /\ open = Closed
     /\ e.index = next_index
     /\ StartableBlock(e.block)
  \/ /\ e.type = "content_block_delta"
     /\ open # Closed
     /\ e.index = open.index
     /\ Accepts(open, e.delta)
  \/ /\ e.type = "content_block_stop"
     /\ open # Closed
     /\ e.index = open.index
     /\ open.kind \in {"Tool", "CustomTool"} => ToolInputValid(open)
  \/ /\ e.type = "message_delta"
     /\ phase = "Blocks"
     /\ open = Closed
     /\ e.stop_sequence # <<>> => e.stop_reason = "stop_sequence"
  \/ /\ e.type = "message_done"
     /\ phase = "NeedMessageDone"

TypeOK ==
  /\ lenient \in BOOLEAN
  /\ stream \in Seq(Events)
  /\ phase \in {"NeedStart", "Blocks", "NeedMessageDone", "Done"}
  /\ next_index \in Nat
  /\ open \in OpenBlocks
  /\ open = Closed \/ (open.kind \in OpenKinds /\ open.index = next_index - 1)
  /\ verdict \in {"reading", "accepted", "violation"}

Init ==
  /\ lenient \in BOOLEAN
  /\ stream = <<>>
  /\ phase = "NeedStart"
  /\ next_index = 0
  /\ open = Closed
  /\ verdict = "reading"

Reads(e) ==
  /\ verdict = "reading"
  /\ Len(stream) < MaxEvents
  /\ stream' = Append(stream, e)
  /\ UNCHANGED lenient

ReadsLegal(e) == Reads(e) /\ Legal(e) /\ UNCHANGED verdict

ReadMessageStart(e) ==
  /\ e.type = "message_start"
  /\ ReadsLegal(e)
  /\ phase' = "Blocks"
  /\ UNCHANGED <<next_index, open>>

ReadBlockStart(e) ==
  /\ e.type = "content_block_start"
  /\ ReadsLegal(e)
  /\ next_index' = next_index + 1
  /\ open' = Opened(e)
  /\ UNCHANGED phase

ReadBlockDelta(e) ==
  /\ e.type = "content_block_delta"
  /\ ReadsLegal(e)
  /\ open' = Absorbed(open, e.delta)
  /\ UNCHANGED <<phase, next_index>>

ReadBlockStop(e) ==
  /\ e.type = "content_block_stop"
  /\ ReadsLegal(e)
  /\ open' = Closed
  /\ UNCHANGED <<phase, next_index>>

ReadMessageDelta(e) ==
  /\ e.type = "message_delta"
  /\ ReadsLegal(e)
  /\ phase' = "NeedMessageDone"
  /\ UNCHANGED <<next_index, open>>

ReadMessageDone(e) ==
  /\ e.type = "message_done"
  /\ ReadsLegal(e)
  /\ phase' = "Done"
  /\ UNCHANGED <<next_index, open>>

(* The first illegal event ends the validation with a Violation. *)
Violate(e) ==
  /\ Reads(e)
  /\ ~Legal(e)
  /\ verdict' = "violation"
  /\ UNCHANGED <<phase, next_index, open>>

(* The stream ends: it is accepted only after message_done. *)
EndOfStream ==
  /\ verdict = "reading"
  /\ verdict' = IF phase = "Done" THEN "accepted" ELSE "violation"
  /\ UNCHANGED <<lenient, stream, phase, next_index, open>>

Next ==
  \/ \E e \in Events : \/ ReadMessageStart(e)
                       \/ ReadBlockStart(e)
                       \/ ReadBlockDelta(e)
                       \/ ReadBlockStop(e)
                       \/ ReadMessageDelta(e)
                       \/ ReadMessageDone(e)
                       \/ Violate(e)
  \/ EndOfStream

Spec == Init /\ [][Next]_vars

-----------------------------------------------------------------------------
(* A stream is read on only while it is in grammar order, and accepted only
   when it is complete; so the event a Violation names is the first one
   that breaks the order of the blocks, their indexes or their deltas. *)
ReadsOnlyLegalPrefixes ==
  /\ verdict # "violation" => WellFormed(stream)
  /\ verdict = "accepted" => Complete(stream)

(* No miss and no false alarm: the inputs of the finished tool blocks are
   exact as long as there is no violation, and a violation never names a
   complete stream whose tool inputs are exact. *)
AcceptsExactlyTheGrammar ==
  /\ verdict # "violation" => ToolInputsExact(stream, lenient)
  /\ verdict = "violation" => ~(Complete(stream) /\ ToolInputsExact(stream, lenient))
=============================================================================
