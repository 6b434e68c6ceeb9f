-------------------------- MODULE CcStreamEncoder ---------------------------
(***************************************************************************)
(* StreamEncoder of src/rust/crates/oxa-chatcompletions/src/streamout.rs:  *)
(* IR events in, Chat Completions chunks and losses out.  Chat Completions *)
(* has no block structure: text and reasoning pass at once, tool chunks    *)
(* wait in pending_tools for the message_delta.                            *)
(*                                                                         *)
(* `enc` is the struct; its fields `chunks` and `losses` are everything    *)
(* the caller received so far.  A loss names the ordinal of its event and  *)
(* the field that has no counterpart; -1 stands for the whole message.     *)
(***************************************************************************)
EXTENDS IrStream, CcWire, FiniteSets

CONSTANTS
  Events,     \* the IR events the caller may apply
  MaxApplied, \* bound: calls of apply considered
  MaxRefused, \* bound: errors after which the caller gives up
  MaxInt      \* i64::MAX, the largest token counter

ASSUME EncoderAssumption ==
  /\ Events \subseteq IrEvents
  /\ MaxApplied \in Nat /\ MaxRefused \in Nat /\ MaxInt \in Nat

VARIABLES
  enc,        \* the StreamEncoder
  applied,    \* history: the events passed to apply, with the outcome
  failed      \* history: some call has returned an error

vars == <<enc, applied, failed>>

Idle == [kind |-> "none", index |-> -1, tool_id |-> "", tool_name |-> <<>>,
         tool_input |-> <<>>, fragments |-> <<>>, native_index |-> 0,
         tool_started |-> FALSE, signature_seen |-> FALSE,
         citation_loss_seen |-> FALSE]

NewEncoder ==
  [started |-> FALSE, active |-> Idle, next_ir_index |-> 0,
   next_native_tool |-> 0, tool_seen |-> FALSE, custom_seen |-> FALSE,
   ordering_degrade |-> FALSE, pending_tools |-> <<>>, finished |-> FALSE,
   done |-> FALSE, event_ordinal |-> 0, chunks |-> <<>>, losses |-> <<>>]

(* The active block and the struct, for the type invariant. *)
ActiveKinds == {"none", "Text", "Thinking", "Tool", "CustomTool", "Redacted", "Atomic"}

ActiveBlocks ==
  [kind : ActiveKinds, index : Int, tool_id : Tokens, tool_name : Text, tool_input : Text,
   fragments : Seq(Text), native_index : Nat, tool_started : BOOLEAN,
   signature_seen : BOOLEAN, citation_loss_seen : BOOLEAN]

LossFields ==
  {"citations", "signature", "type", "stop_reason", "stop_sequence", "ordering"}

Encoders ==
  [started : BOOLEAN, active : ActiveBlocks, next_ir_index : Nat, next_native_tool : Nat,
   tool_seen : BOOLEAN, custom_seen : BOOLEAN, ordering_degrade : BOOLEAN,
   pending_tools : Seq(WireChunks), finished : BOOLEAN, done : BOOLEAN,
   event_ordinal : Nat, chunks : Seq(WireChunks), losses : Seq(Int \X LossFields)]

Send(e, chunk) == [e EXCEPT !.chunks = Append(@, chunk)]
Lose(e, ordinal, field) == [e EXCEPT !.losses = Append(@, <<ordinal, field>>)]

Active(kind, event) == [Idle EXCEPT !.kind = kind, !.index = event.index]

-----------------------------------------------------------------------------
(* make_tool_argument_chunk and make_custom_tool_argument_chunk: the first
   chunk of a call carries its id, name and type. *)
ArgumentChunk(block, text) ==
  LET name == IF block.tool_started THEN <<>> ELSE block.tool_name
      payload == Some(Payload(name, Some(text)))
      custom == block.kind = "CustomTool"
  IN  CallChunk(CallDelta(block.native_index,
                          IF block.tool_started THEN "" ELSE block.tool_id,
                          IF block.tool_started THEN "absent"
                          ELSE IF custom THEN "custom" ELSE "function",
                          IF custom THEN None ELSE payload,
                          IF custom THEN payload ELSE None))

(* Mutant of QueueFragment: the call is not marked as started. *)
QueueFragmentUnmarked(e, text) ==
  [e EXCEPT !.pending_tools = Append(@, ArgumentChunk(e.active, text)),
            !.active.fragments = Append(@, text)]

(* A fragment of the active call is queued behind those already pending. *)
QueueFragment(e, text) ==
  [e EXCEPT !.pending_tools = Append(@, ArgumentChunk(e.active, text)),
            !.active.fragments = Append(@, text),
            !.active.tool_started = TRUE]

(* encode_finish_reason; "other" has no equivalent and is refused. *)
FinishOf(stop) ==
  CASE stop \in {"end_turn", "stop_sequence"} -> "stop"
    [] stop = "max_tokens" -> "length"
    [] stop = "refusal" -> "content_filter"
    [] stop = "tool_use" -> "tool_calls"

-----------------------------------------------------------------------------
(* apply: the outcome of each arm.  `Accepted` and `Refused` close a call. *)

Counted(e) == [e EXCEPT !.event_ordinal = @ + 1]

Accepted(event, e) ==
  /\ enc' = Counted(e)
  /\ applied' = Append(applied, [event |-> event, ok |-> TRUE])
  /\ UNCHANGED failed

Refused(event, e) ==
  /\ enc' = e
  /\ applied' = Append(applied, [event |-> event, ok |-> FALSE])
  /\ failed' = TRUE

Ended(event) == enc.done \/ (enc.finished /\ event.type # "message_done")

ApplyAfterEnd(event) ==
  /\ Ended(event)
  /\ Refused(event, enc)

ApplyMessageStart(event) ==
  /\ event.type = "message_start" /\ ~Ended(event)
  /\ IF enc.started THEN Refused(event, Counted(enc))
     ELSE Accepted(event, Send([enc EXCEPT !.started = TRUE], RoleChunk))

BlockStartInOrder(event) ==
  enc.started /\ enc.active = Idle /\ event.index = enc.next_ir_index

(* The index is taken before the kind of the block is looked at. *)
Indexed(e) == [e EXCEPT !.next_ir_index = @ + 1]

ApplyBlockStartOutOfOrder(event) ==
  /\ IsStart(event) /\ ~Ended(event)
  /\ ~BlockStartInOrder(event)
  /\ Refused(event, Counted(enc))

Starting(event, kinds) ==
  /\ IsStart(event) /\ ~Ended(event)
  /\ BlockStartInOrder(event)
  /\ event.block.kind \in kinds

ApplyTextStart(event) ==
  /\ Starting(event, {"text"})
  /\ LET opened == [Indexed(enc) EXCEPT
                      !.ordering_degrade = @ \/ enc.tool_seen,
                      !.active = [Active("Text", event) EXCEPT
                                    !.citation_loss_seen = event.block.citations # <<>>]]
     IN  Accepted(event, IF event.block.citations # <<>>
                         THEN Lose(opened, enc.event_ordinal, "citations") ELSE opened)

ApplyThinkingStart(event) ==
  /\ Starting(event, {"thinking"})
  /\ LET opened == [Indexed(enc) EXCEPT !.active = Active("Thinking", event)]
     IN  Accepted(event, IF event.block.signature # <<>>
                         THEN Lose(opened, enc.event_ordinal, "signature") ELSE opened)

ApplyToolStart(event) ==
  /\ Starting(event, ToolKinds)
  /\ LET b == event.block
         kind == IF b.kind = "tool_use" THEN "Tool" ELSE "CustomTool"
     IN  IF b.id = "" \/ b.name = <<>>
         THEN Refused(event, Counted(Indexed(enc)))
         ELSE Accepted(event,
                [Indexed(enc) EXCEPT
                   !.next_native_tool = @ + 1, !.tool_seen = TRUE,
                   !.active = [Active(kind, event) EXCEPT
                                 !.tool_id = b.id, !.tool_name = b.name,
                                 !.tool_input = b.text,
                                 !.native_index = enc.next_native_tool]])

(* Blocks without a Chat Completions form: omitted, with one loss. *)
OmittedKinds == {"redacted_thinking", "encrypted_content", "web_search_call"}

ApplyOmittedStart(event) ==
  /\ Starting(event, OmittedKinds)
  /\ Accepted(event, Lose([Indexed(enc) EXCEPT !.active = Active("Redacted", event)],
                          enc.event_ordinal, "type"))

ApplyPatchStart(event) ==
  /\ Starting(event, ApplyPatchKinds)
  /\ Accepted(event, Lose([Indexed(enc) EXCEPT !.active = Active("Atomic", event),
                                               !.custom_seen = TRUE],
                          enc.event_ordinal, "type"))

EncodableKinds == {"text", "thinking"} \union ToolKinds \union OmittedKinds \union ApplyPatchKinds

ApplyUnsupportedStart(event) ==
  /\ IsStart(event) /\ ~Ended(event)
  /\ BlockStartInOrder(event)
  /\ event.block.kind \notin EncodableKinds
  /\ Refused(event, Counted(Indexed(enc)))

(* Mutant of Fits: the signature does not end the thinking deltas. *)
FitsAfterSignature(block, delta) ==
  \/ block.kind = "Text" /\ delta.type \in {"text_delta", "citation_delta"}
  \/ block.kind = "Thinking" /\ delta.type \in {"thinking_delta", "signature_delta"}
  \/ block.kind = "Tool" /\ delta.type = "input_json_delta"
  \/ block.kind = "CustomTool" /\ delta.type = "custom_tool_input_delta"

(* The (active block, delta) pairs that have an arm. *)
Fits(block, delta) ==
  \/ block.kind = "Text" /\ delta.type \in {"text_delta", "citation_delta"}
  \/ block.kind = "Thinking" /\ delta.type \in {"thinking_delta", "signature_delta"}
                             /\ ~block.signature_seen
  \/ block.kind = "Tool" /\ delta.type = "input_json_delta"
  \/ block.kind = "CustomTool" /\ delta.type = "custom_tool_input_delta"

(* Mutant of SendContent: an empty delta sends nothing. *)
SendContentUnlessEmpty(e, delta) ==
  IF delta.text = <<>> THEN e
  ELSE Send(e, IF delta.type = "text_delta" THEN ContentChunk(delta.text)
               ELSE ReasoningChunk(delta.text))

SendContent(e, delta) ==
  Send(e, IF delta.type = "text_delta" THEN ContentChunk(delta.text)
          ELSE ReasoningChunk(delta.text))

AbsorbDelta(e, delta) ==
  CASE delta.type \in {"text_delta", "thinking_delta"} -> SendContent(e, delta)
    [] delta.type = "citation_delta" ->
         IF e.active.citation_loss_seen THEN e
         ELSE Lose([e EXCEPT !.active.citation_loss_seen = TRUE],
                   e.event_ordinal, "citations")
    [] delta.type = "signature_delta" ->
         Lose([e EXCEPT !.active.signature_seen = TRUE], e.event_ordinal, "signature")
    [] OTHER -> QueueFragment(e, delta.text)

ApplyDelta(event) ==
  /\ IsDelta(event) /\ ~Ended(event)
  /\ IF enc.active # Idle /\ event.index = enc.active.index /\ Fits(enc.active, event.delta)
     THEN Accepted(event, AbsorbDelta(enc, event.delta))
     ELSE Refused(event, Counted(enc))

(* A tool block without fragments gets one with its whole input; the block
   is taken out of `active` before anything is checked. *)
Completed(e) ==
  IF e.active.kind \in {"Tool", "CustomTool"} /\ e.active.fragments = <<>>
  THEN QueueFragment(e, e.active.tool_input) ELSE e

ApplyBlockStop(event) ==
  /\ IsStop(event) /\ ~Ended(event)
  /\ LET completed == Completed(enc)
         closed == [completed EXCEPT !.active = Idle]
     IN  IF enc.active = Idle \/ event.index # enc.active.index
         THEN Refused(event, Counted([enc EXCEPT !.active = Idle]))
         ELSE IF /\ enc.active.kind \in {"Tool", "CustomTool"}
                 /\ Concat(completed.active.fragments) # enc.active.tool_input
              THEN Refused(event, Counted(closed))
              ELSE Accepted(event, closed)

(* A message that ends in tool_use without a call Chat Completions can
   carry ends its turn instead. *)
EffectiveStop(stop) ==
  IF stop = "tool_use" /\ ~enc.tool_seen THEN "end_turn" ELSE stop

TotalTokens(usage) == usage.input + usage.output

(* Mutant of Encodable: the largest total counts as an overflow. *)
EncodableBelowMax(event) ==
  /\ enc.started /\ enc.active = Idle
  /\ event.usage.input >= 0 /\ event.usage.output >= 0
  /\ TotalTokens(event.usage) < MaxInt
  /\ EffectiveStop(event.stop_reason) # "other"

Encodable(event) ==
  /\ enc.started /\ enc.active = Idle
  /\ event.usage.input >= 0 /\ event.usage.output >= 0
  /\ TotalTokens(event.usage) <= MaxInt
  /\ EffectiveStop(event.stop_reason) # "other"

(* Mutant of StopLosses: the reordering of text and tools is not reported. *)
StopLossesWithoutOrder(event) ==
  (IF event.stop_reason = "tool_use" /\ ~enc.tool_seen /\ enc.custom_seen
   THEN <<<<-1, "stop_reason">>>> ELSE <<>>)
  \o (IF event.stop_reason = "stop_sequence" THEN <<<<-1, "stop_sequence">>>> ELSE <<>>)

StopLosses(event) ==
  (IF event.stop_reason = "tool_use" /\ ~enc.tool_seen /\ enc.custom_seen
   THEN <<<<-1, "stop_reason">>>> ELSE <<>>)
  \o (IF event.stop_reason = "stop_sequence" THEN <<<<-1, "stop_sequence">>>> ELSE <<>>)
  \o (IF enc.ordering_degrade THEN <<<<-1, "ordering">>>> ELSE <<>>)

ApplyMessageDelta(event) ==
  /\ event.type = "message_delta" /\ ~Ended(event)
  /\ IF ~Encodable(event) THEN Refused(event, Counted(enc))
     ELSE LET finish == FinishChunk(FinishOf(EffectiveStop(event.stop_reason)),
                          WireUsage(event.usage.input, event.usage.output,
                                    TotalTokens(event.usage)))
          IN  Accepted(event,
                [enc EXCEPT !.finished = TRUE, !.pending_tools = <<>>,
                            !.chunks = @ \o Append(enc.pending_tools, finish),
                            !.losses = @ \o StopLosses(event)])

ApplyMessageDone(event) ==
  /\ event.type = "message_done" /\ ~Ended(event)
  /\ IF enc.finished THEN Accepted(event, [enc EXCEPT !.done = TRUE])
     ELSE Refused(event, Counted(enc))

Apply(event) ==
  \/ ApplyAfterEnd(event)
  \/ ApplyMessageStart(event)
  \/ ApplyBlockStartOutOfOrder(event)
  \/ ApplyTextStart(event)
  \/ ApplyThinkingStart(event)
  \/ ApplyToolStart(event)
  \/ ApplyOmittedStart(event)
  \/ ApplyPatchStart(event)
  \/ ApplyUnsupportedStart(event)
  \/ ApplyDelta(event)
  \/ ApplyBlockStop(event)
  \/ ApplyMessageDelta(event)
  \/ ApplyMessageDone(event)

Init ==
  /\ enc = NewEncoder
  /\ applied = <<>>
  /\ failed = FALSE

RefusedCalls == Cardinality({k \in 1..Len(applied) : ~applied[k].ok})

Next ==
  /\ Len(applied) < MaxApplied
  /\ RefusedCalls < MaxRefused
  /\ \E event \in Events : Apply(event)

Spec == Init /\ [][Next]_vars

-----------------------------------------------------------------------------
(* Properties, stated over what was applied and what was received. *)

Input == [k \in 1..Len(applied) |-> applied[k].event]

(* N-S-1, N-S-2: whatever the encoder accepts is a stream in grammar order
   with exact tool inputs. *)
AcceptsOnlyTheGrammar ==
  ~failed => InOrder(Input) /\ ToolInputsExact(Input, TRUE)

(* Why the last event of s may be refused although s is in grammar order. *)
Unencodable(s) ==
  LET e == s[Len(s)]
  IN  \/ IsStart(e) /\ e.block.kind \notin EncodableKinds
      \/ IsStart(e) /\ e.block.kind \in ToolKinds /\ (e.block.id = "" \/ e.block.name = <<>>)
      \/ IsStop(e) /\ ~ToolInputsExact(s, TRUE)
      \/ /\ e.type = "message_delta"
         /\ \/ e.usage.input < 0 \/ e.usage.output < 0
            \/ TotalTokens(e.usage) > MaxInt
            \/ e.stop_reason = "other"

(* ... and it refuses nothing else: the first error has a reason. *)
RefusesOnlyForCause ==
  \A k \in 1..Len(applied) :
    ~applied[k].ok /\ (\A j \in 1..(k - 1) : applied[j].ok) =>
      LET s == SubSeq(Input, 1, k) IN ~InOrder(s) \/ Unencodable(s)

ContentOf(chunk) ==
  LET c == chunk.choice[1]
  IN  IF c.content # None THEN <<Delta("text_delta", c.content[1])>>
      ELSE IF c.reasoning # None THEN <<Delta("thinking_delta", c.reasoning[1])>>
      ELSE <<>>

ContentIn(chunks) == Concat([k \in 1..Len(chunks) |-> ContentOf(chunks[k])])

FragmentsIn(e) ==
  IF IsDelta(e) /\ e.delta.type \in {"text_delta", "thinking_delta"} THEN <<e.delta>> ELSE <<>>

(* Every text and thinking delta leaves as one chunk, in the order it came. *)
ContentPassesInOrder ==
  ~failed =>
    ContentIn(enc.chunks) = Concat([k \in 1..Len(Input) |-> FragmentsIn(Input[k])])

CallsIn(chunks) == Concat([k \in 1..Len(chunks) |-> chunks[k].choice[1].tool_calls])

CallDeltas == CallsIn(enc.chunks)

PayloadOf(call) == IF call.custom # None THEN call.custom[1] ELSE call.function[1]

(* The name and the input that a client assembles for the native index i. *)
NameOf(calls, i) ==
  Concat([k \in 1..Len(calls) |->
            IF calls[k].index = i THEN PayloadOf(calls[k]).name ELSE <<>>])

InputOf(calls, i) ==
  Concat([k \in 1..Len(calls) |->
            IF calls[k].index = i THEN PayloadOf(calls[k]).text[1] ELSE <<>>])

Rebuilt(calls, i, b) ==
  /\ \E k \in 1..Len(calls) :
       /\ calls[k].index = i /\ calls[k].id = b.id
       /\ calls[k].kind = IF b.kind = "custom_tool_use" THEN "custom" ELSE "function"
  /\ NameOf(calls, i) = b.name
  /\ InputOf(calls, i) = b.text

(* What only the first chunk of a call carries; the calls do not mix. *)
OneByOne(calls) ==
  \A j, k \in 1..Len(calls) : j < k =>
    /\ calls[j].index <= calls[k].index
    /\ calls[j].index = calls[k].index => calls[k].id = "" /\ calls[k].kind = "absent"

StartsOne(e, kinds) == IsStart(e) /\ e.block.kind \in kinds

(* The tool blocks among the first n events. *)
ToolBlocks(s, n) == {k \in 1..n : StartsOne(s[k], ToolKinds)}

(* N-S-10: tool chunks are held back until the message_delta; then every
   tool block has a native index of its own, in block order, and a client
   that assembles the chunks gets its id, name and exact input back, the
   id and type being in the first chunk only. *)
CallsRebuiltByClient ==
  ~failed =>
    IF ~enc.finished THEN CallDeltas = <<>>
    ELSE /\ \A k \in ToolBlocks(Input, Len(Input)) :
              Rebuilt(CallDeltas, Cardinality(ToolBlocks(Input, k - 1)), Input[k].block)
         /\ {CallDeltas[k].index : k \in 1..Len(CallDeltas)}
              = 0..(Cardinality(ToolBlocks(Input, Len(Input))) - 1)
         /\ OneByOne(CallDeltas)

(* The events that carry something Chat Completions has no place for. *)
Omits(e) == StartsOne(e, OmittedKinds \union ApplyPatchKinds)

Signs(e) ==
  \/ StartsOne(e, {"thinking"}) /\ e.block.signature # <<>>
  \/ IsDelta(e) /\ e.delta.type = "signature_delta"

Cites(e) ==
  \/ StartsOne(e, {"text"}) /\ e.block.citations # <<>>
  \/ IsDelta(e) /\ e.delta.type = "citation_delta"

FirstCitation(s, k) ==
  Cites(s[k]) /\ \A j \in 1..(k - 1) : Cites(s[j]) => s[j].index # s[k].index

EventLosses(s) ==
  {<<k - 1, "type">> : k \in {n \in 1..Len(s) : Omits(s[n])}}
  \union {<<k - 1, "signature">> : k \in {n \in 1..Len(s) : Signs(s[n])}}
  \union {<<k - 1, "citations">> : k \in {n \in 1..Len(s) : FirstCitation(s, n)}}

Starts(s, kinds) == \E k \in 1..Len(s) : StartsOne(s[k], kinds)

TextAfterTool(s) ==
  \E j, k \in 1..Len(s) : j < k /\ StartsOne(s[j], ToolKinds) /\ StartsOne(s[k], {"text"})

EndsWith(s, reasons) ==
  \E k \in 1..Len(s) : s[k].type = "message_delta" /\ s[k].stop_reason \in reasons

MessageLosses(s) ==
  {<<-1, f>> : f \in
     (IF EndsWith(s, StopReasons) /\ TextAfterTool(s) THEN {"ordering"} ELSE {})
     \union (IF EndsWith(s, {"stop_sequence"}) THEN {"stop_sequence"} ELSE {})
     \union (IF /\ EndsWith(s, {"tool_use"})
                /\ ~Starts(s, ToolKinds) /\ Starts(s, ApplyPatchKinds)
             THEN {"stop_reason"} ELSE {})}

(* The text that a text or thinking block starts with is not sent, and no
   loss tells it: the gap that NoTextDroppedSilently shows. *)
StartTextGaps(s) ==
  {<<k - 1, "text">> : k \in {n \in 1..Len(s) : StartsOne(s[n], {"text", "thinking"})
                                               /\ s[n].block.text # <<>>}}

Gaps(s) == EventLosses(s) \union MessageLosses(s) \union StartTextGaps(s)

(* README: semantic gaps are never silent, but for StartTextGaps, of which
   nothing is said.  Every other gap has one loss and nothing else has: an
   omitted block, a signature, a text block with citations, at the event
   where the first one is met, and those of the message. *)
LossesAccountForGaps ==
  ~failed =>
    LET told == {enc.losses[k] : k \in 1..Len(enc.losses)}
    IN  /\ Gaps(Input) \ StartTextGaps(Input) \subseteq told
        /\ told \subseteq Gaps(Input)
        /\ \A j, k \in 1..Len(enc.losses) : enc.losses[j] = enc.losses[k] => j = k

(* README: semantic gaps are never silent.  For the text a block starts
   with: it is sent, or a loss names the event.  The code does neither. *)
NoTextDroppedSilently ==
  ~failed =>
    \A k \in 1..Len(Input) :
      IsStart(Input[k]) /\ Input[k].block.kind = "text" /\ Input[k].block.text # <<>> =>
        \/ \E j \in 1..Len(enc.chunks) :
             enc.chunks[j].choice[1].content = Some(Input[k].block.text)
        \/ \E j \in 1..Len(enc.losses) : enc.losses[j][1] = k - 1
=============================================================================
