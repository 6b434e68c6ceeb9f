----------------------- MODULE CcStreamEncoder_proofs ------------------------
(***************************************************************************)
(* Theorems about CcStreamEncoder, for every set of events, any number of  *)
(* calls and any largest counter.                                          *)
(*                                                                         *)
(* The encoder keeps a few flags and the block that is active; the grammar *)
(* speaks of adjacent events and of the fragments of whole blocks.  View   *)
(* reads the flags as a view of IrStream_proofs.  As long as no call has   *)
(* failed, the view tracks the events applied so far; so what the encoder  *)
(* accepts is what the grammar admits, but for the blocks, counters and    *)
(* stop reasons that Chat Completions cannot express.                      *)
(*                                                                         *)
(* What the chunks say is a matter of books.  Each event adds to the text  *)
(* and the reasoning sent, to the ids that are marked and to the losses    *)
(* that are noted; Books relates the sums to the history of the calls, and *)
(* every accepted event keeps them.                                        *)
(* Ledger is the same for the calls that are held back.                    *)
(***************************************************************************)
EXTENDS CcStreamEncoder, IrStream_proofs, FiniteSetTheorems, TLAPS

-----------------------------------------------------------------------------
(* Types *)

Calls == [event : Events, ok : BOOLEAN]

TypeOK == enc \in Encoders /\ applied \in Seq(Calls) /\ failed \in BOOLEAN

(* An Option of a value. *)
LEMMA SomeType ==
  ASSUME NEW S, NEW x \in S
  PROVE  Some(x) \in Option(S) /\ None \in Option(S)
BY DEF Some, None, Option

(* A chunk with a choice only. *)
LEMMA ChoiceType ==
  ASSUME NEW role \in BOOLEAN, NEW calls \in Seq(NativeCalls), NEW reasoning \in Option(Text),
         NEW content \in Option(Text), NEW finish \in FinishReasons,
         NEW usage \in Option(WireUsages)
  PROVE  Chunk(Some(Choice(role, calls, reasoning, content, finish)), usage) \in WireChunks
<1>1. PICK c : c = Choice(role, calls, reasoning, content, finish)  OBVIOUS
<1>2. c \in NativeChoices  BY <1>1 DEF Choice, NativeChoices
<1>3. Some(c) \in Option(NativeChoices)  BY <1>2, SomeType
<1>. QED BY <1>1, <1>3 DEF Chunk, WireChunks

(* The chunks that carry no call. *)
LEMMA PlainChunks ==
  /\ RoleChunk \in WireChunks
  /\ \A text \in Text : ContentChunk(text) \in WireChunks /\ ReasoningChunk(text) \in WireChunks
  /\ \A finish \in FinishReasons, usage \in WireUsages :
       FinishChunk(finish, usage) \in WireChunks
<1>1. PICK none, absent : none = <<>> /\ absent = "absent"  OBVIOUS
<1>2. /\ none \in Seq(NativeCalls) /\ none \in Option(Text) /\ none \in Option(WireUsages)
      /\ absent \in FinishReasons
  BY <1>1 DEF Option, FinishReasons
<1>3. RoleChunk \in WireChunks  BY <1>1, <1>2, ChoiceType DEF RoleChunk, None
<1>4. ASSUME NEW text \in Text
      PROVE  ContentChunk(text) \in WireChunks /\ ReasoningChunk(text) \in WireChunks
  <2>1. Some(text) \in Option(Text)  BY SomeType
  <2>. QED BY <1>1, <1>2, <2>1, ChoiceType DEF ContentChunk, ReasoningChunk, None
<1>5. ASSUME NEW finish \in FinishReasons, NEW usage \in WireUsages
      PROVE  FinishChunk(finish, usage) \in WireChunks
  <2>1. Some(usage) \in Option(WireUsages)  BY SomeType
  <2>. QED BY <1>1, <1>2, <2>1, ChoiceType DEF FinishChunk, None
<1>. QED BY <1>3, <1>4, <1>5

(* The chunk of a fragment carries one call; only the first one of a block
   says the id, the type and the name. *)
Says(call, block, text) ==
  /\ call.index = block.native_index /\ PayloadOf(call).text[1] = text
  /\ block.tool_started =>
       call.id = "" /\ call.kind = "absent" /\ PayloadOf(call).name = <<>>
  /\ ~block.tool_started =>
       /\ call.id = block.tool_id /\ PayloadOf(call).name = block.tool_name
       /\ call.kind = IF block.kind = "CustomTool" THEN "custom" ELSE "function"

LEMMA ArgumentCall ==
  ASSUME NEW block \in ActiveBlocks, NEW text \in Text
  PROVE  \E call \in NativeCalls :
           ArgumentChunk(block, text) = CallChunk(call) /\ Says(call, block, text)
<1>0. PICK empty : empty = ""  OBVIOUS
<1>1. PICK none : none = <<>>  OBVIOUS
<1>2. none \in Text /\ empty \in Tokens /\ none \in Option(NativePayloads) /\ none \in Option(Text)
      /\ none \in Option(WireUsages)
  <2>1. empty \in Tokens  BY <1>0, NoToken
  <2>2. none \in Text /\ none \in Option(NativePayloads) /\ none \in Option(Text)
        /\ none \in Option(WireUsages)
    BY <1>1 DEF Text, Option
  <2>. QED BY <2>1, <2>2
<1>3. PICK name : name = IF block.tool_started THEN none ELSE block.tool_name
  OBVIOUS
<1>4. name \in Text  BY <1>2, <1>3 DEF ActiveBlocks
<1>5. PICK payload : payload = Payload(name, Some(text))  OBVIOUS
<1>6. Some(text) \in Option(Text)  BY SomeType
<1>7. payload \in NativePayloads
  BY <1>4, <1>5, <1>6 DEF Payload, NativePayloads
<1>8. Some(payload) \in Option(NativePayloads)  BY <1>7, SomeType
<1>9. PICK id : id = IF block.tool_started THEN empty ELSE block.tool_id
  OBVIOUS
<1>10. id \in Tokens  BY <1>2, <1>9 DEF ActiveBlocks
<1>11. PICK kind : kind = IF block.tool_started THEN "absent"
                          ELSE IF block.kind = "CustomTool" THEN "custom" ELSE "function"
  OBVIOUS
<1>12. kind \in CallTypes  BY <1>11 DEF CallTypes
<1>13. PICK function, custom :
         /\ function = IF block.kind = "CustomTool" THEN none ELSE Some(payload)
         /\ custom = IF block.kind = "CustomTool" THEN Some(payload) ELSE none
  OBVIOUS
<1>14. function \in Option(NativePayloads) /\ custom \in Option(NativePayloads)
  BY <1>2, <1>8, <1>13
<1>15. PICK call : call = CallDelta(block.native_index, id, kind, function, custom)
  OBVIOUS
<1>16. call \in NativeCalls
  BY <1>10, <1>12, <1>14, <1>15 DEF CallDelta, NativeCalls, ActiveBlocks
<1>17. ArgumentChunk(block, text) = CallChunk(call)
  BY <1>0, <1>1, <1>3, <1>5, <1>9, <1>11, <1>13, <1>15, Zenon DEF ArgumentChunk, None
<1>18. PayloadOf(call) = payload
  <2>1. call.function = function /\ call.custom = custom  BY <1>15 DEF CallDelta
  <2>2. PICK some : some = <<payload>>  OBVIOUS
  <2>3. some # none /\ some[1] = payload  BY <1>1, <2>2
  <2>4. \/ custom = some
        \/ custom = none /\ function = some
    BY <1>13, <2>2 DEF Some
  <2>. QED BY <1>1, <2>1, <2>3, <2>4 DEF PayloadOf, None
<1>19. payload.name = name /\ payload.text[1] = text
  <2>1. PICK some : some = <<text>>  OBVIOUS
  <2>2. payload.name = name /\ payload.text = some
    BY <1>5, <2>1 DEF Payload, Some
  <2>. QED BY <2>1, <2>2
<1>20. call.index = block.native_index /\ call.id = id /\ call.kind = kind
  BY <1>15 DEF CallDelta
<1>. QED
  <2>1. Says(call, block, text)
    BY <1>0, <1>1, <1>3, <1>9, <1>11, <1>18, <1>19, <1>20 DEF Says
  <2>. QED BY <1>16, <1>17, <2>1

LEMMA ArgumentType ==
  ASSUME NEW block \in ActiveBlocks, NEW text \in Text
  PROVE  ArgumentChunk(block, text) \in WireChunks
<1>1. PICK call \in NativeCalls : ArgumentChunk(block, text) = CallChunk(call)
  BY ArgumentCall, Zenon
<1>2. PICK calls, absent, none : calls = <<call>> /\ absent = "absent" /\ none = <<>>
  OBVIOUS
<1>3. /\ calls \in Seq(NativeCalls) /\ absent \in FinishReasons
      /\ none \in Option(Text) /\ none \in Option(WireUsages)
  BY <1>2 DEF FinishReasons, Option
<1>. QED BY <1>1, <1>2, <1>3, ChoiceType DEF CallChunk, None

(* The stages of a message. *)
SameFlags(d, e) == d.started = e.started /\ d.finished = e.finished /\ d.done = e.done

(* An appended chunk or loss, and a queued fragment. *)
LEMMA SendType ==
  ASSUME NEW e \in Encoders, NEW chunk \in WireChunks
  PROVE  Send(e, chunk) \in Encoders
<1>1. PICK chunks : chunks = Append(e.chunks, chunk)  OBVIOUS
<1>2. chunks \in Seq(WireChunks)  BY <1>1 DEF Encoders
<1>3. Send(e, chunk) = [e EXCEPT !.chunks = chunks]  BY <1>1 DEF Send, Encoders
<1>. QED BY <1>2, <1>3 DEF Encoders

LEMMA LoseFacts ==
  ASSUME NEW e \in Encoders, NEW ordinal \in Int, NEW field \in LossFields
  PROVE  /\ Lose(e, ordinal, field) \in Encoders
         /\ SameFlags(Lose(e, ordinal, field), e) /\ Lose(e, ordinal, field).active = e.active
         /\ Lose(e, ordinal, field).next_ir_index = e.next_ir_index
<1>1. PICK losses : losses = Append(e.losses, <<ordinal, field>>)  OBVIOUS
<1>2. losses \in Seq(Int \X LossFields)  BY <1>1 DEF Encoders
<1>3. Lose(e, ordinal, field) = [e EXCEPT !.losses = losses]
  BY <1>1 DEF Lose, Encoders
<1>. QED BY <1>2, <1>3 DEF Encoders, SameFlags

LEMMA QueueType ==
  ASSUME NEW e \in Encoders, NEW text \in Text
  PROVE  /\ QueueFragment(e, text) \in Encoders
         /\ \E pending \in Seq(WireChunks), fragments \in Seq(Text), active \in ActiveBlocks :
              /\ fragments = Append(e.active.fragments, text)
              /\ active = [e.active EXCEPT !.fragments = fragments, !.tool_started = TRUE]
              /\ QueueFragment(e, text) = [e EXCEPT !.pending_tools = pending, !.active = active]
<1>1. PICK pending, fragments, old :
        /\ pending = Append(e.pending_tools, ArgumentChunk(e.active, text))
        /\ old = e.active
        /\ fragments = Append(e.active.fragments, text)
  OBVIOUS
<1>2. old \in ActiveBlocks /\ old.fragments \in Seq(Text) /\ e.pending_tools \in Seq(WireChunks)
  BY <1>1 DEF Encoders, ActiveBlocks
<1>3. pending \in Seq(WireChunks)  BY <1>1, <1>2, ArgumentType
<1>4. fragments \in Seq(Text)  BY <1>1, <1>2
<1>5. PICK active : active = [old EXCEPT !.fragments = fragments, !.tool_started = TRUE]
  OBVIOUS
<1>6. active \in ActiveBlocks  BY <1>2, <1>4, <1>5 DEF ActiveBlocks
<1>7. QueueFragment(e, text) = [e EXCEPT !.pending_tools = pending, !.active = active]
  BY <1>1, <1>2, <1>5 DEF QueueFragment, Encoders, ActiveBlocks
<1>8. QueueFragment(e, text) \in Encoders  BY <1>3, <1>6, <1>7 DEF Encoders
<1>. QED BY <1>1, <1>3, <1>4, <1>5, <1>6, <1>7, <1>8

(* No block, and a block that has just become active. *)
LEMMA IdleType ==
  /\ Idle \in ActiveBlocks
  /\ Idle.kind = "none" /\ ~Idle.signature_seen
  /\ Idle.tool_input = <<>> /\ Idle.fragments = <<>>
<1>0. PICK empty : empty = ""  OBVIOUS
<1>1. PICK none : none = <<>>  OBVIOUS
<1>2. empty \in Tokens /\ none \in Text /\ none \in Seq(Text)
  <2>1. empty \in Tokens  BY <1>0, NoToken
  <2>2. none \in Text /\ none \in Seq(Text)  BY <1>1 DEF Text
  <2>. QED BY <2>1, <2>2
<1>3. Idle = [kind |-> "none", index |-> -1, tool_id |-> empty, tool_name |-> none,
              tool_input |-> none, fragments |-> none, native_index |-> 0,
              tool_started |-> FALSE, signature_seen |-> FALSE, citation_loss_seen |-> FALSE]
  BY <1>0, <1>1, Zenon DEF Idle
<1>. QED BY <1>1, <1>2, <1>3 DEF ActiveBlocks, ActiveKinds

LEMMA ActiveType ==
  ASSUME NEW kind \in ActiveKinds, NEW event, event.index \in Int
  PROVE  /\ Active(kind, event) \in ActiveBlocks
         /\ Active(kind, event).kind = kind /\ Active(kind, event).index = event.index
         /\ ~Active(kind, event).signature_seen
         /\ Active(kind, event).fragments = <<>>
BY IdleType DEF Active, ActiveBlocks

-----------------------------------------------------------------------------
(* The outcome of one call *)

(* The family of deltas that an active block of this kind takes. *)
Family(kind) ==
  CASE kind = "Text" -> "text"
    [] kind = "Thinking" -> "thinking"
    [] kind = "Tool" -> "tool"
    [] kind = "CustomTool" -> "custom"
    [] OTHER -> "atomic"

View(e) ==
  [place |-> IF e.done THEN "done"
             ELSE IF e.finished THEN "ended"
             ELSE IF ~e.started THEN "fresh"
             ELSE IF e.active.kind # "none" THEN "within"
             ELSE "between",
   next |-> e.next_ir_index, index |-> e.active.index, family |-> Family(e.active.kind),
   signed |-> e.active.signature_seen, tool |-> e.active.kind \in {"Tool", "CustomTool"},
   input |-> e.active.tool_input, fragments |-> e.active.fragments]

(* The flags and the active block agree. *)
Consistent(e) ==
  /\ e.active.kind = "none" => e.active = Idle
  /\ e.active.signature_seen => e.active.kind = "Thinking"
  /\ ~e.started => e.active = Idle /\ e.next_ir_index = 0 /\ ~e.finished
  /\ e.finished => e.active = Idle
  /\ e.done => e.finished

(* What Chat Completions cannot express, or an input that is not exact. *)
Unfit(v, event) ==
  \/ IsStart(event) /\ event.block.kind \notin EncodableKinds
  \/ /\ IsStart(event) /\ event.block.kind \in ToolKinds
     /\ ~Identified(event.block.id, event.block.name)
  \/ IsStop(event) /\ v.tool /\ ~InputExact(v.input, v.fragments, TRUE)
  \/ /\ event.type = "message_delta"
     /\ \/ event.usage.input < 0 \/ event.usage.output < 0
        \/ TotalTokens(event.usage) > MaxInt
        \/ event.stop_reason = "other"

(* A call is accepted, and then the grammar admits the event and the view
   moves with it; or it is refused, and the grammar does not admit the
   event or it is unfit. *)
Outcome(event) ==
  \E e \in Encoders :
    /\ Consistent(e)
    /\ \/ /\ Accepted(event, e)
          /\ Allowed(View(enc), event) /\ Moves(View(enc), event, View(e))
       \/ /\ Refused(event, e)
          /\ ~Allowed(View(enc), event) \/ Unfit(View(enc), event)

(* The view of an encoder is a view. *)
LEMMA ViewType ==
  ASSUME NEW e \in Encoders
  PROVE  View(e) \in Views
<1>1. PICK a : a = e.active  OBVIOUS
<1>2. a \in ActiveBlocks /\ e.next_ir_index \in Nat  BY <1>1 DEF Encoders
<1>3. Family(a.kind) \in {"text", "thinking", "tool", "custom", "atomic"}
  BY DEF Family
<1>. QED BY <1>1, <1>2, <1>3 DEF View, Views, ActiveBlocks

(* Counting a call changes nothing else. *)
LEMMA CountedFacts ==
  ASSUME NEW e \in Encoders
  PROVE  /\ Counted(e) \in Encoders
         /\ View(Counted(e)) = View(e)
         /\ Consistent(e) => Consistent(Counted(e))
<1>1. PICK n : n = e.event_ordinal + 1  OBVIOUS
<1>2. n \in Nat  BY <1>1 DEF Encoders
<1>3. Counted(e) = [e EXCEPT !.event_ordinal = n]  BY <1>1 DEF Counted, Encoders
<1>4. /\ Counted(e) \in Encoders
      /\ Counted(e).active = e.active /\ Counted(e).started = e.started
      /\ Counted(e).next_ir_index = e.next_ir_index
      /\ Counted(e).finished = e.finished /\ Counted(e).done = e.done
  BY <1>2, <1>3 DEF Encoders
<1>. QED BY <1>4 DEF View, Consistent

(* A call that is counted and refused for a reason. *)
LEMMA RefusedOutcome ==
  ASSUME NEW event, NEW e \in Encoders, Consistent(e), Refused(event, Counted(e)),
         ~Allowed(View(enc), event) \/ Unfit(View(enc), event)
  PROVE  Outcome(event)
<1>1. Counted(e) \in Encoders /\ Consistent(Counted(e))  BY CountedFacts
<1>. QED BY <1>1 DEF Outcome

(* After the end nothing but the last event may come. *)
LEMMA AfterEndOutcome ==
  ASSUME TypeOK, Consistent(enc), NEW event \in Events, ApplyAfterEnd(event)
  PROVE  Outcome(event)
<1>1. enc \in Encoders /\ Refused(event, enc) /\ Ended(event)
  BY DEF TypeOK, ApplyAfterEnd
<1>2. ~Allowed(View(enc), event)  BY <1>1 DEF Ended, View, Allowed
<1>. QED BY <1>1, <1>2 DEF Outcome

(* A message starts once. *)
LEMMA MessageStartOutcome ==
  ASSUME TypeOK, Consistent(enc), NEW event \in Events, ApplyMessageStart(event)
  PROVE  Outcome(event)
<1>1. enc \in Encoders /\ event.type = "message_start" /\ ~enc.done /\ ~enc.finished
  BY DEF TypeOK, ApplyMessageStart, Ended
<1>2. CASE enc.started
  <2>1. Refused(event, Counted(enc))  BY <1>2 DEF ApplyMessageStart
  <2>2. ~Allowed(View(enc), event)
    BY <1>1, <1>2 DEF View, Allowed, OpensAt, Continues, IsStart, IsStop, IsDelta
  <2>. QED BY <1>1, <2>1, <2>2, RefusedOutcome
<1>3. CASE ~enc.started
  <2>1. PICK d : d = [enc EXCEPT !.started = TRUE]  OBVIOUS
  <2>2. d \in Encoders  BY <1>1, <2>1 DEF Encoders
  <2>3. PICK e : e = Send(d, RoleChunk)  OBVIOUS
  <2>4. e \in Encoders /\ Accepted(event, e)
    BY <1>3, <2>1, <2>2, <2>3, PlainChunks, SendType DEF ApplyMessageStart
  <2>5. /\ e.started /\ e.active = Idle /\ e.next_ir_index = 0 /\ ~e.finished /\ ~e.done
    BY <1>1, <1>3, <2>1, <2>3 DEF Consistent, Send, Encoders
  <2>6. Consistent(e)  BY <2>5, IdleType DEF Consistent
  <2>7. Allowed(View(enc), event)  BY <1>1, <1>3 DEF View, Allowed
  <2>8. Moves(View(enc), event, View(e))
    BY <1>1, <2>5, IdleType DEF View, Moves
  <2>. QED BY <2>4, <2>6, <2>7, <2>8 DEF Outcome
<1>. QED BY <1>2, <1>3

(* A start is admitted between two blocks only. *)
LEMMA OutOfOrderOutcome ==
  ASSUME TypeOK, Consistent(enc), NEW event \in Events, ApplyBlockStartOutOfOrder(event)
  PROVE  Outcome(event)
<1>1. /\ enc \in Encoders /\ IsStart(event) /\ ~enc.done /\ ~enc.finished
      /\ Refused(event, Counted(enc))
      /\ ~(enc.started /\ enc.active = Idle /\ event.index = enc.next_ir_index)
  BY DEF TypeOK, ApplyBlockStartOutOfOrder, Ended, BlockStartInOrder, IsStart
<1>2. enc.active # Idle => enc.active.kind # "none"  BY DEF Consistent
<1>3. ~Allowed(View(enc), event)
  BY <1>1, <1>2, IdleType DEF View, Allowed, OpensAt, Continues, IsStart, IsDelta, IsStop
<1>. QED BY <1>1, <1>3, RefusedOutcome

(* The state in which a start is in order. *)
LEMMA InOrderFacts ==
  ASSUME TypeOK, NEW event \in Events, IsStart(event), ~Ended(event), BlockStartInOrder(event)
  PROVE  /\ enc \in Encoders /\ ~enc.done /\ ~enc.finished /\ enc.started /\ enc.active = Idle
         /\ event.index = enc.next_ir_index /\ event.index \in Nat /\ event.block \in Blocks
         /\ Allowed(View(enc), event)
         /\ Indexed(enc) \in Encoders
         /\ Indexed(enc).next_ir_index = enc.next_ir_index + 1
         /\ SameFlags(Indexed(enc), enc) /\ Indexed(enc).active = enc.active
<1>1. /\ enc \in Encoders /\ ~enc.done /\ ~enc.finished /\ enc.started /\ enc.active = Idle
      /\ event.index = enc.next_ir_index
  BY DEF TypeOK, Ended, BlockStartInOrder, IsStart
<1>2. event.index \in Nat /\ event.block \in Blocks
  BY EncoderAssumption, EventForms
<1>3. Allowed(View(enc), event)  BY <1>1, IdleType DEF View, Allowed, OpensAt
<1>4. PICK n : n = enc.next_ir_index + 1  OBVIOUS
<1>5. n \in Nat  BY <1>1, <1>4 DEF Encoders
<1>6. Indexed(enc) = [enc EXCEPT !.next_ir_index = n]
  BY <1>1, <1>4 DEF Indexed, Encoders
<1>7. /\ Indexed(enc) \in Encoders /\ Indexed(enc).next_ir_index = n
      /\ SameFlags(Indexed(enc), enc) /\ Indexed(enc).active = enc.active
  BY <1>1, <1>5, <1>6 DEF Encoders, SameFlags
<1>. QED BY <1>1, <1>2, <1>3, <1>4, <1>7

(* A start that is accepted makes its block active. *)
LEMMA StartedOutcome ==
  ASSUME TypeOK, NEW event \in Events, IsStart(event), ~Ended(event), BlockStartInOrder(event),
         NEW e \in Encoders, Accepted(event, e),
         e.next_ir_index = enc.next_ir_index + 1,
         SameFlags(e, enc),
         e.active.kind # "none", e.active.index = event.index, ~e.active.signature_seen,
         Family(e.active.kind) = BlockFamily(event.block),
         e.active.kind \in {"Tool", "CustomTool"} <=> event.block.kind \in ToolKinds,
         event.block.kind \in ToolKinds => e.active.tool_input = event.block.text,
         e.active.fragments = <<>>
  PROVE  Outcome(event)
<1>1. /\ enc \in Encoders /\ ~enc.done /\ ~enc.finished /\ enc.started
      /\ event.index = enc.next_ir_index /\ Allowed(View(enc), event)
  BY InOrderFacts
<1>2. e.started /\ ~e.finished /\ ~e.done  BY <1>1 DEF SameFlags
<1>3. Consistent(e)  BY <1>2 DEF Consistent
<1>4. Moves(View(enc), event, View(e))
  <2>1. /\ View(e).place = "within" /\ View(e).index = event.index
        /\ View(e).next = event.index + 1
        /\ View(e).family = BlockFamily(event.block) /\ ~View(e).signed
        /\ View(e).tool <=> event.block.kind \in ToolKinds
        /\ View(e).tool => View(e).input = event.block.text /\ View(e).fragments = <<>>
    BY <1>1, <1>2 DEF View
  <2>. QED BY <2>1 DEF Moves
<1>. QED BY <1>1, <1>3, <1>4 DEF Outcome

(* Text: the block may come after a tool, and with citations. *)
LEMMA TextStartOutcome ==
  ASSUME TypeOK, NEW event \in Events, ApplyTextStart(event)
  PROVE  Outcome(event)
<1>1. /\ IsStart(event) /\ ~Ended(event) /\ BlockStartInOrder(event)
      /\ event.block.kind = "text"
  BY DEF ApplyTextStart, Starting
<1>2. PICK d, flag : d = Indexed(enc) /\ flag = (event.block.citations # <<>>)
  OBVIOUS
<1>3. /\ d \in Encoders /\ d.next_ir_index = enc.next_ir_index + 1 /\ event.index \in Nat
      /\ SameFlags(d, enc)
      /\ enc.tool_seen \in BOOLEAN /\ enc.event_ordinal \in Nat
  <2>1. enc.tool_seen \in BOOLEAN /\ enc.event_ordinal \in Nat
    BY DEF TypeOK, Encoders
  <2>. QED BY <1>1, <1>2, <2>1, InOrderFacts
<1>4. PICK base : base = Active("Text", event)  OBVIOUS
<1>5. /\ base \in ActiveBlocks /\ base.kind = "Text" /\ base.index = event.index
      /\ ~base.signature_seen /\ base.fragments = <<>>
  BY <1>3, <1>4, ActiveType DEF ActiveKinds
<1>6. PICK active : active = [base EXCEPT !.citation_loss_seen = flag]  OBVIOUS
<1>7. /\ active \in ActiveBlocks /\ active.kind = "Text" /\ active.index = event.index
      /\ ~active.signature_seen /\ active.fragments = <<>>
  BY <1>2, <1>5, <1>6 DEF ActiveBlocks
<1>8. PICK degrade : degrade = (d.ordering_degrade \/ enc.tool_seen)  OBVIOUS
<1>9. PICK opened : opened = [d EXCEPT !.ordering_degrade = degrade, !.active = active]
  OBVIOUS
<1>10. /\ opened \in Encoders /\ opened.active = active
       /\ opened.next_ir_index = enc.next_ir_index + 1
       /\ SameFlags(opened, enc)
  BY <1>3, <1>7, <1>8, <1>9 DEF Encoders, SameFlags
<1>11. PICK e : e = IF flag THEN Lose(opened, enc.event_ordinal, "citations") ELSE opened
  OBVIOUS
<1>12. /\ e \in Encoders /\ e.active = active
       /\ e.next_ir_index = enc.next_ir_index + 1
       /\ SameFlags(e, enc)
  <2>1. "citations" \in LossFields /\ enc.event_ordinal \in Int
    BY <1>3 DEF LossFields
  <2>. QED BY <1>10, <1>11, <2>1, LoseFacts DEF SameFlags
<1>13. Accepted(event, e)
  BY <1>2, <1>4, <1>6, <1>8, <1>9, <1>11 DEF ApplyTextStart
<1>14. Family("Text") = BlockFamily(event.block) /\ event.block.kind \notin ToolKinds
  BY <1>1 DEF Family, BlockFamily, ToolKinds
<1>. QED BY <1>1, <1>7, <1>12, <1>13, <1>14, StartedOutcome

(* A new block becomes active. *)
LEMMA OpenedFacts ==
  ASSUME TypeOK, NEW event \in Events, IsStart(event), ~Ended(event), BlockStartInOrder(event),
         NEW a \in ActiveBlocks
  PROVE  /\ [Indexed(enc) EXCEPT !.active = a] \in Encoders
         /\ [Indexed(enc) EXCEPT !.active = a].active = a
         /\ [Indexed(enc) EXCEPT !.active = a].next_ir_index = enc.next_ir_index + 1
         /\ SameFlags([Indexed(enc) EXCEPT !.active = a], enc)
         /\ event.index \in Nat /\ enc.event_ordinal \in Int
<1>1. PICK d : d = Indexed(enc)  OBVIOUS
<1>2. /\ d \in Encoders /\ d.next_ir_index = enc.next_ir_index + 1 /\ event.index \in Nat
      /\ SameFlags(d, enc)
  BY <1>1, InOrderFacts
<1>3. enc.event_ordinal \in Int  BY DEF TypeOK, Encoders
<1>. QED BY <1>1, <1>2, <1>3 DEF Encoders, SameFlags

(* Thinking: its signature is lost. *)
LEMMA ThinkingStartOutcome ==
  ASSUME TypeOK, NEW event \in Events, ApplyThinkingStart(event)
  PROVE  Outcome(event)
<1>1. /\ IsStart(event) /\ ~Ended(event) /\ BlockStartInOrder(event)
      /\ event.block.kind = "thinking"
  BY DEF ApplyThinkingStart, Starting
<1>2. event.index \in Int  BY <1>1, InOrderFacts
<1>3. PICK active : active = Active("Thinking", event)  OBVIOUS
<1>4. /\ active \in ActiveBlocks /\ active.kind = "Thinking" /\ active.index = event.index
      /\ ~active.signature_seen /\ active.fragments = <<>>
  BY <1>2, <1>3, ActiveType DEF ActiveKinds
<1>5. PICK opened : opened = [Indexed(enc) EXCEPT !.active = active]  OBVIOUS
<1>6. /\ opened \in Encoders /\ opened.active = active /\ SameFlags(opened, enc)
      /\ opened.next_ir_index = enc.next_ir_index + 1 /\ enc.event_ordinal \in Int
  BY <1>1, <1>4, <1>5, OpenedFacts
<1>7. PICK e : e = IF event.block.signature # <<>>
                   THEN Lose(opened, enc.event_ordinal, "signature") ELSE opened
  OBVIOUS
<1>8. /\ e \in Encoders /\ e.active = active /\ SameFlags(e, enc)
      /\ e.next_ir_index = enc.next_ir_index + 1
  <2>1. "signature" \in LossFields  BY DEF LossFields
  <2>. QED BY <1>6, <1>7, <2>1, LoseFacts DEF SameFlags
<1>9. Accepted(event, e)  BY <1>3, <1>5, <1>7 DEF ApplyThinkingStart
<1>10. Family("Thinking") = BlockFamily(event.block) /\ event.block.kind \notin ToolKinds
  BY <1>1 DEF Family, BlockFamily, ToolKinds
<1>. QED BY <1>1, <1>4, <1>8, <1>9, <1>10, StartedOutcome

(* Blocks that are omitted, and those of apply_patch. *)
LEMMA OmittedStartOutcome ==
  ASSUME TypeOK, NEW event \in Events, ApplyOmittedStart(event) \/ ApplyPatchStart(event)
  PROVE  Outcome(event)
<1>1. /\ IsStart(event) /\ ~Ended(event) /\ BlockStartInOrder(event)
      /\ event.block.kind \in OmittedKinds \union ApplyPatchKinds
  BY DEF ApplyOmittedStart, ApplyPatchStart, Starting
<1>2. event.index \in Int  BY <1>1, InOrderFacts
<1>3. ASSUME NEW kind \in {"Redacted", "Atomic"}, NEW custom \in BOOLEAN,
             NEW active, active = Active(kind, event),
             NEW opened, opened = [[Indexed(enc) EXCEPT !.active = active]
                                     EXCEPT !.custom_seen = custom],
             Accepted(event, Lose(opened, enc.event_ordinal, "type"))
      PROVE  Outcome(event)
  <2>1. /\ active \in ActiveBlocks /\ active.kind = kind /\ active.index = event.index
        /\ ~active.signature_seen /\ active.fragments = <<>>
    BY <1>2, <1>3, ActiveType DEF ActiveKinds
  <2>2. PICK d : d = [Indexed(enc) EXCEPT !.active = active]  OBVIOUS
  <2>3. /\ d \in Encoders /\ d.active = active /\ SameFlags(d, enc)
        /\ d.next_ir_index = enc.next_ir_index + 1 /\ enc.event_ordinal \in Int
    BY <1>1, <2>1, <2>2, OpenedFacts
  <2>4. /\ opened \in Encoders /\ opened.active = active /\ SameFlags(opened, enc)
        /\ opened.next_ir_index = enc.next_ir_index + 1
    BY <1>3, <2>2, <2>3, ZenonT(60) DEF Encoders, SameFlags
  <2>5. PICK e : e = Lose(opened, enc.event_ordinal, "type")  OBVIOUS
  <2>6. /\ e \in Encoders /\ e.active = active /\ SameFlags(e, enc)
        /\ e.next_ir_index = enc.next_ir_index + 1
    <3>1. "type" \in LossFields  BY DEF LossFields
    <3>. QED BY <2>3, <2>4, <2>5, <3>1, LoseFacts DEF SameFlags
  <2>7. Family(kind) = BlockFamily(event.block) /\ event.block.kind \notin ToolKinds
    BY <1>1 DEF Family, BlockFamily, ToolKinds, OmittedKinds, ApplyPatchKinds
  <2>. QED BY <1>1, <1>3, <2>1, <2>5, <2>6, <2>7, StartedOutcome
<1>4. CASE ApplyOmittedStart(event)
  <2>1. PICK active, d : active = Active("Redacted", event)
                         /\ d = [Indexed(enc) EXCEPT !.active = active]
    OBVIOUS
  <2>2. active \in ActiveBlocks  BY <1>2, <2>1, ActiveType DEF ActiveKinds
  <2>3. d \in Encoders  BY <1>1, <2>1, <2>2, OpenedFacts
  <2>4. d.custom_seen \in BOOLEAN /\ d = [d EXCEPT !.custom_seen = d.custom_seen]
    BY <2>3 DEF Encoders
  <2>5. Accepted(event, Lose(d, enc.event_ordinal, "type"))
    BY <1>4, <2>1 DEF ApplyOmittedStart
  <2>. QED BY <1>3, <2>1, <2>4, <2>5
<1>5. CASE ApplyPatchStart(event)
  <2>1. PICK active, d, opened :
          /\ active = Active("Atomic", event)
          /\ d = Indexed(enc)
          /\ opened = [[d EXCEPT !.active = active] EXCEPT !.custom_seen = TRUE]
    OBVIOUS
  <2>2. d \in Encoders  BY <1>1, <2>1, InOrderFacts
  <2>3. opened = [d EXCEPT !.active = active, !.custom_seen = TRUE]
    BY <2>1, <2>2 DEF Encoders
  <2>4. Accepted(event, Lose(opened, enc.event_ordinal, "type"))
    BY <1>5, <2>1, <2>3 DEF ApplyPatchStart
  <2>. QED BY <1>3, <2>1, <2>4
<1>. QED BY <1>4, <1>5

(* Tools: a call without an id or a name is refused. *)
LEMMA ToolStartOutcome ==
  ASSUME TypeOK, NEW event \in Events, ApplyToolStart(event)
  PROVE  Outcome(event)
<1>1. /\ IsStart(event) /\ ~Ended(event) /\ BlockStartInOrder(event)
      /\ event.block.kind \in ToolKinds
  BY DEF ApplyToolStart, Starting
<1>2. /\ event.index \in Int /\ enc \in Encoders /\ Indexed(enc) \in Encoders
      /\ enc.started /\ enc.active = Idle /\ ~enc.finished /\ ~enc.done
      /\ SameFlags(Indexed(enc), enc) /\ Indexed(enc).active = enc.active
      /\ Indexed(enc).next_ir_index = enc.next_ir_index + 1
  BY <1>1, InOrderFacts
<1>3. PICK b, kind : b = event.block
                     /\ kind = IF b.kind = "tool_use" THEN "Tool" ELSE "CustomTool"
  OBVIOUS
<1>4. b.id \in Tokens /\ b.name \in Text /\ b.text \in Text
  <2>1. b \in Blocks  BY <1>1, <1>3, InOrderFacts
  <2>. QED BY <2>1 DEF Blocks
<1>5. CASE ~Identified(b.id, b.name)
  <2>1. Refused(event, Counted(Indexed(enc)))
    BY <1>3, <1>5, Zenon DEF ApplyToolStart, Identified, HasId
  <2>2. Consistent(Indexed(enc))  BY <1>2, IdleType DEF Consistent, SameFlags
  <2>3. Unfit(View(enc), event)  BY <1>1, <1>3, <1>5 DEF Unfit
  <2>. QED BY <1>2, <2>1, <2>2, <2>3, RefusedOutcome
<1>6. CASE Identified(b.id, b.name)
  <2>1. PICK base, d : base = Active(kind, event) /\ d = Indexed(enc)  OBVIOUS
  <2>2. /\ base \in ActiveBlocks /\ base.kind = kind /\ base.index = event.index
        /\ ~base.signature_seen /\ base.fragments = <<>>
    <3>1. kind \in ActiveKinds  BY <1>3 DEF ActiveKinds
    <3>. QED BY <1>2, <2>1, <3>1, ActiveType
  <2>3. PICK n : n = enc.next_native_tool  OBVIOUS
  <2>4. n \in Nat /\ d.next_native_tool \in Nat
    BY <1>2, <2>1, <2>3 DEF Encoders
  <2>5. PICK active : active = [base EXCEPT !.tool_id = b.id, !.tool_name = b.name,
                                            !.tool_input = b.text, !.native_index = n]
    OBVIOUS
  <2>6. /\ active \in ActiveBlocks /\ active.kind = kind /\ active.index = event.index
        /\ ~active.signature_seen /\ active.fragments = <<>> /\ active.tool_input = b.text
    BY <1>4, <2>2, <2>4, <2>5 DEF ActiveBlocks
  <2>7. PICK m : m = d.next_native_tool + 1  OBVIOUS
  <2>8. PICK e : e = [d EXCEPT !.next_native_tool = m, !.tool_seen = TRUE, !.active = active]
    OBVIOUS
  <2>9. /\ e \in Encoders /\ e.active = active
        /\ e.next_ir_index = enc.next_ir_index + 1 /\ SameFlags(e, enc)
    <3>1. d \in Encoders /\ SameFlags(d, enc) /\ d.next_ir_index = enc.next_ir_index + 1
      BY <1>2, <2>1
    <3>2. m \in Nat  BY <2>4, <2>7
    <3>3. e \in Encoders /\ e.active = active /\ e.next_ir_index = d.next_ir_index
          /\ SameFlags(e, d)
      BY <2>6, <2>8, <3>1, <3>2 DEF Encoders, SameFlags
    <3>. QED BY <3>1, <3>3 DEF SameFlags
  <2>10. Accepted(event, e)
    <3>1. ~(b.id = "" \/ b.name = <<>>)  BY <1>6, Zenon DEF Identified, HasId
    <3>. QED BY <1>3, <2>1, <2>3, <2>5, <2>7, <2>8, <3>1, Zenon DEF ApplyToolStart
  <2>11. /\ Family(kind) = BlockFamily(event.block) /\ kind \in {"Tool", "CustomTool"}
         /\ kind # "none"
    BY <1>1, <1>3 DEF Family, BlockFamily, ToolKinds
  <2>. QED BY <1>1, <1>3, <2>6, <2>9, <2>10, <2>11, StartedOutcome
<1>. QED BY <1>5, <1>6

(* Blocks without a Chat Completions form that is known are refused. *)
LEMMA UnsupportedStartOutcome ==
  ASSUME TypeOK, NEW event \in Events, ApplyUnsupportedStart(event)
  PROVE  Outcome(event)
<1>1. /\ IsStart(event) /\ ~Ended(event) /\ BlockStartInOrder(event)
      /\ event.block.kind \notin EncodableKinds /\ Refused(event, Counted(Indexed(enc)))
  BY DEF ApplyUnsupportedStart
<1>2. /\ Indexed(enc) \in Encoders
      /\ enc.started /\ enc.active = Idle /\ ~enc.finished /\ ~enc.done
      /\ SameFlags(Indexed(enc), enc) /\ Indexed(enc).active = enc.active
  BY <1>1, InOrderFacts
<1>3. Consistent(Indexed(enc))  BY <1>2, IdleType DEF Consistent, SameFlags
<1>4. Unfit(View(enc), event)  BY <1>1 DEF Unfit
<1>. QED BY <1>1, <1>2, <1>3, <1>4, RefusedOutcome

(* The deltas that fit the active block are those of its family, until its
   signature came. *)
LEMMA FitsFamily ==
  ASSUME NEW a \in ActiveBlocks, NEW d \in Deltas, a.signature_seen => a.kind = "Thinking"
  PROVE  Fits(a, d) <=> DeltaFamily(d) = Family(a.kind) /\ ~a.signature_seen
BY DEF Fits, DeltaFamily, Family, Deltas, DeltaTypes

(* The view of an encoder with an active block. *)
LEMMA WithinView ==
  ASSUME TypeOK, Consistent(enc), enc.active # Idle, ~enc.done, ~enc.finished
  PROVE  /\ enc.active \in ActiveBlocks /\ enc.active.kind # "none" /\ enc.started
         /\ View(enc).place = "within" /\ View(enc).index = enc.active.index
         /\ View(enc).next = enc.next_ir_index
         /\ View(enc).family = Family(enc.active.kind)
         /\ View(enc).signed = enc.active.signature_seen
         /\ View(enc).tool = (enc.active.kind \in {"Tool", "CustomTool"})
         /\ View(enc).input = enc.active.tool_input
         /\ View(enc).fragments = enc.active.fragments
<1>1. enc.active \in ActiveBlocks /\ enc.active.kind # "none" /\ enc.started
  BY DEF TypeOK, Encoders, Consistent
<1>. QED BY <1>1 DEF View

(* What an accepted delta leaves in the active block. *)
LEMMA AbsorbFacts ==
  ASSUME NEW d \in Encoders, NEW delta \in Deltas, Fits(d.active, delta)
  PROVE  /\ AbsorbDelta(d, delta) \in Encoders
         /\ SameFlags(AbsorbDelta(d, delta), d)
         /\ AbsorbDelta(d, delta).next_ir_index = d.next_ir_index
         /\ AbsorbDelta(d, delta).active.kind = d.active.kind
         /\ AbsorbDelta(d, delta).active.index = d.active.index
         /\ AbsorbDelta(d, delta).active.tool_input = d.active.tool_input
         /\ AbsorbDelta(d, delta).active.signature_seen <=>
              d.active.signature_seen \/ delta.type = "signature_delta"
         /\ d.active.kind \in {"Tool", "CustomTool"} =>
              AbsorbDelta(d, delta).active.fragments = Append(d.active.fragments, delta.text)
<1>1. delta.type \in DeltaTypes /\ delta.text \in Text  BY DEF Deltas
<1>2. PICK a : a = d.active  OBVIOUS
<1>3. a \in ActiveBlocks /\ d.event_ordinal \in Int  BY <1>2 DEF Encoders
<1>4. CASE delta.type \in {"text_delta", "thinking_delta"}
  <2>1. PICK chunk : chunk = IF delta.type = "text_delta" THEN ContentChunk(delta.text)
                             ELSE ReasoningChunk(delta.text)
    OBVIOUS
  <2>2. chunk \in WireChunks  BY <1>1, <2>1, PlainChunks
  <2>3. AbsorbDelta(d, delta) = Send(d, chunk)
    BY <1>4, <2>1 DEF AbsorbDelta, SendContent
  <2>4. /\ Send(d, chunk) \in Encoders /\ SameFlags(Send(d, chunk), d)
        /\ Send(d, chunk).next_ir_index = d.next_ir_index /\ Send(d, chunk).active = d.active
    BY <2>2, SendType DEF Send, Encoders, SameFlags
  <2>5. a.kind \notin {"Tool", "CustomTool"}  BY <1>2, <1>4 DEF Fits
  <2>. QED BY <1>2, <1>3, <1>4, <2>3, <2>4, <2>5 DEF ActiveBlocks
<1>5. CASE delta.type = "citation_delta"
  <2>1. a.kind \notin {"Tool", "CustomTool"}  BY <1>2, <1>5 DEF Fits
  <2>2. CASE a.citation_loss_seen
    <3>1. AbsorbDelta(d, delta) = d  BY <1>2, <1>5, <2>2 DEF AbsorbDelta
    <3>. QED BY <1>2, <1>3, <1>5, <2>1, <3>1 DEF SameFlags, ActiveBlocks
  <2>3. CASE ~a.citation_loss_seen
    <3>1. PICK b : b = [a EXCEPT !.citation_loss_seen = TRUE]  OBVIOUS
    <3>2. /\ b \in ActiveBlocks /\ b.kind = a.kind /\ b.index = a.index
          /\ b.tool_input = a.tool_input /\ b.signature_seen = a.signature_seen
      BY <1>3, <3>1 DEF ActiveBlocks
    <3>3. PICK e : e = [d EXCEPT !.active = b]  OBVIOUS
    <3>4. /\ e \in Encoders /\ SameFlags(e, d) /\ e.active = b
          /\ e.next_ir_index = d.next_ir_index /\ e = [d EXCEPT !.active.citation_loss_seen = TRUE]
      BY <1>2, <3>1, <3>2, <3>3 DEF Encoders, SameFlags
    <3>5. "citations" \in LossFields  BY DEF LossFields
    <3>6. AbsorbDelta(d, delta) = Lose(e, d.event_ordinal, "citations")
      BY <1>2, <1>5, <2>3, <3>4 DEF AbsorbDelta
    <3>7. /\ AbsorbDelta(d, delta) \in Encoders /\ SameFlags(AbsorbDelta(d, delta), e)
          /\ AbsorbDelta(d, delta).active = b
          /\ AbsorbDelta(d, delta).next_ir_index = e.next_ir_index
      <4>1. e \in Encoders /\ e.active = b /\ d.event_ordinal \in Int
        BY <1>3, <3>4
      <4>2. PICK x : x = Lose(e, d.event_ordinal, "citations")  OBVIOUS
      <4>3. x \in Encoders /\ SameFlags(x, e) /\ x.active = b /\ x.next_ir_index = e.next_ir_index
        BY <3>5, <4>1, <4>2, LoseFacts
      <4>. QED BY <3>6, <4>2, <4>3
    <3>. QED BY <1>2, <1>5, <2>1, <3>2, <3>4, <3>7 DEF SameFlags
  <2>. QED BY <2>2, <2>3
<1>6. CASE delta.type = "signature_delta"
  <2>1. a.kind \notin {"Tool", "CustomTool"}  BY <1>2, <1>6 DEF Fits
  <2>2. PICK b : b = [a EXCEPT !.signature_seen = TRUE]  OBVIOUS
  <2>3. /\ b \in ActiveBlocks /\ b.kind = a.kind /\ b.index = a.index
        /\ b.tool_input = a.tool_input /\ b.signature_seen
    BY <1>3, <2>2 DEF ActiveBlocks
  <2>4. PICK e : e = [d EXCEPT !.active = b]  OBVIOUS
  <2>5. /\ e \in Encoders /\ SameFlags(e, d) /\ e.active = b
        /\ e.next_ir_index = d.next_ir_index /\ e = [d EXCEPT !.active.signature_seen = TRUE]
    BY <1>2, <2>2, <2>3, <2>4 DEF Encoders, SameFlags
  <2>6. "signature" \in LossFields  BY DEF LossFields
  <2>7. AbsorbDelta(d, delta) = Lose(e, d.event_ordinal, "signature")
    BY <1>2, <1>6, <2>5 DEF AbsorbDelta
  <2>8. /\ AbsorbDelta(d, delta) \in Encoders /\ SameFlags(AbsorbDelta(d, delta), e)
        /\ AbsorbDelta(d, delta).active = b
        /\ AbsorbDelta(d, delta).next_ir_index = e.next_ir_index
    <3>1. e \in Encoders /\ e.active = b /\ d.event_ordinal \in Int
      BY <1>3, <2>5
    <3>2. PICK x : x = Lose(e, d.event_ordinal, "signature")  OBVIOUS
    <3>3. x \in Encoders /\ SameFlags(x, e) /\ x.active = b /\ x.next_ir_index = e.next_ir_index
      BY <2>6, <3>1, <3>2, LoseFacts
    <3>. QED BY <2>7, <3>2, <3>3
  <2>. QED BY <1>2, <1>6, <2>1, <2>3, <2>5, <2>8 DEF SameFlags
<1>7. CASE delta.type \in {"input_json_delta", "custom_tool_input_delta"}
  <2>1. AbsorbDelta(d, delta) = QueueFragment(d, delta.text)
    BY <1>7, SMTT(60) DEF AbsorbDelta
  <2>2. PICK pending \in Seq(WireChunks), fragments \in Seq(Text), b \in ActiveBlocks :
          /\ fragments = Append(d.active.fragments, delta.text)
          /\ b = [d.active EXCEPT !.fragments = fragments, !.tool_started = TRUE]
          /\ QueueFragment(d, delta.text) = [d EXCEPT !.pending_tools = pending, !.active = b]
    BY <1>1, QueueType
  <2>3. PICK e : e = [d EXCEPT !.pending_tools = pending, !.active = b]  OBVIOUS
  <2>4. e \in Encoders /\ SameFlags(e, d) /\ e.active = b /\ e.next_ir_index = d.next_ir_index
    BY <2>3 DEF Encoders, SameFlags
  <2>5. /\ b.kind = a.kind /\ b.index = a.index /\ b.tool_input = a.tool_input
        /\ b.signature_seen = a.signature_seen /\ b.fragments = fragments
    BY <1>2, <1>3, <2>2 DEF ActiveBlocks
  <2>. QED BY <1>2, <1>7, <2>1, <2>2, <2>3, <2>4, <2>5, ZenonT(60)
<1>. QED BY <1>1, <1>4, <1>5, <1>6, <1>7 DEF DeltaTypes

(* Deltas: those that fit the active block, and nothing else. *)
LEMMA DeltaOutcome ==
  ASSUME TypeOK, Consistent(enc), NEW event \in Events, ApplyDelta(event)
  PROVE  Outcome(event)
<1>1. /\ enc \in Encoders /\ IsDelta(event) /\ ~enc.done /\ ~enc.finished
      /\ event.delta \in Deltas /\ event.index \in Nat
  <2>1. IsDelta(event) /\ ~enc.done /\ ~enc.finished
    BY DEF ApplyDelta, Ended, IsDelta
  <2>. QED BY <2>1, EncoderAssumption, EventForms DEF TypeOK
<1>2. CASE enc.active = Idle
  <2>1. Refused(event, Counted(enc))  BY <1>2 DEF ApplyDelta
  <2>2. ~Allowed(View(enc), event)
    BY <1>1, <1>2, IdleType DEF View, Allowed, OpensAt, IsStart, IsDelta
  <2>. QED BY <1>1, <2>1, <2>2, RefusedOutcome
<1>3. CASE enc.active # Idle
  <2>1. /\ enc.active \in ActiveBlocks /\ enc.active.kind # "none" /\ enc.started
        /\ View(enc).place = "within" /\ View(enc).index = enc.active.index
        /\ View(enc).next = enc.next_ir_index
        /\ View(enc).family = Family(enc.active.kind)
        /\ View(enc).signed = enc.active.signature_seen
        /\ View(enc).tool = (enc.active.kind \in {"Tool", "CustomTool"})
        /\ View(enc).input = enc.active.tool_input
        /\ View(enc).fragments = enc.active.fragments
    BY <1>1, <1>3, WithinView
  <2>2. Allowed(View(enc), event) <=>
          /\ event.index = enc.active.index
          /\ DeltaFamily(event.delta) = Family(enc.active.kind) /\ ~enc.active.signature_seen
    BY <1>1, <2>1 DEF Allowed, Continues, IsDelta, IsStop
  <2>3. Fits(enc.active, event.delta) <=>
          DeltaFamily(event.delta) = Family(enc.active.kind) /\ ~enc.active.signature_seen
    BY <1>1, <2>1, FitsFamily DEF Consistent
  <2>4. CASE ~(event.index = enc.active.index /\ Fits(enc.active, event.delta))
    <3>1. Refused(event, Counted(enc))  BY <2>4 DEF ApplyDelta
    <3>. QED BY <1>1, <2>2, <2>3, <2>4, <3>1, RefusedOutcome
  <2>5. CASE event.index = enc.active.index /\ Fits(enc.active, event.delta)
    <3>1. PICK e : e = AbsorbDelta(enc, event.delta)  OBVIOUS
    <3>2. /\ e \in Encoders /\ SameFlags(e, enc) /\ e.next_ir_index = enc.next_ir_index
          /\ e.active.kind = enc.active.kind /\ e.active.index = enc.active.index
          /\ e.active.tool_input = enc.active.tool_input
          /\ e.active.signature_seen <=>
               enc.active.signature_seen \/ event.delta.type = "signature_delta"
          /\ enc.active.kind \in {"Tool", "CustomTool"} =>
               e.active.fragments = Append(enc.active.fragments, event.delta.text)
      BY <1>1, <2>5, <3>1, AbsorbFacts
    <3>3. Accepted(event, e)  BY <1>3, <2>5, <3>1 DEF ApplyDelta
    <3>4. ~enc.active.signature_seen  BY <2>3, <2>5
    <3>5. event.delta.type = "signature_delta" => enc.active.kind = "Thinking"
      BY <2>5 DEF Fits
    <3>6. Consistent(e)
      BY <1>1, <2>1, <3>2, <3>4, <3>5 DEF Consistent, SameFlags
    <3>7. /\ View(e).place = "within" /\ View(e).index = View(enc).index
          /\ View(e).next = View(enc).next /\ View(e).family = View(enc).family
          /\ View(e).signed <=> event.delta.type = "signature_delta"
          /\ View(e).tool = View(enc).tool
          /\ View(e).tool => /\ View(e).input = View(enc).input
                             /\ View(e).fragments = Append(View(enc).fragments, event.delta.text)
      BY <1>1, <2>1, <3>2, <3>4 DEF View, SameFlags
    <3>8. Moves(View(enc), event, View(e))  BY <1>1, <2>1, <3>7 DEF Moves
    <3>. QED BY <2>2, <2>3, <2>5, <3>2, <3>3, <3>6, <3>8 DEF Outcome
  <2>. QED BY <2>4, <2>5
<1>. QED BY <1>2, <1>3

(* A block that closes leaves none active. *)
LEMMA ClosedFacts ==
  ASSUME NEW d \in Encoders, Consistent(d)
  PROVE  /\ [d EXCEPT !.active = Idle] \in Encoders
         /\ Consistent([d EXCEPT !.active = Idle])
         /\ SameFlags([d EXCEPT !.active = Idle], d)
         /\ [d EXCEPT !.active = Idle].active = Idle
         /\ [d EXCEPT !.active = Idle].next_ir_index = d.next_ir_index
<1>1. PICK a : a = Idle  OBVIOUS
<1>2. a \in ActiveBlocks /\ a.kind = "none" /\ ~a.signature_seen
  BY <1>1, IdleType
<1>3. PICK e : e = [d EXCEPT !.active = a]  OBVIOUS
<1>4. e \in Encoders /\ SameFlags(e, d) /\ e.active = a /\ e.next_ir_index = d.next_ir_index
  BY <1>2, <1>3 DEF Encoders, SameFlags
<1>5. Consistent(e)  BY <1>1, <1>2, <1>4 DEF Consistent, SameFlags
<1>. QED BY <1>1, <1>3, <1>4, <1>5

(* A tool block that closes has at least one fragment; the input it then
   spells is exact if and only if it was allowed to have none. *)
LEMMA CompletedFacts ==
  ASSUME NEW d \in Encoders, Consistent(d)
  PROVE  /\ Completed(d) \in Encoders /\ SameFlags(Completed(d), d)
         /\ Completed(d).next_ir_index = d.next_ir_index
         /\ Consistent([Completed(d) EXCEPT !.active = Idle])
         /\ d.active.kind \in {"Tool", "CustomTool"} =>
              (Concat(Completed(d).active.fragments) = d.active.tool_input
                 <=> InputExact(d.active.tool_input, d.active.fragments, TRUE))
<1>1. d.active \in ActiveBlocks /\ d.active.tool_input \in Text
  BY DEF Encoders, ActiveBlocks
<1>2. CASE d.active.kind \in {"Tool", "CustomTool"} /\ d.active.fragments = <<>>
  <2>1. PICK pending \in Seq(WireChunks), fragments \in Seq(Text), b \in ActiveBlocks :
          /\ fragments = Append(d.active.fragments, d.active.tool_input)
          /\ b = [d.active EXCEPT !.fragments = fragments, !.tool_started = TRUE]
          /\ QueueFragment(d, d.active.tool_input)
               = [d EXCEPT !.pending_tools = pending, !.active = b]
    BY <1>1, QueueType
  <2>2. PICK e : e = [d EXCEPT !.pending_tools = pending, !.active = b]  OBVIOUS
  <2>3. e \in Encoders /\ SameFlags(e, d) /\ e.active = b /\ e.next_ir_index = d.next_ir_index
    BY <2>2 DEF Encoders, SameFlags
  <2>4. Completed(d) = e  BY <1>2, <2>1, <2>2 DEF Completed
  <2>5. b.fragments = fragments /\ b.kind = d.active.kind
        /\ b.signature_seen = d.active.signature_seen
    BY <1>1, <2>1 DEF ActiveBlocks
  <2>6. fragments = <<d.active.tool_input>>  BY <1>2, <2>1
  <2>7. Concat(fragments) = d.active.tool_input
    <3>1. PICK x : x = d.active.tool_input  OBVIOUS
    <3>2. x \in Seq(Tokens)  BY <1>1, <3>1 DEF Text
    <3>3. Concat(<<x>>) = x  BY <3>2, ConcatSingle
    <3>. QED BY <2>6, <3>1, <3>3
  <2>8. InputExact(d.active.tool_input, d.active.fragments, TRUE)
    BY <1>2 DEF InputExact
  <2>9. d.started /\ ~d.finished /\ ~d.done  BY <1>2, IdleType DEF Consistent
  <2>10. Consistent(e)  BY <1>2, <2>3, <2>5, <2>9 DEF Consistent, SameFlags
  <2>11. Consistent([e EXCEPT !.active = Idle])  BY <2>3, <2>10, ClosedFacts
  <2>. QED BY <2>3, <2>4, <2>5, <2>7, <2>8, <2>11
<1>3. CASE ~(d.active.kind \in {"Tool", "CustomTool"} /\ d.active.fragments = <<>>)
  <2>1. Completed(d) = d  BY <1>3 DEF Completed
  <2>2. d.active.kind \in {"Tool", "CustomTool"} =>
          (Concat(d.active.fragments) = d.active.tool_input
             <=> InputExact(d.active.tool_input, d.active.fragments, TRUE))
    BY <1>3 DEF InputExact
  <2>. QED BY <2>1, <2>2, ClosedFacts DEF SameFlags
<1>. QED BY <1>2, <1>3, ZenonT(60)

(* Stops: of the active block, and with an exact input if it is a tool. *)
LEMMA StopOutcome ==
  ASSUME TypeOK, Consistent(enc), NEW event \in Events, ApplyBlockStop(event)
  PROVE  Outcome(event)
<1>1. enc \in Encoders /\ IsStop(event) /\ ~enc.done /\ ~enc.finished
  BY DEF ApplyBlockStop, Ended, IsStop, TypeOK
<1>2. CASE enc.active = Idle \/ event.index # enc.active.index
  <2>1. PICK e : e = [enc EXCEPT !.active = Idle]  OBVIOUS
  <2>2. e \in Encoders /\ Consistent(e)  BY <1>1, <2>1, ClosedFacts
  <2>3. Refused(event, Counted(e))  BY <1>2, <2>1 DEF ApplyBlockStop
  <2>4. ~Allowed(View(enc), event)
    <3>1. CASE enc.active = Idle
      BY <1>1, <3>1, IdleType DEF View, Allowed, OpensAt, IsStart, IsStop
    <3>2. CASE enc.active # Idle
      <4>1. View(enc).place = "within" /\ View(enc).index = enc.active.index
        BY <1>1, <3>2, WithinView
      <4>. QED BY <1>1, <1>2, <3>2, <4>1 DEF Allowed, Continues, IsStop, IsDelta
    <3>. QED BY <3>1, <3>2
  <2>. QED BY <2>2, <2>3, <2>4, RefusedOutcome
<1>3. CASE enc.active # Idle /\ event.index = enc.active.index
  <2>1. PICK c, e : c = Completed(enc) /\ e = [c EXCEPT !.active = Idle]
    OBVIOUS
  <2>2. /\ c \in Encoders /\ SameFlags(c, enc) /\ c.next_ir_index = enc.next_ir_index
        /\ Consistent(e)
        /\ enc.active.kind \in {"Tool", "CustomTool"} =>
             (Concat(c.active.fragments) = enc.active.tool_input
                <=> InputExact(enc.active.tool_input, enc.active.fragments, TRUE))
    BY <1>1, <2>1, CompletedFacts
  <2>3. /\ e \in Encoders /\ SameFlags(e, enc) /\ e.active = Idle
        /\ e.next_ir_index = enc.next_ir_index
    BY <2>1, <2>2, IdleType DEF Encoders, SameFlags
  <2>4. /\ enc.active \in ActiveBlocks /\ enc.active.kind # "none" /\ enc.started
        /\ View(enc).place = "within" /\ View(enc).index = enc.active.index
        /\ View(enc).next = enc.next_ir_index
        /\ View(enc).tool = (enc.active.kind \in {"Tool", "CustomTool"})
        /\ View(enc).input = enc.active.tool_input
        /\ View(enc).fragments = enc.active.fragments
    BY <1>1, <1>3, WithinView
  <2>5. Allowed(View(enc), event)  BY <1>1, <1>3, <2>4 DEF Allowed, Continues
  <2>6. CASE /\ enc.active.kind \in {"Tool", "CustomTool"}
             /\ Concat(c.active.fragments) # enc.active.tool_input
    <3>1. Refused(event, Counted(e))  BY <1>3, <2>1, <2>6 DEF ApplyBlockStop
    <3>2. Unfit(View(enc), event)  BY <1>1, <2>2, <2>4, <2>6 DEF Unfit
    <3>. QED BY <2>2, <2>3, <3>1, <3>2, RefusedOutcome
  <2>7. CASE ~(/\ enc.active.kind \in {"Tool", "CustomTool"}
               /\ Concat(c.active.fragments) # enc.active.tool_input)
    <3>1. Accepted(event, e)  BY <1>3, <2>1, <2>7 DEF ApplyBlockStop
    <3>2. View(enc).tool => InputExact(View(enc).input, View(enc).fragments, TRUE)
      BY <2>2, <2>4, <2>7
    <3>3. View(e).place = "between" /\ View(e).next = View(enc).next
      BY <1>1, <2>3, <2>4, IdleType DEF View, SameFlags
    <3>4. Moves(View(enc), event, View(e))  BY <1>1, <2>4, <3>2, <3>3 DEF Moves
    <3>. QED BY <2>2, <2>3, <2>5, <3>1, <3>4 DEF Outcome
  <2>. QED BY <2>6, <2>7
<1>. QED BY <1>2, <1>3

(* The losses that concern the whole message. *)
LEMMA StopLossesType ==
  ASSUME NEW event
  PROVE  StopLosses(event) \in Seq(Int \X LossFields)
<1>1. ASSUME NEW field \in LossFields, NEW P \in BOOLEAN, NEW one, one = <<-1, field>>,
             NEW s, s = IF P THEN <<one>> ELSE <<>>
      PROVE  s \in Seq(Int \X LossFields)
  <2>1. one \in Int \X LossFields  BY <1>1
  <2>. QED BY <1>1, <2>1
<1>2. {"stop_reason", "stop_sequence", "ordering"} \subseteq LossFields
  BY DEF LossFields
<1>3. PICK P, Q, R :
        /\ P = (event.stop_reason = "tool_use" /\ ~enc.tool_seen /\ enc.custom_seen)
        /\ Q = (event.stop_reason = "stop_sequence")
        /\ R = (IF enc.ordering_degrade THEN TRUE ELSE FALSE)
  OBVIOUS
<1>4. P \in BOOLEAN /\ Q \in BOOLEAN /\ R \in BOOLEAN  BY <1>3
<1>5. PICK p, q, r : /\ p = IF P THEN <<<<-1, "stop_reason">>>> ELSE <<>>
                     /\ q = IF Q THEN <<<<-1, "stop_sequence">>>> ELSE <<>>
                     /\ r = IF R THEN <<<<-1, "ordering">>>> ELSE <<>>
  OBVIOUS
<1>6. /\ p \in Seq(Int \X LossFields) /\ q \in Seq(Int \X LossFields)
      /\ r \in Seq(Int \X LossFields)
  BY <1>1, <1>2, <1>4, <1>5
<1>7. StopLosses(event) = p \o q \o r  BY <1>3, <1>5 DEF StopLosses
<1>. QED BY <1>6, <1>7

(* The terminal event: the flags agree and Chat Completions can say it. *)
LEMMA MessageDeltaOutcome ==
  ASSUME TypeOK, Consistent(enc), NEW event \in Events, ApplyMessageDelta(event)
  PROVE  Outcome(event)
<1>1. /\ enc \in Encoders /\ event.type = "message_delta" /\ ~enc.done /\ ~enc.finished
      /\ event.stop_reason \in StopReasons /\ event.usage \in Usages
  <2>1. event.type = "message_delta" /\ ~enc.done /\ ~enc.finished
    BY DEF ApplyMessageDelta, Ended
  <2>. QED BY <2>1, EncoderAssumption, EventForms DEF TypeOK
<1>2. PICK input, output, total : /\ input = event.usage.input /\ output = event.usage.output
                                  /\ total = TotalTokens(event.usage)
  OBVIOUS
<1>3. input \in Int /\ output \in Int /\ total \in Int
  BY <1>1, <1>2 DEF Usages, TotalTokens
<1>4. CASE ~Encodable(event)
  <2>1. Refused(event, Counted(enc))  BY <1>4 DEF ApplyMessageDelta
  <2>2. ~enc.started => ~Allowed(View(enc), event)  BY <1>1 DEF View, Allowed
  <2>3. enc.started /\ enc.active # Idle => ~Allowed(View(enc), event)
    BY <1>1, WithinView DEF Allowed, Continues, IsStop, IsDelta
  <2>4. EffectiveStop(event.stop_reason) = "other" => event.stop_reason = "other"
    BY DEF EffectiveStop
  <2>5. ASSUME enc.started, enc.active = Idle
        PROVE  Unfit(View(enc), event)
    <3>1. ~(/\ input >= 0 /\ output >= 0 /\ total <= MaxInt
            /\ EffectiveStop(event.stop_reason) # "other")
      BY <1>2, <1>4, <2>5, Zenon DEF Encodable
    <3>2. MaxInt \in Nat  BY EncoderAssumption
    <3>3. input < 0 \/ output < 0 \/ total > MaxInt \/ event.stop_reason = "other"
      BY <1>3, <2>4, <3>1, <3>2
    <3>. QED BY <1>1, <1>2, <3>3, Zenon DEF Unfit
  <2>. QED BY <1>1, <2>1, <2>2, <2>3, <2>5, RefusedOutcome
<1>5. CASE Encodable(event)
  <2>1. PICK stop, usage, finish :
          /\ stop = EffectiveStop(event.stop_reason)
          /\ usage = WireUsage(input, output, total)
          /\ finish = FinishOf(stop)
    OBVIOUS
  <2>2. stop \in StopReasons /\ stop # "other"
    BY <1>1, <1>5, <2>1 DEF Encodable, EffectiveStop, StopReasons
  <2>3. finish \in FinishReasons
    BY <2>1, <2>2 DEF FinishOf, FinishReasons, StopReasons
  <2>4. usage \in WireUsages  BY <1>3, <2>1 DEF WireUsage, WireUsages
  <2>5. PICK chunk, losses, chunks, pending :
          /\ chunk = FinishChunk(finish, usage)
          /\ losses = enc.losses \o StopLosses(event)
          /\ chunks = enc.chunks \o Append(enc.pending_tools, chunk)
          /\ pending = <<>>
    OBVIOUS
  <2>6. chunk \in WireChunks  BY <2>3, <2>4, <2>5, PlainChunks
  <2>7. /\ enc.chunks \in Seq(WireChunks) /\ enc.pending_tools \in Seq(WireChunks)
        /\ enc.losses \in Seq(Int \X LossFields)
    BY <1>1 DEF Encoders
  <2>8. chunks \in Seq(WireChunks) /\ pending \in Seq(WireChunks)
    BY <2>5, <2>6, <2>7
  <2>9. losses \in Seq(Int \X LossFields)
    <3>1. PICK more : more = StopLosses(event)  OBVIOUS
    <3>2. more \in Seq(Int \X LossFields)  BY <3>1, StopLossesType
    <3>3. PICK S : S = Int \X LossFields  OBVIOUS
    <3>. QED BY <2>5, <2>7, <3>1, <3>2, <3>3
  <2>10. PICK e : e = [enc EXCEPT !.finished = TRUE, !.pending_tools = pending,
                                  !.chunks = chunks, !.losses = losses]
    OBVIOUS
  <2>11. /\ e \in Encoders /\ e.finished /\ e.started = enc.started /\ e.done = enc.done
         /\ e.active = enc.active /\ e.next_ir_index = enc.next_ir_index
    BY <1>1, <2>8, <2>9, <2>10 DEF Encoders
  <2>12. Accepted(event, e)
    BY <1>2, <1>5, <2>1, <2>5, <2>10 DEF ApplyMessageDelta
  <2>13. enc.started /\ enc.active = Idle  BY <1>5 DEF Encodable
  <2>14. Consistent(e)  BY <2>11, <2>13, IdleType DEF Consistent
  <2>15. Allowed(View(enc), event)
    BY <1>1, <2>13, IdleType DEF View, Allowed, OpensAt
  <2>16. Moves(View(enc), event, View(e))  BY <1>1, <2>11 DEF View, Moves
  <2>. QED BY <2>11, <2>12, <2>14, <2>15, <2>16 DEF Outcome
<1>. QED BY <1>4, <1>5

(* The last event, right after the terminal one. *)
LEMMA MessageDoneOutcome ==
  ASSUME TypeOK, Consistent(enc), NEW event \in Events, ApplyMessageDone(event)
  PROVE  Outcome(event)
<1>1. enc \in Encoders /\ event.type = "message_done" /\ ~enc.done
  BY DEF TypeOK, ApplyMessageDone, Ended
<1>2. CASE ~enc.finished
  <2>1. Refused(event, Counted(enc))  BY <1>2 DEF ApplyMessageDone
  <2>2. ~Allowed(View(enc), event)
    BY <1>1, <1>2 DEF View, Allowed, OpensAt, Continues, IsStart, IsDelta, IsStop
  <2>. QED BY <1>1, <2>1, <2>2, RefusedOutcome
<1>3. CASE enc.finished
  <2>1. PICK e : e = [enc EXCEPT !.done = TRUE]  OBVIOUS
  <2>2. /\ e \in Encoders /\ e.done /\ e.finished = enc.finished /\ e.started = enc.started
        /\ e.active = enc.active /\ e.next_ir_index = enc.next_ir_index
    BY <1>1, <2>1 DEF Encoders
  <2>3. Accepted(event, e)  BY <1>3, <2>1 DEF ApplyMessageDone
  <2>4. Consistent(e)  BY <1>3, <2>2 DEF Consistent
  <2>5. Allowed(View(enc), event)  BY <1>1, <1>3 DEF View, Allowed
  <2>6. Moves(View(enc), event, View(e))  BY <1>1, <2>2 DEF View, Moves
  <2>. QED BY <2>2, <2>3, <2>4, <2>5, <2>6 DEF Outcome
<1>. QED BY <1>2, <1>3

(* Every call has one of the two outcomes. *)
LEMMA EveryOutcome ==
  ASSUME TypeOK, Consistent(enc), NEW event \in Events, Apply(event)
  PROVE  Outcome(event)
BY AfterEndOutcome, MessageStartOutcome, OutOfOrderOutcome, TextStartOutcome,
   ThinkingStartOutcome, ToolStartOutcome, OmittedStartOutcome, UnsupportedStartOutcome,
   DeltaOutcome, StopOutcome, MessageDeltaOutcome, MessageDoneOutcome
   DEF Apply

-----------------------------------------------------------------------------
(* What the chunks say *)

(* The chunks the encoder makes have a choice. *)
Replies == {c \in WireChunks : c.choice # None}

LEMMA ReplyFacts ==
  ASSUME NEW role, NEW calls, NEW reasoning, NEW content, NEW finish, NEW usage, NEW c,
         c = Chunk(Some(Choice(role, calls, reasoning, content, finish)), usage)
  PROVE  /\ c.choice # None
         /\ c.choice[1].tool_calls = calls /\ c.choice[1].reasoning = reasoning
         /\ c.choice[1].content = content
<1>1. PICK x, o : x = Choice(role, calls, reasoning, content, finish) /\ o = <<x>>
  OBVIOUS
<1>2. x.tool_calls = calls /\ x.reasoning = reasoning /\ x.content = content
  BY <1>1 DEF Choice
<1>3. o # <<>> /\ o[1] = x  BY <1>1
<1>4. c.choice = o  BY <1>1 DEF Chunk, Some
<1>. QED BY <1>2, <1>3, <1>4 DEF None

LEMMA ReplyContent ==
  /\ RoleChunk \in Replies /\ ContentOf(RoleChunk) = <<>>
  /\ \A text \in Text :
       /\ ContentChunk(text) \in Replies
       /\ ContentOf(ContentChunk(text)) = <<Delta("text_delta", text)>>
       /\ ReasoningChunk(text) \in Replies
       /\ ContentOf(ReasoningChunk(text)) = <<Delta("thinking_delta", text)>>
  /\ \A call \in NativeCalls :
       CallChunk(call) \in Replies /\ ContentOf(CallChunk(call)) = <<>>
  /\ \A finish \in FinishReasons, usage \in WireUsages :
       FinishChunk(finish, usage) \in Replies /\ ContentOf(FinishChunk(finish, usage)) = <<>>
<1>1. PICK none, absent, yes, no : none = <<>> /\ absent = "absent" /\ yes = TRUE /\ no = FALSE
  OBVIOUS
<1>2. ASSUME NEW c, c.choice # None, c.choice[1].reasoning = none, c.choice[1].content = none
      PROVE  ContentOf(c) = <<>>
  BY <1>1, <1>2 DEF ContentOf, None
<1>3. PICK role : role = RoleChunk  OBVIOUS
<1>4. role.choice # None /\ role.choice[1].reasoning = none /\ role.choice[1].content = none
  <2>1. role = Chunk(Some(Choice(yes, none, none, none, absent)), none)
    BY <1>1, <1>3, Zenon DEF RoleChunk, None
  <2>. QED BY <2>1, ReplyFacts
<1>5. RoleChunk \in Replies /\ ContentOf(RoleChunk) = <<>>
  BY <1>2, <1>3, <1>4, PlainChunks DEF Replies
<1>6. ASSUME NEW text \in Text
      PROVE  /\ ContentChunk(text) \in Replies
             /\ ContentOf(ContentChunk(text)) = <<Delta("text_delta", text)>>
             /\ ReasoningChunk(text) \in Replies
             /\ ContentOf(ReasoningChunk(text)) = <<Delta("thinking_delta", text)>>
  <2>1. PICK some, c, r : some = Some(text) /\ c = ContentChunk(text) /\ r = ReasoningChunk(text)
    OBVIOUS
  <2>2. some # none /\ some[1] = text  BY <1>1, <2>1 DEF Some
  <2>3. /\ c.choice # None /\ c.choice[1].content = some
        /\ r.choice # None /\ r.choice[1].content = none /\ r.choice[1].reasoning = some
    <3>1. /\ c = Chunk(Some(Choice(no, none, none, some, absent)), none)
          /\ r = Chunk(Some(Choice(no, none, some, none, absent)), none)
      BY <1>1, <2>1, Zenon DEF ContentChunk, ReasoningChunk, None
    <3>. QED BY <3>1, ReplyFacts
  <2>4. ContentOf(c) = <<Delta("text_delta", text)>>
    BY <1>1, <2>2, <2>3 DEF ContentOf, None
  <2>5. ContentOf(r) = <<Delta("thinking_delta", text)>>
    BY <1>1, <2>2, <2>3 DEF ContentOf, None
  <2>. QED BY <2>1, <2>3, <2>4, <2>5, PlainChunks DEF Replies
<1>7. ASSUME NEW call \in NativeCalls
      PROVE  CallChunk(call) \in Replies /\ ContentOf(CallChunk(call)) = <<>>
  <2>1. PICK c, calls : c = CallChunk(call) /\ calls = <<call>>  OBVIOUS
  <2>2. c.choice # None /\ c.choice[1].reasoning = none /\ c.choice[1].content = none
    <3>1. c = Chunk(Some(Choice(no, calls, none, none, absent)), none)
      BY <1>1, <2>1, Zenon DEF CallChunk, None
    <3>. QED BY <3>1, ReplyFacts
  <2>3. c \in WireChunks
    <3>1. /\ calls \in Seq(NativeCalls) /\ none \in Option(Text) /\ none \in Option(WireUsages)
          /\ absent \in FinishReasons
      BY <1>1, <2>1 DEF Option, FinishReasons
    <3>. QED BY <1>1, <2>1, <3>1, ChoiceType DEF CallChunk, None
  <2>. QED BY <1>2, <2>1, <2>2, <2>3 DEF Replies
<1>8. ASSUME NEW finish \in FinishReasons, NEW usage \in WireUsages
      PROVE  FinishChunk(finish, usage) \in Replies /\ ContentOf(FinishChunk(finish, usage)) = <<>>
  <2>1. PICK c : c = FinishChunk(finish, usage)  OBVIOUS
  <2>2. c.choice # None /\ c.choice[1].reasoning = none /\ c.choice[1].content = none
    <3>1. c = Chunk(Some(Choice(no, none, none, none, finish)), Some(usage))
      BY <1>1, <2>1, Zenon DEF FinishChunk, None
    <3>. QED BY <3>1, ReplyFacts
  <2>3. c \in WireChunks  BY <2>1, PlainChunks
  <2>. QED BY <1>2, <2>1, <2>2, <2>3 DEF Replies
<1>. QED BY <1>5, <1>6, <1>7, <1>8

(* What runs of chunks say. *)
LEMMA ContentType ==
  ASSUME NEW c \in Replies
  PROVE  ContentOf(c) \in Seq(Deltas)
<1>1. PICK x : x = c.choice[1]  OBVIOUS
<1>2. x.reasoning \in Option(Text) /\ x.content \in Option(Text)
  <2>1. c.choice \in Option(NativeChoices) /\ c.choice # <<>>
    BY DEF Replies, WireChunks, None
  <2>2. x \in NativeChoices  BY <1>1, <2>1 DEF Option
  <2>. QED BY <2>2 DEF NativeChoices
<1>3. \A o \in Option(Text) : o # <<>> => o[1] \in Text  BY DEF Option
<1>4. ASSUME NEW type \in {"text_delta", "thinking_delta"}, NEW text \in Text
      PROVE  <<Delta(type, text)>> \in Seq(Deltas)
  <2>1. PICK d : d = Delta(type, text)  OBVIOUS
  <2>2. d \in Deltas  BY <2>1 DEF Delta, Deltas, DeltaTypes
  <2>. QED BY <2>1, <2>2
<1>5. CASE x.content # None
  <2>1. ContentOf(c) = <<Delta("text_delta", x.content[1])>>
    BY <1>1, <1>5 DEF ContentOf
  <2>2. x.content[1] \in Text  BY <1>2, <1>3, <1>5 DEF None
  <2>. QED BY <1>4, <2>1, <2>2
<1>6. CASE x.content = None /\ x.reasoning # None
  <2>1. ContentOf(c) = <<Delta("thinking_delta", x.reasoning[1])>>
    BY <1>1, <1>6 DEF ContentOf
  <2>2. x.reasoning[1] \in Text  BY <1>2, <1>3, <1>6 DEF None
  <2>. QED BY <1>4, <2>1, <2>2
<1>7. CASE x.content = None /\ x.reasoning = None
  <2>1. ContentOf(c) = <<>>  BY <1>1, <1>7 DEF ContentOf
  <2>. QED BY <2>1
<1>. QED BY <1>5, <1>6, <1>7

(* The content of chunks. *)
LEMMA ContentIsJoin ==
  \E F \in Sayings(Replies, Deltas) :
    /\ \A c \in Replies : F[c] = ContentOf(c)
    /\ \A s \in Seq(Replies) : ContentIn(s) = JoinOf(F, s)
<1>1. PICK F : F = [c \in Replies |-> ContentOf(c)]  OBVIOUS
<1>2. F \in Sayings(Replies, Deltas) /\ \A c \in Replies : F[c] = ContentOf(c)
  BY <1>1, ContentType DEF Sayings
<1>3. ASSUME NEW s \in Seq(Replies)
      PROVE  ContentIn(s) = JoinOf(F, s)
  <2>1. \A k \in 1..Len(s) : ContentOf(s[k]) = F[s[k]]  BY <1>2
  <2>2. [k \in 1..Len(s) |-> ContentOf(s[k])] = [k \in 1..Len(s) |-> F[s[k]]]
    BY <2>1
  <2>. QED BY <2>2, Zenon DEF ContentIn, JoinOf
<1>. QED BY <1>2, <1>3

LEMMA ContentJoins ==
  ASSUME NEW s \in Seq(Replies), NEW u \in Seq(Replies)
  PROVE  /\ ContentIn(s \o u) = ContentIn(s) \o ContentIn(u)
         /\ ContentIn(s) \in Seq(Deltas) /\ s \o u \in Seq(Replies)
<1>1. PICK F \in Sayings(Replies, Deltas) : \A v \in Seq(Replies) : ContentIn(v) = JoinOf(F, v)
  BY ContentIsJoin
<1>2. /\ JoinOf(F, s \o u) = JoinOf(F, s) \o JoinOf(F, u)
      /\ JoinOf(F, s) \in Seq(Deltas) /\ s \o u \in Seq(Replies)
  BY JoinOfBoth
<1>. QED BY <1>1, <1>2

LEMMA ContentGrows ==
  ASSUME NEW s \in Seq(Replies), NEW c \in Replies
  PROVE  /\ ContentIn(Append(s, c)) = ContentIn(s) \o ContentOf(c)
         /\ ContentIn(s) \in Seq(Deltas) /\ Append(s, c) \in Seq(Replies)
<1>1. PICK F \in Sayings(Replies, Deltas) : /\ F[c] = ContentOf(c)
                                            /\ \A v \in Seq(Replies) : ContentIn(v) = JoinOf(F, v)
  BY ContentIsJoin
<1>2. /\ JoinOf(F, Append(s, c)) = JoinOf(F, s) \o F[c]
      /\ JoinOf(F, s) \in Seq(Deltas) /\ Append(s, c) \in Seq(Replies)
  BY JoinOfMore
<1>. QED BY <1>1, <1>2

-----------------------------------------------------------------------------
(* What an accepted call changes *)

InTool(e) == e.active.kind \in {"Tool", "CustomTool"}

(* The marks the encoder keeps of what it read. *)
MarksKept(event, e) ==
  /\ e.event_ordinal = enc.event_ordinal
  /\ e.tool_seen <=> enc.tool_seen \/ StartsOne(event, ToolKinds)
  /\ e.custom_seen <=> enc.custom_seen \/ StartsOne(event, ApplyPatchKinds)
  /\ e.ordering_degrade <=>
       enc.ordering_degrade \/ (enc.tool_seen /\ StartsOne(event, {"text"}))
  /\ e.finished <=> enc.finished \/ event.type = "message_delta"
  /\ enc.finished => event.type = "message_done"
  /\ IF IsStart(event)
     THEN event.index = enc.next_ir_index /\ e.next_ir_index = enc.next_ir_index + 1
     ELSE e.next_ir_index = enc.next_ir_index
  /\ IsDelta(event) => enc.active.kind # "none" /\ event.index = enc.active.index
  /\ e.active.kind # "none" =>
       IF IsStart(event) THEN e.active.index = event.index
       ELSE enc.active.kind # "none" /\ e.active.index = enc.active.index
  /\ e.active.kind = "Text" =>
       IF IsStart(event)
       THEN e.active.citation_loss_seen <=> Cites(event)
       ELSE /\ enc.active.kind = "Text"
            /\ e.active.citation_loss_seen <=> enc.active.citation_loss_seen \/ Cites(event)
  /\ IsDelta(event) /\ Cites(event) => enc.active.kind = "Text"

(* The losses it adds. *)
Added(event) ==
  IF event.type = "message_delta" THEN StopLosses(event)
  ELSE IF Omits(event) THEN <<<<enc.event_ordinal, "type">>>>
  ELSE IF Signs(event) THEN <<<<enc.event_ordinal, "signature">>>>
  ELSE IF Cites(event) /\ ~(IsDelta(event) /\ enc.active.citation_loss_seen)
  THEN <<<<enc.event_ordinal, "citations">>>>
  ELSE <<>>

(* Text and reasoning are sent at once; what waits has none. *)
Quiet(chunks) == \A k \in 1..Len(chunks) : ContentOf(chunks[k]) = <<>>

Speaks(e) ==
  e.chunks \in Seq(Replies) /\ e.pending_tools \in Seq(Replies) /\ Quiet(e.pending_tools)

ContentKept(event, e) ==
  Speaks(enc) =>
    Speaks(e) /\ ContentIn(e.chunks) = ContentIn(enc.chunks) \o FragmentsIn(event)

(* The calls: one opens, gets a fragment, closes, or they are all sent. *)
Queues(d, e, text) ==
  /\ e.pending_tools = Append(d.pending_tools, ArgumentChunk(d.active, text))
  /\ e.active = [d.active EXCEPT !.fragments = Append(@, text), !.tool_started = TRUE]
  /\ e.next_native_tool = d.next_native_tool
  /\ e.chunks = d.chunks /\ e.finished = d.finished

Plain(event, e) ==
  /\ ~InTool(enc) /\ ~InTool(e) /\ ~StartsOne(event, ToolKinds)
  /\ e.next_native_tool = enc.next_native_tool /\ e.pending_tools = enc.pending_tools
  /\ e.finished = enc.finished
  /\ \/ e.chunks = enc.chunks
     \/ ~enc.finished /\ \E c \in Replies : /\ c.choice[1].tool_calls = <<>>
                                            /\ e.chunks = Append(enc.chunks, c)

OpensCall(event, e) ==
  /\ StartsOne(event, ToolKinds) /\ ~InTool(enc) /\ ~enc.finished /\ ~e.finished
  /\ e.next_native_tool = enc.next_native_tool + 1
  /\ e.pending_tools = enc.pending_tools /\ e.chunks = enc.chunks
  /\ e.active.kind = IF event.block.kind = "custom_tool_use" THEN "CustomTool" ELSE "Tool"
  /\ e.active.native_index = enc.next_native_tool
  /\ e.active.tool_id = event.block.id /\ e.active.tool_name = event.block.name
  /\ e.active.tool_input = event.block.text
  /\ e.active.fragments = <<>> /\ ~e.active.tool_started

GrowsCall(event, e) ==
  /\ InTool(enc) /\ IsDelta(event) /\ ~enc.finished
  /\ Queues(enc, e, event.delta.text) /\ event.delta.text \in Text

ClosesCall(event, e) ==
  /\ InTool(enc) /\ ~InTool(e) /\ IsStop(event) /\ ~enc.finished
  /\ \E c \in Encoders :
       /\ IF enc.active.fragments = <<>> THEN Queues(enc, c, enc.active.tool_input) ELSE c = enc
       /\ Concat(c.active.fragments) = enc.active.tool_input
       /\ e.pending_tools = c.pending_tools /\ e.chunks = c.chunks
       /\ e.next_native_tool = c.next_native_tool /\ e.finished = c.finished

SendsCalls(event, e) ==
  /\ ~InTool(enc) /\ ~InTool(e) /\ event.type = "message_delta" /\ ~enc.finished /\ e.finished
  /\ e.next_native_tool = enc.next_native_tool
  /\ \E c \in Replies : /\ c.choice[1].tool_calls = <<>>
                        /\ e.chunks = enc.chunks \o Append(enc.pending_tools, c)

CallsKept(event, e) ==
  \/ Plain(event, e)
  \/ OpensCall(event, e)
  \/ GrowsCall(event, e)
  \/ ClosesCall(event, e)
  \/ SendsCalls(event, e)

Effect(event) ==
  \E e \in Encoders :
    /\ Accepted(event, e)
    /\ MarksKept(event, e) /\ e.losses = enc.losses \o Added(event)
    /\ ContentKept(event, e) /\ CallsKept(event, e)

(* Nothing is sent for an event without a fragment. *)
LEMMA SilentContent ==
  ASSUME NEW event, NEW e \in Encoders, e.chunks = enc.chunks,
         e.pending_tools = enc.pending_tools,
         ~IsDelta(event) \/ event.delta.type \notin {"text_delta", "thinking_delta"}
  PROVE  ContentKept(event, e)
<1>1. FragmentsIn(event) = <<>>  BY DEF FragmentsIn
<1>2. ASSUME enc.chunks \in Seq(Replies)
      PROVE  ContentIn(enc.chunks) \o <<>> = ContentIn(enc.chunks)
  <2>1. PICK s : s = enc.chunks  OBVIOUS
  <2>2. s \in Seq(Replies)  BY <1>2, <2>1
  <2>3. ContentIn(s) \in Seq(Deltas)  BY <2>2, ContentJoins
  <2>. QED BY <2>1, <2>3
<1>. QED BY <1>1, <1>2 DEF ContentKept, Speaks

(* One chunk is sent. *)
LEMMA SentContent ==
  ASSUME NEW event, NEW e \in Encoders, NEW c \in Replies, e.chunks = Append(enc.chunks, c),
         e.pending_tools = enc.pending_tools, ContentOf(c) = FragmentsIn(event)
  PROVE  ContentKept(event, e)
<1>1. PICK s : s = enc.chunks  OBVIOUS
<1>2. ASSUME s \in Seq(Replies)
      PROVE  /\ ContentIn(Append(s, c)) = ContentIn(s) \o ContentOf(c)
             /\ Append(s, c) \in Seq(Replies)
  BY <1>2, ContentGrows
<1>. QED BY <1>1, <1>2 DEF ContentKept, Speaks

(* One fragment of a call is queued. *)
LEMMA QueuedContent ==
  ASSUME NEW event, TypeOK, NEW e \in Encoders, e.chunks = enc.chunks, NEW text \in Text,
         e.pending_tools = Append(enc.pending_tools, ArgumentChunk(enc.active, text)),
         ~IsDelta(event) \/ event.delta.type \notin {"text_delta", "thinking_delta"}
  PROVE  ContentKept(event, e)
<1>1. PICK c, p, q, l : /\ c = ArgumentChunk(enc.active, text)
                        /\ p = enc.pending_tools /\ q = e.pending_tools /\ l = Len(p)
  OBVIOUS
<1>2. c \in Replies /\ ContentOf(c) = <<>>
  <2>1. enc.active \in ActiveBlocks  BY DEF TypeOK, Encoders
  <2>2. PICK call \in NativeCalls : c = CallChunk(call) /\ Says(call, enc.active, text)
    BY <1>1, <2>1, ArgumentCall
  <2>. QED BY <2>2, ReplyContent
<1>3. ASSUME p \in Seq(Replies), Quiet(p)
      PROVE  q \in Seq(Replies) /\ Quiet(q)
  <2>1. /\ q \in Seq(Replies) /\ l \in Nat /\ Len(q) = l + 1 /\ q[l + 1] = c
        /\ \A k \in 1..l : q[k] = p[k]
    BY <1>1, <1>2, <1>3
  <2>2. \A k \in 1..(l + 1) : k = l + 1 \/ k \in 1..l  BY <2>1
  <2>. QED BY <1>1, <1>2, <1>3, <2>1, <2>2 DEF Quiet
<1>4. FragmentsIn(event) = <<>>  BY DEF FragmentsIn
<1>5. ASSUME enc.chunks \in Seq(Replies)
      PROVE  ContentIn(enc.chunks) \o <<>> = ContentIn(enc.chunks)
  <2>1. PICK s : s = enc.chunks  OBVIOUS
  <2>2. s \in Seq(Replies)  BY <1>5, <2>1
  <2>3. ContentIn(s) \in Seq(Deltas)  BY <2>2, ContentJoins
  <2>. QED BY <2>1, <2>3
<1>. QED BY <1>1, <1>3, <1>4, <1>5 DEF ContentKept, Speaks

(* A block starts. *)
LEMMA StartKept ==
  ASSUME TypeOK, NEW event \in Events, IsStart(event), ~Ended(event), BlockStartInOrder(event),
         NEW e \in Encoders, Accepted(event, e),
         e.event_ordinal = enc.event_ordinal,
         e.next_ir_index = enc.next_ir_index + 1, e.finished = enc.finished,
         e.tool_seen <=> enc.tool_seen \/ event.block.kind \in ToolKinds,
         e.custom_seen <=> enc.custom_seen \/ event.block.kind \in ApplyPatchKinds,
         e.ordering_degrade <=>
           enc.ordering_degrade \/ (enc.tool_seen /\ event.block.kind = "text"),
         e.active.kind # "none", e.active.index = event.index,
         e.active.kind = "Text" =>
           /\ event.block.kind = "text"
           /\ e.active.citation_loss_seen <=> event.block.citations # <<>>,
         e.chunks = enc.chunks, e.pending_tools = enc.pending_tools,
         e.losses = enc.losses \o Added(event), CallsKept(event, e)
  PROVE  Effect(event)
<1>1. enc.active = Idle /\ event.index = enc.next_ir_index /\ ~enc.finished
  BY InOrderFacts
<1>2. event.type = "content_block_start" /\ ~IsDelta(event) /\ ~IsStop(event)
  BY DEF IsStart, IsDelta, IsStop
<1>3. \A kinds : StartsOne(event, kinds) <=> event.block.kind \in kinds
  BY DEF StartsOne
<1>4. MarksKept(event, e)  BY <1>1, <1>2, <1>3 DEF MarksKept, Cites
<1>5. ContentKept(event, e)  BY <1>2, SilentContent
<1>. QED BY <1>4, <1>5 DEF Effect

(* A block that is no call. *)
LEMMA PlainStart ==
  ASSUME TypeOK, NEW event \in Events, IsStart(event), ~Ended(event), BlockStartInOrder(event),
         NEW e \in Encoders, ~InTool(e), event.block.kind \notin ToolKinds,
         e.next_native_tool = enc.next_native_tool, e.pending_tools = enc.pending_tools,
         e.finished = enc.finished, e.chunks = enc.chunks
  PROVE  CallsKept(event, e)
<1>1. ~InTool(enc)  BY InOrderFacts, IdleType DEF InTool
<1>. QED BY <1>1 DEF CallsKept, Plain, StartsOne

(* The marks and the output of an encoder. *)
SameMarks(d, e) ==
  /\ e.tool_seen = d.tool_seen /\ e.custom_seen = d.custom_seen
  /\ e.ordering_degrade = d.ordering_degrade /\ e.finished = d.finished
  /\ e.event_ordinal = d.event_ordinal /\ e.next_native_tool = d.next_native_tool
  /\ e.next_ir_index = d.next_ir_index

SameOutput(d, e) ==
  e.chunks = d.chunks /\ e.pending_tools = d.pending_tools /\ e.losses = d.losses

LEMMA LoseKeeps ==
  ASSUME NEW d \in Encoders, NEW ordinal \in Int, NEW field \in LossFields,
         NEW e, e = Lose(d, ordinal, field)
  PROVE  /\ e \in Encoders /\ SameMarks(d, e) /\ e.active = d.active
         /\ e.chunks = d.chunks /\ e.pending_tools = d.pending_tools
         /\ e.losses = d.losses \o <<<<ordinal, field>>>>
<1>1. PICK losses, loss, old, S :
        /\ losses = Append(old, loss) /\ loss = <<ordinal, field>>
        /\ old = d.losses /\ S = Int \X LossFields
  OBVIOUS
<1>2. loss \in S /\ old \in Seq(S)  BY <1>1 DEF Encoders
<1>3. losses \in Seq(S) /\ losses = old \o <<loss>>
  <2>1. losses = Append(old, loss)  BY <1>1
  <2>. QED BY <1>2, <2>1
<1>4. e = [d EXCEPT !.losses = losses]  BY <1>1 DEF Lose, Encoders
<1>5. e \in Encoders /\ e.losses = losses /\ e.active = d.active
  <2>1. losses \in Seq(Int \X LossFields)  BY <1>1, <1>3
  <2>. QED BY <1>4, <2>1 DEF Encoders
<1>6. SameMarks(d, e) /\ e.chunks = d.chunks /\ e.pending_tools = d.pending_tools
  BY <1>4 DEF Encoders, SameMarks
<1>. QED BY <1>1, <1>3, <1>5, <1>6

(* The next index is taken. *)
LEMMA IndexedKeeps ==
  ASSUME TypeOK, NEW event \in Events, IsStart(event), ~Ended(event), BlockStartInOrder(event)
  PROVE  /\ Indexed(enc) \in Encoders /\ SameOutput(enc, Indexed(enc))
         /\ Indexed(enc).next_ir_index = enc.next_ir_index + 1
         /\ Indexed(enc).tool_seen = enc.tool_seen /\ Indexed(enc).custom_seen = enc.custom_seen
         /\ Indexed(enc).ordering_degrade = enc.ordering_degrade
         /\ Indexed(enc).finished = enc.finished
         /\ Indexed(enc).event_ordinal = enc.event_ordinal
         /\ Indexed(enc).next_native_tool = enc.next_native_tool
         /\ enc.event_ordinal \in Int /\ event.index \in Int
<1>1. enc \in Encoders /\ event.index \in Nat  BY InOrderFacts
<1>2. PICK n : n = enc.next_ir_index + 1  OBVIOUS
<1>3. n \in Nat  BY <1>1, <1>2 DEF Encoders
<1>4. Indexed(enc) = [enc EXCEPT !.next_ir_index = n]
  BY <1>1, <1>2 DEF Indexed, Encoders
<1>5. PICK d : d = Indexed(enc)  OBVIOUS
<1>6. d \in Encoders /\ d.next_ir_index = n /\ d.tool_seen = enc.tool_seen
      /\ d.custom_seen = enc.custom_seen /\ d.ordering_degrade = enc.ordering_degrade
  BY <1>1, <1>3, <1>4, <1>5 DEF Encoders
<1>7. d.finished = enc.finished /\ d.event_ordinal = enc.event_ordinal
      /\ d.next_native_tool = enc.next_native_tool
      /\ d.chunks = enc.chunks /\ d.pending_tools = enc.pending_tools /\ d.losses = enc.losses
  BY <1>1, <1>3, <1>4, <1>5 DEF Encoders
<1>8. enc.event_ordinal \in Int  BY <1>1 DEF Encoders
<1>. QED BY <1>1, <1>2, <1>5, <1>6, <1>7, <1>8 DEF SameOutput

(* What is added for each event. *)
LEMMA AddedFacts ==
  ASSUME NEW event
  PROVE  /\ IsStart(event) =>
              Added(event) =
                IF event.block.kind \in OmittedKinds \union ApplyPatchKinds
                THEN <<<<enc.event_ordinal, "type">>>>
                ELSE IF event.block.kind = "thinking" /\ event.block.signature # <<>>
                THEN <<<<enc.event_ordinal, "signature">>>>
                ELSE IF event.block.kind = "text" /\ event.block.citations # <<>>
                THEN <<<<enc.event_ordinal, "citations">>>>
                ELSE <<>>
         /\ IsDelta(event) =>
              Added(event) =
                IF event.delta.type = "signature_delta"
                THEN <<<<enc.event_ordinal, "signature">>>>
                ELSE IF event.delta.type = "citation_delta" /\ ~enc.active.citation_loss_seen
                THEN <<<<enc.event_ordinal, "citations">>>>
                ELSE <<>>
         /\ event.type \in {"message_start", "content_block_stop", "message_done"} =>
              Added(event) = <<>>
         /\ event.type = "message_delta" => Added(event) = StopLosses(event)
<1>1. CASE IsStart(event)
  <2>1. event.type = "content_block_start"  BY <1>1 DEF IsStart
  <2>2. \A kinds : StartsOne(event, kinds) <=> event.block.kind \in kinds
    BY <1>1 DEF StartsOne
  <2>. QED BY <2>1, <2>2 DEF Added, Omits, Signs, Cites, IsDelta
<1>2. CASE IsDelta(event)
  <2>1. event.type = "content_block_delta"  BY <1>2 DEF IsDelta
  <2>2. \A kinds : ~StartsOne(event, kinds)  BY <2>1 DEF StartsOne, IsStart
  <2>. QED BY <1>2, <2>1, <2>2 DEF Added, Omits, Signs, Cites, IsStart
<1>3. CASE ~IsStart(event) /\ ~IsDelta(event)
  <2>1. ~Omits(event) /\ ~Signs(event) /\ ~Cites(event)
    BY <1>3 DEF Omits, Signs, Cites, StartsOne
  <2>. QED BY <1>3, <2>1 DEF Added
<1>. QED BY <1>1, <1>2, <1>3

LEMMA NoneAdded ==
  ASSUME NEW e \in Encoders, NEW added, added = <<>>
  PROVE  e.losses \o added = e.losses
<1>1. PICK losses, S : losses = e.losses /\ S = Int \X LossFields  OBVIOUS
<1>2. losses \in Seq(S)  BY <1>1 DEF Encoders
<1>3. losses \o <<>> = losses  BY <1>2
<1>. QED BY <1>1, <1>3

LEMMA TextStartEffect ==
  ASSUME TypeOK, NEW event \in Events, ApplyTextStart(event)
  PROVE  Effect(event)
<1>1. /\ IsStart(event) /\ ~Ended(event) /\ BlockStartInOrder(event)
      /\ event.block.kind = "text"
  BY DEF ApplyTextStart, Starting
<1>2. PICK d, flag, degrade : /\ d = Indexed(enc) /\ flag = (event.block.citations # <<>>)
                              /\ degrade = (d.ordering_degrade \/ enc.tool_seen)
  OBVIOUS
<1>3. /\ d \in Encoders /\ SameOutput(enc, d) /\ d.next_ir_index = enc.next_ir_index + 1
      /\ d.tool_seen = enc.tool_seen /\ d.custom_seen = enc.custom_seen
      /\ d.ordering_degrade = enc.ordering_degrade /\ d.finished = enc.finished
      /\ d.event_ordinal = enc.event_ordinal /\ d.next_native_tool = enc.next_native_tool
      /\ enc.event_ordinal \in Int /\ event.index \in Int
  BY <1>1, <1>2, IndexedKeeps
<1>4. PICK base : base = Active("Text", event)  OBVIOUS
<1>5. base \in ActiveBlocks /\ base.kind = "Text" /\ base.index = event.index
  BY <1>3, <1>4, ActiveType DEF ActiveKinds
<1>6. PICK active : active = [base EXCEPT !.citation_loss_seen = flag]  OBVIOUS
<1>7. /\ active \in ActiveBlocks /\ active.kind = "Text" /\ active.index = event.index
      /\ active.citation_loss_seen = flag
  BY <1>2, <1>5, <1>6 DEF ActiveBlocks
<1>8. PICK opened : opened = [d EXCEPT !.ordering_degrade = degrade, !.active = active]
  OBVIOUS
<1>9. /\ opened \in Encoders /\ opened.active = active /\ opened.ordering_degrade = degrade
      /\ opened.tool_seen = d.tool_seen /\ opened.custom_seen = d.custom_seen
      /\ opened.finished = d.finished /\ opened.event_ordinal = d.event_ordinal
      /\ opened.next_native_tool = d.next_native_tool
      /\ opened.next_ir_index = d.next_ir_index /\ SameOutput(d, opened)
  BY <1>2, <1>3, <1>7, <1>8 DEF Encoders, SameOutput
<1>10. PICK e : e = IF flag THEN Lose(opened, enc.event_ordinal, "citations") ELSE opened
  OBVIOUS
<1>11. Accepted(event, e)  BY <1>2, <1>4, <1>6, <1>8, <1>10 DEF ApplyTextStart
<1>12. Added(event) = IF flag THEN <<<<enc.event_ordinal, "citations">>>> ELSE <<>>
  BY <1>1, <1>2, AddedFacts DEF OmittedKinds, ApplyPatchKinds
<1>13. /\ e \in Encoders /\ SameMarks(opened, e) /\ e.active = active
       /\ e.chunks = enc.chunks /\ e.pending_tools = enc.pending_tools
       /\ e.losses = enc.losses \o Added(event)
  <2>1. /\ opened.chunks = enc.chunks /\ opened.pending_tools = enc.pending_tools
        /\ opened.losses = enc.losses /\ enc \in Encoders
    BY <1>3, <1>9 DEF SameOutput, TypeOK
  <2>2. CASE flag
    <3>1. "citations" \in LossFields  BY DEF LossFields
    <3>2. e = Lose(opened, enc.event_ordinal, "citations")  BY <1>10, <2>2
    <3>3. opened \in Encoders /\ enc.event_ordinal \in Int  BY <1>3, <1>9
    <3>4. /\ e \in Encoders /\ SameMarks(opened, e) /\ e.active = opened.active
          /\ e.chunks = opened.chunks /\ e.pending_tools = opened.pending_tools
          /\ e.losses = opened.losses \o <<<<enc.event_ordinal, "citations">>>>
      BY <3>1, <3>2, <3>3, LoseKeeps
    <3>5. Added(event) = <<<<enc.event_ordinal, "citations">>>>  BY <1>12, <2>2
    <3>6. e.losses = enc.losses \o Added(event)  BY <2>1, <3>4, <3>5
    <3>. QED BY <1>9, <2>1, <3>4, <3>6
  <2>3. CASE ~flag
    <3>1. enc.losses \o Added(event) = enc.losses
      BY <1>12, <2>1, <2>3, NoneAdded
    <3>. QED BY <1>9, <1>10, <2>1, <2>3, <3>1 DEF SameMarks
  <2>. QED BY <1>2, <2>2, <2>3
<1>14. /\ event.block.kind \notin ToolKinds /\ event.block.kind \notin ApplyPatchKinds
       /\ ~InTool(e)
  BY <1>1, <1>7, <1>13 DEF ToolKinds, ApplyPatchKinds, InTool
<1>15. /\ e.event_ordinal = enc.event_ordinal /\ e.finished = enc.finished
       /\ e.next_ir_index = enc.next_ir_index + 1
       /\ e.next_native_tool = enc.next_native_tool
       /\ e.tool_seen = enc.tool_seen /\ e.custom_seen = enc.custom_seen
       /\ e.ordering_degrade = degrade
  BY <1>3, <1>9, <1>13 DEF SameMarks
<1>16. CallsKept(event, e)  BY <1>1, <1>13, <1>14, <1>15, PlainStart
<1>. QED BY <1>1, <1>2, <1>3, <1>7, <1>11, <1>13, <1>14, <1>15, <1>16, StartKept

LEMMA ThinkingStartEffect ==
  ASSUME TypeOK, NEW event \in Events, ApplyThinkingStart(event)
  PROVE  Effect(event)
<1>1. /\ IsStart(event) /\ ~Ended(event) /\ BlockStartInOrder(event)
      /\ event.block.kind = "thinking"
  BY DEF ApplyThinkingStart, Starting
<1>2. PICK d, flag : d = Indexed(enc) /\ flag = (event.block.signature # <<>>)
  OBVIOUS
<1>3. /\ d \in Encoders /\ SameOutput(enc, d) /\ d.next_ir_index = enc.next_ir_index + 1
      /\ d.tool_seen = enc.tool_seen /\ d.custom_seen = enc.custom_seen
      /\ d.ordering_degrade = enc.ordering_degrade /\ d.finished = enc.finished
      /\ d.event_ordinal = enc.event_ordinal /\ d.next_native_tool = enc.next_native_tool
      /\ enc.event_ordinal \in Int /\ event.index \in Int
  BY <1>1, <1>2, IndexedKeeps
<1>4. PICK active : active = Active("Thinking", event)  OBVIOUS
<1>5. active \in ActiveBlocks /\ active.kind = "Thinking" /\ active.index = event.index
  BY <1>3, <1>4, ActiveType DEF ActiveKinds
<1>6. PICK opened : opened = [d EXCEPT !.active = active]  OBVIOUS
<1>7. /\ opened \in Encoders /\ opened.active = active /\ SameMarks(d, opened)
      /\ SameOutput(d, opened)
  BY <1>3, <1>5, <1>6 DEF Encoders, SameOutput, SameMarks
<1>8. PICK e : e = IF flag THEN Lose(opened, enc.event_ordinal, "signature") ELSE opened
  OBVIOUS
<1>9. Accepted(event, e)  BY <1>2, <1>4, <1>6, <1>8 DEF ApplyThinkingStart
<1>10. Added(event) = IF flag THEN <<<<enc.event_ordinal, "signature">>>> ELSE <<>>
  BY <1>1, <1>2, AddedFacts DEF OmittedKinds, ApplyPatchKinds
<1>11. /\ e \in Encoders /\ SameMarks(opened, e) /\ e.active = active
       /\ e.chunks = enc.chunks /\ e.pending_tools = enc.pending_tools
       /\ e.losses = enc.losses \o Added(event)
  <2>1. /\ opened.chunks = enc.chunks /\ opened.pending_tools = enc.pending_tools
        /\ opened.losses = enc.losses /\ enc \in Encoders
    BY <1>3, <1>7 DEF SameOutput, TypeOK
  <2>2. CASE flag
    <3>1. "signature" \in LossFields  BY DEF LossFields
    <3>2. e = Lose(opened, enc.event_ordinal, "signature")  BY <1>8, <2>2
    <3>3. opened \in Encoders /\ enc.event_ordinal \in Int  BY <1>3, <1>7
    <3>4. /\ e \in Encoders /\ SameMarks(opened, e) /\ e.active = opened.active
          /\ e.chunks = opened.chunks /\ e.pending_tools = opened.pending_tools
          /\ e.losses = opened.losses \o <<<<enc.event_ordinal, "signature">>>>
      BY <3>1, <3>2, <3>3, LoseKeeps
    <3>5. Added(event) = <<<<enc.event_ordinal, "signature">>>>  BY <1>10, <2>2
    <3>6. e.losses = enc.losses \o Added(event)  BY <2>1, <3>4, <3>5
    <3>. QED BY <1>7, <2>1, <3>4, <3>6
  <2>3. CASE ~flag
    <3>1. enc.losses \o Added(event) = enc.losses
      BY <1>10, <2>1, <2>3, NoneAdded
    <3>. QED BY <1>7, <1>8, <2>1, <2>3, <3>1 DEF SameMarks
  <2>. QED BY <1>2, <2>2, <2>3
<1>12. /\ event.block.kind \notin ToolKinds /\ event.block.kind \notin ApplyPatchKinds
       /\ event.block.kind # "text" /\ ~InTool(e)
  BY <1>1, <1>5, <1>11 DEF ToolKinds, ApplyPatchKinds, InTool
<1>13. /\ e.event_ordinal = enc.event_ordinal /\ e.finished = enc.finished
       /\ e.next_ir_index = enc.next_ir_index + 1
       /\ e.next_native_tool = enc.next_native_tool
       /\ e.tool_seen = enc.tool_seen /\ e.custom_seen = enc.custom_seen
       /\ e.ordering_degrade = enc.ordering_degrade
  BY <1>3, <1>7, <1>11 DEF SameMarks
<1>14. CallsKept(event, e)  BY <1>1, <1>11, <1>12, <1>13, PlainStart
<1>. QED BY <1>1, <1>5, <1>9, <1>11, <1>12, <1>13, <1>14, StartKept

LEMMA OmittedStartEffect ==
  ASSUME TypeOK, NEW event \in Events, ApplyOmittedStart(event) \/ ApplyPatchStart(event)
  PROVE  Effect(event)
<1>1. /\ IsStart(event) /\ ~Ended(event) /\ BlockStartInOrder(event)
      /\ event.block.kind \in OmittedKinds \union ApplyPatchKinds
  BY DEF ApplyOmittedStart, ApplyPatchStart, Starting
<1>2. PICK d, patch : d = Indexed(enc) /\ patch = (event.block.kind \in ApplyPatchKinds)
  OBVIOUS
<1>3. /\ d \in Encoders /\ SameOutput(enc, d) /\ d.next_ir_index = enc.next_ir_index + 1
      /\ d.tool_seen = enc.tool_seen /\ d.custom_seen = enc.custom_seen
      /\ d.ordering_degrade = enc.ordering_degrade /\ d.finished = enc.finished
      /\ d.event_ordinal = enc.event_ordinal /\ d.next_native_tool = enc.next_native_tool
      /\ enc.event_ordinal \in Int /\ event.index \in Int
  BY <1>1, <1>2, IndexedKeeps
<1>4. \E opened \in Encoders :
        /\ Accepted(event, Lose(opened, enc.event_ordinal, "type"))
        /\ opened.active.kind \in {"Redacted", "Atomic"} /\ opened.active.index = event.index
        /\ opened.custom_seen = (d.custom_seen \/ patch)
        /\ opened.tool_seen = d.tool_seen /\ opened.ordering_degrade = d.ordering_degrade
        /\ opened.finished = d.finished /\ opened.event_ordinal = d.event_ordinal
        /\ opened.next_native_tool = d.next_native_tool
        /\ opened.next_ir_index = d.next_ir_index /\ SameOutput(d, opened)
  <2>1. CASE ApplyOmittedStart(event)
    <3>1. PICK active, opened : /\ active = Active("Redacted", event)
                                /\ opened = [d EXCEPT !.active = active]
      OBVIOUS
    <3>2. active \in ActiveBlocks /\ active.kind = "Redacted" /\ active.index = event.index
      BY <1>3, <3>1, ActiveType DEF ActiveKinds
    <3>3. /\ opened \in Encoders /\ opened.active = active /\ SameMarks(d, opened)
          /\ SameOutput(d, opened)
      BY <1>3, <3>1, <3>2 DEF Encoders, SameMarks, SameOutput
    <3>4. Accepted(event, Lose(opened, enc.event_ordinal, "type"))
      BY <1>2, <2>1, <3>1 DEF ApplyOmittedStart
    <3>5. ~patch /\ d.custom_seen \in BOOLEAN
      BY <1>2, <1>3, <2>1 DEF ApplyOmittedStart, Starting, OmittedKinds, ApplyPatchKinds, Encoders
    <3>. QED BY <3>2, <3>3, <3>4, <3>5 DEF SameMarks
  <2>2. CASE ApplyPatchStart(event)
    <3>1. PICK active, opened :
            /\ active = Active("Atomic", event)
            /\ opened = [d EXCEPT !.active = active, !.custom_seen = TRUE]
      OBVIOUS
    <3>2. active \in ActiveBlocks /\ active.kind = "Atomic" /\ active.index = event.index
      BY <1>3, <3>1, ActiveType DEF ActiveKinds
    <3>3. /\ opened \in Encoders /\ opened.active = active /\ opened.custom_seen
          /\ opened.tool_seen = d.tool_seen /\ opened.ordering_degrade = d.ordering_degrade
          /\ opened.finished = d.finished /\ opened.event_ordinal = d.event_ordinal
          /\ opened.next_native_tool = d.next_native_tool
          /\ opened.next_ir_index = d.next_ir_index
      BY <1>3, <3>1, <3>2 DEF Encoders
    <3>4. SameOutput(d, opened)  BY <1>3, <3>1 DEF Encoders, SameOutput
    <3>5. Accepted(event, Lose(opened, enc.event_ordinal, "type"))
      BY <1>2, <2>2, <3>1 DEF ApplyPatchStart
    <3>6. patch /\ opened.custom_seen = TRUE
      <4>1. opened.custom_seen \in BOOLEAN  BY <3>3 DEF Encoders
      <4>. QED BY <1>2, <2>2, <3>3, <4>1 DEF ApplyPatchStart, Starting
    <3>. QED BY <3>2, <3>3, <3>4, <3>5, <3>6
  <2>. QED BY <2>1, <2>2
<1>5. PICK opened \in Encoders :
        /\ Accepted(event, Lose(opened, enc.event_ordinal, "type"))
        /\ opened.active.kind \in {"Redacted", "Atomic"} /\ opened.active.index = event.index
        /\ opened.custom_seen = (d.custom_seen \/ patch)
        /\ opened.tool_seen = d.tool_seen /\ opened.ordering_degrade = d.ordering_degrade
        /\ opened.finished = d.finished /\ opened.event_ordinal = d.event_ordinal
        /\ opened.next_native_tool = d.next_native_tool
        /\ opened.next_ir_index = d.next_ir_index /\ SameOutput(d, opened)
  BY <1>4
<1>6. PICK e : e = Lose(opened, enc.event_ordinal, "type")  OBVIOUS
<1>7. Added(event) = <<<<enc.event_ordinal, "type">>>>  BY <1>1, AddedFacts
<1>8. /\ e \in Encoders /\ SameMarks(opened, e) /\ e.active = opened.active
      /\ e.chunks = enc.chunks /\ e.pending_tools = enc.pending_tools
      /\ e.losses = enc.losses \o Added(event)
  <2>1. /\ opened.chunks = enc.chunks /\ opened.pending_tools = enc.pending_tools
        /\ opened.losses = enc.losses
    BY <1>3, <1>5 DEF SameOutput
  <2>2. "type" \in LossFields  BY DEF LossFields
  <2>3. /\ e \in Encoders /\ SameMarks(opened, e) /\ e.active = opened.active
        /\ e.chunks = opened.chunks /\ e.pending_tools = opened.pending_tools
        /\ e.losses = opened.losses \o <<<<enc.event_ordinal, "type">>>>
    <3>1. PICK n, field : n = enc.event_ordinal /\ field = "type"  OBVIOUS
    <3>2. n \in Int /\ field \in LossFields /\ e = Lose(opened, n, field)
      BY <1>3, <1>6, <2>2, <3>1
    <3>3. /\ e \in Encoders /\ SameMarks(opened, e) /\ e.active = opened.active
          /\ e.chunks = opened.chunks /\ e.pending_tools = opened.pending_tools
          /\ e.losses = opened.losses \o <<<<n, field>>>>
      BY <3>2, LoseKeeps
    <3>. QED BY <3>1, <3>3
  <2>. QED BY <1>7, <2>1, <2>3
<1>9. /\ event.block.kind \notin ToolKinds /\ event.block.kind # "text"
      /\ e.active.kind # "Text" /\ e.active.kind # "none" /\ ~InTool(e)
  BY <1>1, <1>5, <1>8 DEF ToolKinds, OmittedKinds, ApplyPatchKinds, InTool
<1>10. /\ e.event_ordinal = enc.event_ordinal /\ e.finished = enc.finished
       /\ e.next_ir_index = enc.next_ir_index + 1
       /\ e.next_native_tool = enc.next_native_tool
       /\ e.tool_seen = enc.tool_seen /\ e.custom_seen = (enc.custom_seen \/ patch)
       /\ e.ordering_degrade = enc.ordering_degrade
  BY <1>3, <1>5, <1>8 DEF SameMarks
<1>11. CallsKept(event, e)  BY <1>1, <1>8, <1>9, <1>10, PlainStart
<1>. QED BY <1>1, <1>2, <1>5, <1>6, <1>8, <1>9, <1>10, <1>11, StartKept

(* The calls that a chunk carries. *)
LEMMA ReplyCalls ==
  /\ RoleChunk.choice[1].tool_calls = <<>>
  /\ \A text : /\ ContentChunk(text).choice[1].tool_calls = <<>>
               /\ ReasoningChunk(text).choice[1].tool_calls = <<>>
  /\ \A call : CallChunk(call).choice[1].tool_calls = <<call>>
  /\ \A finish, usage : FinishChunk(finish, usage).choice[1].tool_calls = <<>>
<1>1. PICK none, absent, yes, no : none = <<>> /\ absent = "absent" /\ yes = TRUE /\ no = FALSE
  OBVIOUS
<1>2. RoleChunk.choice[1].tool_calls = none
  <2>1. RoleChunk = Chunk(Some(Choice(yes, none, none, none, absent)), none)
    BY <1>1, Zenon DEF RoleChunk, None
  <2>. QED BY <2>1, ReplyFacts
<1>3. ASSUME NEW text
      PROVE  /\ ContentChunk(text).choice[1].tool_calls = none
             /\ ReasoningChunk(text).choice[1].tool_calls = none
  <2>1. /\ ContentChunk(text) = Chunk(Some(Choice(no, none, none, Some(text), absent)), none)
        /\ ReasoningChunk(text) = Chunk(Some(Choice(no, none, Some(text), none, absent)), none)
    BY <1>1, Zenon DEF ContentChunk, ReasoningChunk, None
  <2>. QED BY <2>1, ReplyFacts
<1>4. ASSUME NEW call
      PROVE  CallChunk(call).choice[1].tool_calls = <<call>>
  <2>1. PICK calls : calls = <<call>>  OBVIOUS
  <2>2. CallChunk(call) = Chunk(Some(Choice(no, calls, none, none, absent)), none)
    BY <1>1, <2>1, Zenon DEF CallChunk, None
  <2>. QED BY <2>1, <2>2, ReplyFacts
<1>5. ASSUME NEW finish, NEW usage
      PROVE  FinishChunk(finish, usage).choice[1].tool_calls = none
  <2>1. FinishChunk(finish, usage)
          = Chunk(Some(Choice(no, none, none, none, finish)), Some(usage))
    BY <1>1, Zenon DEF FinishChunk, None
  <2>. QED BY <2>1, ReplyFacts
<1>. QED BY <1>1, <1>2, <1>3, <1>4, <1>5

LEMMA SendKeeps ==
  ASSUME NEW d \in Encoders, NEW c \in WireChunks, NEW e, e = Send(d, c)
  PROVE  /\ e \in Encoders /\ SameMarks(d, e) /\ e.active = d.active
         /\ e.chunks = Append(d.chunks, c) /\ e.pending_tools = d.pending_tools
         /\ e.losses = d.losses
<1>1. PICK chunks : chunks = Append(d.chunks, c)  OBVIOUS
<1>2. chunks \in Seq(WireChunks)  BY <1>1 DEF Encoders
<1>3. e = [d EXCEPT !.chunks = chunks]  BY <1>1 DEF Send, Encoders
<1>4. e \in Encoders /\ e.chunks = chunks /\ e.active = d.active
  BY <1>2, <1>3 DEF Encoders
<1>5. SameMarks(d, e) /\ e.pending_tools = d.pending_tools /\ e.losses = d.losses
  BY <1>2, <1>3 DEF Encoders, SameMarks
<1>. QED BY <1>1, <1>4, <1>5

LEMMA QueueKeeps ==
  ASSUME NEW d \in Encoders, NEW text \in Text, NEW e, e = QueueFragment(d, text)
  PROVE  /\ e \in Encoders /\ SameMarks(d, e) /\ e.losses = d.losses
         /\ Queues(d, e, text)
         /\ e.active.kind = d.active.kind /\ e.active.index = d.active.index
         /\ e.active.fragments = Append(d.active.fragments, text) /\ e.active.tool_started
         /\ e.active.native_index = d.active.native_index
         /\ e.active.tool_id = d.active.tool_id /\ e.active.tool_name = d.active.tool_name
         /\ e.active.tool_input = d.active.tool_input
<1>1. PICK pending, fragments, old :
        /\ pending = Append(d.pending_tools, ArgumentChunk(d.active, text))
        /\ old = d.active
        /\ fragments = Append(old.fragments, text)
  OBVIOUS
<1>2. old \in ActiveBlocks /\ old.fragments \in Seq(Text) /\ d.pending_tools \in Seq(WireChunks)
  BY <1>1 DEF Encoders, ActiveBlocks
<1>3. pending \in Seq(WireChunks)  BY <1>1, <1>2, ArgumentType
<1>4. fragments \in Seq(Text)  BY <1>1, <1>2
<1>5. PICK active : active = [old EXCEPT !.fragments = fragments, !.tool_started = TRUE]
  OBVIOUS
<1>6. /\ active \in ActiveBlocks /\ active.kind = old.kind /\ active.index = old.index
      /\ active.fragments = fragments /\ active.tool_started
      /\ active.native_index = old.native_index /\ active.tool_id = old.tool_id
      /\ active.tool_name = old.tool_name /\ active.tool_input = old.tool_input
  BY <1>2, <1>4, <1>5 DEF ActiveBlocks
<1>7. e = [d EXCEPT !.pending_tools = pending, !.active = active]
  BY <1>1, <1>2, <1>5 DEF QueueFragment, Encoders, ActiveBlocks
<1>8. e \in Encoders /\ e.active = active /\ e.pending_tools = pending /\ e.chunks = d.chunks
  BY <1>3, <1>6, <1>7 DEF Encoders
<1>9. SameMarks(d, e) /\ e.losses = d.losses
  BY <1>3, <1>6, <1>7 DEF Encoders, SameMarks
<1>10. active = [d.active EXCEPT !.fragments = Append(@, text), !.tool_started = TRUE]
  BY <1>1, <1>2, <1>5 DEF ActiveBlocks
<1>11. Queues(d, e, text)  BY <1>1, <1>8, <1>9, <1>10 DEF Queues, SameMarks
<1>. QED BY <1>1, <1>6, <1>8, <1>9, <1>11

(* A call opens, or the block is refused. *)
LEMMA ToolStartEffect ==
  ASSUME TypeOK, NEW event \in Events, ApplyToolStart(event), ~failed'
  PROVE  Effect(event)
<1>1. /\ IsStart(event) /\ ~Ended(event) /\ BlockStartInOrder(event)
      /\ event.block.kind \in ToolKinds
  BY DEF ApplyToolStart, Starting
<1>2. PICK d : d = Indexed(enc)  OBVIOUS
<1>3. /\ d \in Encoders /\ SameOutput(enc, d) /\ d.next_ir_index = enc.next_ir_index + 1
      /\ d.tool_seen = enc.tool_seen /\ d.custom_seen = enc.custom_seen
      /\ d.ordering_degrade = enc.ordering_degrade /\ d.finished = enc.finished
      /\ d.event_ordinal = enc.event_ordinal /\ d.next_native_tool = enc.next_native_tool
      /\ enc.event_ordinal \in Int /\ event.index \in Int
  BY <1>1, <1>2, IndexedKeeps
<1>4. PICK b, kind : b = event.block
                     /\ kind = IF b.kind = "tool_use" THEN "Tool" ELSE "CustomTool"
  OBVIOUS
<1>5. b.id \in Tokens /\ b.name \in Text /\ b.text \in Text
  <2>1. b \in Blocks  BY <1>1, <1>4, InOrderFacts
  <2>. QED BY <2>1 DEF Blocks
<1>6. ~(b.id = "" \/ b.name = <<>>)
  <2>1. SUFFICES ASSUME b.id = "" \/ b.name = <<>>
                 PROVE  FALSE
    OBVIOUS
  <2>2. Refused(event, Counted(Indexed(enc)))
    BY <1>4, <2>1, Zenon DEF ApplyToolStart
  <2>. QED BY <2>2 DEF Refused
<1>7. PICK base : base = Active(kind, event)  OBVIOUS
<1>8. /\ base \in ActiveBlocks /\ base.kind = kind /\ base.index = event.index
      /\ base.fragments = <<>> /\ ~base.tool_started
  <2>1. kind \in ActiveKinds  BY <1>4 DEF ActiveKinds
  <2>2. ~base.tool_started  BY <1>7 DEF Active, Idle
  <2>. QED BY <1>3, <1>7, <2>1, <2>2, ActiveType
<1>9. PICK n, m : n = enc.next_native_tool /\ m = d.next_native_tool + 1
  OBVIOUS
<1>10. n \in Nat /\ m \in Nat  BY <1>3, <1>9 DEF Encoders
<1>11. PICK active : active = [base EXCEPT !.tool_id = b.id, !.tool_name = b.name,
                                           !.tool_input = b.text, !.native_index = n]
  OBVIOUS
<1>12. /\ active \in ActiveBlocks /\ active.kind = kind /\ active.index = event.index
       /\ active.fragments = <<>> /\ ~active.tool_started
       /\ active.tool_id = b.id /\ active.tool_name = b.name /\ active.tool_input = b.text
       /\ active.native_index = n
  BY <1>5, <1>8, <1>10, <1>11 DEF ActiveBlocks
<1>13. PICK e : e = [d EXCEPT !.next_native_tool = m, !.tool_seen = TRUE, !.active = active]
  OBVIOUS
<1>14. /\ e \in Encoders /\ e.active = active /\ e.tool_seen /\ e.next_native_tool = m
       /\ e.custom_seen = d.custom_seen /\ e.ordering_degrade = d.ordering_degrade
       /\ e.finished = d.finished /\ e.event_ordinal = d.event_ordinal
       /\ e.next_ir_index = d.next_ir_index
  BY <1>3, <1>10, <1>12, <1>13 DEF Encoders
<1>15. SameOutput(d, e)  BY <1>3, <1>10, <1>12, <1>13 DEF Encoders, SameOutput
<1>16. Accepted(event, e)
  BY <1>2, <1>4, <1>6, <1>7, <1>9, <1>11, <1>13, Zenon DEF ApplyToolStart
<1>17. e.losses = enc.losses \o Added(event)
  <2>1. Added(event) = <<>>
    BY <1>1, AddedFacts DEF OmittedKinds, ApplyPatchKinds, ToolKinds
  <2>2. enc.losses \o Added(event) = enc.losses  BY <2>1, NoneAdded DEF TypeOK
  <2>. QED BY <1>3, <1>15, <2>2 DEF SameOutput
<1>18. kind = IF b.kind = "custom_tool_use" THEN "CustomTool" ELSE "Tool"
  BY <1>1, <1>4 DEF ToolKinds
<1>19. ~InTool(enc) /\ ~enc.finished  BY <1>1, InOrderFacts, IdleType DEF InTool
<1>20. OpensCall(event, e)
  <2>1. StartsOne(event, ToolKinds)  BY <1>1 DEF StartsOne
  <2>2. e.pending_tools = enc.pending_tools /\ e.chunks = enc.chunks
    BY <1>3, <1>15 DEF SameOutput
  <2>3. /\ e.active.kind = IF event.block.kind = "custom_tool_use" THEN "CustomTool" ELSE "Tool"
        /\ e.active.native_index = enc.next_native_tool
        /\ e.active.tool_id = event.block.id /\ e.active.tool_name = event.block.name
        /\ e.active.tool_input = event.block.text
        /\ e.active.fragments = <<>> /\ ~e.active.tool_started
    BY <1>4, <1>9, <1>12, <1>14, <1>18
  <2>. QED BY <1>3, <1>9, <1>14, <1>19, <2>1, <2>2, <2>3 DEF OpensCall
<1>21. /\ kind \in {"Tool", "CustomTool"} /\ kind # "none" /\ kind # "Text"
       /\ event.block.kind # "text" /\ event.block.kind \notin ApplyPatchKinds
  BY <1>1, <1>4 DEF ToolKinds, ApplyPatchKinds
<1>. QED
  BY <1>1, <1>3, <1>12, <1>14, <1>15, <1>16, <1>17, <1>20, <1>21, StartKept
     DEF CallsKept, SameOutput

(* What a delta leaves. *)
LEMMA DeltaKept ==
  ASSUME NEW event \in Events, IsDelta(event), ~enc.finished,
         enc.active.kind # "none", event.index = enc.active.index,
         Cites(event) => enc.active.kind = "Text",
         NEW e \in Encoders, Accepted(event, e), SameMarks(enc, e),
         e.active.kind = enc.active.kind, e.active.index = enc.active.index,
         e.active.kind = "Text" =>
           (e.active.citation_loss_seen <=> enc.active.citation_loss_seen \/ Cites(event)),
         e.losses = enc.losses \o Added(event), ContentKept(event, e), CallsKept(event, e)
  PROVE  Effect(event)
<1>1. event.type = "content_block_delta" /\ ~IsStart(event)
  BY DEF IsDelta, IsStart
<1>2. \A kinds : ~StartsOne(event, kinds)  BY <1>1 DEF StartsOne
<1>3. MarksKept(event, e)  BY <1>1, <1>2 DEF MarksKept, SameMarks
<1>. QED BY <1>3 DEF Effect

LEMMA DeltaEffect ==
  ASSUME TypeOK, Consistent(enc), NEW event \in Events, ApplyDelta(event), ~failed'
  PROVE  Effect(event)
<1>1. /\ enc \in Encoders /\ IsDelta(event) /\ ~enc.done /\ ~enc.finished
      /\ event.delta \in Deltas
  <2>1. IsDelta(event) /\ ~enc.done /\ ~enc.finished
    BY DEF ApplyDelta, Ended, IsDelta
  <2>. QED BY <2>1, EncoderAssumption, EventForms DEF TypeOK
<1>2. PICK a, x, n : a = enc.active /\ x = event.delta /\ n = enc.event_ordinal
  OBVIOUS
<1>3. /\ a # Idle /\ event.index = a.index /\ Fits(a, x)
      /\ Accepted(event, AbsorbDelta(enc, x))
  <2>1. ~Refused(event, Counted(enc))  BY DEF Refused
  <2>. QED BY <1>2, <2>1 DEF ApplyDelta
<1>4. /\ a \in ActiveBlocks /\ a.kind # "none" /\ n \in Int
      /\ x.type \in DeltaTypes /\ x.text \in Text
  BY <1>1, <1>2, <1>3 DEF Encoders, Consistent, Deltas
<1>5. PICK e : e = AbsorbDelta(enc, x)  OBVIOUS
<1>6. Cites(event) <=> x.type = "citation_delta"
  BY <1>1, <1>2 DEF Cites, StartsOne, IsStart, IsDelta
<1>7. Cites(event) => a.kind = "Text"  BY <1>3, <1>6 DEF Fits
<1>8. \A kinds : ~StartsOne(event, kinds)
  BY <1>1 DEF StartsOne, IsStart, IsDelta
<1>9. \A added : added = <<>> => enc.losses \o added = enc.losses
  BY <1>1, NoneAdded
<1>10. CASE x.type \in {"text_delta", "thinking_delta"}
  <2>1. PICK c : c = IF x.type = "text_delta" THEN ContentChunk(x.text) ELSE ReasoningChunk(x.text)
    OBVIOUS
  <2>2. c \in WireChunks /\ c \in Replies /\ c.choice[1].tool_calls = <<>>
    BY <1>4, <2>1, PlainChunks, ReplyContent, ReplyCalls
  <2>3. e = Send(enc, c)  BY <1>5, <1>10, <2>1 DEF AbsorbDelta, SendContent
  <2>4. /\ e \in Encoders /\ SameMarks(enc, e) /\ e.active = a
        /\ e.chunks = Append(enc.chunks, c) /\ e.pending_tools = enc.pending_tools
        /\ e.losses = enc.losses
    BY <1>1, <1>2, <2>2, <2>3, SendKeeps
  <2>5. ContentOf(c) = FragmentsIn(event)
    <3>1. x = Delta(x.type, x.text)  BY <1>1, <1>2 DEF Delta, Deltas
    <3>2. ContentOf(c) = <<Delta(x.type, x.text)>>
      BY <1>4, <1>10, <2>1, ReplyContent
    <3>3. FragmentsIn(event) = <<x>>  BY <1>1, <1>2, <1>10 DEF FragmentsIn
    <3>. QED BY <3>1, <3>2, <3>3
  <2>6. ContentKept(event, e)  BY <2>2, <2>4, <2>5, SentContent
  <2>7. Added(event) = <<>>  BY <1>1, <1>2, <1>10, AddedFacts
  <2>8. ~InTool(enc) /\ ~InTool(e)  BY <1>2, <1>3, <1>10, <2>4 DEF Fits, InTool
  <2>9. CallsKept(event, e)
    BY <1>1, <1>8, <2>2, <2>4, <2>8 DEF CallsKept, Plain, SameMarks
  <2>10. a.citation_loss_seen <=> a.citation_loss_seen \/ Cites(event)
    BY <1>6, <1>10
  <2>. QED BY <1>1, <1>2, <1>3, <1>4, <1>5, <1>7, <1>9, <2>4, <2>6, <2>7, <2>9, <2>10, DeltaKept
<1>11. CASE x.type = "citation_delta"
  <2>1. ~InTool(enc) /\ a.kind = "Text"  BY <1>2, <1>3, <1>11 DEF Fits, InTool
  <2>2. CASE a.citation_loss_seen
    <3>1. e = enc  BY <1>2, <1>5, <1>11, <2>2 DEF AbsorbDelta
    <3>2. Added(event) = <<>>  BY <1>1, <1>2, <1>11, <2>2, AddedFacts
    <3>3. ContentKept(event, e)  BY <1>1, <1>2, <1>11, <3>1, SilentContent
    <3>4. CallsKept(event, e) /\ SameMarks(enc, e)
      BY <1>8, <2>1, <3>1 DEF CallsKept, Plain, SameMarks
    <3>. QED
      BY <1>1, <1>2, <1>3, <1>4, <1>5, <1>6, <1>7, <1>9, <1>11, <2>2, <3>1, <3>2, <3>3, <3>4,
         DeltaKept
  <2>3. CASE ~a.citation_loss_seen
    <3>1. PICK b, d : /\ b = [a EXCEPT !.citation_loss_seen = TRUE]
                      /\ d = [enc EXCEPT !.active = b]
      OBVIOUS
    <3>2. b \in ActiveBlocks /\ b.kind = a.kind /\ b.index = a.index /\ b.citation_loss_seen
      BY <1>4, <3>1 DEF ActiveBlocks
    <3>3. /\ d \in Encoders /\ d.active = b /\ SameMarks(enc, d) /\ SameOutput(enc, d)
          /\ d = [enc EXCEPT !.active.citation_loss_seen = TRUE]
      BY <1>1, <1>2, <3>1, <3>2 DEF Encoders, SameMarks, SameOutput
    <3>4. e = Lose(d, n, "citations")
      BY <1>2, <1>5, <1>11, <2>3, <3>3 DEF AbsorbDelta
    <3>5. "citations" \in LossFields  BY DEF LossFields
    <3>6. /\ e \in Encoders /\ SameMarks(d, e) /\ e.active = b
          /\ e.chunks = d.chunks /\ e.pending_tools = d.pending_tools
          /\ e.losses = d.losses \o <<<<n, "citations">>>>
      <4>1. PICK field : field = "citations"  OBVIOUS
      <4>2. d \in Encoders /\ n \in Int /\ field \in LossFields /\ e = Lose(d, n, field)
        BY <1>4, <3>3, <3>4, <3>5, <4>1
      <4>3. /\ e \in Encoders /\ SameMarks(d, e) /\ e.active = d.active
            /\ e.chunks = d.chunks /\ e.pending_tools = d.pending_tools
            /\ e.losses = d.losses \o <<<<n, field>>>>
        BY <4>2, LoseKeeps
      <4>4. d.active = b  BY <3>3
      <4>. QED BY <4>1, <4>3, <4>4
    <3>7. Added(event) = <<<<n, "citations">>>>
      BY <1>1, <1>2, <1>11, <2>3, AddedFacts
    <3>8. /\ e.losses = enc.losses \o Added(event) /\ SameMarks(enc, e)
          /\ e.chunks = enc.chunks /\ e.pending_tools = enc.pending_tools
      BY <3>3, <3>6, <3>7 DEF SameMarks, SameOutput
    <3>9. ContentKept(event, e)  BY <1>1, <1>2, <1>11, <3>6, <3>8, SilentContent
    <3>10. CallsKept(event, e)
      BY <1>2, <1>8, <2>1, <3>2, <3>6, <3>8 DEF CallsKept, Plain, SameMarks, InTool
    <3>. QED
      BY <1>1, <1>2, <1>3, <1>4, <1>5, <1>6, <1>7, <1>11, <3>2, <3>6, <3>8, <3>9, <3>10,
         DeltaKept
  <2>. QED BY <2>2, <2>3
<1>12. CASE x.type = "signature_delta"
  <2>1. ~InTool(enc) /\ a.kind = "Thinking"
    BY <1>2, <1>3, <1>12 DEF Fits, InTool
  <2>2. PICK b, d : b = [a EXCEPT !.signature_seen = TRUE] /\ d = [enc EXCEPT !.active = b]
    OBVIOUS
  <2>3. b \in ActiveBlocks /\ b.kind = a.kind /\ b.index = a.index
    BY <1>4, <2>2 DEF ActiveBlocks
  <2>4. /\ d \in Encoders /\ d.active = b /\ SameMarks(enc, d) /\ SameOutput(enc, d)
        /\ d = [enc EXCEPT !.active.signature_seen = TRUE]
    BY <1>1, <1>2, <2>2, <2>3 DEF Encoders, SameMarks, SameOutput
  <2>5. e = Lose(d, n, "signature")  BY <1>2, <1>5, <1>12, <2>4 DEF AbsorbDelta
  <2>6. "signature" \in LossFields  BY DEF LossFields
  <2>7. /\ e \in Encoders /\ SameMarks(d, e) /\ e.active = b
        /\ e.chunks = d.chunks /\ e.pending_tools = d.pending_tools
        /\ e.losses = d.losses \o <<<<n, "signature">>>>
    <3>1. PICK field : field = "signature"  OBVIOUS
    <3>2. d \in Encoders /\ n \in Int /\ field \in LossFields /\ e = Lose(d, n, field)
      BY <1>4, <2>4, <2>5, <2>6, <3>1
    <3>3. /\ e \in Encoders /\ SameMarks(d, e) /\ e.active = d.active
          /\ e.chunks = d.chunks /\ e.pending_tools = d.pending_tools
          /\ e.losses = d.losses \o <<<<n, field>>>>
      BY <3>2, LoseKeeps
    <3>4. d.active = b  BY <2>4
    <3>. QED BY <3>1, <3>3, <3>4
  <2>8. Added(event) = <<<<n, "signature">>>>  BY <1>1, <1>2, <1>12, AddedFacts
  <2>9. /\ e.losses = enc.losses \o Added(event) /\ SameMarks(enc, e)
        /\ e.chunks = enc.chunks /\ e.pending_tools = enc.pending_tools
    BY <2>4, <2>7, <2>8 DEF SameMarks, SameOutput
  <2>10. ContentKept(event, e)  BY <1>1, <1>2, <1>12, <2>7, <2>9, SilentContent
  <2>11. CallsKept(event, e)
    BY <1>2, <1>8, <2>1, <2>3, <2>7, <2>9 DEF CallsKept, Plain, SameMarks, InTool
  <2>. QED BY <1>1, <1>2, <1>3, <1>4, <1>5, <1>7, <2>1, <2>3, <2>7, <2>9, <2>10, <2>11, DeltaKept
<1>13. CASE x.type \in {"input_json_delta", "custom_tool_input_delta"}
  <2>1. InTool(enc) /\ a.kind # "Text"  BY <1>2, <1>3, <1>13 DEF Fits, InTool
  <2>2. e = QueueFragment(enc, x.text)  BY <1>5, <1>13, SMTT(60) DEF AbsorbDelta
  <2>3. /\ e \in Encoders /\ SameMarks(enc, e) /\ e.losses = enc.losses
        /\ Queues(enc, e, x.text)
        /\ e.active.kind = a.kind /\ e.active.index = a.index
    BY <1>1, <1>2, <1>4, <2>2, QueueKeeps
  <2>4. Added(event) = <<>>  BY <1>1, <1>2, <1>13, AddedFacts
  <2>5. ContentKept(event, e)
    BY <1>1, <1>2, <1>4, <1>13, <2>3, QueuedContent DEF Queues
  <2>6. CallsKept(event, e)
    BY <1>1, <1>2, <1>4, <2>1, <2>3 DEF CallsKept, GrowsCall
  <2>. QED BY <1>1, <1>2, <1>3, <1>4, <1>5, <1>7, <1>9, <2>1, <2>3, <2>4, <2>5, <2>6, DeltaKept
<1>. QED BY <1>4, <1>10, <1>11, <1>12, <1>13 DEF DeltaTypes

(* An event that neither starts nor continues a block. *)
LEMMA OtherKept ==
  ASSUME NEW event, ~IsStart(event), ~IsDelta(event), NEW e \in Encoders,
         e.event_ordinal = enc.event_ordinal, e.next_ir_index = enc.next_ir_index,
         e.tool_seen = enc.tool_seen, e.custom_seen = enc.custom_seen,
         e.ordering_degrade = enc.ordering_degrade,
         e.finished <=> enc.finished \/ event.type = "message_delta",
         enc.finished => event.type = "message_done", e.active.kind = "none"
  PROVE  MarksKept(event, e) /\ ~InTool(e) /\ FragmentsIn(event) = <<>>
<1>1. \A kinds : ~StartsOne(event, kinds)  BY DEF StartsOne
<1>. QED BY <1>1 DEF MarksKept, InTool, FragmentsIn

(* A message starts once. *)
LEMMA MessageStartEffect ==
  ASSUME TypeOK, Consistent(enc), NEW event \in Events, ApplyMessageStart(event), ~failed'
  PROVE  Effect(event)
<1>1. /\ enc \in Encoders /\ event.type = "message_start" /\ ~enc.finished
      /\ ~IsStart(event) /\ ~IsDelta(event)
  BY DEF TypeOK, ApplyMessageStart, Ended, IsStart, IsDelta
<1>2. PICK d, c : d = [enc EXCEPT !.started = TRUE] /\ c = RoleChunk  OBVIOUS
<1>3. /\ d \in Encoders /\ d.active = enc.active /\ SameMarks(enc, d) /\ SameOutput(enc, d)
  BY <1>1, <1>2 DEF Encoders, SameMarks, SameOutput
<1>4. PICK e : e = Send(d, c)  OBVIOUS
<1>5. ~enc.started /\ Accepted(event, e)
  <2>1. ~Refused(event, Counted(enc))  BY DEF Refused
  <2>. QED BY <1>2, <1>4, <2>1 DEF ApplyMessageStart
<1>6. c \in Replies /\ c \in WireChunks /\ ContentOf(c) = <<>> /\ c.choice[1].tool_calls = <<>>
  BY <1>2, ReplyContent, ReplyCalls, PlainChunks
<1>7. /\ e \in Encoders /\ SameMarks(d, e) /\ e.active = d.active
      /\ e.chunks = Append(d.chunks, c) /\ e.pending_tools = d.pending_tools
      /\ e.losses = d.losses
  BY <1>3, <1>4, <1>6, SendKeeps
<1>8. /\ e.chunks = Append(enc.chunks, c) /\ e.pending_tools = enc.pending_tools
      /\ e.losses = enc.losses /\ SameMarks(enc, e) /\ e.active = enc.active
  BY <1>3, <1>7 DEF SameMarks, SameOutput
<1>9. enc.active.kind = "none"  BY <1>5, IdleType DEF Consistent
<1>10. MarksKept(event, e) /\ ~InTool(e) /\ FragmentsIn(event) = <<>>
  BY <1>1, <1>7, <1>8, <1>9, OtherKept DEF SameMarks
<1>11. ContentKept(event, e)  BY <1>6, <1>7, <1>8, <1>10, SentContent
<1>12. e.losses = enc.losses \o Added(event)
  BY <1>1, <1>8, AddedFacts, NoneAdded
<1>13. ~InTool(enc) /\ ~StartsOne(event, ToolKinds)
  BY <1>1, <1>9 DEF InTool, StartsOne
<1>14. CallsKept(event, e)
  BY <1>1, <1>6, <1>8, <1>10, <1>13 DEF CallsKept, Plain, SameMarks
<1>. QED BY <1>5, <1>7, <1>10, <1>11, <1>12, <1>14 DEF Effect

(* A block closes; a call without a fragment gets one. *)
LEMMA StopEffect ==
  ASSUME TypeOK, Consistent(enc), NEW event \in Events, ApplyBlockStop(event), ~failed'
  PROVE  Effect(event)
<1>1. /\ enc \in Encoders /\ IsStop(event) /\ ~enc.finished
      /\ event.type = "content_block_stop" /\ ~IsStart(event) /\ ~IsDelta(event)
  BY DEF TypeOK, ApplyBlockStop, Ended, IsStop, IsStart, IsDelta
<1>2. PICK c, idle, e : c = Completed(enc) /\ idle = Idle /\ e = [c EXCEPT !.active = idle]
  OBVIOUS
<1>3. /\ Accepted(event, e) /\ enc.active # Idle
      /\ InTool(enc) => Concat(c.active.fragments) = enc.active.tool_input
  <2>1. ~Refused(event, Counted([enc EXCEPT !.active = Idle])) /\ ~Refused(event, Counted(e))
    BY DEF Refused
  <2>. QED BY <1>2, <2>1 DEF ApplyBlockStop, InTool
<1>4. PICK text : text = enc.active.tool_input  OBVIOUS
<1>5. text \in Text  BY <1>1, <1>4 DEF Encoders, ActiveBlocks
<1>6. /\ c \in Encoders /\ SameMarks(enc, c) /\ c.losses = enc.losses
      /\ ContentKept(event, c) /\ c.chunks = enc.chunks
      /\ IF InTool(enc) /\ enc.active.fragments = <<>> THEN Queues(enc, c, text) ELSE c = enc
  <2>1. CASE InTool(enc) /\ enc.active.fragments = <<>>
    <3>1. c = QueueFragment(enc, text)
      BY <1>2, <1>4, <2>1 DEF Completed, InTool
    <3>2. /\ c \in Encoders /\ SameMarks(enc, c) /\ c.losses = enc.losses
          /\ Queues(enc, c, text)
      BY <1>1, <1>5, <3>1, QueueKeeps
    <3>3. ContentKept(event, c)  BY <1>1, <1>5, <3>2, QueuedContent DEF Queues
    <3>. QED BY <2>1, <3>2, <3>3 DEF Queues
  <2>2. CASE ~(InTool(enc) /\ enc.active.fragments = <<>>)
    <3>1. c = enc  BY <1>2, <2>2 DEF Completed, InTool
    <3>2. ContentKept(event, c)  BY <1>1, <3>1, SilentContent
    <3>. QED BY <1>1, <2>2, <3>1, <3>2 DEF SameMarks
  <2>. QED BY <2>1, <2>2
<1>7. idle \in ActiveBlocks /\ idle.kind = "none"  BY <1>2, IdleType
<1>8. e \in Encoders /\ e.active = idle /\ SameMarks(c, e) /\ SameOutput(c, e)
  BY <1>2, <1>6, <1>7 DEF Encoders, SameMarks, SameOutput
<1>9. e.active.kind = "none" /\ e.losses = enc.losses /\ SameMarks(enc, e)
  BY <1>6, <1>7, <1>8 DEF SameMarks, SameOutput
<1>10. MarksKept(event, e) /\ ~InTool(e)
  BY <1>1, <1>8, <1>9, OtherKept DEF SameMarks
<1>11. ContentKept(event, e)  BY <1>6, <1>8 DEF ContentKept, Speaks, SameOutput
<1>12. e.losses = enc.losses \o Added(event)
  BY <1>1, <1>9, AddedFacts, NoneAdded
<1>13. CallsKept(event, e)
  <2>1. CASE InTool(enc)
    <3>1. /\ e.pending_tools = c.pending_tools /\ e.chunks = c.chunks
          /\ e.next_native_tool = c.next_native_tool /\ e.finished = c.finished
      BY <1>8 DEF SameMarks, SameOutput
    <3>2. ClosesCall(event, e)
      BY <1>1, <1>3, <1>4, <1>6, <1>10, <2>1, <3>1 DEF ClosesCall
    <3>. QED BY <3>2 DEF CallsKept
  <2>2. CASE ~InTool(enc)
    <3>1. e.chunks = enc.chunks /\ e.pending_tools = enc.pending_tools
      BY <1>6, <1>8, <2>2 DEF SameOutput
    <3>2. ~StartsOne(event, ToolKinds)  BY <1>1 DEF StartsOne
    <3>. QED BY <1>9, <1>10, <2>2, <3>1, <3>2 DEF CallsKept, Plain, SameMarks
  <2>. QED BY <2>1, <2>2
<1>. QED BY <1>3, <1>8, <1>9, <1>10, <1>11, <1>12, <1>13 DEF Effect

(* Chunks that have no content. *)
LEMMA QuietContent ==
  ASSUME NEW s \in Seq(Replies), Quiet(s)
  PROVE  ContentIn(s) = <<>>
<1>1. PICK F \in Sayings(Replies, Deltas) : /\ \A c \in Replies : F[c] = ContentOf(c)
                                            /\ \A v \in Seq(Replies) : ContentIn(v) = JoinOf(F, v)
  BY ContentIsJoin
<1>2. Silent(F, s)  BY <1>1 DEF Quiet, Silent
<1>3. JoinOf(F, s) = <<>>  BY <1>2, JoinOfNone
<1>. QED BY <1>1, <1>3

(* Everything that waits is sent, and the end behind it. *)
LEMMA AllContent ==
  ASSUME NEW event, FragmentsIn(event) = <<>>, NEW e \in Encoders, NEW c \in Replies,
         ContentOf(c) = <<>>, e.chunks = enc.chunks \o Append(enc.pending_tools, c),
         e.pending_tools = <<>>
  PROVE  ContentKept(event, e)
<1>1. PICK s, p, t, u : /\ s = enc.chunks /\ p = enc.pending_tools
                        /\ t = Append(p, c) /\ u = s \o t
  OBVIOUS
<1>2. SUFFICES ASSUME s \in Seq(Replies), p \in Seq(Replies), Quiet(p)
               PROVE  Speaks(e) /\ ContentIn(u) = ContentIn(s) \o <<>>
  BY <1>1, <1>2 DEF ContentKept, Speaks
<1>3. t \in Seq(Replies) /\ ContentIn(t) = <<>>
  <2>1. ContentIn(p) = <<>>  BY <1>2, QuietContent
  <2>2. ContentIn(t) = ContentIn(p) \o ContentOf(c) /\ t \in Seq(Replies)
    BY <1>1, <1>2, ContentGrows
  <2>. QED BY <2>1, <2>2
<1>4. u \in Seq(Replies) /\ ContentIn(u) = ContentIn(s) \o ContentIn(t)
  BY <1>1, <1>2, <1>3, ContentJoins
<1>5. Speaks(e)
  <2>1. PICK none : none = e.pending_tools  OBVIOUS
  <2>2. none \in Seq(Replies) /\ Quiet(none)  BY <2>1 DEF Quiet
  <2>. QED BY <1>1, <1>4, <2>1, <2>2 DEF Speaks
<1>. QED BY <1>3, <1>4, <1>5

(* The message ends: the calls are sent and the losses of the message told. *)
LEMMA MessageDeltaEffect ==
  ASSUME TypeOK, Consistent(enc), NEW event \in Events, ApplyMessageDelta(event), ~failed'
  PROVE  Effect(event)
<1>1. /\ enc \in Encoders /\ event.type = "message_delta" /\ ~enc.done /\ ~enc.finished
      /\ event.stop_reason \in StopReasons /\ event.usage \in Usages
      /\ ~IsStart(event) /\ ~IsDelta(event)
  <2>1. event.type = "message_delta" /\ ~enc.done /\ ~enc.finished
    BY DEF ApplyMessageDelta, Ended
  <2>. QED BY <2>1, EncoderAssumption, EventForms DEF TypeOK, IsStart, IsDelta
<1>2. PICK input, output, total : /\ input = event.usage.input /\ output = event.usage.output
                                  /\ total = TotalTokens(event.usage)
  OBVIOUS
<1>3. input \in Int /\ output \in Int /\ total \in Int
  BY <1>1, <1>2 DEF Usages, TotalTokens
<1>4. Encodable(event)  BY DEF ApplyMessageDelta, Refused
<1>5. PICK stop, usage, finish :
        /\ stop = EffectiveStop(event.stop_reason)
        /\ usage = WireUsage(input, output, total)
        /\ finish = FinishOf(stop)
  OBVIOUS
<1>6. stop \in StopReasons /\ stop # "other"
  BY <1>1, <1>4, <1>5 DEF Encodable, EffectiveStop, StopReasons
<1>7. finish \in FinishReasons
  BY <1>5, <1>6 DEF FinishOf, FinishReasons, StopReasons
<1>8. usage \in WireUsages  BY <1>3, <1>5 DEF WireUsage, WireUsages
<1>9. PICK c, losses, chunks, pending :
        /\ c = FinishChunk(finish, usage)
        /\ losses = enc.losses \o StopLosses(event)
        /\ chunks = enc.chunks \o Append(enc.pending_tools, c)
        /\ pending = <<>>
  OBVIOUS
<1>10. c \in WireChunks /\ c \in Replies /\ ContentOf(c) = <<>> /\ c.choice[1].tool_calls = <<>>
  BY <1>7, <1>8, <1>9, PlainChunks, ReplyContent, ReplyCalls
<1>11. /\ enc.chunks \in Seq(WireChunks) /\ enc.pending_tools \in Seq(WireChunks)
       /\ enc.losses \in Seq(Int \X LossFields)
  BY <1>1 DEF Encoders
<1>12. chunks \in Seq(WireChunks) /\ pending \in Seq(WireChunks)
  BY <1>9, <1>10, <1>11
<1>13. losses \in Seq(Int \X LossFields)
  <2>1. PICK more, S : more = StopLosses(event) /\ S = Int \X LossFields
    OBVIOUS
  <2>2. more \in Seq(S)  BY <2>1, StopLossesType
  <2>. QED BY <1>9, <1>11, <2>1, <2>2
<1>14. PICK e : e = [enc EXCEPT !.finished = TRUE, !.pending_tools = pending,
                                !.chunks = chunks, !.losses = losses]
  OBVIOUS
<1>15. /\ e \in Encoders /\ e.finished /\ e.active = enc.active
       /\ e.next_ir_index = enc.next_ir_index /\ e.next_native_tool = enc.next_native_tool
       /\ e.tool_seen = enc.tool_seen /\ e.custom_seen = enc.custom_seen
       /\ e.ordering_degrade = enc.ordering_degrade /\ e.event_ordinal = enc.event_ordinal
  BY <1>1, <1>12, <1>13, <1>14 DEF Encoders
<1>16. e.chunks = chunks /\ e.pending_tools = pending /\ e.losses = losses
  BY <1>1, <1>12, <1>13, <1>14 DEF Encoders
<1>17. Accepted(event, e)
  BY <1>2, <1>4, <1>5, <1>9, <1>14 DEF ApplyMessageDelta
<1>18. enc.active.kind = "none"  BY <1>4, IdleType DEF Encodable
<1>19. MarksKept(event, e) /\ ~InTool(e) /\ FragmentsIn(event) = <<>>
  BY <1>1, <1>15, <1>18, OtherKept
<1>20. ContentKept(event, e)  BY <1>9, <1>10, <1>15, <1>16, <1>19, AllContent
<1>21. e.losses = enc.losses \o Added(event)  BY <1>1, <1>9, <1>16, AddedFacts
<1>22. SendsCalls(event, e)
  <2>1. ~InTool(enc)  BY <1>18 DEF InTool
  <2>. QED BY <1>1, <1>9, <1>10, <1>15, <1>16, <1>19, <2>1 DEF SendsCalls
<1>. QED BY <1>15, <1>17, <1>19, <1>20, <1>21, <1>22 DEF Effect, CallsKept

(* The last event. *)
LEMMA MessageDoneEffect ==
  ASSUME TypeOK, Consistent(enc), NEW event \in Events, ApplyMessageDone(event), ~failed'
  PROVE  Effect(event)
<1>1. enc \in Encoders /\ event.type = "message_done" /\ ~IsStart(event) /\ ~IsDelta(event)
  BY DEF TypeOK, ApplyMessageDone, IsStart, IsDelta
<1>2. PICK e : e = [enc EXCEPT !.done = TRUE]  OBVIOUS
<1>3. enc.finished /\ Accepted(event, e)  BY <1>2 DEF ApplyMessageDone, Refused
<1>4. e \in Encoders /\ e.active = enc.active /\ SameMarks(enc, e) /\ SameOutput(enc, e)
  BY <1>1, <1>2 DEF Encoders, SameMarks, SameOutput
<1>5. enc.active.kind = "none"  BY <1>3, IdleType DEF Consistent
<1>6. /\ e.chunks = enc.chunks /\ e.pending_tools = enc.pending_tools
      /\ e.losses = enc.losses /\ e.finished = enc.finished
      /\ e.next_native_tool = enc.next_native_tool
  BY <1>4 DEF SameMarks, SameOutput
<1>7. MarksKept(event, e) /\ ~InTool(e)
  BY <1>1, <1>3, <1>4, <1>5, OtherKept DEF SameMarks
<1>8. ContentKept(event, e)  BY <1>1, <1>4, <1>6, SilentContent
<1>9. e.losses = enc.losses \o Added(event)
  BY <1>1, <1>6, AddedFacts, NoneAdded
<1>10. ~InTool(enc) /\ ~StartsOne(event, ToolKinds)
  BY <1>1, <1>5 DEF InTool, StartsOne
<1>11. CallsKept(event, e)  BY <1>6, <1>7, <1>10 DEF CallsKept, Plain
<1>. QED BY <1>3, <1>4, <1>7, <1>8, <1>9, <1>11 DEF Effect

(* Every call that is accepted has this effect. *)
LEMMA EveryEffect ==
  ASSUME TypeOK, Consistent(enc), NEW event \in Events, Apply(event), ~failed'
  PROVE  Effect(event)
<1>1. ~ApplyAfterEnd(event) /\ ~ApplyBlockStartOutOfOrder(event) /\ ~ApplyUnsupportedStart(event)
  BY DEF ApplyAfterEnd, ApplyBlockStartOutOfOrder, ApplyUnsupportedStart, Refused
<1>2. CASE ApplyMessageStart(event)  BY <1>2, MessageStartEffect
<1>3. CASE ApplyTextStart(event)  BY <1>3, TextStartEffect
<1>4. CASE ApplyThinkingStart(event)  BY <1>4, ThinkingStartEffect
<1>5. CASE ApplyToolStart(event)  BY <1>5, ToolStartEffect
<1>6. CASE ApplyOmittedStart(event) \/ ApplyPatchStart(event)
  BY <1>6, OmittedStartEffect
<1>7. CASE ApplyDelta(event)  BY <1>7, DeltaEffect
<1>8. CASE ApplyBlockStop(event)  BY <1>8, StopEffect
<1>9. CASE ApplyMessageDelta(event)  BY <1>9, MessageDeltaEffect
<1>10. CASE ApplyMessageDone(event)  BY <1>10, MessageDoneEffect
<1>. QED BY <1>1, <1>2, <1>3, <1>4, <1>5, <1>6, <1>7, <1>8, <1>9, <1>10 DEF Apply

-----------------------------------------------------------------------------
(* The history of calls *)

EventsOf(calls) == [k \in 1..Len(calls) |-> calls[k].event]

AllOk(calls) == \A k \in 1..Len(calls) : calls[k].ok

(* The first call that is refused has a reason. *)
Reasoned(calls) ==
  \A k \in 1..Len(calls) :
    ~calls[k].ok /\ (\A j \in 1..(k - 1) : calls[j].ok) =>
      LET s == SubSeq(EventsOf(calls), 1, k) IN ~InOrder(s) \/ Unencodable(s)

(* A call is recorded behind the others. *)
LEMMA RecordedCall ==
  ASSUME NEW calls \in Seq(Calls), NEW c \in Calls
  PROVE  /\ Append(calls, c) \in Seq(Calls)
         /\ EventsOf(calls) \in Seq(Events) /\ EventsOf(calls) \in Seq(IrEvents)
         /\ EventsOf(Append(calls, c)) = Append(EventsOf(calls), c.event)
         /\ AllOk(Append(calls, c)) <=> AllOk(calls) /\ c.ok
         /\ Reasoned(Append(calls, c)) <=>
              /\ Reasoned(calls)
              /\ ~c.ok /\ AllOk(calls) =>
                   \/ ~InOrder(Append(EventsOf(calls), c.event))
                   \/ Unencodable(Append(EventsOf(calls), c.event))
<1>1. PICK t, l, s : t = Append(calls, c) /\ l = Len(calls) /\ s = EventsOf(calls)
  OBVIOUS
<1>2. /\ t \in Seq(Calls) /\ l \in Nat /\ Len(t) = l + 1 /\ t[l + 1] = c
      /\ \A k \in 1..l : t[k] = calls[k]
  BY <1>1, AppendFacts
<1>3. s \in Seq(Events)
  <2>1. ASSUME NEW k \in 1..l
        PROVE  calls[k].event \in Events
    <3>1. l = Len(calls)  BY <1>1
    <3>2. calls[k] \in Calls  BY <3>1
    <3>. QED BY <3>2 DEF Calls
  <2>2. s = [k \in 1..l |-> calls[k].event]  BY <1>1 DEF EventsOf
  <2>3. s \in [1..l -> Events]  BY <2>1, <2>2
  <2>. QED BY <1>2, <2>3
<1>4. Events \subseteq IrEvents  BY EncoderAssumption
<1>5. s \in Seq(IrEvents)  BY <1>3, <1>4
<1>6. Len(s) = l /\ \A k \in 1..l : s[k] = calls[k].event
  BY <1>1, <1>2 DEF EventsOf
<1>7. EventsOf(t) = Append(s, c.event)
  <2>1. EventsOf(t) = [k \in 1..(l + 1) |-> IF k = l + 1 THEN c.event ELSE s[k]]
    <3>1. \A k \in 1..(l + 1) : t[k].event = IF k = l + 1 THEN c.event ELSE s[k]
      BY <1>2, <1>6
    <3>. QED BY <1>2, <3>1 DEF EventsOf
  <2>2. c.event \in Events  BY DEF Calls
  <2>3. Append(s, c.event) = [k \in 1..(l + 1) |-> IF k = l + 1 THEN c.event ELSE s[k]]
    BY <1>2, <1>3, <1>6, <2>2
  <2>. QED BY <2>1, <2>3
<1>8. AllOk(t) <=> AllOk(calls) /\ c.ok
  <2>1. \A k \in 1..(l + 1) : k \in 1..l \/ k = l + 1  BY <1>2
  <2>2. l + 1 \in 1..(l + 1) /\ \A k \in 1..l : k \in 1..(l + 1)  BY <1>2
  <2>. QED BY <1>1, <1>2, <2>1, <2>2 DEF AllOk
<1>9. \A k \in 1..l : SubSeq(EventsOf(t), 1, k) = SubSeq(s, 1, k)
  <2>1. \A k \in 1..l : EventsOf(t)[k] = s[k]  BY <1>2, <1>6 DEF EventsOf
  <2>2. Len(EventsOf(t)) = l + 1 /\ EventsOf(t) \in Seq(Events)
    BY <1>2, <1>3, <1>6, <1>7 DEF Calls
  <2>. QED BY <1>2, <1>3, <1>6, <2>1, <2>2
<1>10. SubSeq(EventsOf(t), 1, l + 1) = EventsOf(t)
  <2>1. Len(EventsOf(t)) = l + 1 /\ EventsOf(t) \in Seq(Events)
    BY <1>2, <1>3, <1>6, <1>7 DEF Calls
  <2>. QED BY <1>2, <2>1
<1>11. ASSUME NEW k \in 1..l
       PROVE  /\ ~t[k].ok /\ (\A j \in 1..(k - 1) : t[j].ok) <=>
                   ~calls[k].ok /\ (\A j \in 1..(k - 1) : calls[j].ok)
              /\ SubSeq(EventsOf(t), 1, k) = SubSeq(EventsOf(calls), 1, k)
  <2>1. \A j \in 1..(k - 1) : t[j] = calls[j]  BY <1>2
  <2>. QED BY <1>1, <1>2, <1>9, <2>1
<1>12. ~t[l + 1].ok /\ (\A j \in 1..((l + 1) - 1) : t[j].ok) <=> ~c.ok /\ AllOk(calls)
  <2>1. (l + 1) - 1 = l  BY <1>2
  <2>. QED BY <1>1, <1>2, <2>1 DEF AllOk
<1>13. Reasoned(t) <=>
         /\ Reasoned(calls)
         /\ ~c.ok /\ AllOk(calls) => ~InOrder(EventsOf(t)) \/ Unencodable(EventsOf(t))
  <2>1. \A k : k \in 1..Len(t) <=> k \in 1..l \/ k = l + 1  BY <1>2
  <2>2. Reasoned(t) <=>
          /\ \A k \in 1..l :
               ~t[k].ok /\ (\A j \in 1..(k - 1) : t[j].ok) =>
                 ~InOrder(SubSeq(EventsOf(t), 1, k)) \/ Unencodable(SubSeq(EventsOf(t), 1, k))
          /\ ~t[l + 1].ok /\ (\A j \in 1..((l + 1) - 1) : t[j].ok) =>
               \/ ~InOrder(SubSeq(EventsOf(t), 1, l + 1))
               \/ Unencodable(SubSeq(EventsOf(t), 1, l + 1))
    BY <2>1 DEF Reasoned
  <2>. QED BY <1>1, <1>10, <1>11, <1>12, <2>2 DEF Reasoned
<1>. QED BY <1>1, <1>2, <1>3, <1>5, <1>7, <1>8, <1>13

-----------------------------------------------------------------------------
(* The invariant *)

(* As long as nothing was refused, the view tracks the events applied. *)
Follow == ~failed => InOrder(EventsOf(applied)) /\ Tracks(EventsOf(applied), View(enc))

EncInv ==
  /\ TypeOK /\ Consistent(enc)
  /\ ~failed <=> AllOk(applied)
  /\ Follow
  /\ Reasoned(applied)

LEMMA InitEncInv == Init => EncInv
<1> SUFFICES ASSUME Init
             PROVE  EncInv
  OBVIOUS
<1>1. NewEncoder \in Encoders
  <2>1. PICK none, idle : none = <<>> /\ idle = Idle  OBVIOUS
  <2>2. idle \in ActiveBlocks /\ none \in Seq(WireChunks) /\ none \in Seq(Int \X LossFields)
    <3>1. PICK S : S = Int \X LossFields  OBVIOUS
    <3>. QED BY <2>1, <3>1, IdleType
  <2>3. NewEncoder =
          [started |-> FALSE, active |-> idle, next_ir_index |-> 0,
           next_native_tool |-> 0, tool_seen |-> FALSE, custom_seen |-> FALSE,
           ordering_degrade |-> FALSE, pending_tools |-> none, finished |-> FALSE,
           done |-> FALSE, event_ordinal |-> 0, chunks |-> none, losses |-> none]
    BY <2>1 DEF NewEncoder
  <2>. QED BY <2>2, <2>3 DEF Encoders
<1>2. TypeOK
  <2>1. PICK none : none = <<>>  OBVIOUS
  <2>2. enc \in Encoders  BY <1>1, Zenon DEF Init
  <2>3. none \in Seq(Calls)  BY <2>1
  <2>4. applied = none /\ failed \in BOOLEAN  BY <2>1 DEF Init
  <2>. QED BY <2>2, <2>3, <2>4, Zenon DEF TypeOK
<1>3. /\ enc.active = Idle /\ enc.next_ir_index = 0 /\ ~enc.started /\ ~enc.finished /\ ~enc.done
  BY DEF Init, NewEncoder
<1>4. Consistent(enc)  BY <1>3, IdleType DEF Consistent
<1>5. applied = <<>> /\ ~failed /\ Len(applied) = 0  BY DEF Init
<1>6. AllOk(applied) /\ Reasoned(applied) /\ EventsOf(applied) = <<>>
  BY <1>5 DEF AllOk, Reasoned, EventsOf
<1>7. InOrder(<<>>)  BY DEF InOrder
<1>8. View(enc).place = "fresh" /\ View(enc).next = 0  BY <1>3 DEF View
<1>9. Tracks(<<>>, View(enc))  BY <1>8, TrackedInit
<1>. QED BY <1>2, <1>4, <1>5, <1>6, <1>7, <1>9 DEF EncInv, Follow

(* The reason of a refusal, said of the events applied. *)
LEMMA UnfitReason ==
  ASSUME NEW s \in Seq(IrEvents), NEW e \in IrEvents, NEW v \in Views,
         Tracks(s, v), Allowed(v, e), Unfit(v, e)
  PROVE  Unencodable(Append(s, e))
<1>1. PICK t : t = Append(s, e)  OBVIOUS
<1>2. t[Len(t)] = e  BY <1>1, AppendFacts
<1>3. CASE IsStart(e) /\ e.block.kind \notin EncodableKinds
  BY <1>1, <1>2, <1>3, Zenon DEF Unencodable
<1>4. CASE IsStart(e) /\ e.block.kind \in ToolKinds /\ ~Identified(e.block.id, e.block.name)
  BY <1>1, <1>2, <1>4, Zenon DEF Unencodable, Identified, HasId
<1>5. CASE IsStop(e) /\ v.tool /\ ~InputExact(v.input, v.fragments, TRUE)
  <2>1. v.place = "within"  BY <1>5 DEF Allowed, OpensAt, IsStart, IsStop
  <2>2. ToolOpen(s, v.input, v.fragments) /\ ToolInputsExact(s, TRUE)
    BY <1>5, <2>1 DEF Tracks
  <2>3. ~ToolInputsExact(t, TRUE)  BY <1>1, <1>5, <2>2, ToolStops
  <2>. QED BY <1>1, <1>2, <1>5, <2>3, Zenon DEF Unencodable
<1>6. CASE /\ e.type = "message_delta"
           /\ \/ e.usage.input < 0 \/ e.usage.output < 0
              \/ TotalTokens(e.usage) > MaxInt
              \/ e.stop_reason = "other"
  BY <1>1, <1>2, <1>6, Zenon DEF Unencodable
<1>. QED BY <1>3, <1>4, <1>5, <1>6 DEF Unfit

(* Each call keeps the invariant. *)
LEMMA StepEncInv == EncInv /\ [Next]_vars => EncInv'
<1> SUFFICES ASSUME EncInv, [Next]_vars
             PROVE  EncInv'
  OBVIOUS
<1>1. ASSUME NEW event \in Events, Apply(event)
      PROVE  EncInv'
  <2>1. /\ TypeOK /\ Consistent(enc) /\ applied \in Seq(Calls) /\ failed \in BOOLEAN
        /\ enc \in Encoders /\ View(enc) \in Views
    BY ViewType DEF EncInv, TypeOK
  <2>2. PICK e \in Encoders :
          /\ Consistent(e)
          /\ \/ /\ Accepted(event, e)
                /\ Allowed(View(enc), event) /\ Moves(View(enc), event, View(e))
             \/ /\ Refused(event, e)
                /\ ~Allowed(View(enc), event) \/ Unfit(View(enc), event)
    BY <1>1, <2>1, EveryOutcome DEF Outcome
  <2>3. PICK s : s = EventsOf(applied)  OBVIOUS
  <2>4. event \in IrEvents  BY EncoderAssumption
  <2>5. s \in Seq(IrEvents) /\ s \in Seq(Events)
    <3>1. [event |-> event, ok |-> TRUE] \in Calls  BY DEF Calls
    <3>. QED BY <2>1, <2>3, <3>1, RecordedCall
  <2>6. CASE /\ Accepted(event, e)
             /\ Allowed(View(enc), event) /\ Moves(View(enc), event, View(e))
    <3>1. PICK c : c = [event |-> event, ok |-> TRUE]  OBVIOUS
    <3>2. c \in Calls /\ c.event = event /\ c.ok  BY <3>1 DEF Calls
    <3>3. enc' = Counted(e) /\ applied' = Append(applied, c) /\ failed' = failed
      BY <2>6, <3>1 DEF Accepted
    <3>4. /\ applied' \in Seq(Calls) /\ EventsOf(applied') = Append(s, event)
          /\ AllOk(applied') <=> AllOk(applied)
          /\ Reasoned(applied') <=> Reasoned(applied)
      BY <2>1, <2>3, <3>2, <3>3, RecordedCall
    <3>5. enc' \in Encoders /\ Consistent(enc') /\ View(enc') = View(e)
      BY <2>2, <3>3, CountedFacts
    <3>6. ASSUME ~failed'
          PROVE  InOrder(EventsOf(applied')) /\ Tracks(EventsOf(applied'), View(enc'))
      <4>1. InOrder(s) /\ Tracks(s, View(enc))
        BY <2>3, <3>3, <3>6 DEF EncInv, Follow
      <4>2. Admits(s, event)  BY <2>1, <2>6, <4>1, TrackedAdmits
      <4>3. InOrder(Append(s, event))  BY <2>5, <2>4, <4>1, <4>2, InOrderAppend
      <4>4. Tracks(Append(s, event), View(e))
        <5>1. View(e) \in Views  BY <2>2, ViewType
        <5>. QED BY <2>1, <2>4, <2>5, <2>6, <4>1, <5>1, TrackedMoves
      <4>. QED BY <3>4, <3>5, <4>3, <4>4
    <3>. QED BY <2>1, <3>3, <3>4, <3>5, <3>6 DEF EncInv, Follow, TypeOK
  <2>7. CASE /\ Refused(event, e)
             /\ ~Allowed(View(enc), event) \/ Unfit(View(enc), event)
    <3>1. PICK c : c = [event |-> event, ok |-> FALSE]  OBVIOUS
    <3>2. c \in Calls /\ c.event = event /\ ~c.ok  BY <3>1 DEF Calls
    <3>3. enc' = e /\ applied' = Append(applied, c) /\ failed'
      BY <2>7, <3>1 DEF Refused
    <3>4. AllOk(applied) => ~InOrder(Append(s, event)) \/ Unencodable(Append(s, event))
      <4>1. SUFFICES ASSUME AllOk(applied), InOrder(Append(s, event))
                     PROVE  Unencodable(Append(s, event))
        OBVIOUS
      <4>2. Tracks(s, View(enc))  BY <2>3, <4>1 DEF EncInv, Follow
      <4>3. Admits(s, event)  BY <2>4, <2>5, <4>1, InOrderAppend
      <4>4. Allowed(View(enc), event)  BY <2>1, <4>2, <4>3, TrackedAdmits
      <4>. QED BY <2>1, <2>4, <2>5, <2>7, <4>2, <4>4, UnfitReason
    <3>5. /\ applied' \in Seq(Calls) /\ ~AllOk(applied') /\ Reasoned(applied')
      BY <2>1, <2>3, <3>2, <3>3, <3>4, RecordedCall DEF EncInv
    <3>. QED BY <2>1, <2>2, <3>3, <3>5 DEF EncInv, Follow, TypeOK
  <2>. QED BY <2>2, <2>6, <2>7
<1>2. CASE UNCHANGED vars
  BY <1>2 DEF vars, EncInv, TypeOK, Consistent, Follow, View, AllOk, Reasoned, EventsOf
<1>. QED BY <1>1, <1>2 DEF Next

LEMMA SpecEncInv == Spec => []EncInv
BY InitEncInv, StepEncInv, PTL DEF Spec

(* The struct, the history and the chunks and losses sent keep their types,
   also after errors. *)
THEOREM EncoderTypeCorrect == Spec => []TypeOK
<1>1. EncInv => TypeOK  BY DEF EncInv
<1>. QED BY <1>1, SpecEncInv, PTL

(* Whatever is applied and in whatever order: as long as the encoder
   refuses nothing, it was handed a stream in grammar order whose tool
   inputs are what their fragments spell. *)
THEOREM EncoderAcceptsGrammar == Spec => []AcceptsOnlyTheGrammar
<1>1. EncInv => AcceptsOnlyTheGrammar
  BY DEF EncInv, Follow, Tracks, AcceptsOnlyTheGrammar, Input, EventsOf
<1>. QED BY <1>1, SpecEncInv, PTL

(* The first call that is refused breaks the grammar, or it is one of the
   few things that Chat Completions cannot say. *)
THEOREM EncoderRefusesForCause == Spec => []RefusesOnlyForCause
<1>1. EncInv => RefusesOnlyForCause
  BY DEF EncInv, Reasoned, RefusesOnlyForCause, Input, EventsOf
<1>. QED BY <1>1, SpecEncInv, PTL

-----------------------------------------------------------------------------
(* The books: what was read, against what was sent and what was lost *)

PassedIn(s) == Concat([k \in 1..Len(s) |-> FragmentsIn(s[k])])

LEMMA PassedGrows ==
  ASSUME NEW s \in Seq(IrEvents), NEW e \in IrEvents
  PROVE  PassedIn(Append(s, e)) = PassedIn(s) \o FragmentsIn(e)
<1>1. PICK F : F = [x \in IrEvents |-> FragmentsIn(x)]  OBVIOUS
<1>2. ASSUME NEW x \in IrEvents
      PROVE  FragmentsIn(x) \in Seq(Deltas)
  BY <1>2, EventForms DEF FragmentsIn
<1>3. F \in Sayings(IrEvents, Deltas) /\ \A x \in IrEvents : F[x] = FragmentsIn(x)
  BY <1>1, <1>2 DEF Sayings
<1>4. ASSUME NEW v \in Seq(IrEvents)
      PROVE  PassedIn(v) = JoinOf(F, v)
  <2>1. \A k \in 1..Len(v) : FragmentsIn(v[k]) = F[v[k]]  BY <1>3
  <2>2. [k \in 1..Len(v) |-> FragmentsIn(v[k])] = [k \in 1..Len(v) |-> F[v[k]]]
    BY <2>1
  <2>. QED BY <2>2, Zenon DEF PassedIn, JoinOf
<1>5. JoinOf(F, Append(s, e)) = JoinOf(F, s) \o F[e] /\ Append(s, e) \in Seq(IrEvents)
  BY <1>3, JoinOfMore
<1>. QED BY <1>3, <1>4, <1>5

(* One more event: what a stream starts, how it ends, where text follows a
   tool. *)
LEMMA MoreRead ==
  ASSUME NEW s \in Seq(IrEvents), NEW e \in IrEvents, NEW t, t = Append(s, e)
  PROVE  /\ t \in Seq(IrEvents) /\ Len(t) = Len(s) + 1 /\ Len(s) \in Nat
         /\ t[Len(s) + 1] = e /\ \A k \in 1..Len(s) : t[k] = s[k]
         /\ \A k \in 1..(Len(s) + 1) : k \in 1..Len(s) \/ k = Len(s) + 1
         /\ \A k \in 1..Len(s) : k \in 1..(Len(s) + 1) /\ k # Len(s) + 1
         /\ Len(s) + 1 \in 1..(Len(s) + 1)
         /\ \A kinds : Starts(t, kinds) <=> Starts(s, kinds) \/ StartsOne(e, kinds)
         /\ \A reasons : EndsWith(t, reasons) <=>
              EndsWith(s, reasons) \/ (e.type = "message_delta" /\ e.stop_reason \in reasons)
         /\ TextAfterTool(t) <=>
              TextAfterTool(s) \/ (Starts(s, ToolKinds) /\ StartsOne(e, {"text"}))
<1>1. PICK l : l = Len(s)  OBVIOUS
<1>2. /\ t \in Seq(IrEvents) /\ l \in Nat /\ Len(t) = l + 1 /\ t[l + 1] = e
      /\ \A k \in 1..l : t[k] = s[k]
  BY <1>1
<1>3. /\ \A k \in 1..(l + 1) : k \in 1..l \/ k = l + 1
      /\ \A k \in 1..l : k \in 1..(l + 1) /\ k # l + 1 /\ k < l + 1
      /\ l + 1 \in 1..(l + 1)
  BY <1>2
<1>4. \A kinds : Starts(t, kinds) <=> Starts(s, kinds) \/ StartsOne(e, kinds)
  BY <1>1, <1>2, <1>3 DEF Starts
<1>5. \A reasons : EndsWith(t, reasons) <=>
         EndsWith(s, reasons) \/ (e.type = "message_delta" /\ e.stop_reason \in reasons)
  BY <1>1, <1>2, <1>3 DEF EndsWith
<1>6. TextAfterTool(t) <=>
        TextAfterTool(s) \/ (Starts(s, ToolKinds) /\ StartsOne(e, {"text"}))
  <2>1. ASSUME TextAfterTool(t)
        PROVE  TextAfterTool(s) \/ (Starts(s, ToolKinds) /\ StartsOne(e, {"text"}))
    <3>1. PICK j \in 1..(l + 1), k \in 1..(l + 1) :
            j < k /\ StartsOne(t[j], ToolKinds) /\ StartsOne(t[k], {"text"})
      BY <1>2, <2>1 DEF TextAfterTool
    <3>2. j \in 1..l  BY <1>2, <3>1
    <3>. QED BY <1>1, <1>2, <1>3, <3>1, <3>2 DEF TextAfterTool, Starts
  <2>2. TextAfterTool(s) => TextAfterTool(t)
    BY <1>1, <1>2, <1>3 DEF TextAfterTool
  <2>3. Starts(s, ToolKinds) /\ StartsOne(e, {"text"}) => TextAfterTool(t)
    BY <1>1, <1>2, <1>3 DEF TextAfterTool, Starts
  <2>. QED BY <2>1, <2>2, <2>3
<1>. QED BY <1>1, <1>2, <1>3, <1>4, <1>5, <1>6

(* ... and which citations are the first of their block. *)
LEMMA MoreCited ==
  ASSUME NEW s \in Seq(IrEvents), NEW e \in IrEvents, NEW t, t = Append(s, e),
         NEW l, l = Len(s)
  PROVE  /\ \A k \in 1..l : FirstCitation(t, k) <=> FirstCitation(s, k)
         /\ FirstCitation(t, l + 1) <=>
              Cites(e) /\ \A j \in 1..l : Cites(s[j]) => s[j].index # e.index
<1>1. l \in Nat /\ t[l + 1] = e /\ \A k \in 1..l : t[k] = s[k]  OBVIOUS
<1>2. ASSUME NEW k \in 1..l
      PROVE  FirstCitation(t, k) <=> FirstCitation(s, k)
  <2>1. \A j \in 1..(k - 1) : j \in 1..l  BY <1>1
  <2>. QED BY <1>1, <2>1 DEF FirstCitation
<1>3. FirstCitation(t, l + 1) <=>
        Cites(e) /\ \A j \in 1..l : Cites(s[j]) => s[j].index # e.index
  <2>1. (l + 1) - 1 = l  BY <1>1
  <2>. QED BY <1>1, <2>1 DEF FirstCitation
<1>. QED BY <1>2, <1>3

(* The encoder's marks say what it read. *)
Marked(e, s) ==
  /\ e.event_ordinal = Len(s)
  /\ e.tool_seen <=> Starts(s, ToolKinds)
  /\ e.custom_seen <=> Starts(s, ApplyPatchKinds)
  /\ e.ordering_degrade <=> TextAfterTool(s)
  /\ e.finished <=> EndsWith(s, StopReasons)
  /\ \A k \in 1..Len(s) : IsStart(s[k]) \/ IsDelta(s[k]) => s[k].index < e.next_ir_index
  /\ e.active.kind # "none" => e.active.index < e.next_ir_index
  /\ e.active.kind = "Text" =>
       (e.active.citation_loss_seen <=>
          \E k \in 1..Len(s) : Cites(s[k]) /\ s[k].index = e.active.index)

LEMMA CountedKeeps ==
  ASSUME NEW e \in Encoders
  PROVE  /\ Counted(e).event_ordinal = e.event_ordinal + 1
         /\ Counted(e).tool_seen = e.tool_seen /\ Counted(e).custom_seen = e.custom_seen
         /\ Counted(e).ordering_degrade = e.ordering_degrade
         /\ Counted(e).finished = e.finished /\ Counted(e).next_ir_index = e.next_ir_index
         /\ Counted(e).next_native_tool = e.next_native_tool /\ Counted(e).active = e.active
         /\ SameOutput(e, Counted(e))
BY DEF Counted, Encoders, SameOutput

LEMMA CitesFacts ==
  ASSUME NEW e
  PROVE  Cites(e) => IsStart(e) \/ IsDelta(e)
BY DEF Cites, StartsOne

LEMMA MarksGrow ==
  ASSUME enc \in Encoders, NEW s \in Seq(IrEvents), NEW event \in IrEvents, Marked(enc, s),
         NEW e \in Encoders, MarksKept(event, e)
  PROVE  Marked(Counted(e), Append(s, event))
<1>1. PICK t, l, d : t = Append(s, event) /\ l = Len(s) /\ d = Counted(e)
  OBVIOUS
<1>2. /\ t \in Seq(IrEvents) /\ Len(t) = l + 1 /\ l \in Nat
      /\ t[l + 1] = event /\ \A k \in 1..l : t[k] = s[k]
      /\ \A k \in 1..(l + 1) : k \in 1..l \/ k = l + 1
      /\ \A k \in 1..l : k \in 1..(l + 1) /\ k # l + 1
      /\ l + 1 \in 1..(l + 1)
  BY <1>1, MoreRead
<1>3. /\ \A kinds : Starts(t, kinds) <=> Starts(s, kinds) \/ StartsOne(event, kinds)
      /\ \A reasons : EndsWith(t, reasons) <=>
           EndsWith(s, reasons) \/ (event.type = "message_delta" /\ event.stop_reason \in reasons)
      /\ TextAfterTool(t) <=>
           TextAfterTool(s) \/ (Starts(s, ToolKinds) /\ StartsOne(event, {"text"}))
  BY <1>1, MoreRead
<1>4. /\ d.event_ordinal = e.event_ordinal + 1
      /\ d.tool_seen = e.tool_seen /\ d.custom_seen = e.custom_seen
      /\ d.ordering_degrade = e.ordering_degrade
      /\ d.finished = e.finished /\ d.next_ir_index = e.next_ir_index /\ d.active = e.active
  BY <1>1, CountedKeeps
<1>5. event.type = "message_delta" => event.stop_reason \in StopReasons
  BY EventForms
<1>6. enc.event_ordinal = l /\ e.event_ordinal = l
  BY <1>1 DEF Marked, MarksKept
<1>7. /\ d.tool_seen <=> Starts(t, ToolKinds)
      /\ d.custom_seen <=> Starts(t, ApplyPatchKinds)
      /\ d.ordering_degrade <=> TextAfterTool(t)
      /\ d.finished <=> EndsWith(t, StopReasons)
  BY <1>3, <1>4, <1>5 DEF Marked, MarksKept
<1>8. PICK n, m, a, b : /\ n = enc.next_ir_index /\ m = e.next_ir_index
                        /\ a = enc.active /\ b = e.active
  OBVIOUS
<1>9. /\ n \in Nat /\ m \in Nat
      /\ IF IsStart(event) THEN event.index = n /\ m = n + 1 ELSE m = n
      /\ IsDelta(event) => a.kind # "none" /\ event.index = a.index
      /\ b.kind # "none" => IF IsStart(event) THEN b.index = event.index
                            ELSE a.kind # "none" /\ b.index = a.index
      /\ b.kind = "Text" =>
           IF IsStart(event) THEN b.citation_loss_seen <=> Cites(event)
           ELSE /\ a.kind = "Text"
                /\ b.citation_loss_seen <=> a.citation_loss_seen \/ Cites(event)
  BY <1>8 DEF MarksKept, Encoders
<1>10. /\ \A k \in 1..l : IsStart(s[k]) \/ IsDelta(s[k]) => s[k].index < n
       /\ a.kind # "none" => a.index < n
       /\ a.kind = "Text" =>
            (a.citation_loss_seen <=> \E k \in 1..l : Cites(s[k]) /\ s[k].index = a.index)
  BY <1>1, <1>8 DEF Marked
<1>11. ~(IsStart(event) /\ IsDelta(event))  BY DEF IsStart, IsDelta
<1>12. /\ \A k \in 1..l : IsStart(s[k]) => s[k].index \in Nat
       /\ \A k \in 1..l : IsDelta(s[k]) => s[k].index \in Nat
  <2>1. \A k \in 1..l : s[k] \in IrEvents  BY <1>1
  <2>. QED BY <2>1, EventForms
<1>13. a.index \in Int  BY <1>8 DEF Encoders, ActiveBlocks
<1>14. ASSUME NEW k \in 1..(l + 1), IsStart(t[k]) \/ IsDelta(t[k])
       PROVE  t[k].index < m
  <2>1. CASE k \in 1..l  BY <1>2, <1>9, <1>10, <1>12, <1>14, <2>1
  <2>2. CASE k = l + 1  BY <1>2, <1>9, <1>10, <1>11, <1>14, <2>2
  <2>. QED BY <1>2, <2>1, <2>2
<1>15. b.kind # "none" => b.index < m  BY <1>9, <1>10
<1>16. ASSUME b.kind = "Text"
       PROVE  b.citation_loss_seen <=> \E k \in 1..(l + 1) : Cites(t[k]) /\ t[k].index = b.index
  <2>1. (\E k \in 1..(l + 1) : Cites(t[k]) /\ t[k].index = b.index) <=>
          \/ \E k \in 1..l : Cites(s[k]) /\ s[k].index = b.index
          \/ Cites(event) /\ event.index = b.index
    BY <1>2
  <2>2. CASE IsStart(event)
    <3>1. ASSUME NEW k \in 1..l, Cites(s[k]), s[k].index = b.index
          PROVE  FALSE
      <4>1. b.index = n /\ s[k].index < n
        BY <1>9, <1>10, <1>16, <2>2, <3>1, CitesFacts
      <4>. QED BY <1>9, <3>1, <4>1
    <3>. QED BY <1>9, <1>16, <2>1, <2>2, <3>1
  <2>3. CASE ~IsStart(event)
    <3>1. Cites(event) => event.index = b.index
      BY <1>9, <1>16, <2>3, CitesFacts
    <3>. QED BY <1>9, <1>10, <1>16, <2>1, <2>3, <3>1
  <2>. QED BY <2>2, <2>3
<1>17. d.event_ordinal = Len(t)  BY <1>2, <1>4, <1>6
<1>. QED BY <1>1, <1>2, <1>4, <1>7, <1>8, <1>14, <1>15, <1>16, <1>17 DEF Marked

(* The losses, as a set in which each occurs once. *)
LossSet(f) == {f[k] : k \in 1..Len(f)}
Once(f) == \A j, k \in 1..Len(f) : f[j] = f[k] => j = k

Noted(losses, s) == LossSet(losses) = EventLosses(s) \union MessageLosses(s) /\ Once(losses)

LEMMA JoinedLosses ==
  ASSUME NEW D, NEW f \in Seq(D), NEW g \in Seq(D)
  PROVE  /\ LossSet(f \o g) = LossSet(f) \union LossSet(g)
         /\ Once(f) /\ Once(g) /\ LossSet(f) \cap LossSet(g) = {} => Once(f \o g)
<1>1. PICK h, m, n : h = f \o g /\ m = Len(f) /\ n = Len(g)  OBVIOUS
<1>2. /\ m \in Nat /\ n \in Nat /\ Len(h) = m + n
      /\ \A k \in 1..(m + n) : h[k] = IF k <= m THEN f[k] ELSE g[k - m]
  BY <1>1
<1>3. /\ \A k \in 1..m : k \in 1..(m + n) /\ h[k] = f[k]
      /\ \A k \in 1..n : k + m \in 1..(m + n) /\ h[k + m] = g[k]
      /\ \A k \in 1..(m + n) : k \notin 1..m => k - m \in 1..n /\ h[k] = g[k - m]
  <2>1. \A k \in 1..m : k \in 1..(m + n) /\ h[k] = f[k]  BY <1>2
  <2>2. ASSUME NEW k \in 1..n
        PROVE  k + m \in 1..(m + n) /\ h[k + m] = g[k]
    <3>1. k + m \in 1..(m + n) /\ ~(k + m <= m) /\ (k + m) - m = k  BY <1>2
    <3>. QED BY <1>2, <3>1
  <2>3. ASSUME NEW k \in 1..(m + n), k \notin 1..m
        PROVE  k - m \in 1..n /\ h[k] = g[k - m]
    <3>1. k - m \in 1..n /\ ~(k <= m)  BY <1>2, <2>3
    <3>. QED BY <1>2, <3>1
  <2>. QED BY <2>1, <2>2, <2>3
<1>4. LossSet(h) = LossSet(f) \union LossSet(g)
  <2>1. ASSUME NEW x \in LossSet(h)
        PROVE  x \in LossSet(f) \union LossSet(g)
    <3>1. PICK k \in 1..(m + n) : x = h[k]  BY <1>2 DEF LossSet
    <3>2. CASE k \in 1..m  BY <1>1, <1>3, <3>1, <3>2 DEF LossSet
    <3>3. CASE k \notin 1..m  BY <1>1, <1>3, <3>1, <3>3 DEF LossSet
    <3>. QED BY <3>2, <3>3
  <2>2. \A x \in LossSet(f) : x \in LossSet(h)  BY <1>1, <1>2, <1>3 DEF LossSet
  <2>3. \A x \in LossSet(g) : x \in LossSet(h)  BY <1>1, <1>2, <1>3 DEF LossSet
  <2>. QED BY <2>1, <2>2, <2>3
<1>5. ASSUME Once(f), Once(g), LossSet(f) \cap LossSet(g) = {},
             NEW j \in 1..(m + n), NEW k \in 1..(m + n), h[j] = h[k]
      PROVE  j = k
  <2>1. ASSUME NEW i \in 1..m
        PROVE  f[i] \in LossSet(f)
    BY <1>1 DEF LossSet
  <2>2. ASSUME NEW i \in 1..n
        PROVE  g[i] \in LossSet(g)
    BY <1>1 DEF LossSet
  <2>3. CASE j \in 1..m /\ k \in 1..m  BY <1>1, <1>3, <1>5, <2>3 DEF Once
  <2>4. CASE j \notin 1..m /\ k \notin 1..m
    <3>1. j - m \in 1..n /\ k - m \in 1..n /\ g[j - m] = g[k - m]
      BY <1>3, <1>5, <2>4
    <3>2. j - m = k - m  BY <1>1, <1>5, <3>1 DEF Once
    <3>. QED BY <1>2, <3>2
  <2>5. CASE j \in 1..m /\ k \notin 1..m  BY <1>3, <1>5, <2>1, <2>2, <2>5
  <2>6. CASE j \notin 1..m /\ k \in 1..m  BY <1>3, <1>5, <2>1, <2>2, <2>6
  <2>. QED BY <2>3, <2>4, <2>5, <2>6
<1>. QED BY <1>1, <1>2, <1>4, <1>5 DEF Once

LEMMA FewLosses ==
  ASSUME NEW x
  PROVE  /\ LossSet(<<x>>) = {x} /\ Once(<<x>>)
         /\ LossSet(<<>>) = {} /\ Once(<<>>)
<1>1. PICK none, one : none = <<>> /\ one = <<x>>  OBVIOUS
<1>2. Len(none) = 0 /\ Len(one) = 1 /\ one[1] = x  BY <1>1
<1>. QED BY <1>1, <1>2 DEF LossSet, Once

(* The loss that the k-th event gives rise to. *)
LossAt(s, k, x) ==
  \/ Omits(s[k]) /\ x = <<k - 1, "type">>
  \/ Signs(s[k]) /\ x = <<k - 1, "signature">>
  \/ FirstCitation(s, k) /\ x = <<k - 1, "citations">>

LEMMA LossesAt ==
  ASSUME NEW s, NEW x
  PROVE  x \in EventLosses(s) <=> \E k \in 1..Len(s) : LossAt(s, k, x)
BY DEF EventLosses, LossAt

LEMMA LossesGrow ==
  ASSUME NEW s \in Seq(IrEvents), NEW e \in IrEvents, NEW t, t = Append(s, e), NEW x
  PROVE  /\ x \in EventLosses(t) <=> x \in EventLosses(s) \/ LossAt(t, Len(s) + 1, x)
         /\ x \in EventLosses(s) => x[1] \in 0..(Len(s) - 1)
<1>1. PICK l : l = Len(s)  OBVIOUS
<1>2. /\ Len(t) = l + 1 /\ l \in Nat /\ \A k \in 1..l : t[k] = s[k]
      /\ \A k \in 1..(l + 1) : k \in 1..l \/ k = l + 1
      /\ \A k \in 1..l : k \in 1..(l + 1)
      /\ l + 1 \in 1..(l + 1)
  BY <1>1, MoreRead
<1>3. ASSUME NEW k \in 1..l
      PROVE  LossAt(t, k, x) <=> LossAt(s, k, x)
  <2>1. FirstCitation(t, k) <=> FirstCitation(s, k)  BY <1>1, MoreCited
  <2>. QED BY <1>2, <2>1 DEF LossAt
<1>4. x \in EventLosses(t) <=> x \in EventLosses(s) \/ LossAt(t, l + 1, x)
  <2>1. x \in EventLosses(t) <=> \E k \in 1..(l + 1) : LossAt(t, k, x)
    BY <1>2, LossesAt
  <2>2. x \in EventLosses(s) <=> \E k \in 1..l : LossAt(s, k, x)
    BY <1>1, LossesAt
  <2>. QED BY <1>2, <1>3, <2>1, <2>2
<1>5. ASSUME x \in EventLosses(s)
      PROVE  x[1] \in 0..(l - 1)
  <2>1. PICK k \in 1..l : LossAt(s, k, x)  BY <1>1, <1>5, LossesAt
  <2>2. x[1] = k - 1  BY <2>1 DEF LossAt
  <2>. QED BY <1>2, <2>2
<1>. QED BY <1>1, <1>4, <1>5

(* What an event adds to the losses is what it gives rise to. *)
LEMMA AddedIsDue ==
  ASSUME enc \in Encoders, NEW s \in Seq(IrEvents), NEW event \in IrEvents, Marked(enc, s),
         NEW e \in Encoders, MarksKept(event, e), event.type # "message_delta"
  PROVE  /\ \A x : x \in LossSet(Added(event)) <=> LossAt(Append(s, event), Len(s) + 1, x)
         /\ Once(Added(event))
<1>1. PICK t, l : t = Append(s, event) /\ l = Len(s)  OBVIOUS
<1>2. /\ l \in Nat /\ t[l + 1] = event /\ (l + 1) - 1 = l
      /\ FirstCitation(t, l + 1) <=>
           Cites(event) /\ \A j \in 1..l : Cites(s[j]) => s[j].index # event.index
  <2>1. l \in Nat /\ t[l + 1] = event  BY <1>1, MoreRead
  <2>2. FirstCitation(t, l + 1) <=>
          Cites(event) /\ \A j \in 1..l : Cites(s[j]) => s[j].index # event.index
    BY <1>1, MoreCited
  <2>. QED BY <2>1, <2>2
<1>3. enc.event_ordinal = l  BY <1>1 DEF Marked
<1>4. Omits(event) => ~Signs(event) /\ ~Cites(event)
  BY DEF Omits, Signs, Cites, StartsOne, IsStart, IsDelta, OmittedKinds, ApplyPatchKinds
<1>5. Signs(event) => ~Cites(event)
  BY DEF Signs, Cites, StartsOne, IsStart, IsDelta
<1>6. Cites(event) => (FirstCitation(t, l + 1) <=> ~(IsDelta(event) /\ enc.active.citation_loss_seen))
  <2>1. SUFFICES ASSUME Cites(event)
                 PROVE  (\A j \in 1..l : Cites(s[j]) => s[j].index # event.index)
                          <=> ~(IsDelta(event) /\ enc.active.citation_loss_seen)
    BY <1>2
  <2>2. CASE IsStart(event)
    <3>1. ~IsDelta(event)  BY <2>2 DEF IsStart, IsDelta
    <3>2. event.index = enc.next_ir_index /\ enc.next_ir_index \in Nat
      BY <2>2 DEF MarksKept, Encoders
    <3>3. ASSUME NEW j \in 1..l, Cites(s[j])
          PROVE  s[j].index # event.index
      <4>1. IsStart(s[j]) \/ IsDelta(s[j])  BY <3>3, CitesFacts
      <4>2. s[j].index < enc.next_ir_index  BY <1>1, <4>1 DEF Marked
      <4>3. s[j] \in IrEvents  BY <1>1
      <4>4. s[j].index \in Nat  BY <4>1, <4>3, EventForms
      <4>. QED BY <3>2, <4>2, <4>4
    <3>. QED BY <3>1, <3>3
  <2>3. CASE ~IsStart(event)
    <3>1. IsDelta(event)  BY <2>1, <2>3, CitesFacts
    <3>2. event.index = enc.active.index /\ enc.active.kind = "Text"
      BY <2>1, <3>1 DEF MarksKept
    <3>3. enc.active.citation_loss_seen <=>
            \E k \in 1..l : Cites(s[k]) /\ s[k].index = enc.active.index
      BY <1>1, <3>2 DEF Marked
    <3>. QED BY <3>1, <3>2, <3>3
  <2>. QED BY <2>2, <2>3
<1>7. PICK type, signature, citations :
        /\ type = <<l, "type">> /\ signature = <<l, "signature">>
        /\ citations = <<l, "citations">>
  OBVIOUS
<1>8. \A x : LossAt(t, l + 1, x) <=>
        \/ Omits(event) /\ x = type
        \/ Signs(event) /\ x = signature
        \/ FirstCitation(t, l + 1) /\ x = citations
  BY <1>2, <1>7 DEF LossAt
<1>9. CASE Omits(event)
  <2>1. Added(event) = <<type>>  BY <1>3, <1>7, <1>9 DEF Added
  <2>. QED BY <1>1, <1>2, <1>4, <1>8, <1>9, <2>1, FewLosses
<1>10. CASE ~Omits(event) /\ Signs(event)
  <2>1. Added(event) = <<signature>>  BY <1>3, <1>7, <1>10 DEF Added
  <2>. QED BY <1>1, <1>2, <1>5, <1>8, <1>10, <2>1, FewLosses
<1>11. CASE ~Omits(event) /\ ~Signs(event) /\ FirstCitation(t, l + 1)
  <2>1. Added(event) = <<citations>>  BY <1>2, <1>3, <1>6, <1>7, <1>11 DEF Added
  <2>. QED BY <1>1, <1>8, <1>11, <2>1, FewLosses
<1>12. CASE ~Omits(event) /\ ~Signs(event) /\ ~FirstCitation(t, l + 1)
  <2>1. Added(event) = <<>>  BY <1>2, <1>6, <1>12 DEF Added
  <2>. QED BY <1>1, <1>8, <1>12, <2>1, FewLosses
<1>. QED BY <1>9, <1>10, <1>11, <1>12

(* The losses of the message, when it ends. *)
LEMMA StopLossesFacts ==
  ASSUME NEW event
  PROVE  /\ LossSet(StopLosses(event)) =
              {<<-1, f>> : f \in
                 (IF enc.ordering_degrade THEN {"ordering"} ELSE {})
                 \union (IF event.stop_reason = "stop_sequence" THEN {"stop_sequence"} ELSE {})
                 \union (IF event.stop_reason = "tool_use" /\ ~enc.tool_seen /\ enc.custom_seen
                         THEN {"stop_reason"} ELSE {})}
         /\ Once(StopLosses(event))
         /\ \A x \in LossSet(StopLosses(event)) : x[1] = -1
<1>1. PICK P, Q, R :
        /\ P = (event.stop_reason = "tool_use" /\ ~enc.tool_seen /\ enc.custom_seen)
        /\ Q = (event.stop_reason = "stop_sequence")
        /\ R = (IF enc.ordering_degrade THEN TRUE ELSE FALSE)
  OBVIOUS
<1>2. PICK a, b, c : a = <<-1, "stop_reason">> /\ b = <<-1, "stop_sequence">> /\ c = <<-1, "ordering">>
  OBVIOUS
<1>3. PICK p, q, r : /\ p = IF P THEN <<a>> ELSE <<>>
                     /\ q = IF Q THEN <<b>> ELSE <<>>
                     /\ r = IF R THEN <<c>> ELSE <<>>
  OBVIOUS
<1>4. StopLosses(event) = p \o q \o r  BY <1>1, <1>2, <1>3 DEF StopLosses
<1>5. PICK S : S = {a, b, c}  OBVIOUS
<1>6. p \in Seq(S) /\ q \in Seq(S) /\ r \in Seq(S) /\ p \o q \in Seq(S)
  <2>1. a \in S /\ b \in S /\ c \in S  BY <1>5
  <2>2. p \in Seq(S) /\ q \in Seq(S) /\ r \in Seq(S)  BY <1>3, <2>1
  <2>. QED BY <2>2
<1>7. /\ LossSet(p) = (IF P THEN {a} ELSE {}) /\ Once(p)
      /\ LossSet(q) = (IF Q THEN {b} ELSE {}) /\ Once(q)
      /\ LossSet(r) = (IF R THEN {c} ELSE {}) /\ Once(r)
  BY <1>3, FewLosses
<1>8. a # b /\ a # c /\ b # c  BY <1>2
<1>9. LossSet(p \o q) = LossSet(p) \union LossSet(q) /\ Once(p \o q)
  <2>1. LossSet(p) \cap LossSet(q) = {}  BY <1>7, <1>8
  <2>. QED BY <1>6, <1>7, <2>1, JoinedLosses
<1>10. /\ LossSet(p \o q \o r) = LossSet(p) \union LossSet(q) \union LossSet(r)
       /\ Once(p \o q \o r)
  <2>1. PICK o : o = p \o q  OBVIOUS
  <2>2. o \in Seq(S) /\ LossSet(o) \cap LossSet(r) = {} /\ Once(o)
    BY <1>6, <1>7, <1>8, <1>9, <2>1
  <2>3. LossSet(o \o r) = LossSet(o) \union LossSet(r) /\ Once(o \o r)
    BY <1>6, <1>7, <2>2, JoinedLosses
  <2>. QED BY <1>9, <2>1, <2>3
<1>11. \A x : x \in LossSet(StopLosses(event)) <=> (P /\ x = a) \/ (Q /\ x = b) \/ (R /\ x = c)
  BY <1>4, <1>7, <1>10
<1>12. \A x : x \in LossSet(StopLosses(event)) <=>
         x \in {<<-1, f>> : f \in
                 (IF enc.ordering_degrade THEN {"ordering"} ELSE {})
                 \union (IF event.stop_reason = "stop_sequence" THEN {"stop_sequence"} ELSE {})
                 \union (IF event.stop_reason = "tool_use" /\ ~enc.tool_seen /\ enc.custom_seen
                         THEN {"stop_reason"} ELSE {})}
  <2>1. PICK F : F = (IF enc.ordering_degrade THEN {"ordering"} ELSE {})
                     \union (IF event.stop_reason = "stop_sequence" THEN {"stop_sequence"} ELSE {})
                     \union (IF event.stop_reason = "tool_use" /\ ~enc.tool_seen /\ enc.custom_seen
                             THEN {"stop_reason"} ELSE {})
    OBVIOUS
  <2>2. \A f : f \in F <=>
          (P /\ f = "stop_reason") \/ (Q /\ f = "stop_sequence") \/ (R /\ f = "ordering")
    BY <1>1, <2>1
  <2>3. \A x : x \in {<<-1, f>> : f \in F} <=> \E f \in F : x = <<-1, f>>
    OBVIOUS
  <2>4. \A x : x \in {<<-1, f>> : f \in F} <=> (P /\ x = a) \/ (Q /\ x = b) \/ (R /\ x = c)
    BY <1>2, <2>2, <2>3
  <2>. QED BY <1>11, <2>1, <2>4
<1>13. \A x \in LossSet(StopLosses(event)) : x[1] = -1  BY <1>2, <1>11
<1>. QED BY <1>4, <1>10, <1>12, <1>13

(* The losses of the message before it ends, when it ends and after. *)
LEMMA MessageLossesGrow ==
  ASSUME NEW s \in Seq(IrEvents), NEW event \in IrEvents, Marked(enc, s),
         NEW e \in Encoders, MarksKept(event, e)
  PROVE  IF event.type = "message_delta"
         THEN /\ MessageLosses(s) = {}
              /\ MessageLosses(Append(s, event)) = LossSet(StopLosses(event))
         ELSE MessageLosses(Append(s, event)) = MessageLosses(s)
<1>1. PICK t : t = Append(s, event)  OBVIOUS
<1>2. /\ \A kinds : Starts(t, kinds) <=> Starts(s, kinds) \/ StartsOne(event, kinds)
      /\ \A reasons : EndsWith(t, reasons) <=>
           EndsWith(s, reasons) \/ (event.type = "message_delta" /\ event.stop_reason \in reasons)
      /\ TextAfterTool(t) <=>
           TextAfterTool(s) \/ (Starts(s, ToolKinds) /\ StartsOne(event, {"text"}))
  BY <1>1, MoreRead
<1>3. \A reasons : reasons \subseteq StopReasons /\ EndsWith(s, reasons) => enc.finished
  BY DEF EndsWith, Marked
<1>4. {"stop_sequence"} \subseteq StopReasons /\ {"tool_use"} \subseteq StopReasons
  BY DEF StopReasons
<1>5. ~enc.finished => /\ ~EndsWith(s, StopReasons) /\ ~EndsWith(s, {"stop_sequence"})
                       /\ ~EndsWith(s, {"tool_use"})
  BY <1>3, <1>4
<1>6. event.type = "message_delta" => event.stop_reason \in StopReasons
  BY EventForms
<1>7. ~IsStart(event) => \A kinds : ~StartsOne(event, kinds)  BY DEF StartsOne
<1>8. CASE event.type = "message_delta"
  <2>1. ~enc.finished /\ ~IsStart(event)  BY <1>8 DEF MarksKept, IsStart
  <2>2. MessageLosses(s) = {}  BY <1>5, <2>1 DEF MessageLosses
  <2>3. /\ EndsWith(t, StopReasons)
        /\ EndsWith(t, {"stop_sequence"}) <=> event.stop_reason = "stop_sequence"
        /\ EndsWith(t, {"tool_use"}) <=> event.stop_reason = "tool_use"
    BY <1>2, <1>5, <1>6, <1>8, <2>1
  <2>4. /\ TextAfterTool(t) <=> enc.ordering_degrade
        /\ Starts(t, ToolKinds) <=> enc.tool_seen
        /\ Starts(t, ApplyPatchKinds) <=> enc.custom_seen
    BY <1>2, <1>7, <2>1 DEF Marked
  <2>5. LossSet(StopLosses(event)) =
          {<<-1, f>> : f \in
             (IF enc.ordering_degrade THEN {"ordering"} ELSE {})
             \union (IF event.stop_reason = "stop_sequence" THEN {"stop_sequence"} ELSE {})
             \union (IF event.stop_reason = "tool_use" /\ ~enc.tool_seen /\ enc.custom_seen
                     THEN {"stop_reason"} ELSE {})}
    BY StopLossesFacts
  <2>6. MessageLosses(t) = LossSet(StopLosses(event))
    BY <2>3, <2>4, <2>5 DEF MessageLosses
  <2>. QED BY <1>1, <1>8, <2>2, <2>6
<1>9. CASE event.type # "message_delta" /\ ~enc.finished
  <2>1. /\ ~EndsWith(t, StopReasons) /\ ~EndsWith(t, {"stop_sequence"})
        /\ ~EndsWith(t, {"tool_use"})
    BY <1>2, <1>5, <1>9
  <2>2. MessageLosses(t) = {} /\ MessageLosses(s) = {}
    BY <1>5, <1>9, <2>1 DEF MessageLosses
  <2>. QED BY <1>1, <1>9, <2>2
<1>10. CASE event.type # "message_delta" /\ enc.finished
  <2>1. ~IsStart(event)  BY <1>10 DEF MarksKept, IsStart
  <2>2. /\ \A reasons : EndsWith(t, reasons) <=> EndsWith(s, reasons)
        /\ \A kinds : Starts(t, kinds) <=> Starts(s, kinds)
        /\ TextAfterTool(t) <=> TextAfterTool(s)
    BY <1>2, <1>7, <1>10, <2>1
  <2>3. MessageLosses(t) = MessageLosses(s)  BY <2>2 DEF MessageLosses
  <2>. QED BY <1>1, <1>10, <2>3
<1>. QED BY <1>8, <1>9, <1>10

(* The losses stay what the events read give rise to. *)
LEMMA LossesKept ==
  ASSUME enc \in Encoders, NEW s \in Seq(IrEvents), NEW event \in IrEvents, Marked(enc, s),
         Noted(enc.losses, s),
         NEW e \in Encoders, MarksKept(event, e), e.losses = enc.losses \o Added(event)
  PROVE  Noted(e.losses, Append(s, event))
<1>1. PICK t, l, old, more, S :
        /\ t = Append(s, event) /\ l = Len(s) /\ old = enc.losses /\ more = Added(event)
        /\ S = Int \X LossFields
  OBVIOUS
<1>2. l \in Nat /\ old \in Seq(S)  BY <1>1 DEF Encoders
<1>3. more \in Seq(S)
  <2>1. CASE event.type = "message_delta"
    BY <1>1, <2>1, StopLossesType DEF Added
  <2>2. CASE event.type # "message_delta"
    <3>1. ASSUME NEW field \in LossFields, NEW x, x = <<l, field>>
          PROVE  <<x>> \in Seq(S)
      <4>1. x \in S  BY <1>1, <1>2, <3>1
      <4>. QED BY <4>1
    <3>2. enc.event_ordinal = l  BY <1>1 DEF Marked
    <3>3. {"type", "signature", "citations"} \subseteq LossFields
      BY DEF LossFields
    <3>4. PICK none : none = <<>>  OBVIOUS
    <3>5. none \in Seq(S)  BY <3>4
    <3>. QED BY <1>1, <2>2, <3>1, <3>2, <3>3, <3>4, <3>5 DEF Added
  <2>. QED BY <2>1, <2>2
<1>4. LossSet(old) = EventLosses(s) \union MessageLosses(s) /\ Once(old)
  BY <1>1 DEF Noted
<1>5. \A x : /\ x \in EventLosses(t) <=> x \in EventLosses(s) \/ LossAt(t, l + 1, x)
             /\ x \in EventLosses(s) => x[1] \in 0..(l - 1)
  BY <1>1, LossesGrow
<1>6. \A x \in MessageLosses(s) : x[1] = -1  BY DEF MessageLosses
<1>7. /\ LossSet(old \o more) = LossSet(old) \union LossSet(more)
      /\ Once(more) /\ LossSet(old) \cap LossSet(more) = {} => Once(old \o more)
  BY <1>2, <1>3, <1>4, JoinedLosses
<1>8. CASE event.type = "message_delta"
  <2>1. /\ MessageLosses(s) = {} /\ MessageLosses(t) = LossSet(more)
        /\ Once(more) /\ \A x \in LossSet(more) : x[1] = -1
    <3>1. more = StopLosses(event)  BY <1>1, <1>8 DEF Added
    <3>. QED BY <1>1, <1>8, <3>1, MessageLossesGrow, StopLossesFacts
  <2>2. \A x : ~LossAt(t, l + 1, x)
    <3>1. t[l + 1] = event /\ (FirstCitation(t, l + 1) => Cites(event))
      <4>1. t[l + 1] = event  BY <1>1, MoreRead
      <4>2. FirstCitation(t, l + 1) => Cites(event)  BY <1>1, MoreCited
      <4>. QED BY <4>1, <4>2
    <3>2. ~Omits(event) /\ ~Signs(event) /\ ~Cites(event)
      BY <1>8 DEF Omits, Signs, Cites, StartsOne, IsStart, IsDelta
    <3>. QED BY <3>1, <3>2 DEF LossAt
  <2>3. EventLosses(t) = EventLosses(s)  BY <1>5, <2>2
  <2>4. LossSet(old) \cap LossSet(more) = {}
    <3>1. ASSUME NEW x \in LossSet(old), x \in LossSet(more)
          PROVE  FALSE
      <4>1. x[1] \in 0..(l - 1) /\ x[1] = -1  BY <1>4, <1>5, <2>1, <3>1
      <4>. QED BY <1>2, <4>1
    <3>. QED BY <3>1
  <2>. QED BY <1>1, <1>4, <1>7, <2>1, <2>3, <2>4 DEF Noted
<1>9. CASE event.type # "message_delta"
  <2>1. /\ \A x : x \in LossSet(more) <=> LossAt(t, l + 1, x)
        /\ Once(more)
    BY <1>1, <1>9, AddedIsDue
  <2>2. MessageLosses(t) = MessageLosses(s)  BY <1>1, <1>9, MessageLossesGrow
  <2>3. LossSet(old) \cap LossSet(more) = {}
    <3>1. ASSUME NEW x \in LossSet(old), x \in LossSet(more)
          PROVE  FALSE
      <4>1. x[1] \in 0..(l - 1) \/ x[1] = -1  BY <1>4, <1>5, <1>6, <3>1
      <4>2. x[1] = (l + 1) - 1  BY <2>1, <3>1 DEF LossAt
      <4>. QED BY <1>2, <4>1, <4>2
    <3>. QED BY <3>1
  <2>4. LossSet(old \o more) = EventLosses(t) \union MessageLosses(t)
    BY <1>4, <1>5, <1>7, <2>1, <2>2
  <2>. QED BY <1>1, <1>7, <2>1, <2>3, <2>4 DEF Noted
<1>. QED BY <1>8, <1>9

(* As long as nothing was refused: the marks and the losses are those of
   the events applied, and the chunks sent say what their deltas said. *)
Books ==
  ~failed =>
    /\ Marked(enc, EventsOf(applied)) /\ Noted(enc.losses, EventsOf(applied))
    /\ Speaks(enc) /\ ContentIn(enc.chunks) = PassedIn(EventsOf(applied))

LEMMA InitBooks == Init => Books
<1> SUFFICES ASSUME Init
             PROVE  Books
  OBVIOUS
<1>1. PICK none, s : none = <<>> /\ s = EventsOf(applied)  OBVIOUS
<1>2. Len(none) = 0 /\ 1..Len(none) = {}  BY <1>1
<1>3. s = none
  <2>1. applied = none  BY <1>1 DEF Init
  <2>. QED BY <1>1, <1>2, <2>1 DEF EventsOf
<1>4. /\ enc.event_ordinal = 0 /\ ~enc.tool_seen /\ ~enc.custom_seen /\ ~enc.ordering_degrade
      /\ ~enc.finished /\ enc.active = Idle
      /\ enc.chunks = none /\ enc.pending_tools = none /\ enc.losses = none
  BY <1>1 DEF Init, NewEncoder
<1>5. Marked(enc, s)
  BY <1>2, <1>3, <1>4, IdleType DEF Marked, Starts, TextAfterTool, EndsWith
<1>6. Noted(enc.losses, s)
  <2>1. LossSet(none) = {} /\ Once(none)  BY <1>2 DEF LossSet, Once
  <2>2. EventLosses(s) = {}
    <3>1. \A x : x \notin EventLosses(s)  BY <1>2, <1>3, LossesAt
    <3>. QED BY <3>1
  <2>3. MessageLosses(s) = {}
    <3>1. \A reasons : ~EndsWith(s, reasons)  BY <1>2, <1>3 DEF EndsWith
    <3>. QED BY <3>1 DEF MessageLosses
  <2>. QED BY <1>4, <2>1, <2>2, <2>3 DEF Noted
<1>7. Speaks(enc) /\ Quiet(none) /\ none \in Seq(Replies)
  BY <1>1, <1>2, <1>4 DEF Speaks, Quiet
<1>8. ContentIn(enc.chunks) = <<>>  BY <1>4, <1>7, QuietContent
<1>9. PassedIn(s) = <<>>
  <2>1. [k \in 1..Len(none) |-> FragmentsIn(none[k])] = none  BY <1>1, <1>2
  <2>. QED BY <1>1, <1>3, <2>1, ConcatEmpty DEF PassedIn
<1>. QED BY <1>1, <1>5, <1>6, <1>7, <1>8, <1>9 DEF Books

(* What a call that is accepted does to the encoder and the history. *)
LEMMA AcceptedStep ==
  ASSUME EncInv, NEW event \in Events, Apply(event), ~failed'
  PROVE  /\ ~failed /\ enc \in Encoders /\ event \in IrEvents
         /\ EventsOf(applied) \in Seq(IrEvents)
         /\ EventsOf(applied') = Append(EventsOf(applied), event)
         /\ \E e \in Encoders :
              /\ enc' = Counted(e)
              /\ MarksKept(event, e) /\ e.losses = enc.losses \o Added(event)
              /\ ContentKept(event, e) /\ CallsKept(event, e)
<1>1. TypeOK /\ Consistent(enc)  BY DEF EncInv
<1>2. PICK e \in Encoders :
        /\ Accepted(event, e)
        /\ MarksKept(event, e) /\ e.losses = enc.losses \o Added(event)
        /\ ContentKept(event, e) /\ CallsKept(event, e)
  BY <1>1, EveryEffect DEF Effect
<1>3. PICK c : c = [event |-> event, ok |-> TRUE]  OBVIOUS
<1>4. c \in Calls /\ c.event = event  BY <1>3 DEF Calls
<1>5. enc' = Counted(e) /\ applied' = Append(applied, c) /\ failed' = failed
  BY <1>2, <1>3 DEF Accepted
<1>6. EventsOf(applied) \in Seq(IrEvents)
      /\ EventsOf(applied') = Append(EventsOf(applied), event)
  BY <1>1, <1>4, <1>5, RecordedCall DEF TypeOK
<1>. QED BY <1>1, <1>2, <1>5, <1>6, EncoderAssumption DEF TypeOK

LEMMA StepBooks == EncInv /\ Books /\ [Next]_vars => Books'
<1> SUFFICES ASSUME EncInv, Books, [Next]_vars
             PROVE  Books'
  OBVIOUS
<1>1. ASSUME NEW event \in Events, Apply(event)
      PROVE  Books'
  <2>1. SUFFICES ASSUME ~failed'
                 PROVE  /\ Marked(enc', EventsOf(applied'))
                        /\ Noted(enc'.losses, EventsOf(applied'))
                        /\ Speaks(enc')
                        /\ ContentIn(enc'.chunks) = PassedIn(EventsOf(applied'))
    BY DEF Books
  <2>2. PICK s, t : s = EventsOf(applied) /\ t = EventsOf(applied')  OBVIOUS
  <2>3. PICK e \in Encoders :
          /\ enc' = Counted(e)
          /\ MarksKept(event, e) /\ e.losses = enc.losses \o Added(event)
          /\ ContentKept(event, e) /\ CallsKept(event, e)
    BY <1>1, <2>1, AcceptedStep
  <2>4. ~failed /\ enc \in Encoders /\ event \in IrEvents /\ s \in Seq(IrEvents)
        /\ t = Append(s, event)
    BY <1>1, <2>1, <2>2, AcceptedStep
  <2>5. Marked(enc, s) /\ Noted(enc.losses, s) /\ Speaks(enc) /\ ContentIn(enc.chunks) = PassedIn(s)
    BY <2>2, <2>4 DEF Books
  <2>6. Marked(enc', t)  BY <2>3, <2>4, <2>5, MarksGrow
  <2>7. Noted(e.losses, t)  BY <2>3, <2>4, <2>5, LossesKept
  <2>8. Speaks(e) /\ ContentIn(e.chunks) = PassedIn(s) \o FragmentsIn(event)
    BY <2>3, <2>5 DEF ContentKept
  <2>9. PassedIn(t) = PassedIn(s) \o FragmentsIn(event)  BY <2>4, PassedGrows
  <2>10. enc'.losses = e.losses /\ enc'.chunks = e.chunks /\ enc'.pending_tools = e.pending_tools
    BY <2>3, CountedKeeps DEF SameOutput
  <2>. QED BY <2>2, <2>6, <2>7, <2>8, <2>9, <2>10 DEF Speaks
<1>2. CASE UNCHANGED vars  BY <1>2 DEF vars, Books, Marked, Speaks, EventsOf
<1>. QED BY <1>1, <1>2 DEF Next

LEMMA SpecBooks == Spec => [](EncInv /\ Books)
<1>1. Init => EncInv /\ Books  BY InitEncInv, InitBooks
<1>2. EncInv /\ Books /\ [Next]_vars => (EncInv /\ Books)'
  BY StepEncInv, StepBooks
<1>. QED BY <1>1, <1>2, PTL DEF Spec

(* Whatever stream the encoder accepts: its text and thinking deltas leave
   as chunks of their own, all of them, in the order they came, and none
   is joined, split or held back with the tool chunks. *)
THEOREM ContentPasses == Spec => []ContentPassesInOrder
<1>1. Books => ContentPassesInOrder
  BY DEF Books, ContentPassesInOrder, PassedIn, Input, EventsOf
<1>. QED BY <1>1, SpecBooks, PTL

(* The losses reported are those that the events accepted give rise to,
   each once: no gap is silent but the text that a block starts with, and
   none is reported twice. *)
THEOREM LossesAreAccounted == Spec => []LossesAccountForGaps
<1>1. Books => LossesAccountForGaps
  <2>1. SUFFICES ASSUME Books, ~failed
                 PROVE  LossesAccountForGaps
    BY DEF LossesAccountForGaps
  <2>2. LossSet(enc.losses) = EventLosses(Input) \union MessageLosses(Input) /\ Once(enc.losses)
    BY <2>1 DEF Books, Noted, Input, EventsOf
  <2>3. Gaps(Input) \ StartTextGaps(Input) \subseteq LossSet(enc.losses)
        /\ LossSet(enc.losses) \subseteq Gaps(Input)
    BY <2>2 DEF Gaps
  <2>. QED BY <2>2, <2>3 DEF LossesAccountForGaps, LossSet, Once
<1>. QED BY <1>1, SpecBooks, PTL

-----------------------------------------------------------------------------
(* The calls: what is queued, against the tool blocks that were read *)

(* The tool blocks before the k-th event: the native index of a block that
   starts there. *)
Ordinal(s, k) == Cardinality(ToolBlocks(s, k - 1))

(* n tool blocks were read, and their native indexes are below n. *)
Numbered(n, s) ==
  /\ n \in Nat /\ n = Cardinality(ToolBlocks(s, Len(s)))
  /\ \A k \in ToolBlocks(s, Len(s)) : Ordinal(s, k) \in 0..(n - 1)

LEMMA ToolsCounted ==
  ASSUME NEW s, NEW m \in Int
  PROVE  IsFiniteSet(ToolBlocks(s, m)) /\ Cardinality(ToolBlocks(s, m)) \in Nat
<1>1. IsFiniteSet(1..m)  BY FS_Interval
<1>2. ToolBlocks(s, m) \subseteq 1..m  BY DEF ToolBlocks
<1>3. IsFiniteSet(ToolBlocks(s, m))  BY <1>1, <1>2, FS_Subset
<1>. QED BY <1>3, FS_CardinalityType

(* One more event, the one after the first l. *)
ToolGrowth(s, t, e, l) ==
  /\ \A k \in 1..(l + 1) : Ordinal(t, k) = Ordinal(s, k)
  /\ Ordinal(t, l + 1) = Cardinality(ToolBlocks(s, l))
  /\ \A k : k \in ToolBlocks(t, l + 1) <=>
       k \in ToolBlocks(s, l) \/ (k = l + 1 /\ StartsOne(e, ToolKinds))
  /\ Cardinality(ToolBlocks(t, l + 1)) =
       IF StartsOne(e, ToolKinds) THEN Cardinality(ToolBlocks(s, l)) + 1
       ELSE Cardinality(ToolBlocks(s, l))

LEMMA ToolsGrow ==
  ASSUME NEW s \in Seq(IrEvents), NEW e \in IrEvents, NEW t, t = Append(s, e), NEW l, l = Len(s)
  PROVE  ToolGrowth(s, t, e, l)
<1>1. l \in Nat /\ t[l + 1] = e /\ \A k \in 1..l : t[k] = s[k]  OBVIOUS
<1>2. ASSUME NEW k \in 1..(l + 1)
      PROVE  Ordinal(t, k) = Ordinal(s, k)
  <2>1. \A j \in 1..(k - 1) : t[j] = s[j]  BY <1>1
  <2>2. ToolBlocks(t, k - 1) = ToolBlocks(s, k - 1)  BY <2>1 DEF ToolBlocks
  <2>. QED BY <2>2 DEF Ordinal
<1>3. Ordinal(t, l + 1) = Cardinality(ToolBlocks(s, l))
  <2>1. l + 1 \in 1..(l + 1) /\ (l + 1) - 1 = l  BY <1>1
  <2>2. Ordinal(s, l + 1) = Cardinality(ToolBlocks(s, l))  BY <2>1 DEF Ordinal
  <2>. QED BY <1>2, <2>1, <2>2
<1>4. ASSUME NEW k
      PROVE  k \in ToolBlocks(t, l + 1) <=>
               k \in ToolBlocks(s, l) \/ (k = l + 1 /\ StartsOne(e, ToolKinds))
  <2>1. k \in 1..(l + 1) <=> k \in 1..l \/ k = l + 1  BY <1>1
  <2>. QED BY <1>1, <2>1 DEF ToolBlocks
<1>5. IsFiniteSet(ToolBlocks(s, l)) /\ l + 1 \notin ToolBlocks(s, l)
  <2>1. l + 1 \notin 1..l  BY <1>1
  <2>. QED BY <1>1, <2>1, ToolsCounted DEF ToolBlocks
<1>6. Cardinality(ToolBlocks(t, l + 1)) =
        IF StartsOne(e, ToolKinds) THEN Cardinality(ToolBlocks(s, l)) + 1
        ELSE Cardinality(ToolBlocks(s, l))
  <2>1. CASE StartsOne(e, ToolKinds)
    <3>1. ToolBlocks(t, l + 1) = ToolBlocks(s, l) \union {l + 1}  BY <1>4, <2>1
    <3>. QED BY <1>5, <2>1, <3>1, FS_AddElement
  <2>2. CASE ~StartsOne(e, ToolKinds)
    <3>1. ToolBlocks(t, l + 1) = ToolBlocks(s, l)  BY <1>4, <2>2
    <3>. QED BY <2>2, <3>1
  <2>. QED BY <2>1, <2>2
<1>. QED BY <1>2, <1>3, <1>4, <1>6 DEF ToolGrowth

(* From s to t, no tool block or one more started. *)
NoTool(s, t, n) ==
  /\ Numbered(n, t)
  /\ \A k \in ToolBlocks(t, Len(t)) :
       k \in ToolBlocks(s, Len(s)) /\ t[k] = s[k] /\ Ordinal(t, k) = Ordinal(s, k)

OneTool(s, t, n, e) ==
  /\ Numbered(n + 1, t)
  /\ \A k \in ToolBlocks(t, Len(t)) :
       \/ k \in ToolBlocks(s, Len(s)) /\ t[k] = s[k] /\ Ordinal(t, k) = Ordinal(s, k)
       \/ t[k] = e /\ Ordinal(t, k) = n

LEMMA NumberedGrows ==
  ASSUME NEW s \in Seq(IrEvents), NEW e \in IrEvents, NEW t, t = Append(s, e), NEW n,
         Numbered(n, s)
  PROVE  IF StartsOne(e, ToolKinds) THEN OneTool(s, t, n, e) ELSE NoTool(s, t, n)
<1>1. PICK l : l = Len(s)  OBVIOUS
<1>2. l \in Nat /\ Len(t) = l + 1 /\ t[l + 1] = e /\ \A k \in 1..l : t[k] = s[k]
  BY <1>1
<1>0. ToolGrowth(s, t, e, l)  BY <1>1, ToolsGrow
<1>3. /\ \A k \in 1..(l + 1) : Ordinal(t, k) = Ordinal(s, k)
      /\ Ordinal(t, l + 1) = Cardinality(ToolBlocks(s, l))
      /\ \A k : k \in ToolBlocks(t, l + 1) <=>
           k \in ToolBlocks(s, l) \/ (k = l + 1 /\ StartsOne(e, ToolKinds))
      /\ Cardinality(ToolBlocks(t, l + 1)) =
           IF StartsOne(e, ToolKinds) THEN Cardinality(ToolBlocks(s, l)) + 1
           ELSE Cardinality(ToolBlocks(s, l))
  BY <1>0 DEF ToolGrowth
<1>4. /\ n \in Nat /\ n = Cardinality(ToolBlocks(s, l))
      /\ \A k \in ToolBlocks(s, l) : Ordinal(s, k) \in 0..(n - 1)
  BY <1>1 DEF Numbered
<1>5. \A k \in ToolBlocks(s, l) : k \in 1..l /\ k \in 1..(l + 1)
  BY <1>2 DEF ToolBlocks
<1>6. \A k \in ToolBlocks(t, l + 1) :
        \/ k \in ToolBlocks(s, l) /\ t[k] = s[k] /\ Ordinal(t, k) = Ordinal(s, k)
        \/ StartsOne(e, ToolKinds) /\ t[k] = e /\ Ordinal(t, k) = n
  BY <1>2, <1>3, <1>4, <1>5
<1>7. PICK m : m = IF StartsOne(e, ToolKinds) THEN n + 1 ELSE n  OBVIOUS
<1>8. ASSUME NEW k \in ToolBlocks(t, l + 1)
      PROVE  Ordinal(t, k) \in 0..(m - 1)
  BY <1>4, <1>6, <1>7
<1>9. m \in Nat /\ m = Cardinality(ToolBlocks(t, l + 1))  BY <1>3, <1>4, <1>7
<1>10. Len(t) = l + 1 /\ Numbered(m, t)  BY <1>2, <1>8, <1>9 DEF Numbered
<1>. QED BY <1>1, <1>6, <1>7, <1>10 DEF OneTool, NoTool

(* What a client reads out of the calls. *)
FullCalls ==
  {c \in NativeCalls : PayloadOf(c).name \in Text /\ PayloadOf(c).text[1] \in Text}

Piece(c, i, x) == IF c.index = i THEN x ELSE <<>>

LEMMA CallsRead ==
  ASSUME NEW q \in Seq(FullCalls), NEW c \in FullCalls, NEW i
  PROVE  /\ NameOf(Append(q, c), i) = NameOf(q, i) \o Piece(c, i, PayloadOf(c).name)
         /\ InputOf(Append(q, c), i) = InputOf(q, i) \o Piece(c, i, PayloadOf(c).text[1])
         /\ NameOf(q, i) \in Text /\ InputOf(q, i) \in Text
<1>1. PICK F, G : /\ F = [x \in FullCalls |-> Piece(x, i, PayloadOf(x).name)]
                  /\ G = [x \in FullCalls |-> Piece(x, i, PayloadOf(x).text[1])]
  OBVIOUS
<1>2. ASSUME NEW x \in FullCalls
      PROVE  /\ Piece(x, i, PayloadOf(x).name) \in Seq(Tokens)
             /\ Piece(x, i, PayloadOf(x).text[1]) \in Seq(Tokens)
  BY DEF Piece, FullCalls, Text
<1>3. /\ F \in Sayings(FullCalls, Tokens) /\ G \in Sayings(FullCalls, Tokens)
      /\ \A x \in FullCalls : /\ F[x] = Piece(x, i, PayloadOf(x).name)
                              /\ G[x] = Piece(x, i, PayloadOf(x).text[1])
  BY <1>1, <1>2 DEF Sayings
<1>4. ASSUME NEW v \in Seq(FullCalls)
      PROVE  NameOf(v, i) = JoinOf(F, v) /\ InputOf(v, i) = JoinOf(G, v)
  <2>1. \A k \in 1..Len(v) :
          /\ F[v[k]] = IF v[k].index = i THEN PayloadOf(v[k]).name ELSE <<>>
          /\ G[v[k]] = IF v[k].index = i THEN PayloadOf(v[k]).text[1] ELSE <<>>
    BY <1>3 DEF Piece
  <2>2. /\ [k \in 1..Len(v) |-> IF v[k].index = i THEN PayloadOf(v[k]).name ELSE <<>>]
             = [k \in 1..Len(v) |-> F[v[k]]]
        /\ [k \in 1..Len(v) |-> IF v[k].index = i THEN PayloadOf(v[k]).text[1] ELSE <<>>]
             = [k \in 1..Len(v) |-> G[v[k]]]
    BY <2>1
  <2>. QED BY <2>2, Zenon DEF NameOf, InputOf, JoinOf
<1>5. /\ JoinOf(F, Append(q, c)) = JoinOf(F, q) \o F[c]
      /\ JoinOf(F, q) \in Seq(Tokens) /\ Append(q, c) \in Seq(FullCalls)
  BY <1>3, JoinOfMore
<1>6. /\ JoinOf(G, Append(q, c)) = JoinOf(G, q) \o G[c] /\ JoinOf(G, q) \in Seq(Tokens)
  BY <1>3, JoinOfMore
<1>7. /\ F[c] = Piece(c, i, PayloadOf(c).name) /\ G[c] = Piece(c, i, PayloadOf(c).text[1])
      /\ NameOf(q, i) = JoinOf(F, q) /\ InputOf(q, i) = JoinOf(G, q)
      /\ NameOf(Append(q, c), i) = JoinOf(F, Append(q, c))
      /\ InputOf(Append(q, c), i) = JoinOf(G, Append(q, c))
  BY <1>3, <1>4, <1>5
<1>. QED BY <1>5, <1>6, <1>7 DEF Text

(* Nothing is read for an index that no call has. *)
LEMMA NothingRead ==
  ASSUME NEW q \in Seq(FullCalls), NEW i, \A k \in 1..Len(q) : q[k].index # i
  PROVE  NameOf(q, i) = <<>> /\ InputOf(q, i) = <<>>
<1>1. PICK none : none = <<>>  OBVIOUS
<1>2. none \in Seq(Tokens)  BY <1>1
<1>3. PICK F : F = [x \in FullCalls |-> none]  OBVIOUS
<1>4. F \in Sayings(FullCalls, Tokens) /\ \A x \in FullCalls : F[x] = none
  BY <1>2, <1>3 DEF Sayings
<1>5. Silent(F, q)  BY <1>1, <1>4 DEF Silent
<1>6. JoinOf(F, q) = <<>>  BY <1>4, <1>5, JoinOfNone
<1>7. \A k \in 1..Len(q) : F[q[k]] = none  BY <1>4
<1>8. /\ [k \in 1..Len(q) |-> IF q[k].index = i THEN PayloadOf(q[k]).name ELSE <<>>]
           = [k \in 1..Len(q) |-> F[q[k]]]
      /\ [k \in 1..Len(q) |-> IF q[k].index = i THEN PayloadOf(q[k]).text[1] ELSE <<>>]
           = [k \in 1..Len(q) |-> F[q[k]]]
  BY <1>1, <1>7
<1>9. NameOf(q, i) = JoinOf(F, q) /\ InputOf(q, i) = JoinOf(F, q)
  BY <1>8, Zenon DEF NameOf, InputOf, JoinOf
<1>. QED BY <1>6, <1>9

-----------------------------------------------------------------------------
(* The queue of calls *)

(* What a client puts together for the native index i. *)
RebuiltAs(q, i, id, kind, name, text) ==
  /\ \E k \in 1..Len(q) : q[k].index = i /\ q[k].id = id /\ q[k].kind = kind
  /\ NameOf(q, i) = name /\ InputOf(q, i) = text

(* The indexes of the calls in the queue are those < m. *)
Indexes(q, m) ==
  /\ \A k \in 1..Len(q) : q[k].index \in 0..(m - 1)
  /\ \A i \in 0..(m - 1) : \E k \in 1..Len(q) : q[k].index = i

(* m calls stand in the queue, each behind the one before. *)
Line(q, m) == q \in Seq(FullCalls) /\ m \in Nat /\ OneByOne(q) /\ Indexes(q, m)

(* What was put together in q, but for the index m, is the same in u. *)
KeepsBut(q, u, m) ==
  \A i, id, kind, name, text :
    i # m /\ RebuiltAs(q, i, id, kind, name, text) => RebuiltAs(u, i, id, kind, name, text)

LEMMA MoreCalls ==
  ASSUME NEW q \in Seq(FullCalls), NEW c \in FullCalls, NEW u, u = Append(q, c), NEW l, l = Len(q)
  PROVE  /\ u \in Seq(FullCalls) /\ l \in Nat /\ Len(u) = l + 1 /\ u[l + 1] = c
         /\ \A k \in 1..l : u[k] = q[k] /\ k \in 1..(l + 1)
         /\ \A k \in 1..(l + 1) : k \in 1..l \/ k = l + 1
         /\ l + 1 \in 1..(l + 1)
<1>1. u \in Seq(FullCalls) /\ l \in Nat /\ Len(u) = l + 1 /\ u[l + 1] = c
  OBVIOUS
<1>2. \A k \in 1..l : u[k] = q[k]  OBVIOUS
<1>. QED BY <1>1, <1>2

(* What the calls of a queue that stand one behind the other are. *)
Behind(x, y) ==
  /\ x.index <= y.index
  /\ x.index = y.index => y.id = "" /\ y.kind = "absent"

LEMMA OneByOneMeans ==
  ASSUME NEW q
  PROVE  OneByOne(q) <=> \A j, k \in 1..Len(q) : j < k => Behind(q[j], q[k])
BY DEF OneByOne, Behind

LEMMA OneMore ==
  ASSUME NEW q \in Seq(FullCalls), OneByOne(q), NEW c \in FullCalls,
         \A k \in 1..Len(q) : Behind(q[k], c), NEW u, u = Append(q, c)
  PROVE  OneByOne(u)
<1>1. PICK l : l = Len(q)  OBVIOUS
<1>2. /\ l \in Nat /\ Len(u) = l + 1 /\ u[l + 1] = c
      /\ \A k \in 1..l : u[k] = q[k]
      /\ \A k \in 1..(l + 1) : k \in 1..l \/ k = l + 1
  BY <1>1, MoreCalls
<1>3. \A j, k \in 1..l : j < k => Behind(q[j], q[k])  BY <1>1, OneByOneMeans
<1>4. ASSUME NEW j \in 1..(l + 1), NEW k \in 1..(l + 1), j < k
      PROVE  Behind(u[j], u[k])
  <2>1. j \in 1..l  BY <1>2, <1>4
  <2>2. CASE k = l + 1  BY <1>1, <1>2, <2>1, <2>2
  <2>3. CASE k \in 1..l  BY <1>2, <1>3, <1>4, <2>1, <2>3
  <2>. QED BY <1>2, <2>2, <2>3
<1>. QED BY <1>2, <1>4, OneByOneMeans

(* A piece of one call changes no other. *)
LEMMA OthersKept ==
  ASSUME NEW q \in Seq(FullCalls), NEW c \in FullCalls, NEW u, u = Append(q, c)
  PROVE  KeepsBut(q, u, c.index)
<1> SUFFICES ASSUME NEW i, NEW id, NEW kind, NEW name, NEW text,
                    i # c.index, RebuiltAs(q, i, id, kind, name, text)
             PROVE  RebuiltAs(u, i, id, kind, name, text)
  BY DEF KeepsBut
<1>1. PICK l : l = Len(q)  OBVIOUS
<1>2. Len(u) = l + 1 /\ \A k \in 1..l : u[k] = q[k] /\ k \in 1..(l + 1)
  BY <1>1, MoreCalls
<1>3. \E k \in 1..Len(u) : u[k].index = i /\ u[k].id = id /\ u[k].kind = kind
  BY <1>1, <1>2 DEF RebuiltAs
<1>4. Piece(c, i, PayloadOf(c).name) = <<>> /\ Piece(c, i, PayloadOf(c).text[1]) = <<>>
  BY DEF Piece
<1>5. /\ NameOf(u, i) = NameOf(q, i) \o Piece(c, i, PayloadOf(c).name)
      /\ InputOf(u, i) = InputOf(q, i) \o Piece(c, i, PayloadOf(c).text[1])
      /\ NameOf(q, i) \in Text /\ InputOf(q, i) \in Text
  BY CallsRead
<1>6. NameOf(q, i) \o <<>> = NameOf(q, i) /\ InputOf(q, i) \o <<>> = InputOf(q, i)
  BY <1>5 DEF Text
<1>. QED BY <1>3, <1>4, <1>5, <1>6 DEF RebuiltAs

(* The first piece of the next call. *)
LEMMA CallBegins ==
  ASSUME NEW q, NEW m, Line(q, m), NEW c \in FullCalls, c.index = m, NEW u, u = Append(q, c)
  PROVE  /\ Line(u, m + 1)
         /\ RebuiltAs(u, m, c.id, c.kind, PayloadOf(c).name, PayloadOf(c).text[1])
<1>1. PICK l : l = Len(q)  OBVIOUS
<1>2. /\ q \in Seq(FullCalls) /\ m \in Nat /\ OneByOne(q)
      /\ \A k \in 1..l : q[k].index \in 0..(m - 1)
      /\ \A i \in 0..(m - 1) : \E k \in 1..l : q[k].index = i
  BY <1>1 DEF Line, Indexes
<1>3. /\ u \in Seq(FullCalls) /\ l \in Nat /\ Len(u) = l + 1 /\ u[l + 1] = c
      /\ \A k \in 1..l : u[k] = q[k] /\ k \in 1..(l + 1)
      /\ \A k \in 1..(l + 1) : k \in 1..l \/ k = l + 1
      /\ l + 1 \in 1..(l + 1)
  BY <1>1, <1>2, MoreCalls
<1>4. \A k \in 1..l : q[k].index # m /\ q[k].index <= m  BY <1>2
<1>5. OneByOne(u)
  <2>1. \A k \in 1..l : Behind(q[k], c)  BY <1>4 DEF Behind
  <2>. QED BY <1>1, <1>2, <2>1, OneMore
<1>6. ASSUME NEW k \in 1..(l + 1)
      PROVE  u[k].index \in 0..((m + 1) - 1)
  BY <1>2, <1>3
<1>7. ASSUME NEW i \in 0..((m + 1) - 1)
      PROVE  \E k \in 1..(l + 1) : u[k].index = i
  <2>1. i = m \/ i \in 0..(m - 1)  BY <1>2
  <2>. QED BY <1>2, <1>3, <2>1
<1>8. Line(u, m + 1)
  <2>1. Indexes(u, m + 1)  BY <1>3, <1>6, <1>7 DEF Indexes
  <2>2. m + 1 \in Nat  BY <1>2
  <2>. QED BY <1>3, <1>5, <2>1, <2>2 DEF Line
<1>9. NameOf(q, m) = <<>> /\ InputOf(q, m) = <<>>
  BY <1>1, <1>2, <1>4, NothingRead
<1>10. /\ Piece(c, m, PayloadOf(c).name) = PayloadOf(c).name
       /\ Piece(c, m, PayloadOf(c).text[1]) = PayloadOf(c).text[1]
  BY DEF Piece
<1>11. /\ NameOf(u, m) = NameOf(q, m) \o Piece(c, m, PayloadOf(c).name)
       /\ InputOf(u, m) = InputOf(q, m) \o Piece(c, m, PayloadOf(c).text[1])
  BY <1>2, CallsRead
<1>12. /\ <<>> \o PayloadOf(c).name = PayloadOf(c).name
       /\ <<>> \o PayloadOf(c).text[1] = PayloadOf(c).text[1]
  BY DEF FullCalls, Text
<1>. QED BY <1>3, <1>8, <1>9, <1>10, <1>11, <1>12 DEF RebuiltAs

(* A piece after the first has neither id nor kind nor name. *)
GoesOn(c, m) ==
  c.index = m /\ c.id = "" /\ c.kind = "absent" /\ PayloadOf(c).name = <<>>

(* Another piece of the last call. *)
LEMMA CallGoesOn ==
  ASSUME NEW q, NEW m \in Nat, Line(q, m + 1), NEW c \in FullCalls, GoesOn(c, m),
         NEW u, u = Append(q, c),
         NEW id, NEW kind, NEW name, NEW text, RebuiltAs(q, m, id, kind, name, text)
  PROVE  Line(u, m + 1) /\ RebuiltAs(u, m, id, kind, name, text \o PayloadOf(c).text[1])
<1>1. PICK l : l = Len(q)  OBVIOUS
<1>2. /\ q \in Seq(FullCalls) /\ OneByOne(q)
      /\ \A k \in 1..l : q[k].index \in 0..((m + 1) - 1)
      /\ \A i \in 0..((m + 1) - 1) : \E k \in 1..l : q[k].index = i
  BY <1>1 DEF Line, Indexes
<1>3. /\ u \in Seq(FullCalls) /\ l \in Nat /\ Len(u) = l + 1 /\ u[l + 1] = c
      /\ \A k \in 1..l : u[k] = q[k] /\ k \in 1..(l + 1)
      /\ \A k \in 1..(l + 1) : k \in 1..l \/ k = l + 1
      /\ l + 1 \in 1..(l + 1)
  BY <1>1, <1>2, MoreCalls
<1>4. c.index = m /\ c.index \in 0..((m + 1) - 1)
  <2>1. c.index = m  BY Zenon DEF GoesOn
  <2>. QED BY <2>1
<1>5. OneByOne(u)
  <2>1. \A k \in 1..l : q[k].index <= c.index  BY <1>2, <1>4
  <2>2. \A k \in 1..l : Behind(q[k], c)  BY <2>1 DEF Behind, GoesOn
  <2>. QED BY <1>1, <1>2, <2>2, OneMore
<1>6. Line(u, m + 1)
  <2>1. \A k \in 1..(l + 1) : u[k].index \in 0..((m + 1) - 1)
    BY <1>2, <1>3, <1>4
  <2>2. \A i \in 0..((m + 1) - 1) : \E k \in 1..(l + 1) : u[k].index = i
    BY <1>2, <1>3
  <2>3. Indexes(u, m + 1)  BY <1>3, <2>1, <2>2 DEF Indexes
  <2>. QED BY <1>3, <1>5, <2>3 DEF Line
<1>7. Piece(c, m, PayloadOf(c).name) = <<>>
      /\ Piece(c, m, PayloadOf(c).text[1]) = PayloadOf(c).text[1]
  BY DEF Piece, GoesOn
<1>8. /\ NameOf(u, m) = NameOf(q, m) \o Piece(c, m, PayloadOf(c).name)
      /\ InputOf(u, m) = InputOf(q, m) \o Piece(c, m, PayloadOf(c).text[1])
      /\ NameOf(q, m) \in Text
  BY <1>2, CallsRead
<1>9. NameOf(q, m) \o <<>> = NameOf(q, m)  BY <1>8 DEF Text
<1>10. \E k \in 1..Len(u) : u[k].index = m /\ u[k].id = id /\ u[k].kind = kind
  BY <1>1, <1>3 DEF RebuiltAs
<1>. QED BY <1>6, <1>7, <1>8, <1>9, <1>10 DEF RebuiltAs

-----------------------------------------------------------------------------
(* The call that is being read *)

InCall(a) == a.kind \in {"Tool", "CustomTool"}
KindOf(a) == IF a.kind = "CustomTool" THEN "custom" ELSE "function"

(* n calls were opened; the last is queued once it has a fragment. *)
QueuedCalls(n, a) == IF InCall(a) /\ a.fragments = <<>> THEN n - 1 ELSE n

(* The queue when n calls were opened and a is the active block. *)
Queued(q, n, a) ==
  /\ n \in Nat /\ Line(q, QueuedCalls(n, a))
  /\ InCall(a) =>
       /\ n > 0 /\ a.native_index = n - 1
       /\ a.tool_started <=> a.fragments # <<>>
       /\ a.fragments # <<>> =>
            RebuiltAs(q, n - 1, a.tool_id, KindOf(a), a.tool_name, Concat(a.fragments))

(* The active call, with one more fragment. *)
MoreOf(a, text) == [a EXCEPT !.fragments = Append(@, text), !.tool_started = TRUE]

LEMMA MoreOfCall ==
  ASSUME NEW a \in ActiveBlocks, NEW text \in Text, NEW b, b = MoreOf(a, text)
  PROVE  /\ b \in ActiveBlocks /\ b.kind = a.kind /\ b.native_index = a.native_index
         /\ b.tool_id = a.tool_id /\ b.tool_name = a.tool_name /\ b.tool_input = a.tool_input
         /\ b.tool_started /\ b.fragments = Append(a.fragments, text) /\ b.fragments # <<>>
         /\ Concat(b.fragments) = Concat(a.fragments) \o text
         /\ a.fragments = <<>> => Concat(b.fragments) = text
         /\ KindOf(b) = KindOf(a) /\ (InCall(b) <=> InCall(a))
<1>1. PICK fs, gs : fs = a.fragments /\ gs = Append(fs, text)  OBVIOUS
<1>2. fs \in Seq(Text) /\ gs \in Seq(Text) /\ gs # <<>>
  BY <1>1 DEF ActiveBlocks
<1>3. b = [a EXCEPT !.fragments = gs, !.tool_started = TRUE]  BY <1>1 DEF MoreOf
<1>4. /\ b \in ActiveBlocks /\ b.kind = a.kind /\ b.native_index = a.native_index
      /\ b.tool_id = a.tool_id /\ b.tool_name = a.tool_name /\ b.tool_input = a.tool_input
      /\ b.tool_started /\ b.fragments = gs
  BY <1>2, <1>3 DEF ActiveBlocks
<1>5. Concat(gs) = Concat(fs) \o text  BY <1>1, <1>2, ConcatAppend DEF Text
<1>6. fs = <<>> => Concat(gs) = text
  <2>1. <<>> \o text = text  BY DEF Text
  <2>. QED BY <1>5, <2>1, ConcatEmpty
<1>. QED BY <1>1, <1>2, <1>4, <1>5, <1>6 DEF KindOf, InCall

(* A fragment is queued behind those already there. *)
LEMMA FragmentQueued ==
  ASSUME NEW a \in ActiveBlocks, InCall(a), NEW n, NEW q, Queued(q, n, a),
         NEW text \in Text, NEW c \in FullCalls, Says(c, a, text), NEW u, u = Append(q, c),
         NEW b, b = MoreOf(a, text)
  PROVE  Queued(u, n, b) /\ KeepsBut(q, u, n - 1)
<1>1. /\ n \in Nat /\ n > 0 /\ a.native_index = n - 1
      /\ a.tool_started <=> a.fragments # <<>>
  BY DEF Queued
<1>2. PICK m : m = n - 1  OBVIOUS
<1>3. m \in Nat /\ n = m + 1  BY <1>1, <1>2
<1>4. /\ c.index = m /\ PayloadOf(c).text[1] = text
      /\ a.tool_started => c.id = "" /\ c.kind = "absent" /\ PayloadOf(c).name = <<>>
      /\ ~a.tool_started => /\ c.id = a.tool_id /\ PayloadOf(c).name = a.tool_name
                            /\ c.kind = KindOf(a)
  BY <1>1, <1>2 DEF Says, KindOf
<1>5. /\ b.kind = a.kind /\ b.native_index = a.native_index
      /\ b.tool_id = a.tool_id /\ b.tool_name = a.tool_name
      /\ b.tool_started /\ b.fragments # <<>>
      /\ Concat(b.fragments) = Concat(a.fragments) \o text
      /\ a.fragments = <<>> => Concat(b.fragments) = text
      /\ KindOf(b) = KindOf(a) /\ InCall(b)
  BY MoreOfCall
<1>6. Line(u, m + 1) /\ RebuiltAs(u, m, a.tool_id, KindOf(a), a.tool_name, Concat(b.fragments))
  <2>1. CASE a.fragments = <<>>
    <3>1. Line(q, m)  BY <1>2, <2>1 DEF Queued, QueuedCalls
    <3>2. /\ Line(u, m + 1)
          /\ RebuiltAs(u, m, c.id, c.kind, PayloadOf(c).name, PayloadOf(c).text[1])
      BY <1>4, <3>1, CallBegins
    <3>. QED BY <1>1, <1>4, <1>5, <2>1, <3>2
  <2>2. CASE a.fragments # <<>>
    <3>1. Line(q, m + 1)  BY <1>3, <2>2 DEF Queued, QueuedCalls
    <3>2. RebuiltAs(q, m, a.tool_id, KindOf(a), a.tool_name, Concat(a.fragments))
      BY <1>2, <2>2 DEF Queued
    <3>3. GoesOn(c, m)  BY <1>1, <1>4, <2>2 DEF GoesOn
    <3>4. /\ Line(u, m + 1)
          /\ RebuiltAs(u, m, a.tool_id, KindOf(a), a.tool_name,
                       Concat(a.fragments) \o PayloadOf(c).text[1])
      BY <1>3, <3>1, <3>2, <3>3, CallGoesOn
    <3>. QED BY <1>4, <1>5, <3>4
  <2>. QED BY <2>1, <2>2
<1>7. QueuedCalls(n, b) = m + 1  BY <1>3, <1>5 DEF QueuedCalls
<1>8. Queued(u, n, b)  BY <1>1, <1>2, <1>5, <1>6, <1>7 DEF Queued
<1>9. q \in Seq(FullCalls)  BY DEF Queued, Line
<1>10. KeepsBut(q, u, m)  BY <1>4, <1>9, OthersKept
<1>. QED BY <1>2, <1>8, <1>10

(* A call opens, or closes with a fragment, or there is none. *)
LEMMA QueueStays ==
  ASSUME NEW a, NEW b, NEW n, NEW q, Queued(q, n, a)
  PROVE  /\ ~InCall(a) /\ ~InCall(b) => Queued(q, n, b)
         /\ InCall(a) /\ a.fragments # <<>> /\ ~InCall(b) => Queued(q, n, b)
         /\ /\ ~InCall(a) /\ InCall(b) /\ b.native_index = n
            /\ b.fragments = <<>> /\ ~b.tool_started
            => Queued(q, n + 1, b)
<1>1. n \in Nat /\ Line(q, QueuedCalls(n, a))  BY DEF Queued
<1>2. ~InCall(b) /\ (InCall(a) => a.fragments # <<>>) => Queued(q, n, b)
  <2>1. ~InCall(b) /\ (InCall(a) => a.fragments # <<>>) =>
          QueuedCalls(n, a) = n /\ QueuedCalls(n, b) = n
    BY DEF QueuedCalls
  <2>. QED BY <1>1, <2>1 DEF Queued
<1>3. ASSUME ~InCall(a), InCall(b), b.native_index = n, b.fragments = <<>>, ~b.tool_started
      PROVE  Queued(q, n + 1, b)
  <2>1. QueuedCalls(n, a) = n /\ QueuedCalls(n + 1, b) = n
    BY <1>1, <1>3 DEF QueuedCalls
  <2>2. n + 1 \in Nat /\ n + 1 > 0 /\ (n + 1) - 1 = n  BY <1>1
  <2>. QED BY <1>1, <1>3, <2>1, <2>2 DEF Queued
<1>. QED BY <1>2, <1>3

-----------------------------------------------------------------------------
(* The calls against the tool blocks *)

KindFor(b) == IF b.kind = "custom_tool_use" THEN "custom" ELSE "function"

(* The active call is the block b. *)
Holds(a, b) ==
  a.tool_id = b.id /\ a.tool_name = b.name /\ a.tool_input = b.text /\ KindOf(a) = KindFor(b)

LEMMA RebuiltBlock ==
  ASSUME NEW q, NEW i, NEW b
  PROVE  Rebuilt(q, i, b) <=> RebuiltAs(q, i, b.id, KindFor(b), b.name, b.text)
BY DEF Rebuilt, RebuiltAs, KindFor

(* Every tool block is held or can be put together from the queue. *)
Answers(q, n, a, s) ==
  /\ Numbered(n, s)
  /\ \A k \in ToolBlocks(s, Len(s)) :
       IF InCall(a) /\ Ordinal(s, k) = n - 1 THEN Holds(a, s[k].block)
       ELSE Rebuilt(q, Ordinal(s, k), s[k].block)

LEMMA AnswersGoOn ==
  ASSUME NEW s \in Seq(IrEvents), NEW e \in IrEvents, ~StartsOne(e, ToolKinds),
         NEW t, t = Append(s, e), NEW n, NEW q, NEW a, Answers(q, n, a, s), NEW u,
         (KeepsBut(q, u, n - 1) /\ InCall(a)) \/ u = q, NEW b, InCall(b) <=> InCall(a),
         InCall(a) => /\ b.tool_id = a.tool_id /\ b.tool_name = a.tool_name
                      /\ b.tool_input = a.tool_input /\ b.kind = a.kind
  PROVE  Answers(u, n, b, t)
<1>1. Numbered(n, s)  BY DEF Answers
<1>2. NoTool(s, t, n)  BY <1>1, NumberedGrows
<1>3. ASSUME NEW k \in ToolBlocks(t, Len(t))
      PROVE  IF InCall(b) /\ Ordinal(t, k) = n - 1 THEN Holds(b, t[k].block)
             ELSE Rebuilt(u, Ordinal(t, k), t[k].block)
  <2>1. /\ t[k] = s[k] /\ Ordinal(t, k) = Ordinal(s, k)
        /\ IF InCall(a) /\ Ordinal(s, k) = n - 1 THEN Holds(a, s[k].block)
           ELSE Rebuilt(q, Ordinal(s, k), s[k].block)
    BY <1>2, <1>3 DEF Answers, NoTool
  <2>2. CASE InCall(a) /\ Ordinal(s, k) = n - 1  BY <2>1, <2>2 DEF Holds, KindOf
  <2>3. CASE ~(InCall(a) /\ Ordinal(s, k) = n - 1)
    <3>1. PICK i, block : i = Ordinal(s, k) /\ block = s[k].block  OBVIOUS
    <3>2. RebuiltAs(q, i, block.id, KindFor(block), block.name, block.text)
      BY <2>1, <2>3, <3>1, RebuiltBlock
    <3>3. RebuiltAs(u, i, block.id, KindFor(block), block.name, block.text)
      BY <2>3, <3>1, <3>2 DEF KeepsBut
    <3>4. Rebuilt(u, i, block)  BY <3>3, RebuiltBlock
    <3>. QED BY <2>1, <2>3, <3>1, <3>4
  <2>. QED BY <2>2, <2>3
<1>. QED BY <1>2, <1>3 DEF Answers, NoTool

(* A tool block starts and is held. *)
LEMMA AnswersOpen ==
  ASSUME NEW s \in Seq(IrEvents), NEW e \in IrEvents, StartsOne(e, ToolKinds),
         NEW t, t = Append(s, e), NEW n, NEW q, NEW a, Answers(q, n, a, s), ~InCall(a),
         NEW b, InCall(b), Holds(b, e.block)
  PROVE  Answers(q, n + 1, b, t)
<1>1. Numbered(n, s) /\ n \in Nat /\ \A k \in ToolBlocks(s, Len(s)) : Ordinal(s, k) \in 0..(n - 1)
  BY DEF Answers, Numbered
<1>2. OneTool(s, t, n, e)  BY <1>1, NumberedGrows
<1>3. (n + 1) - 1 = n /\ \A i \in 0..(n - 1) : i # n  BY <1>1
<1>4. ASSUME NEW k \in ToolBlocks(t, Len(t))
      PROVE  IF InCall(b) /\ Ordinal(t, k) = (n + 1) - 1 THEN Holds(b, t[k].block)
             ELSE Rebuilt(q, Ordinal(t, k), t[k].block)
  <2>1. CASE k \in ToolBlocks(s, Len(s)) /\ t[k] = s[k] /\ Ordinal(t, k) = Ordinal(s, k)
    <3>1. Rebuilt(q, Ordinal(s, k), s[k].block)  BY <2>1 DEF Answers
    <3>2. Ordinal(s, k) # n  BY <1>1, <1>3, <2>1
    <3>. QED BY <1>3, <2>1, <3>1, <3>2
  <2>2. CASE t[k] = e /\ Ordinal(t, k) = n  BY <1>3, <2>2
  <2>. QED BY <1>2, <2>1, <2>2 DEF OneTool
<1>. QED BY <1>2, <1>4 DEF Answers, OneTool

(* The call that is held ends, and stands in the queue. *)
LEMMA AnswersClose ==
  ASSUME NEW s \in Seq(IrEvents), NEW e \in IrEvents, ~StartsOne(e, ToolKinds),
         NEW t, t = Append(s, e), NEW n, NEW q, NEW a, Answers(q, n, a, s), InCall(a),
         RebuiltAs(q, n - 1, a.tool_id, KindOf(a), a.tool_name, a.tool_input),
         NEW b, ~InCall(b)
  PROVE  Answers(q, n, b, t)
<1>1. Numbered(n, s)  BY DEF Answers
<1>2. NoTool(s, t, n)  BY <1>1, NumberedGrows
<1>3. ASSUME NEW k \in ToolBlocks(t, Len(t))
      PROVE  Rebuilt(q, Ordinal(t, k), t[k].block)
  <2>1. /\ t[k] = s[k] /\ Ordinal(t, k) = Ordinal(s, k)
        /\ IF Ordinal(s, k) = n - 1 THEN Holds(a, s[k].block)
           ELSE Rebuilt(q, Ordinal(s, k), s[k].block)
    BY <1>2, <1>3 DEF Answers, NoTool
  <2>2. CASE Ordinal(s, k) = n - 1
    <3>1. PICK block : block = s[k].block  OBVIOUS
    <3>2. RebuiltAs(q, n - 1, block.id, KindFor(block), block.name, block.text)
      BY <2>1, <2>2, <3>1 DEF Holds
    <3>. QED BY <2>1, <2>2, <3>1, <3>2, RebuiltBlock
  <2>3. CASE Ordinal(s, k) # n - 1  BY <2>1, <2>3
  <2>. QED BY <2>2, <2>3
<1>. QED BY <1>2, <1>3 DEF Answers, NoTool

-----------------------------------------------------------------------------
(* The calls in the chunks *)

LEMMA CallsJoin ==
  \E F \in Sayings(Replies, NativeCalls) :
    /\ \A c \in Replies : F[c] = c.choice[1].tool_calls
    /\ \A s \in Seq(Replies) : CallsIn(s) = JoinOf(F, s)
<1>1. PICK F : F = [c \in Replies |-> c.choice[1].tool_calls]  OBVIOUS
<1>2. ASSUME NEW c \in Replies
      PROVE  c.choice[1].tool_calls \in Seq(NativeCalls)
  <2>1. c.choice \in Option(NativeChoices) /\ c.choice # <<>>
    BY DEF Replies, WireChunks, None
  <2>2. PICK x : x = c.choice[1]  OBVIOUS
  <2>3. x \in NativeChoices  BY <2>1, <2>2 DEF Option
  <2>4. x.tool_calls \in Seq(NativeCalls)  BY <2>3 DEF NativeChoices
  <2>. QED BY <2>2, <2>4
<1>3. F \in Sayings(Replies, NativeCalls) /\ \A c \in Replies : F[c] = c.choice[1].tool_calls
  BY <1>1, <1>2 DEF Sayings
<1>4. ASSUME NEW s \in Seq(Replies)
      PROVE  CallsIn(s) = JoinOf(F, s)
  <2>1. \A k \in 1..Len(s) : F[s[k]] = s[k].choice[1].tool_calls  BY <1>3
  <2>2. [k \in 1..Len(s) |-> s[k].choice[1].tool_calls] = [k \in 1..Len(s) |-> F[s[k]]]
    BY <2>1
  <2>. QED BY <2>2, Zenon DEF CallsIn, JoinOf
<1>. QED BY <1>3, <1>4

LEMMA CallsAdded ==
  ASSUME NEW s \in Seq(Replies), NEW c \in Replies
  PROVE  /\ CallsIn(Append(s, c)) = CallsIn(s) \o c.choice[1].tool_calls
         /\ CallsIn(s) \in Seq(NativeCalls) /\ Append(s, c) \in Seq(Replies)
         /\ c.choice[1].tool_calls = <<>> => CallsIn(Append(s, c)) = CallsIn(s)
<1>1. PICK F \in Sayings(Replies, NativeCalls) :
        /\ \A x \in Replies : F[x] = x.choice[1].tool_calls
        /\ \A v \in Seq(Replies) : CallsIn(v) = JoinOf(F, v)
  BY CallsJoin
<1>2. JoinOf(F, Append(s, c)) = JoinOf(F, s) \o F[c]
      /\ JoinOf(F, s) \in Seq(NativeCalls) /\ Append(s, c) \in Seq(Replies)
  BY JoinOfMore
<1>3. /\ CallsIn(Append(s, c)) = CallsIn(s) \o c.choice[1].tool_calls
      /\ CallsIn(s) \in Seq(NativeCalls)
  BY <1>1, <1>2
<1>4. CallsIn(s) \o <<>> = CallsIn(s)  BY <1>3
<1>. QED BY <1>2, <1>3, <1>4

LEMMA CallsTogether ==
  ASSUME NEW s \in Seq(Replies), NEW u \in Seq(Replies)
  PROVE  /\ CallsIn(s \o u) = CallsIn(s) \o CallsIn(u)
         /\ CallsIn(u) \in Seq(NativeCalls) /\ s \o u \in Seq(Replies)
         /\ CallsIn(s) = <<>> => CallsIn(s \o u) = CallsIn(u)
<1>1. PICK F \in Sayings(Replies, NativeCalls) :
        \A v \in Seq(Replies) : CallsIn(v) = JoinOf(F, v)
  BY CallsJoin
<1>2. JoinOf(F, s \o u) = JoinOf(F, s) \o JoinOf(F, u) /\ s \o u \in Seq(Replies)
  BY JoinOfBoth
<1>3. JoinOf(F, u) \in Seq(NativeCalls)  BY JoinOfBoth
<1>4. CallsIn(s \o u) = CallsIn(s) \o CallsIn(u) /\ CallsIn(u) \in Seq(NativeCalls)
  BY <1>1, <1>2, <1>3
<1>5. <<>> \o CallsIn(u) = CallsIn(u)  BY <1>4
<1>. QED BY <1>2, <1>4, <1>5

(* A chunk of the active call carries one call with a text and a name. *)
LEMMA FragmentCall ==
  ASSUME NEW a \in ActiveBlocks, NEW text \in Text
  PROVE  \E c \in FullCalls :
           /\ ArgumentChunk(a, text) \in Replies /\ Says(c, a, text)
           /\ ArgumentChunk(a, text).choice[1].tool_calls = <<c>>
<1>1. PICK c \in NativeCalls : ArgumentChunk(a, text) = CallChunk(c) /\ Says(c, a, text)
  BY ArgumentCall
<1>2. CallChunk(c) \in Replies  BY ReplyContent
<1>3. CallChunk(c).choice[1].tool_calls = <<c>>
  <2>1. PICK one, no, none, absent, x :
          /\ one = <<c>> /\ no = FALSE /\ none = None /\ absent = "absent" /\ x = CallChunk(c)
    OBVIOUS
  <2>2. x = Chunk(Some(Choice(no, one, none, none, absent)), none)
    BY <2>1 DEF CallChunk
  <2>3. x.choice[1].tool_calls = one  BY <2>2, ReplyFacts
  <2>. QED BY <2>1, <2>3
<1>4. a.tool_name \in Text /\ <<>> \in Text /\ a.tool_started \in BOOLEAN
  BY DEF ActiveBlocks, Text
<1>5. c \in FullCalls  BY <1>1, <1>4 DEF FullCalls, Says
<1>. QED BY <1>1, <1>2, <1>3, <1>5

-----------------------------------------------------------------------------
(* The books of the calls *)

(* The calls queued, and once they are sent, those sent. *)
Collected(e) == CallsIn(IF e.finished THEN e.chunks ELSE e.pending_tools)

CallBooks(e, s) ==
  /\ ~e.finished => CallsIn(e.chunks) = <<>>
  /\ Queued(Collected(e), e.next_native_tool, e.active)
  /\ Answers(Collected(e), e.next_native_tool, e.active, s)

(* A fragment of the active call is queued. *)
LEMMA QueueKept ==
  ASSUME NEW d \in Encoders, Speaks(d), ~d.finished, InTool(d), NEW text \in Text,
         Queued(Collected(d), d.next_native_tool, d.active),
         NEW e \in Encoders, Queues(d, e, text)
  PROVE  /\ Queued(Collected(e), e.next_native_tool, e.active)
         /\ KeepsBut(Collected(d), Collected(e), d.next_native_tool - 1)
         /\ e.active = MoreOf(d.active, text) /\ ~e.finished
<1>1. PICK a, n, q, p, u, b :
        /\ a = d.active /\ n = d.next_native_tool /\ q = Collected(d) /\ p = d.pending_tools
        /\ u = Collected(e) /\ b = e.active
  OBVIOUS
<1>2. a \in ActiveBlocks /\ p \in Seq(Replies) /\ InCall(a)
  BY <1>1 DEF Encoders, Speaks, InTool, InCall
<1>3. PICK c \in FullCalls :
        /\ ArgumentChunk(a, text) \in Replies /\ Says(c, a, text)
        /\ ArgumentChunk(a, text).choice[1].tool_calls = <<c>>
  BY <1>2, FragmentCall
<1>4. /\ b = MoreOf(a, text) /\ e.next_native_tool = n /\ ~e.finished
      /\ e.pending_tools = Append(p, ArgumentChunk(a, text))
  BY <1>1 DEF Queues, MoreOf
<1>5. q = CallsIn(p) /\ u = CallsIn(Append(p, ArgumentChunk(a, text)))
  BY <1>1, <1>4 DEF Collected
<1>6. u = q \o <<c>> /\ q \in Seq(NativeCalls)  BY <1>2, <1>3, <1>5, CallsAdded
<1>7. u = Append(q, c)  BY <1>3, <1>6
<1>8. Queued(u, n, b) /\ KeepsBut(q, u, n - 1)
  BY <1>1, <1>2, <1>3, <1>4, <1>7, FragmentQueued
<1>. QED BY <1>1, <1>4, <1>8

LEMMA PlainBooks ==
  ASSUME enc \in Encoders, NEW s \in Seq(IrEvents), CallBooks(enc, s), Speaks(enc),
         NEW event \in IrEvents, NEW e \in Encoders, Plain(event, e)
  PROVE  CallBooks(e, Append(s, event))
<1>1. PICK n, q, a, b, t :
        /\ n = enc.next_native_tool /\ q = Collected(enc) /\ a = enc.active /\ b = e.active
        /\ t = Append(s, event)
  OBVIOUS
<1>2. /\ ~InCall(a) /\ ~InCall(b) /\ ~StartsOne(event, ToolKinds) /\ e.next_native_tool = n
      /\ e.finished = enc.finished
  BY <1>1 DEF Plain, InTool, InCall
<1>3. ~e.finished => CallsIn(e.chunks) = <<>>
  <2>1. CASE e.chunks = enc.chunks  BY <1>2, <2>1 DEF CallBooks
  <2>2. CASE e.chunks # enc.chunks
    <3>1. PICK c \in Replies : c.choice[1].tool_calls = <<>> /\ e.chunks = Append(enc.chunks, c)
      BY <2>2 DEF Plain
    <3>2. enc.chunks \in Seq(Replies)  BY DEF Speaks
    <3>3. CallsIn(e.chunks) = CallsIn(enc.chunks)  BY <3>1, <3>2, CallsAdded
    <3>. QED BY <1>2, <3>3 DEF CallBooks
  <2>. QED BY <2>1, <2>2
<1>4. Collected(e) = q
  <2>1. e.finished => e.chunks = enc.chunks  BY DEF Plain
  <2>2. e.pending_tools = enc.pending_tools  BY DEF Plain
  <2>. QED BY <1>1, <1>2, <2>1, <2>2 DEF Collected
<1>5. Queued(q, n, a) /\ Answers(q, n, a, s)  BY <1>1 DEF CallBooks
<1>6. Queued(q, n, b)  BY <1>2, <1>5, QueueStays
<1>7. Answers(q, n, b, t)  BY <1>1, <1>2, <1>5, AnswersGoOn
<1>. QED BY <1>1, <1>2, <1>3, <1>4, <1>6, <1>7 DEF CallBooks

LEMMA OpenBooks ==
  ASSUME enc \in Encoders, NEW s \in Seq(IrEvents), CallBooks(enc, s), Speaks(enc),
         NEW event \in IrEvents, NEW e \in Encoders, OpensCall(event, e)
  PROVE  CallBooks(e, Append(s, event))
<1>1. PICK n, q, a, b, t :
        /\ n = enc.next_native_tool /\ q = Collected(enc) /\ a = enc.active /\ b = e.active
        /\ t = Append(s, event)
  OBVIOUS
<1>2. /\ StartsOne(event, ToolKinds) /\ ~enc.finished /\ ~e.finished
      /\ e.next_native_tool = n + 1
      /\ e.pending_tools = enc.pending_tools /\ e.chunks = enc.chunks
  BY <1>1 DEF OpensCall
<1>3. ~InCall(a)  BY <1>1 DEF OpensCall, InTool, InCall
<1>4. /\ b.kind = IF event.block.kind = "custom_tool_use" THEN "CustomTool" ELSE "Tool"
      /\ b.native_index = n /\ b.fragments = <<>> /\ ~b.tool_started
      /\ b.tool_id = event.block.id /\ b.tool_name = event.block.name
      /\ b.tool_input = event.block.text
  BY <1>1 DEF OpensCall
<1>5. InCall(b) /\ Holds(b, event.block)
  BY <1>4 DEF InCall, Holds, KindOf, KindFor
<1>6. Queued(q, n, a) /\ Answers(q, n, a, s)  BY <1>1 DEF CallBooks
<1>7. Queued(q, n + 1, b)  BY <1>3, <1>4, <1>5, <1>6, QueueStays
<1>8. Answers(q, n + 1, b, t)  BY <1>1, <1>2, <1>3, <1>5, <1>6, AnswersOpen
<1>9. Collected(e) = q /\ CallsIn(e.chunks) = <<>>
  BY <1>1, <1>2 DEF Collected, CallBooks
<1>. QED BY <1>1, <1>2, <1>7, <1>8, <1>9 DEF CallBooks

LEMMA GrowBooks ==
  ASSUME enc \in Encoders, NEW s \in Seq(IrEvents), CallBooks(enc, s), Speaks(enc),
         NEW event \in IrEvents, NEW e \in Encoders, GrowsCall(event, e)
  PROVE  CallBooks(e, Append(s, event))
<1>1. PICK n, q, a, b, t, u, text :
        /\ n = enc.next_native_tool /\ q = Collected(enc) /\ a = enc.active /\ b = e.active
        /\ t = Append(s, event) /\ u = Collected(e) /\ text = event.delta.text
  OBVIOUS
<1>2. InTool(enc) /\ ~enc.finished /\ Queues(enc, e, text) /\ text \in Text /\ IsDelta(event)
  BY <1>1 DEF GrowsCall
<1>3. Queued(q, n, a) /\ Answers(q, n, a, s) /\ CallsIn(enc.chunks) = <<>>
  BY <1>1, <1>2 DEF CallBooks
<1>4. /\ Queued(u, e.next_native_tool, b) /\ KeepsBut(q, u, n - 1)
      /\ b = MoreOf(a, text) /\ ~e.finished
  BY <1>1, <1>2, <1>3, QueueKept
<1>5. e.next_native_tool = n /\ e.chunks = enc.chunks  BY <1>1, <1>2 DEF Queues
<1>6. ~StartsOne(event, ToolKinds)  BY <1>2 DEF StartsOne, IsStart, IsDelta
<1>7. a \in ActiveBlocks /\ InCall(a)
  BY <1>1, <1>2 DEF Encoders, InTool, InCall
<1>8. /\ InCall(b) <=> InCall(a)
      /\ b.tool_id = a.tool_id /\ b.tool_name = a.tool_name
      /\ b.tool_input = a.tool_input /\ b.kind = a.kind
  BY <1>2, <1>4, <1>7, MoreOfCall
<1>9. Answers(u, n, b, t)  BY <1>1, <1>3, <1>4, <1>6, <1>7, <1>8, AnswersGoOn
<1>. QED BY <1>1, <1>3, <1>4, <1>5, <1>9 DEF CallBooks

LEMMA CloseBooks ==
  ASSUME enc \in Encoders, NEW s \in Seq(IrEvents), CallBooks(enc, s), Speaks(enc),
         NEW event \in IrEvents, NEW e \in Encoders, ClosesCall(event, e)
  PROVE  CallBooks(e, Append(s, event))
<1>1. PICK c \in Encoders :
        /\ IF enc.active.fragments = <<>> THEN Queues(enc, c, enc.active.tool_input) ELSE c = enc
        /\ Concat(c.active.fragments) = enc.active.tool_input
        /\ e.pending_tools = c.pending_tools /\ e.chunks = c.chunks
        /\ e.next_native_tool = c.next_native_tool /\ e.finished = c.finished
  BY DEF ClosesCall
<1>2. PICK n, q, a, b, t, u, d :
        /\ n = enc.next_native_tool /\ q = Collected(enc) /\ a = enc.active /\ b = e.active
        /\ t = Append(s, event) /\ u = Collected(c) /\ d = c.active
  OBVIOUS
<1>3. InTool(enc) /\ ~InTool(e) /\ IsStop(event) /\ ~enc.finished
  BY DEF ClosesCall
<1>4. /\ Queued(q, n, a) /\ Answers(q, n, a, s) /\ CallsIn(enc.chunks) = <<>>
      /\ InCall(a) /\ ~InCall(b) /\ a \in ActiveBlocks /\ a.tool_input \in Text
  BY <1>2, <1>3 DEF CallBooks, InTool, InCall, Encoders, ActiveBlocks
<1>5. /\ Queued(u, n, d) /\ KeepsBut(q, u, n - 1) /\ InCall(d) /\ d.fragments # <<>>
      /\ d.tool_id = a.tool_id /\ d.tool_name = a.tool_name
      /\ d.tool_input = a.tool_input /\ d.kind = a.kind
      /\ ~c.finished /\ c.next_native_tool = n /\ c.chunks = enc.chunks
  <2>1. CASE a.fragments = <<>>
    <3>1. Queues(enc, c, a.tool_input)  BY <1>1, <1>2, <2>1
    <3>2. /\ Queued(u, c.next_native_tool, d) /\ KeepsBut(q, u, n - 1)
          /\ d = MoreOf(a, a.tool_input) /\ ~c.finished
      BY <1>2, <1>3, <1>4, <3>1, QueueKept
    <3>3. /\ d.kind = a.kind /\ d.tool_id = a.tool_id /\ d.tool_name = a.tool_name
          /\ d.tool_input = a.tool_input /\ d.fragments # <<>> /\ InCall(d)
      BY <1>4, <3>2, MoreOfCall
    <3>4. c.next_native_tool = n /\ c.chunks = enc.chunks
      BY <1>2, <3>1 DEF Queues
    <3>. QED BY <3>2, <3>3, <3>4
  <2>2. CASE a.fragments # <<>>
    <3>1. c = enc  BY <1>1, <1>2, <2>2
    <3>. QED BY <1>2, <1>3, <1>4, <2>2, <3>1 DEF KeepsBut
  <2>. QED BY <2>1, <2>2
<1>6. ~StartsOne(event, ToolKinds)  BY <1>3 DEF StartsOne, IsStart, IsStop
<1>7. RebuiltAs(u, n - 1, a.tool_id, KindOf(a), a.tool_name, a.tool_input)
  BY <1>1, <1>2, <1>5 DEF Queued, KindOf
<1>8. Queued(u, n, b)  BY <1>4, <1>5, QueueStays
<1>9. Answers(u, n, a, s)
  <2>1. ASSUME NEW k \in ToolBlocks(s, Len(s))
        PROVE  IF InCall(a) /\ Ordinal(s, k) = n - 1 THEN Holds(a, s[k].block)
               ELSE Rebuilt(u, Ordinal(s, k), s[k].block)
    <3>1. CASE Ordinal(s, k) = n - 1  BY <1>4, <2>1, <3>1 DEF Answers
    <3>2. CASE Ordinal(s, k) # n - 1
      <4>1. PICK i, block : i = Ordinal(s, k) /\ block = s[k].block  OBVIOUS
      <4>2. Rebuilt(q, i, block)  BY <1>4, <2>1, <3>2, <4>1 DEF Answers
      <4>3. RebuiltAs(q, i, block.id, KindFor(block), block.name, block.text)
        BY <4>2, RebuiltBlock
      <4>4. RebuiltAs(u, i, block.id, KindFor(block), block.name, block.text)
        BY <1>5, <3>2, <4>1, <4>3 DEF KeepsBut
      <4>5. Rebuilt(u, i, block)  BY <4>4, RebuiltBlock
      <4>. QED BY <3>2, <4>1, <4>5
    <3>. QED BY <3>1, <3>2
  <2>. QED BY <1>4, <2>1 DEF Answers
<1>10. Answers(u, n, b, t)  BY <1>2, <1>4, <1>6, <1>7, <1>9, AnswersClose
<1>11. Collected(e) = u /\ ~e.finished /\ CallsIn(e.chunks) = <<>> /\ e.next_native_tool = n
  BY <1>1, <1>2, <1>4, <1>5 DEF Collected
<1>. QED BY <1>2, <1>8, <1>10, <1>11 DEF CallBooks

LEMMA SendBooks ==
  ASSUME enc \in Encoders, NEW s \in Seq(IrEvents), CallBooks(enc, s), Speaks(enc),
         NEW event \in IrEvents, NEW e \in Encoders, SendsCalls(event, e)
  PROVE  CallBooks(e, Append(s, event))
<1>1. PICK c \in Replies : /\ c.choice[1].tool_calls = <<>>
                           /\ e.chunks = enc.chunks \o Append(enc.pending_tools, c)
  BY DEF SendsCalls
<1>2. PICK n, q, a, b, t, p, f :
        /\ n = enc.next_native_tool /\ q = Collected(enc) /\ a = enc.active /\ b = e.active
        /\ t = Append(s, event) /\ p = enc.pending_tools /\ f = enc.chunks
  OBVIOUS
<1>3. /\ ~InCall(a) /\ ~InCall(b) /\ event.type = "message_delta" /\ ~enc.finished /\ e.finished
      /\ e.next_native_tool = n
  BY <1>2 DEF SendsCalls, InTool, InCall
<1>4. /\ Queued(q, n, a) /\ Answers(q, n, a, s) /\ CallsIn(f) = <<>>
  BY <1>2, <1>3 DEF CallBooks
<1>5. f \in Seq(Replies) /\ p \in Seq(Replies)  BY <1>2 DEF Speaks
<1>6. CallsIn(Append(p, c)) = CallsIn(p) /\ Append(p, c) \in Seq(Replies)
  BY <1>1, <1>5, CallsAdded
<1>7. CallsIn(f \o Append(p, c)) = CallsIn(Append(p, c))
  BY <1>4, <1>5, <1>6, CallsTogether
<1>8. Collected(e) = q  BY <1>1, <1>2, <1>3, <1>6, <1>7 DEF Collected
<1>9. ~StartsOne(event, ToolKinds)  BY <1>3 DEF StartsOne, IsStart
<1>10. Queued(q, n, b)  BY <1>3, <1>4, QueueStays
<1>11. Answers(q, n, b, t)  BY <1>2, <1>3, <1>4, <1>9, AnswersGoOn
<1>. QED BY <1>2, <1>3, <1>8, <1>10, <1>11 DEF CallBooks

(* As long as nothing was refused, the calls answer the tool blocks. *)
Ledger == ~failed => CallBooks(enc, EventsOf(applied))

LEMMA InitLedger == Init => Ledger
<1> SUFFICES ASSUME Init
             PROVE  CallBooks(enc, EventsOf(applied))
  BY DEF Ledger
<1>1. PICK none, s, a : none = <<>> /\ s = EventsOf(applied) /\ a = enc.active
  OBVIOUS
<1>2. Len(none) = 0 /\ 1..Len(none) = {} /\ none \in Seq(FullCalls)  BY <1>1
<1>3. s = none
  <2>1. applied = none  BY <1>1 DEF Init
  <2>. QED BY <1>1, <1>2, <2>1 DEF EventsOf
<1>4. /\ enc.next_native_tool = 0 /\ ~enc.finished /\ a = Idle
      /\ enc.chunks = none /\ enc.pending_tools = none
  BY <1>1 DEF Init, NewEncoder
<1>5. ~InCall(a)  BY <1>4, IdleType DEF InCall
<1>6. CallsIn(none) = none
  <2>1. [k \in 1..Len(none) |-> none[k].choice[1].tool_calls] = none
    BY <1>1, <1>2
  <2>. QED BY <1>1, <2>1, ConcatEmpty DEF CallsIn
<1>7. Queued(none, 0, a)
  <2>1. 0..(0 - 1) = {}  OBVIOUS
  <2>2. Line(none, 0)  BY <1>2, <2>1 DEF Line, Indexes, OneByOne
  <2>. QED BY <1>5, <2>2 DEF Queued, QueuedCalls
<1>8. ToolBlocks(s, Len(s)) = {}  BY <1>2, <1>3 DEF ToolBlocks
<1>9. Answers(none, 0, a, s)  BY <1>8, FS_EmptySet DEF Answers, Numbered
<1>. QED BY <1>1, <1>4, <1>6, <1>7, <1>9 DEF CallBooks, Collected

LEMMA StepLedger == EncInv /\ Books /\ Ledger /\ [Next]_vars => Ledger'
<1> SUFFICES ASSUME EncInv, Books, Ledger, [Next]_vars
             PROVE  Ledger'
  OBVIOUS
<1>1. ASSUME NEW event \in Events, Apply(event)
      PROVE  Ledger'
  <2>1. SUFFICES ASSUME ~failed'
                 PROVE  CallBooks(enc', EventsOf(applied'))
    BY DEF Ledger
  <2>2. PICK s, t : s = EventsOf(applied) /\ t = EventsOf(applied')  OBVIOUS
  <2>3. PICK e \in Encoders : enc' = Counted(e) /\ CallsKept(event, e)
    BY <1>1, <2>1, AcceptedStep
  <2>4. ~failed /\ enc \in Encoders /\ event \in IrEvents /\ s \in Seq(IrEvents)
        /\ t = Append(s, event)
    BY <1>1, <2>1, <2>2, AcceptedStep
  <2>5. Speaks(enc) /\ CallBooks(enc, s)  BY <2>2, <2>4 DEF Books, Ledger
  <2>6. CallBooks(e, t)
    BY <2>3, <2>4, <2>5, PlainBooks, OpenBooks, GrowBooks, CloseBooks, SendBooks DEF CallsKept
  <2>7. /\ enc'.finished = e.finished /\ enc'.chunks = e.chunks
        /\ enc'.pending_tools = e.pending_tools /\ enc'.active = e.active
        /\ enc'.next_native_tool = e.next_native_tool
    BY <2>3, CountedKeeps DEF SameOutput
  <2>. QED BY <2>2, <2>6, <2>7 DEF CallBooks, Collected
<1>2. CASE UNCHANGED vars
  BY <1>2 DEF vars, Ledger, CallBooks, Collected, EventsOf
<1>. QED BY <1>1, <1>2 DEF Next

LEMMA LedgerMeans == EncInv /\ Ledger => CallsRebuiltByClient
<1> SUFFICES ASSUME EncInv, Ledger, ~failed
             PROVE  IF ~enc.finished THEN CallDeltas = <<>>
                    ELSE /\ \A k \in ToolBlocks(Input, Len(Input)) :
                              Rebuilt(CallDeltas, Cardinality(ToolBlocks(Input, k - 1)), Input[k].block)
                         /\ {CallDeltas[k].index : k \in 1..Len(CallDeltas)}
                              = 0..(Cardinality(ToolBlocks(Input, Len(Input))) - 1)
                         /\ OneByOne(CallDeltas)
  BY DEF CallsRebuiltByClient
<1>1. PICK s, q, n, a : /\ s = Input /\ q = CallDeltas /\ n = enc.next_native_tool
                        /\ a = enc.active
  OBVIOUS
<1>2. CallBooks(enc, s)  BY <1>1 DEF Ledger, Input, EventsOf
<1>3. CASE ~enc.finished  BY <1>2, <1>3 DEF CallBooks, CallDeltas
<1>4. CASE enc.finished
  <2>1. Queued(q, n, a) /\ Answers(q, n, a, s)
    BY <1>1, <1>2, <1>4 DEF CallBooks, Collected, CallDeltas
  <2>2. ~InCall(a)  BY <1>1, <1>4, IdleType DEF EncInv, Consistent, InCall
  <2>3. /\ q \in Seq(FullCalls) /\ OneByOne(q)
        /\ \A k \in 1..Len(q) : q[k].index \in 0..(n - 1)
        /\ \A i \in 0..(n - 1) : \E k \in 1..Len(q) : q[k].index = i
    BY <2>1, <2>2 DEF Queued, QueuedCalls, Line, Indexes
  <2>4. {q[k].index : k \in 1..Len(q)} = 0..(n - 1)  BY <2>3
  <2>5. n = Cardinality(ToolBlocks(s, Len(s)))  BY <2>1 DEF Answers, Numbered
  <2>6. ASSUME NEW k \in ToolBlocks(s, Len(s))
        PROVE  Rebuilt(q, Cardinality(ToolBlocks(s, k - 1)), s[k].block)
    BY <2>1, <2>2, <2>6 DEF Answers, Ordinal
  <2>. QED BY <1>1, <1>4, <2>3, <2>4, <2>5, <2>6
<1>. QED BY <1>3, <1>4

(* Whatever stream the encoder accepts: once it is finished, a client that
   puts the tool chunks together by their index gets every tool block, in
   block order, with its id, kind, name and exact input; before that, no
   call was sent. *)
THEOREM ClientRebuildsCalls == Spec => []CallsRebuiltByClient
<1>1. Init => EncInv /\ Books /\ Ledger  BY InitEncInv, InitBooks, InitLedger
<1>2. EncInv /\ Books /\ Ledger /\ [Next]_vars => (EncInv /\ Books /\ Ledger)'
  BY StepEncInv, StepBooks, StepLedger
<1>3. EncInv /\ Books /\ Ledger => CallsRebuiltByClient  BY LedgerMeans
<1>. QED BY <1>1, <1>2, <1>3, PTL DEF Spec
=============================================================================
