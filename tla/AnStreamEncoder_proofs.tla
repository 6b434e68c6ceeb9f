----------------------- MODULE AnStreamEncoder_proofs ------------------------
(***************************************************************************)
(* Theorems about AnStreamEncoder, for every set of events and any number  *)
(* of calls.                                                               *)
(*                                                                         *)
(* As in CcStreamEncoder_proofs, View reads the struct as a view of        *)
(* IrStream_proofs, which tracks the events accepted so far.  This encoder *)
(* accepts a little more than the grammar does, so the view tracks them as *)
(* long as they are in order; what takes them out of order is a stray      *)
(* event, and that the stray fragment is in a block of another kind needs  *)
(* an invariant of its own, on the block the struct holds open.            *)
(***************************************************************************)
EXTENDS AnStreamEncoder, IrStream_proofs, TLAPS, FiniteSetTheorems

-----------------------------------------------------------------------------
(* Types *)

Refusals == [after : Nat, event : Events]

TypeOK == enc \in Encoders /\ applied \in Seq(Events) /\ refused \in Option(Refusals)

(* An Option of a value. *)
LEMMA SomeType ==
  ASSUME NEW S, NEW x \in S
  PROVE  Some(x) \in Option(S) /\ Some(x) # None /\ Some(x)[1] = x
BY DEF Some, None, Option

LEMMA NoneType ==
  ASSUME NEW S
  PROVE  None \in Option(S)
BY DEF None, Option

(* The native events the encoder writes. *)
LEMMA WireTypes ==
  /\ WireMessageStart(TRUE) \in WireEvents /\ WireMessageStop \in WireEvents
  /\ \A i \in Int : WireBlockStop(i) \in WireEvents
  /\ \A i \in Int, block \in NativeBlocks : WireBlockStart(i, Some(block)) \in WireEvents
  /\ \A i \in Int, delta \in NativeDeltas : WireBlockDelta(i, Some(delta)) \in WireEvents
  /\ \A terminal \in Terminals, usage \in Usages :
       WireMessageDelta(Some(terminal), Some(usage)) \in WireEvents
<1>1. WireMessageStart(TRUE) \in WireEvents /\ WireMessageStop \in WireEvents
  BY DEF WireMessageStart, WireMessageStop, WireEvents
<1>2. ASSUME NEW i \in Int
      PROVE  WireBlockStop(i) \in WireEvents
  BY DEF WireBlockStop, WireEvents
<1>3. ASSUME NEW i \in Int, NEW block \in NativeBlocks
      PROVE  WireBlockStart(i, Some(block)) \in WireEvents
  <2>1. Some(block) \in Option(NativeBlocks)  BY SomeType
  <2>. QED BY <2>1 DEF WireBlockStart, WireEvents
<1>4. ASSUME NEW i \in Int, NEW delta \in NativeDeltas
      PROVE  WireBlockDelta(i, Some(delta)) \in WireEvents
  <2>1. Some(delta) \in Option(NativeDeltas)  BY SomeType
  <2>. QED BY <2>1 DEF WireBlockDelta, WireEvents
<1>5. ASSUME NEW terminal \in Terminals, NEW usage \in Usages
      PROVE  WireMessageDelta(Some(terminal), Some(usage)) \in WireEvents
  <2>1. Some(terminal) \in Option(Terminals) /\ Some(usage) \in Option(Usages)
    BY SomeType
  <2>. QED BY <2>1 DEF WireMessageDelta, WireEvents
<1>. QED BY <1>1, <1>2, <1>3, <1>4, <1>5

LEMMA WireLists ==
  /\ <<>> \in Seq(WireEvents)
  /\ \A a \in WireEvents : <<a>> \in Seq(WireEvents)
  /\ \A a, b \in Seq(WireEvents) : a \o b \in Seq(WireEvents)
OBVIOUS

(* The blocks the encoder starts. *)
LEMMA StartTypes ==
  ASSUME NEW kind \in NativeKinds, NEW id \in Tokens, NEW name \in Text, NEW text \in Text,
         NEW citations \in {"none", "valid"}
  PROVE  /\ NativeBlock(kind, id, name, text) \in NativeBlocks
         /\ [NativeBlock(kind, id, name, text) EXCEPT !.citations = citations] \in NativeBlocks
<1>1. PICK none : none = <<>>  OBVIOUS
<1>2. none \in Text  BY <1>1 DEF Text
<1>3. NativeBlock(kind, id, name, text) =
        [kind |-> kind, id |-> id, name |-> name, text |-> text, signature |-> none,
         citations |-> "none"]
  BY <1>1 DEF NativeBlock
<1>. QED BY <1>2, <1>3 DEF NativeBlocks

(* The deltas the encoder sends. *)
LEMMA SentTypes ==
  ASSUME TypeOK
  PROVE  /\ \A type \in NativeTypes, text \in Text : SentDelta(type, text) \in WireEvents
         /\ WireBlockDelta(enc.open_index, Some(CitationsDelta("valid"))) \in WireEvents
         /\ WireBlockStop(enc.open_index) \in WireEvents
<1>1. enc.open_index \in Int  BY DEF TypeOK, Encoders
<1>2. ASSUME NEW type \in NativeTypes, NEW text \in Text
      PROVE  SentDelta(type, text) \in WireEvents
  <2>1. Some(text) \in Option(Text)  BY SomeType
  <2>2. NativeDelta(type, Some(text)) \in NativeDeltas
    BY <2>1 DEF NativeDelta, NativeDeltas
  <2>. QED BY <1>1, <2>2, WireTypes DEF SentDelta
<1>3. CitationsDelta("valid") \in NativeDeltas
  <2>1. None \in Option(Text)  BY NoneType
  <2>. QED BY <2>1 DEF CitationsDelta, NativeDeltas, NativeTypes
<1>. QED BY <1>1, <1>2, <1>3, WireTypes

-----------------------------------------------------------------------------
(* The outcome of one call *)

(* The family of deltas that an open block of this kind takes. *)
Family(open) == IF open \in {"text", "thinking", "tool", "custom"} THEN open ELSE "atomic"

View(e) ==
  [place |-> IF e.done THEN "done"
             ELSE IF e.delta_seen THEN "ended"
             ELSE IF ~e.started THEN "fresh"
             ELSE IF e.open # "none" THEN "within"
             ELSE "between",
   next |-> e.next_index, index |-> e.open_ir_index, family |-> Family(e.open),
   signed |-> e.signature_seen, tool |-> e.open \in {"tool", "custom"},
   input |-> e.tool_input, fragments |-> e.tool_parts]

(* The flags and the open block agree. *)
Consistent(e) ==
  /\ e.signature_seen => e.open = "thinking"
  /\ ~e.started => e.open = "none" /\ e.next_index = 0 /\ ~e.delta_seen
  /\ e.done => e.delta_seen

(* How the struct remembers a block of this kind. *)
OpenAs(kind) ==
  CASE kind \in {"text", "thinking"} -> kind
    [] kind = "redacted_thinking" -> "redacted"
    [] kind = "tool_use" -> "tool"
    [] kind = "custom_tool_use" -> "custom"
    [] OTHER -> "atomic"

(* A custom fragment for a block of another kind. *)
Foreign(event) ==
  /\ IsDelta(event) /\ event.delta.type = "custom_tool_input_delta"
  /\ event.index = enc.open_ir_index /\ enc.open \in {"text", "thinking", "tool"}

(* What Anthropic cannot express, or an input that is not exact. *)
Unfit(v, event) ==
  \/ IsStart(event) /\ event.block.kind \notin EncodableKinds
  \/ /\ IsStart(event) /\ event.block.kind \in ToolKinds
     /\ ~Identified(event.block.id, event.block.name)
  \/ IsStart(event) /\ ~(Sources(event.block) \subseteq {"anthropic", "openai"})
  \/ /\ IsDelta(event) /\ event.delta.type = "citation_delta"
     /\ event.delta.text[1] \notin {"anthropic", "openai"}
  \/ IsStop(event) /\ v.tool /\ ~InputExact(v.input, v.fragments, TRUE)
  \/ event.type = "message_delta" /\ event.stop_reason = "other"

(* What an accepted event makes of the struct: the view moves with an
   event that the grammar admits; another one is foreign or comes after
   the terminal event; and the struct keeps the index and the kind of the
   open block, whose index is new. *)
Advances(event, e) ==
  /\ ~enc.done
  /\ Allowed(View(enc), event) => Moves(View(enc), event, View(e))
  /\ Allowed(View(enc), event) \/ enc.delta_seen \/ Foreign(event)
  /\ IsStart(event) =>
       /\ event.index = enc.next_index /\ e.next_index = enc.next_index + 1
       /\ e.open = OpenAs(event.block.kind) /\ e.open_ir_index = event.index
  /\ ~IsStart(event) => e.next_index = enc.next_index
  /\ IsDelta(event) =>
       /\ e.open = enc.open /\ enc.open # "none" /\ e.open_ir_index = enc.open_ir_index
       /\ e.delta_seen = enc.delta_seen
  /\ ~IsStart(event) /\ ~IsDelta(event) => e.open = "none" \/ e.delta_seen

Outcome(event) ==
  \E e \in Encoders :
    /\ Consistent(e)
    /\ \/ /\ \E wire \in Seq(WireEvents) : Accepted(event, e, wire)
          /\ Advances(event, e)
       \/ /\ Refused(event, e)
          /\ ~Allowed(View(enc), event) \/ Unfit(View(enc), event)

(* The view of an encoder is a view. *)
LEMMA ViewType ==
  ASSUME NEW e \in Encoders
  PROVE  View(e) \in Views
BY DEF View, Views, Family, Encoders, OpenKinds

(* What is handed over changes nothing else. *)
LEMMA WiredFacts ==
  ASSUME NEW e \in Encoders, NEW wire \in Seq(WireEvents)
  PROVE  /\ [e EXCEPT !.wire = @ \o wire] \in Encoders
         /\ View([e EXCEPT !.wire = @ \o wire]) = View(e)
         /\ Consistent(e) => Consistent([e EXCEPT !.wire = @ \o wire])
         /\ [e EXCEPT !.wire = @ \o wire].open = e.open
         /\ [e EXCEPT !.wire = @ \o wire].open_ir_index = e.open_ir_index
         /\ [e EXCEPT !.wire = @ \o wire].next_index = e.next_index
         /\ [e EXCEPT !.wire = @ \o wire].delta_seen = e.delta_seen
<1>1. PICK sent : sent = e.wire \o wire  OBVIOUS
<1>2. sent \in Seq(WireEvents)  BY <1>1 DEF Encoders
<1>3. PICK d : d = [e EXCEPT !.wire = sent]  OBVIOUS
<1>4. d = [e EXCEPT !.wire = @ \o wire]  BY <1>1, <1>3 DEF Encoders
<1>5. /\ d \in Encoders /\ d.open = e.open /\ d.open_ir_index = e.open_ir_index
      /\ d.next_index = e.next_index /\ d.delta_seen = e.delta_seen /\ d.done = e.done
      /\ d.started = e.started /\ d.signature_seen = e.signature_seen
      /\ d.tool_input = e.tool_input /\ d.tool_parts = e.tool_parts
  BY <1>2, <1>3 DEF Encoders
<1>6. View(d) = View(e) /\ (Consistent(e) => Consistent(d))
  BY <1>5 DEF View, Consistent
<1>. QED BY <1>4, <1>5, <1>6

(* Two structs that differ only in what the view does not read. *)
SameBooks(d, e) ==
  /\ d.started = e.started /\ d.delta_seen = e.delta_seen /\ d.done = e.done
  /\ d.next_index = e.next_index /\ d.open = e.open /\ d.open_ir_index = e.open_ir_index
  /\ d.signature_seen = e.signature_seen
  /\ d.tool_input = e.tool_input /\ d.tool_parts = e.tool_parts

LEMMA LoseFacts ==
  ASSUME NEW e \in Encoders, NEW kind \in LossKinds, NEW i \in Int
  PROVE  Lose(e, <<kind, i>>) \in Encoders /\ SameBooks(Lose(e, <<kind, i>>), e)
<1>1. PICK losses : losses = Append(e.losses, <<kind, i>>)  OBVIOUS
<1>2. losses \in Seq(LossKinds \X Int)  BY <1>1 DEF Encoders
<1>3. Lose(e, <<kind, i>>) = [e EXCEPT !.losses = losses]
  BY <1>1 DEF Lose, Encoders
<1>. QED BY <1>2, <1>3 DEF Encoders, SameBooks

(* A call that fails before anything is changed. *)
LEMMA RefusedOutcome ==
  ASSUME TypeOK, Consistent(enc), NEW event, Refused(event, enc),
         ~Allowed(View(enc), event) \/ Unfit(View(enc), event)
  PROVE  Outcome(event)
BY DEF Outcome, TypeOK

LEMMA AfterDoneOutcome ==
  ASSUME TypeOK, Consistent(enc), NEW event \in Events, ApplyAfterDone(event)
  PROVE  Outcome(event)
<1>1. enc.done /\ Refused(event, enc)  BY DEF ApplyAfterDone
<1>2. ~Allowed(View(enc), event)  BY <1>1 DEF View, Allowed
<1>. QED BY <1>1, <1>2, RefusedOutcome

(* The first event. *)
LEMMA MessageStartOutcome ==
  ASSUME TypeOK, Consistent(enc), NEW event \in Events, ApplyMessageStart(event)
  PROVE  Outcome(event)
<1>1. enc \in Encoders /\ event.type = "message_start" /\ ~enc.done
  BY DEF TypeOK, ApplyMessageStart, Receives
<1>2. CASE enc.started
  <2>1. Refused(event, enc)  BY <1>2 DEF ApplyMessageStart
  <2>2. ~Allowed(View(enc), event)
    BY <1>1, <1>2 DEF View, Allowed, OpensAt, Continues, IsStart, IsDelta, IsStop
  <2>. QED BY <2>1, <2>2, RefusedOutcome
<1>3. CASE ~enc.started
  <2>1. PICK e, wire : e = [enc EXCEPT !.started = TRUE] /\ wire = <<WireMessageStart(TRUE)>>
    OBVIOUS
  <2>2. /\ e \in Encoders /\ e.started /\ e.open = enc.open /\ e.next_index = enc.next_index
        /\ e.delta_seen = enc.delta_seen /\ e.done = enc.done
        /\ e.signature_seen = enc.signature_seen
    BY <1>1, <2>1 DEF Encoders
  <2>3. wire \in Seq(WireEvents)  BY <2>1, WireTypes, WireLists
  <2>4. Accepted(event, e, wire)  BY <1>3, <2>1 DEF ApplyMessageStart
  <2>5. enc.open = "none" /\ enc.next_index = 0 /\ ~enc.delta_seen /\ ~enc.signature_seen
    BY <1>3 DEF Consistent
  <2>6. Consistent(e)  BY <1>1, <2>2, <2>5 DEF Consistent
  <2>7. Allowed(View(enc), event)  BY <1>1, <1>3, <2>5 DEF View, Allowed
  <2>8. Moves(View(enc), event, View(e))  BY <1>1, <2>2, <2>5 DEF View, Moves
  <2>9. Advances(event, e)
    BY <1>1, <2>2, <2>5, <2>7, <2>8 DEF Advances, IsStart, IsDelta
  <2>. QED BY <2>2, <2>3, <2>4, <2>6, <2>9 DEF Outcome
<1>. QED BY <1>2, <1>3

-----------------------------------------------------------------------------
(* ContentBlockStart *)

(* A start that the grammar admits comes between two blocks. *)
LEMMA StartAllowed ==
  ASSUME enc \in Encoders, NEW event, IsStart(event)
  PROVE  Allowed(View(enc), event) <=>
           /\ ~enc.done /\ ~enc.delta_seen /\ enc.started /\ enc.open = "none"
           /\ event.index = enc.next_index
BY DEF Allowed, View, OpensAt, Continues, IsStart, IsDelta, IsStop

LEMMA StartRefusedOutcome ==
  ASSUME TypeOK, Consistent(enc), NEW event \in Events, ApplyBlockStartRefused(event)
  PROVE  Outcome(event)
<1>1. enc \in Encoders /\ IsStart(event) /\ Refused(event, enc) /\ ~StartAccepted(enc, event)
  BY DEF TypeOK, ApplyBlockStartRefused, Receives, IsStart
<1>2. ASSUME Allowed(View(enc), event)
      PROVE  Unfit(View(enc), event)
  <2>1. enc.started /\ enc.open = "none" /\ event.index = enc.next_index
    BY <1>1, <1>2, StartAllowed
  <2>2. \/ event.block.kind \notin EncodableKinds
        \/ event.block.kind \in ToolKinds /\ ~Identified(event.block.id, event.block.name)
    BY <1>1, <2>1, Zenon DEF StartAccepted, Identified, HasId
  <2>. QED BY <1>1, <2>2 DEF Unfit
<1>. QED BY <1>1, <1>2, RefusedOutcome

(* What is known when a block starts. *)
LEMMA StartFacts ==
  ASSUME TypeOK, Consistent(enc), NEW event \in Events, NEW kinds, Starting(event, kinds)
  PROVE  /\ enc \in Encoders /\ IsStart(event) /\ ~enc.done /\ enc.started /\ enc.open = "none"
         /\ ~enc.signature_seen /\ event.index \in Nat /\ event.index = enc.next_index
         /\ event.block \in Blocks /\ event.block.kind \in kinds
         /\ event.block.kind \in EncodableKinds
<1>1. /\ enc \in Encoders /\ IsStart(event) /\ ~enc.done /\ event.block.kind \in kinds
      /\ enc.started /\ enc.open = "none" /\ event.index = enc.next_index
      /\ event.block.kind \in EncodableKinds
  BY DEF TypeOK, Starting, Receives, StartAccepted, IsStart
<1>2. event.index \in Nat /\ event.block \in Blocks
  BY <1>1, EncoderAssumption, EventForms
<1>3. ~enc.signature_seen  BY <1>1 DEF Consistent
<1>. QED BY <1>1, <1>2, <1>3

(* A block with a native form is opened. *)
LEMMA OpenFacts ==
  ASSUME TypeOK, NEW kind \in OpenKinds
  PROVE  /\ Open(enc, kind) \in Encoders
         /\ Open(enc, kind).started = enc.started /\ Open(enc, kind).done = enc.done
         /\ Open(enc, kind).delta_seen = enc.delta_seen
         /\ Open(enc, kind).next_index = enc.next_index + 1 /\ Open(enc, kind).open = kind
         /\ Open(enc, kind).open_ir_index = enc.next_index
         /\ Open(enc, kind).open_index = enc.next_wire_index
         /\ Open(enc, kind).signature_seen = enc.signature_seen
         /\ enc.next_wire_index \in Int
<1>1. enc \in Encoders  BY DEF TypeOK
<1>2. PICK i, j, k, l : /\ i = enc.next_index + 1 /\ j = enc.next_index
                        /\ k = enc.next_wire_index /\ l = enc.next_wire_index + 1
  OBVIOUS
<1>3. i \in Nat /\ j \in Nat /\ k \in Nat /\ l \in Nat
  BY <1>1, <1>2 DEF Encoders
<1>4. PICK d : d = [enc EXCEPT !.next_index = i, !.open = kind, !.open_ir_index = j,
                              !.open_index = k, !.next_wire_index = l]
  OBVIOUS
<1>5. Open(enc, kind) = d  BY <1>1, <1>2, <1>4 DEF Open, Encoders
<1>6. /\ d \in Encoders /\ d.started = enc.started /\ d.done = enc.done
      /\ d.delta_seen = enc.delta_seen /\ d.next_index = i /\ d.open = kind
      /\ d.open_ir_index = j /\ d.open_index = k /\ d.signature_seen = enc.signature_seen
  BY <1>1, <1>3, <1>4 DEF Encoders
<1>. QED BY <1>2, <1>3, <1>5, <1>6

(* The block that has started is the one the view shows. *)
LEMMA StartedOutcome ==
  ASSUME TypeOK, Consistent(enc), NEW event \in Events, NEW kinds, Starting(event, kinds),
         NEW e \in Encoders, NEW wire \in Seq(WireEvents), Accepted(event, e, wire),
         e.started = enc.started, e.done = enc.done, e.delta_seen = enc.delta_seen,
         e.next_index = enc.next_index + 1, e.open = OpenAs(event.block.kind),
         e.open_ir_index = enc.next_index, ~e.signature_seen,
         event.block.kind \in ToolKinds => e.tool_input = event.block.text /\ e.tool_parts = <<>>
  PROVE  Outcome(event)
<1>1. /\ enc \in Encoders /\ IsStart(event) /\ ~IsDelta(event) /\ ~enc.done /\ enc.started
      /\ enc.open = "none" /\ event.index = enc.next_index
  BY StartFacts DEF IsStart, IsDelta
<1>2. /\ e.open # "none" /\ Family(e.open) = BlockFamily(event.block)
      /\ e.open \in {"tool", "custom"} <=> event.block.kind \in ToolKinds
  BY DEF OpenAs, Family, BlockFamily, ToolKinds
<1>3. Consistent(e)  BY <1>1 DEF Consistent
<1>4. Allowed(View(enc), event) <=> ~enc.delta_seen  BY <1>1, StartAllowed
<1>5. ASSUME ~enc.delta_seen
      PROVE  Moves(View(enc), event, View(e))
  <2>1. /\ View(e).place = "within" /\ View(e).index = event.index
        /\ View(e).next = event.index + 1
        /\ View(e).family = BlockFamily(event.block) /\ ~View(e).signed
        /\ View(e).tool <=> event.block.kind \in ToolKinds
        /\ View(e).tool => View(e).input = event.block.text /\ View(e).fragments = <<>>
    BY <1>1, <1>2, <1>5 DEF View
  <2>. QED BY <1>1, <2>1 DEF Moves
<1>6. Advances(event, e)  BY <1>1, <1>4, <1>5 DEF Advances
<1>. QED BY <1>3, <1>6 DEF Outcome

(* Text, with the citations that have a native form. *)
LEMMA TextStartOutcome ==
  ASSUME TypeOK, Consistent(enc), NEW event \in Events, ApplyTextStart(event)
  PROVE  Outcome(event)
<1>1. Starting(event, {"text"})  BY DEF ApplyTextStart
<1>2. /\ enc \in Encoders /\ event.block \in Blocks /\ event.block.kind = "text"
      /\ ~enc.signature_seen
  BY <1>1, StartFacts
<1>3. PICK d, lost : d = Open(enc, "text") /\ lost = ("openai" \in Sources(event.block))
  OBVIOUS
<1>4. /\ d \in Encoders /\ d.started = enc.started /\ d.done = enc.done
      /\ d.delta_seen = enc.delta_seen /\ d.next_index = enc.next_index + 1
      /\ d.open = "text" /\ d.open_ir_index = enc.next_index
      /\ d.open_index = enc.next_wire_index /\ ~d.signature_seen
      /\ enc.next_wire_index \in Int
  BY <1>2, <1>3, OpenFacts DEF OpenKinds
<1>5. PICK opened : opened = [d EXCEPT !.citation_loss_seen = lost]  OBVIOUS
<1>6. /\ opened \in Encoders /\ SameBooks(opened, d) /\ opened.open_index = enc.next_wire_index
  <2>1. lost \in BOOLEAN  BY <1>3
  <2>. QED BY <1>4, <1>5, <2>1 DEF Encoders, SameBooks
<1>7. PICK e : e = IF lost THEN Lose(opened, <<"citations", opened.open_index>>) ELSE opened
  OBVIOUS
<1>8. e \in Encoders /\ SameBooks(e, d)
  <2>1. "citations" \in LossKinds /\ opened.open_index \in Int
    BY <1>4, <1>6 DEF LossKinds
  <2>. QED BY <1>6, <1>7, <2>1, LoseFacts DEF SameBooks
<1>9. PICK empty : empty = ""  OBVIOUS
<1>10. PICK none : none = <<>>  OBVIOUS
<1>11. PICK block : block = [NativeBlock("text", empty, none, event.block.text) EXCEPT
                               !.citations = IF "anthropic" \in Sources(event.block)
                                             THEN "valid" ELSE "none"]
  OBVIOUS
<1>12. block \in NativeBlocks
  <2>1. empty \in Tokens  BY <1>9, NoToken
  <2>2. none \in Text  BY <1>10 DEF Text
  <2>3. event.block.text \in Text  BY <1>2 DEF Blocks
  <2>4. "text" \in NativeKinds  BY DEF NativeKinds
  <2>. QED BY <1>11, <2>1, <2>2, <2>3, <2>4, StartTypes
<1>13. PICK wire : wire = <<WireBlockStart(opened.open_index, Some(block))>>
  OBVIOUS
<1>14. wire \in Seq(WireEvents)
  BY <1>4, <1>6, <1>12, <1>13, WireTypes, WireLists
<1>15. Accepted(event, e, wire)
  BY <1>3, <1>5, <1>7, <1>9, <1>11, <1>13, <1>10, Zenon DEF ApplyTextStart
<1>16. e.open = OpenAs(event.block.kind) /\ event.block.kind \notin ToolKinds
  BY <1>2, <1>4, <1>8 DEF SameBooks, OpenAs, ToolKinds
<1>. QED BY <1>1, <1>4, <1>8, <1>14, <1>15, <1>16, StartedOutcome DEF SameBooks

(* A citation of an unknown source: the block stays open. *)
LEMMA UnknownSourceOutcome ==
  ASSUME TypeOK, Consistent(enc), NEW event \in Events, ApplyTextStartUnknownSource(event)
  PROVE  Outcome(event)
<1>1. Starting(event, {"text"}) /\ ~(Sources(event.block) \subseteq {"anthropic", "openai"})
  BY DEF ApplyTextStartUnknownSource
<1>2. IsStart(event) /\ enc.started /\ ~enc.done /\ ~enc.signature_seen /\ enc \in Encoders
  BY <1>1, StartFacts
<1>3. PICK d : d = Open(enc, "text")  OBVIOUS
<1>4. /\ d \in Encoders /\ d.started = enc.started /\ d.done = enc.done
      /\ d.signature_seen = enc.signature_seen
  BY <1>3, OpenFacts DEF OpenKinds
<1>5. PICK e : e = [d EXCEPT !.citation_loss_seen = FALSE]  OBVIOUS
<1>6. /\ e \in Encoders /\ e.started = enc.started /\ e.done = enc.done
      /\ e.signature_seen = enc.signature_seen
  BY <1>4, <1>5 DEF Encoders
<1>7. Consistent(e)  BY <1>2, <1>6 DEF Consistent
<1>8. Refused(event, e)  BY <1>3, <1>5 DEF ApplyTextStartUnknownSource
<1>9. Unfit(View(enc), event)  BY <1>1, <1>2 DEF Unfit
<1>. QED BY <1>6, <1>7, <1>8, <1>9 DEF Outcome

(* Thinking: an empty block; what it starts with is kept for its stop. *)
LEMMA ThinkingStartOutcome ==
  ASSUME TypeOK, Consistent(enc), NEW event \in Events, ApplyThinkingStart(event)
  PROVE  Outcome(event)
<1>1. Starting(event, {"thinking"})  BY DEF ApplyThinkingStart
<1>2. /\ enc \in Encoders /\ event.block \in Blocks /\ event.block.kind = "thinking"
      /\ ~enc.signature_seen
  BY <1>1, StartFacts
<1>3. PICK d : d = Open(enc, "thinking")  OBVIOUS
<1>4. /\ d \in Encoders /\ d.started = enc.started /\ d.done = enc.done
      /\ d.delta_seen = enc.delta_seen /\ d.next_index = enc.next_index + 1
      /\ d.open = "thinking" /\ d.open_ir_index = enc.next_index
      /\ enc.next_wire_index \in Int
  BY <1>2, <1>3, OpenFacts DEF OpenKinds
<1>5. PICK none : none = <<>>  OBVIOUS
<1>6. none \in Text /\ none \in Seq(Text)  BY <1>5 DEF Text
<1>7. PICK text, signature : text = event.block.text /\ signature = event.block.signature
  OBVIOUS
<1>8. text \in Text /\ signature \in Text  BY <1>2, <1>7 DEF Blocks
<1>9. PICK e : e = [d EXCEPT !.thinking_input = text, !.thinking_signature = signature,
                             !.thinking_parts = none, !.signature_seen = FALSE]
  OBVIOUS
<1>10. /\ e \in Encoders /\ e.started = enc.started /\ e.done = enc.done
       /\ e.delta_seen = enc.delta_seen /\ e.next_index = enc.next_index + 1
       /\ e.open = "thinking" /\ e.open_ir_index = enc.next_index /\ ~e.signature_seen
  BY <1>4, <1>6, <1>8, <1>9 DEF Encoders
<1>11. PICK empty : empty = ""  OBVIOUS
<1>12. PICK block : block = NativeBlock("thinking", empty, none, none)  OBVIOUS
<1>13. block \in NativeBlocks
  <2>1. empty \in Tokens  BY <1>11, NoToken
  <2>2. "thinking" \in NativeKinds  BY DEF NativeKinds
  <2>. QED BY <1>6, <1>12, <2>1, <2>2, StartTypes
<1>14. PICK wire : wire = <<WireBlockStart(enc.next_wire_index, Some(block))>>
  OBVIOUS
<1>15. wire \in Seq(WireEvents)  BY <1>4, <1>13, <1>14, WireTypes, WireLists
<1>16. Accepted(event, e, wire)
  BY <1>3, <1>5, <1>7, <1>9, <1>11, <1>12, <1>14, Zenon DEF ApplyThinkingStart
<1>17. e.open = OpenAs(event.block.kind) /\ event.block.kind \notin ToolKinds
  BY <1>2, <1>10 DEF OpenAs, ToolKinds
<1>. QED BY <1>1, <1>10, <1>15, <1>16, <1>17, StartedOutcome

(* Redacted thinking leaves whole. *)
LEMMA RedactedStartOutcome ==
  ASSUME TypeOK, Consistent(enc), NEW event \in Events, ApplyRedactedStart(event)
  PROVE  Outcome(event)
<1>1. Starting(event, {"redacted_thinking"})  BY DEF ApplyRedactedStart
<1>2. /\ enc \in Encoders /\ event.block \in Blocks /\ event.block.kind = "redacted_thinking"
      /\ ~enc.signature_seen
  BY <1>1, StartFacts
<1>3. PICK e : e = Open(enc, "redacted")  OBVIOUS
<1>4. /\ e \in Encoders /\ e.started = enc.started /\ e.done = enc.done
      /\ e.delta_seen = enc.delta_seen /\ e.next_index = enc.next_index + 1
      /\ e.open = "redacted" /\ e.open_ir_index = enc.next_index /\ ~e.signature_seen
      /\ enc.next_wire_index \in Int
  BY <1>2, <1>3, OpenFacts DEF OpenKinds
<1>5. PICK none : none = <<>>  OBVIOUS
<1>6. PICK empty : empty = ""  OBVIOUS
<1>7. PICK block : block = NativeBlock("redacted_thinking", empty, none, event.block.text)
  OBVIOUS
<1>8. block \in NativeBlocks
  <2>1. empty \in Tokens  BY <1>6, NoToken
  <2>2. none \in Text  BY <1>5 DEF Text
  <2>3. event.block.text \in Text  BY <1>2 DEF Blocks
  <2>4. "redacted_thinking" \in NativeKinds  BY DEF NativeKinds
  <2>. QED BY <1>7, <2>1, <2>2, <2>3, <2>4, StartTypes
<1>9. PICK wire : wire = <<WireBlockStart(enc.next_wire_index, Some(block))>>
  OBVIOUS
<1>10. wire \in Seq(WireEvents)  BY <1>4, <1>8, <1>9, WireTypes, WireLists
<1>11. Accepted(event, e, wire)
  BY <1>3, <1>5, <1>6, <1>7, <1>9, Zenon DEF ApplyRedactedStart
<1>12. e.open = OpenAs(event.block.kind) /\ event.block.kind \notin ToolKinds
  BY <1>2, <1>4 DEF OpenAs, ToolKinds
<1>. QED BY <1>1, <1>4, <1>10, <1>11, <1>12, StartedOutcome

(* Tools: the input is kept and compared with the fragments at the stop. *)
LEMMA ToolStartOutcome ==
  ASSUME TypeOK, Consistent(enc), NEW event \in Events, ApplyToolStart(event)
  PROVE  Outcome(event)
<1>1. Starting(event, ToolKinds)  BY DEF ApplyToolStart
<1>2. /\ enc \in Encoders /\ event.block \in Blocks /\ event.block.kind \in ToolKinds
      /\ ~enc.signature_seen
  BY <1>1, StartFacts
<1>3. PICK b, kind : b = event.block /\ kind = IF b.kind = "tool_use" THEN "tool" ELSE "custom"
  OBVIOUS
<1>4. kind \in OpenKinds /\ kind = OpenAs(event.block.kind)
  BY <1>2, <1>3 DEF OpenKinds, OpenAs, ToolKinds
<1>5. PICK d : d = Open(enc, kind)  OBVIOUS
<1>6. /\ d \in Encoders /\ d.started = enc.started /\ d.done = enc.done
      /\ d.delta_seen = enc.delta_seen /\ d.next_index = enc.next_index + 1
      /\ d.open = kind /\ d.open_ir_index = enc.next_index /\ ~d.signature_seen
      /\ enc.next_wire_index \in Int
  BY <1>2, <1>4, <1>5, OpenFacts
<1>7. PICK none : none = <<>>  OBVIOUS
<1>8. none \in Seq(Text)  BY <1>7
<1>9. b.text \in Text /\ b.id \in Tokens /\ b.name \in Text
  BY <1>2, <1>3 DEF Blocks
<1>10. PICK text : text = b.text  OBVIOUS
<1>11. PICK e : e = [d EXCEPT !.tool_seen = TRUE, !.tool_input = text, !.tool_parts = none]
  OBVIOUS
<1>12. /\ e \in Encoders /\ e.started = enc.started /\ e.done = enc.done
       /\ e.delta_seen = enc.delta_seen /\ e.next_index = enc.next_index + 1
       /\ e.open = kind /\ e.open_ir_index = enc.next_index /\ ~e.signature_seen
       /\ e.tool_input = text /\ e.tool_parts = none
  <2>1. text \in Text  BY <1>9, <1>10
  <2>. QED BY <1>6, <1>8, <1>11, <2>1 DEF Encoders
<1>13. PICK object : object = "{}"  OBVIOUS
<1>14. PICK block : block = NativeBlock("tool_use", b.id, b.name, <<object>>)
  OBVIOUS
<1>15. block \in NativeBlocks
  <2>1. object \in Tokens  BY <1>13, Zenon DEF Tokens
  <2>2. <<object>> \in Text  BY <2>1 DEF Text
  <2>3. "tool_use" \in NativeKinds  BY DEF NativeKinds
  <2>. QED BY <1>9, <1>14, <2>2, <2>3, StartTypes
<1>16. PICK wire : wire = <<WireBlockStart(enc.next_wire_index, Some(block))>>
  OBVIOUS
<1>17. wire \in Seq(WireEvents)  BY <1>6, <1>15, <1>16, WireTypes, WireLists
<1>18. Accepted(event, e, wire)
  BY <1>3, <1>5, <1>7, <1>10, <1>11, <1>13, <1>14, <1>16, Zenon DEF ApplyToolStart
<1>. QED BY <1>1, <1>3, <1>4, <1>7, <1>10, <1>12, <1>17, <1>18, StartedOutcome

(* Blocks without a native form. *)
LEMMA OmittedStartOutcome ==
  ASSUME TypeOK, Consistent(enc), NEW event \in Events, ApplyOmittedStart(event)
  PROVE  Outcome(event)
<1>1. Starting(event, OmittedKinds)  BY DEF ApplyOmittedStart
<1>2. /\ enc \in Encoders /\ event.block.kind \in OmittedKinds /\ event.index \in Nat
      /\ event.index = enc.next_index /\ ~enc.signature_seen
  BY <1>1, StartFacts
<1>3. PICK next, custom : /\ next = enc.next_index + 1
                          /\ custom = (enc.custom_seen \/ event.block.kind \in CustomKinds)
  OBVIOUS
<1>4. next \in Nat  BY <1>2, <1>3
<1>5. custom \in BOOLEAN  BY <1>3
<1>6. PICK i : i = event.index  OBVIOUS
<1>7. PICK d : d = [enc EXCEPT !.next_index = next, !.open = "atomic", !.open_ir_index = i,
                               !.custom_seen = custom]
  OBVIOUS
<1>8. /\ d \in Encoders /\ d.started = enc.started /\ d.done = enc.done
      /\ d.delta_seen = enc.delta_seen /\ d.next_index = next
      /\ d.open = "atomic" /\ d.open_ir_index = i /\ d.signature_seen = enc.signature_seen
  BY <1>2, <1>4, <1>5, <1>6, <1>7, ZenonT(60) DEF Encoders, OpenKinds
<1>9. PICK e : e = Lose(d, <<"block", i>>)  OBVIOUS
<1>10. e \in Encoders /\ SameBooks(e, d)
  <2>1. "block" \in LossKinds /\ i \in Int  BY <1>2, <1>6 DEF LossKinds
  <2>. QED BY <1>8, <1>9, <2>1, LoseFacts
<1>11. PICK wire : wire = <<>>  OBVIOUS
<1>12. wire \in Seq(WireEvents)  BY <1>11
<1>13. Accepted(event, e, wire)
  <2>1. Lose([enc EXCEPT !.next_index = @ + 1, !.open = "atomic", !.open_ir_index = event.index,
                         !.custom_seen = @ \/ event.block.kind \in CustomKinds],
             <<"block", event.index>>) = e
    BY <1>2, <1>3, <1>6, <1>7, <1>9 DEF Encoders
  <2>. QED BY <1>11, <2>1, Zenon DEF ApplyOmittedStart
<1>14. event.block.kind \notin ToolKinds /\ OpenAs(event.block.kind) = "atomic"
  BY <1>2 DEF OpenAs, ToolKinds, OmittedKinds, ApplyPatchKinds
<1>. QED BY <1>1, <1>2, <1>3, <1>6, <1>8, <1>10, <1>12, <1>13, <1>14, StartedOutcome DEF SameBooks

LEMMA BlockStartOutcome ==
  ASSUME TypeOK, Consistent(enc), NEW event \in Events, ApplyBlockStart(event)
  PROVE  Outcome(event)
BY StartRefusedOutcome, TextStartOutcome, UnknownSourceOutcome, ThinkingStartOutcome,
   RedactedStartOutcome, ToolStartOutcome, OmittedStartOutcome DEF ApplyBlockStart

-----------------------------------------------------------------------------
(* ContentBlockDelta *)

(* A delta that the grammar admits continues the open block. *)
LEMMA DeltaAllowed ==
  ASSUME enc \in Encoders, NEW event, IsDelta(event)
  PROVE  Allowed(View(enc), event) <=>
           /\ ~enc.done /\ ~enc.delta_seen /\ enc.started /\ enc.open # "none"
           /\ event.index = enc.open_ir_index /\ DeltaFamily(event.delta) = Family(enc.open)
           /\ ~enc.signature_seen
BY DEF Allowed, View, OpensAt, Continues, IsStart, IsDelta, IsStop

(* The deltas of each family. *)
LEMMA DeltaFamilies ==
  ASSUME NEW delta, delta.type \in DeltaTypes
  PROVE  /\ DeltaFamily(delta) = "text" <=> delta.type \in {"text_delta", "citation_delta"}
         /\ DeltaFamily(delta) = "thinking" <=> delta.type \in ThinkingDeltas
         /\ DeltaFamily(delta) = "tool" <=> delta.type = "input_json_delta"
         /\ DeltaFamily(delta) = "custom" <=> delta.type = "custom_tool_input_delta"
         /\ DeltaFamily(delta) # "atomic"
BY DEF DeltaFamily, DeltaTypes, ThinkingDeltas

LEMMA DeltaRefusedOutcome ==
  ASSUME TypeOK, Consistent(enc), NEW event \in Events, ApplyDeltaRefused(event)
  PROVE  Outcome(event)
<1>1. /\ enc \in Encoders /\ IsDelta(event) /\ Refused(event, enc) /\ ~DeltaAccepted(enc, event)
  BY DEF TypeOK, ApplyDeltaRefused, Receives, IsDelta
<1>2. event.delta.type \in DeltaTypes
  BY <1>1, EncoderAssumption, EventForms DEF Deltas
<1>3. ASSUME Allowed(View(enc), event)
      PROVE  Unfit(View(enc), event)
  <2>1. /\ event.index = enc.open_ir_index /\ DeltaFamily(event.delta) = Family(enc.open)
        /\ ~enc.signature_seen /\ enc.open # "none" /\ enc.open \in OpenKinds
    BY <1>1, <1>3, DeltaAllowed DEF Encoders
  <2>2. /\ event.delta.type = "citation_delta"
        /\ event.delta.text[1] \notin {"anthropic", "openai"}
    BY <1>1, <1>2, <2>1, DeltaFamilies DEF DeltaAccepted, Family, OpenKinds, ThinkingDeltas
  <2>. QED BY <1>1, <2>2 DEF Unfit
<1>. QED BY <1>1, <1>3, RefusedOutcome

(* What is known when a delta is accepted. *)
LEMMA ContinuingFacts ==
  ASSUME TypeOK, Consistent(enc), NEW event \in Events, NEW types, Continuing(event, types)
  PROVE  /\ enc \in Encoders /\ IsDelta(event) /\ ~enc.done /\ enc.started /\ enc.open # "none"
         /\ event.index = enc.open_ir_index
         /\ event.delta.type \in types /\ event.delta.type \in DeltaTypes
         /\ event.delta.text \in Text
         /\ Foreign(event) \/ (DeltaFamily(event.delta) = Family(enc.open) /\ ~enc.signature_seen)
         /\ event.delta.type = "signature_delta" => enc.open = "thinking"
<1>1. /\ enc \in Encoders /\ IsDelta(event) /\ ~enc.done /\ event.delta.type \in types
      /\ DeltaAccepted(enc, event) /\ event.index = enc.open_ir_index
  BY DEF TypeOK, Continuing, Receives, DeltaAccepted, IsDelta
<1>2. event.delta.type \in DeltaTypes /\ event.delta.text \in Text
  BY <1>1, EncoderAssumption, EventForms DEF Deltas
<1>3. enc.open # "none" /\ (event.delta.type = "signature_delta" => enc.open = "thinking")
  BY <1>1 DEF DeltaAccepted
<1>4. enc.started /\ (enc.signature_seen => enc.open = "thinking")
  BY <1>3 DEF Consistent
<1>5. Foreign(event) \/ (DeltaFamily(event.delta) = Family(enc.open) /\ ~enc.signature_seen)
  <2>1. \/ enc.open = "custom" /\ event.delta.type = "custom_tool_input_delta"
        \/ /\ enc.open = "thinking" /\ event.delta.type \in ThinkingDeltas
           /\ ~enc.signature_seen
        \/ enc.open = "text" /\ event.delta.type \in {"text_delta", "citation_delta"}
        \/ enc.open = "tool" /\ event.delta.type = "input_json_delta"
        \/ /\ enc.open \in {"text", "thinking", "tool"}
           /\ event.delta.type = "custom_tool_input_delta"
    BY <1>1 DEF DeltaAccepted
  <2>2. CASE /\ enc.open \in {"text", "thinking", "tool"}
             /\ event.delta.type = "custom_tool_input_delta"
    BY <1>1, <2>2 DEF Foreign
  <2>. QED BY <1>2, <1>4, <2>1, <2>2, DeltaFamilies DEF Family
<1>. QED BY <1>1, <1>2, <1>3, <1>4, <1>5

(* The open block takes the delta in. *)
LEMMA ContinuedOutcome ==
  ASSUME TypeOK, Consistent(enc), NEW event \in Events, NEW types, Continuing(event, types),
         NEW e \in Encoders, NEW wire \in Seq(WireEvents), Accepted(event, e, wire),
         e.started = enc.started, e.done = enc.done, e.delta_seen = enc.delta_seen,
         e.next_index = enc.next_index, e.open = enc.open,
         e.open_ir_index = enc.open_ir_index, e.tool_input = enc.tool_input,
         e.signature_seen <=> enc.signature_seen \/ event.delta.type = "signature_delta",
         enc.open \in {"tool", "custom"} /\ ~Foreign(event) =>
           e.tool_parts = Append(enc.tool_parts, event.delta.text)
  PROVE  Outcome(event)
<1>1. /\ enc \in Encoders /\ IsDelta(event) /\ ~enc.done /\ enc.started /\ enc.open # "none"
      /\ event.index = enc.open_ir_index
      /\ Foreign(event) \/ (DeltaFamily(event.delta) = Family(enc.open) /\ ~enc.signature_seen)
      /\ event.delta.type = "signature_delta" => enc.open = "thinking"
      /\ event.delta.type \in DeltaTypes
  BY ContinuingFacts
<1>2. Consistent(e)  BY <1>1 DEF Consistent
<1>3. Allowed(View(enc), event) <=>
        ~enc.delta_seen /\ DeltaFamily(event.delta) = Family(enc.open) /\ ~enc.signature_seen
  BY <1>1, DeltaAllowed
<1>4. ASSUME Allowed(View(enc), event)
      PROVE  Moves(View(enc), event, View(e))
  <2>1. DeltaFamily(event.delta) = Family(enc.open) /\ ~enc.signature_seen /\ ~enc.delta_seen
    BY <1>3, <1>4
  <2>2. ~Foreign(event)  BY <1>1, <2>1, DeltaFamilies DEF Foreign, Family
  <2>3. /\ View(enc).place = "within" /\ View(e).place = "within"
        /\ View(e).index = View(enc).index /\ View(e).next = View(enc).next
        /\ View(e).family = View(enc).family
        /\ View(e).signed <=> event.delta.type = "signature_delta"
        /\ View(e).tool = View(enc).tool
        /\ View(e).tool =>
             /\ View(e).input = View(enc).input
             /\ View(e).fragments = Append(View(enc).fragments, event.delta.text)
    BY <1>1, <2>1, <2>2 DEF View
  <2>. QED BY <1>1, <2>3 DEF Moves
<1>5. ~IsStart(event)  BY <1>1 DEF IsStart, IsDelta
<1>6. Advances(event, e)  BY <1>1, <1>3, <1>4, <1>5 DEF Advances
<1>. QED BY <1>2, <1>6 DEF Outcome

(* Deltas that leave the struct as it was. *)
LEMMA TextDeltaOutcome ==
  ASSUME TypeOK, Consistent(enc), NEW event \in Events, ApplyTextDelta(event)
  PROVE  Outcome(event)
<1>1. Continuing(event, {"text_delta"})  BY DEF ApplyTextDelta
<1>2. /\ enc \in Encoders /\ event.delta.type = "text_delta" /\ event.delta.text \in Text
      /\ Foreign(event) \/ DeltaFamily(event.delta) = Family(enc.open)
  BY <1>1, ContinuingFacts
<1>3. enc.open \notin {"tool", "custom"}
  BY <1>2 DEF Foreign, DeltaFamily, Family
<1>4. PICK wire : wire = <<SentDelta("text_delta", event.delta.text)>>  OBVIOUS
<1>5. wire \in Seq(WireEvents)
  BY <1>2, <1>4, SentTypes, WireLists DEF NativeTypes
<1>6. Accepted(event, enc, wire)  BY <1>4 DEF ApplyTextDelta
<1>. QED BY <1>1, <1>2, <1>3, <1>5, <1>6, ContinuedOutcome

LEMMA CitationDeltaOutcome ==
  ASSUME TypeOK, Consistent(enc), NEW event \in Events, ApplyCitationDelta(event)
  PROVE  Outcome(event)
<1>1. Continuing(event, {"citation_delta"})  BY DEF ApplyCitationDelta
<1>2. /\ enc \in Encoders /\ event.delta.type = "citation_delta"
      /\ Foreign(event) \/ DeltaFamily(event.delta) = Family(enc.open)
  BY <1>1, ContinuingFacts
<1>3. enc.open \notin {"tool", "custom"} /\ enc.open_index \in Int
  BY <1>2 DEF Foreign, DeltaFamily, Family, Encoders
<1>4. CASE Accepted(event, enc, <<WireBlockDelta(enc.open_index, Some(CitationsDelta("valid")))>>)
  <2>1. PICK wire : wire = <<WireBlockDelta(enc.open_index, Some(CitationsDelta("valid")))>>
    OBVIOUS
  <2>2. wire \in Seq(WireEvents)  BY <2>1, SentTypes, WireLists
  <2>. QED BY <1>1, <1>2, <1>3, <1>4, <2>1, <2>2, ContinuedOutcome
<1>5. CASE Accepted(event, enc, <<>>)
  BY <1>1, <1>2, <1>3, <1>5, WireLists, ContinuedOutcome
<1>6. CASE Accepted(event, Lose([enc EXCEPT !.citation_loss_seen = TRUE],
                                <<"citations", enc.open_index>>), <<>>)
  <2>1. PICK d : d = [enc EXCEPT !.citation_loss_seen = TRUE]  OBVIOUS
  <2>2. d \in Encoders /\ SameBooks(d, enc)
    BY <1>2, <2>1 DEF Encoders, SameBooks
  <2>3. PICK e : e = Lose(d, <<"citations", enc.open_index>>)  OBVIOUS
  <2>4. e \in Encoders /\ SameBooks(e, d)
    <3>1. "citations" \in LossKinds  BY DEF LossKinds
    <3>. QED BY <1>3, <2>2, <2>3, <3>1, LoseFacts
  <2>5. Accepted(event, e, <<>>)  BY <1>6, <2>1, <2>3
  <2>. QED BY <1>1, <1>2, <1>3, <2>2, <2>4, <2>5, WireLists, ContinuedOutcome DEF SameBooks
<1>. QED BY <1>4, <1>5, <1>6 DEF ApplyCitationDelta

LEMMA ThinkingDeltaOutcome ==
  ASSUME TypeOK, Consistent(enc), NEW event \in Events, ApplyThinkingDelta(event)
  PROVE  Outcome(event)
<1>1. Continuing(event, {"thinking_delta"})  BY DEF ApplyThinkingDelta
<1>2. /\ enc \in Encoders /\ event.delta.type = "thinking_delta" /\ event.delta.text \in Text
      /\ Foreign(event) \/ DeltaFamily(event.delta) = Family(enc.open)
  BY <1>1, ContinuingFacts
<1>3. enc.open \notin {"tool", "custom"}
  BY <1>2 DEF Foreign, DeltaFamily, Family
<1>4. PICK parts : parts = Append(enc.thinking_parts, event.delta.text)  OBVIOUS
<1>5. parts \in Seq(Text)  BY <1>2, <1>4 DEF Encoders
<1>6. PICK e : e = [enc EXCEPT !.thinking_parts = parts]  OBVIOUS
<1>7. e \in Encoders /\ SameBooks(e, enc)
  BY <1>2, <1>5, <1>6 DEF Encoders, SameBooks
<1>8. PICK wire : wire = <<SentDelta("thinking_delta", event.delta.text)>>
  OBVIOUS
<1>9. wire \in Seq(WireEvents)
  BY <1>2, <1>8, SentTypes, WireLists DEF NativeTypes
<1>10. Accepted(event, e, wire)
  BY <1>2, <1>4, <1>6, <1>8 DEF ApplyThinkingDelta, Encoders
<1>. QED BY <1>1, <1>2, <1>3, <1>7, <1>9, <1>10, ContinuedOutcome DEF SameBooks

LEMMA SignatureDeltaOutcome ==
  ASSUME TypeOK, Consistent(enc), NEW event \in Events, ApplySignatureDelta(event)
  PROVE  Outcome(event)
<1>1. Continuing(event, {"signature_delta"})  BY DEF ApplySignatureDelta
<1>2. /\ enc \in Encoders /\ event.delta.type = "signature_delta" /\ event.delta.text \in Text
      /\ enc.open \notin {"tool", "custom"}
  BY <1>1, ContinuingFacts
<1>3. PICK e : e = [enc EXCEPT !.signature_seen = TRUE]  OBVIOUS
<1>4. /\ e \in Encoders /\ e.started = enc.started /\ e.done = enc.done
      /\ e.delta_seen = enc.delta_seen /\ e.next_index = enc.next_index /\ e.open = enc.open
      /\ e.open_ir_index = enc.open_ir_index /\ e.tool_input = enc.tool_input
      /\ e.signature_seen
  BY <1>2, <1>3 DEF Encoders
<1>5. PICK wire : wire = <<SentDelta("signature_delta", event.delta.text)>>
  OBVIOUS
<1>6. wire \in Seq(WireEvents)
  BY <1>2, <1>5, SentTypes, WireLists DEF NativeTypes
<1>7. Accepted(event, e, wire)  BY <1>3, <1>5 DEF ApplySignatureDelta
<1>. QED BY <1>1, <1>2, <1>4, <1>6, <1>7, ContinuedOutcome

(* A fragment of a tool is remembered. *)
LEMMA PartAdded ==
  ASSUME enc \in Encoders, NEW text \in Text
  PROVE  /\ [enc EXCEPT !.tool_parts = Append(@, text)] \in Encoders
         /\ [enc EXCEPT !.tool_parts = Append(@, text)].started = enc.started
         /\ [enc EXCEPT !.tool_parts = Append(@, text)].done = enc.done
         /\ [enc EXCEPT !.tool_parts = Append(@, text)].delta_seen = enc.delta_seen
         /\ [enc EXCEPT !.tool_parts = Append(@, text)].next_index = enc.next_index
         /\ [enc EXCEPT !.tool_parts = Append(@, text)].open = enc.open
         /\ [enc EXCEPT !.tool_parts = Append(@, text)].open_ir_index = enc.open_ir_index
         /\ [enc EXCEPT !.tool_parts = Append(@, text)].tool_input = enc.tool_input
         /\ [enc EXCEPT !.tool_parts = Append(@, text)].signature_seen = enc.signature_seen
         /\ [enc EXCEPT !.tool_parts = Append(@, text)].tool_parts = Append(enc.tool_parts, text)
<1>1. PICK parts : parts = Append(enc.tool_parts, text)  OBVIOUS
<1>2. parts \in Seq(Text)  BY <1>1 DEF Encoders
<1>3. PICK e : e = [enc EXCEPT !.tool_parts = parts]  OBVIOUS
<1>4. e = [enc EXCEPT !.tool_parts = Append(@, text)]
  BY <1>1, <1>3 DEF Encoders
<1>5. /\ e \in Encoders /\ e.started = enc.started /\ e.done = enc.done
      /\ e.delta_seen = enc.delta_seen /\ e.next_index = enc.next_index /\ e.open = enc.open
      /\ e.open_ir_index = enc.open_ir_index /\ e.tool_input = enc.tool_input
      /\ e.signature_seen = enc.signature_seen /\ e.tool_parts = parts
  BY <1>2, <1>3 DEF Encoders
<1>. QED BY <1>1, <1>4, <1>5

LEMMA InputJsonDeltaOutcome ==
  ASSUME TypeOK, Consistent(enc), NEW event \in Events, ApplyInputJsonDelta(event)
  PROVE  Outcome(event)
<1>1. Continuing(event, {"input_json_delta"})  BY DEF ApplyInputJsonDelta
<1>2. /\ enc \in Encoders /\ event.delta.type = "input_json_delta" /\ event.delta.text \in Text
  BY <1>1, ContinuingFacts
<1>3. PICK e : e = [enc EXCEPT !.tool_parts = Append(@, event.delta.text)]
  OBVIOUS
<1>4. PICK wire : wire = <<SentDelta("input_json_delta", event.delta.text)>>
  OBVIOUS
<1>5. wire \in Seq(WireEvents)
  BY <1>2, <1>4, SentTypes, WireLists DEF NativeTypes
<1>6. Accepted(event, e, wire)  BY <1>3, <1>4 DEF ApplyInputJsonDelta
<1>7. /\ e \in Encoders /\ e.started = enc.started /\ e.done = enc.done
      /\ e.delta_seen = enc.delta_seen /\ e.next_index = enc.next_index /\ e.open = enc.open
      /\ e.open_ir_index = enc.open_ir_index /\ e.tool_input = enc.tool_input
      /\ e.signature_seen = enc.signature_seen
      /\ e.tool_parts = Append(enc.tool_parts, event.delta.text)
  BY <1>2, <1>3, PartAdded
<1>. QED BY <1>1, <1>2, <1>5, <1>6, <1>7, ContinuedOutcome

(* The input of a custom call is sent at its stop. *)
LEMMA CustomInputDeltaOutcome ==
  ASSUME TypeOK, Consistent(enc), NEW event \in Events, ApplyCustomInputDelta(event)
  PROVE  Outcome(event)
<1>1. Continuing(event, {"custom_tool_input_delta"})
  BY DEF ApplyCustomInputDelta
<1>2. /\ enc \in Encoders /\ event.delta.type = "custom_tool_input_delta"
      /\ event.delta.text \in Text
      /\ Foreign(event) \/ DeltaFamily(event.delta) = Family(enc.open)
  BY <1>1, ContinuingFacts
<1>3. CASE enc.open = "custom"
  <2>1. PICK e : e = [enc EXCEPT !.tool_parts = Append(@, event.delta.text)]
    OBVIOUS
  <2>2. Accepted(event, e, <<>>)  BY <1>3, <2>1 DEF ApplyCustomInputDelta
  <2>3. /\ e \in Encoders /\ e.started = enc.started /\ e.done = enc.done
        /\ e.delta_seen = enc.delta_seen /\ e.next_index = enc.next_index /\ e.open = enc.open
        /\ e.open_ir_index = enc.open_ir_index /\ e.tool_input = enc.tool_input
        /\ e.signature_seen = enc.signature_seen
        /\ e.tool_parts = Append(enc.tool_parts, event.delta.text)
    BY <1>2, <2>1, PartAdded
  <2>. QED BY <1>1, <1>2, <2>2, <2>3, WireLists, ContinuedOutcome
<1>4. CASE enc.open # "custom"
  <2>1. Accepted(event, enc, <<>>)  BY <1>4 DEF ApplyCustomInputDelta
  <2>2. DeltaFamily(event.delta) = "custom" /\ (Family(enc.open) = "custom" => enc.open = "custom")
    BY <1>2 DEF DeltaFamily, Family
  <2>3. Foreign(event)  BY <1>2, <1>4, <2>2
  <2>. QED BY <1>1, <1>2, <2>1, <2>3, WireLists, ContinuedOutcome
<1>. QED BY <1>3, <1>4

LEMMA BlockDeltaOutcome ==
  ASSUME TypeOK, Consistent(enc), NEW event \in Events, ApplyBlockDelta(event)
  PROVE  Outcome(event)
BY DeltaRefusedOutcome, TextDeltaOutcome, CitationDeltaOutcome, ThinkingDeltaOutcome,
   SignatureDeltaOutcome, InputJsonDeltaOutcome, CustomInputDeltaOutcome DEF ApplyBlockDelta

-----------------------------------------------------------------------------
(* ContentBlockStop *)

(* A stop that the grammar admits ends the open block. *)
LEMMA StopAllowed ==
  ASSUME enc \in Encoders, NEW event, IsStop(event)
  PROVE  Allowed(View(enc), event) <=>
           /\ ~enc.done /\ ~enc.delta_seen /\ enc.started /\ enc.open # "none"
           /\ event.index = enc.open_ir_index
BY DEF Allowed, View, OpensAt, Continues, IsStart, IsDelta, IsStop

LEMMA StopRefusedOutcome ==
  ASSUME TypeOK, Consistent(enc), NEW event \in Events, ApplyStopRefused(event)
  PROVE  Outcome(event)
<1>1. /\ enc \in Encoders /\ IsStop(event) /\ Refused(event, enc) /\ ~StopAccepted(enc, event)
  BY DEF TypeOK, ApplyStopRefused, Receives, IsStop
<1>2. ASSUME Allowed(View(enc), event)
      PROVE  Unfit(View(enc), event)
  <2>1. event.index = enc.open_ir_index /\ enc.open # "none"
    BY <1>1, <1>2, StopAllowed
  <2>2. /\ enc.open \in {"tool", "custom"} /\ enc.tool_parts # <<>>
        /\ Concat(enc.tool_parts) # enc.tool_input
    BY <1>1, <2>1 DEF StopAccepted
  <2>3. View(enc).tool /\ ~InputExact(View(enc).input, View(enc).fragments, TRUE)
    BY <2>2 DEF View, InputExact
  <2>. QED BY <1>1, <2>3 DEF Unfit
<1>. QED BY <1>1, <1>2, RefusedOutcome

(* The open block is closed, with the input its fragments spell. *)
LEMMA StoppedOutcome ==
  ASSUME TypeOK, Consistent(enc), NEW event \in Events, NEW kinds, Stopping(event, kinds),
         NEW e \in Encoders, NEW wire \in Seq(WireEvents), Accepted(event, e, wire),
         e.started = enc.started, e.done = enc.done, e.delta_seen = enc.delta_seen,
         e.next_index = enc.next_index, e.open = "none", ~e.signature_seen
  PROVE  Outcome(event)
<1>1. /\ enc \in Encoders /\ IsStop(event) /\ ~enc.done /\ enc.open # "none"
      /\ event.index = enc.open_ir_index
      /\ enc.open \in {"tool", "custom"} /\ enc.tool_parts # <<>> =>
           Concat(enc.tool_parts) = enc.tool_input
  BY DEF TypeOK, Stopping, StopAccepted, Receives, IsStop
<1>2. enc.started  BY <1>1 DEF Consistent
<1>3. Consistent(e)  BY <1>1, <1>2 DEF Consistent
<1>4. Allowed(View(enc), event) <=> ~enc.delta_seen  BY <1>1, <1>2, StopAllowed
<1>5. ASSUME ~enc.delta_seen
      PROVE  Moves(View(enc), event, View(e))
  <2>1. View(enc).tool => InputExact(View(enc).input, View(enc).fragments, TRUE)
    BY <1>1 DEF View, InputExact
  <2>2. /\ View(enc).place = "within" /\ View(e).place = "between"
        /\ View(e).next = View(enc).next
    BY <1>1, <1>2, <1>5 DEF View
  <2>. QED BY <1>1, <2>1, <2>2 DEF Moves
<1>6. ~IsStart(event) /\ ~IsDelta(event)  BY <1>1 DEF IsStart, IsDelta, IsStop
<1>7. Advances(event, e)  BY <1>1, <1>4, <1>5, <1>6 DEF Advances
<1>. QED BY <1>3, <1>7 DEF Outcome

(* What is left of a closed block. *)
LEMMA ClosedFacts ==
  ASSUME enc \in Encoders
  PROVE  /\ Closed(enc) \in Encoders
         /\ Closed(enc).started = enc.started /\ Closed(enc).done = enc.done
         /\ Closed(enc).delta_seen = enc.delta_seen
         /\ Closed(enc).next_index = enc.next_index /\ Closed(enc).open = "none"
         /\ Closed(enc).signature_seen = enc.signature_seen
BY DEF Closed, Encoders, OpenKinds

(* Blocks that carried everything in their start. *)
LEMMA AtomicStopOutcome ==
  ASSUME TypeOK, Consistent(enc), NEW event \in Events,
         ApplyRedactedStop(event) \/ ApplyOmittedStop(event)
  PROVE  Outcome(event)
<1>1. PICK kind \in {"redacted", "atomic"}, wire \in Seq(WireEvents) :
        Stopping(event, {kind}) /\ Accepted(event, Closed(enc), wire)
  <2>1. SentStop \in Seq(WireEvents) /\ <<>> \in Seq(WireEvents)
    BY SentTypes, WireLists DEF SentStop
  <2>. QED BY <2>1 DEF ApplyRedactedStop, ApplyOmittedStop
<1>2. enc \in Encoders /\ enc.open # "thinking"  BY <1>1 DEF TypeOK, Stopping
<1>3. ~enc.signature_seen  BY <1>2 DEF Consistent
<1>. QED BY <1>1, <1>2, <1>3, ClosedFacts, StoppedOutcome

LEMMA ThinkingRestType ==
  ASSUME TypeOK
  PROVE  ThinkingRest(enc) \in Seq(WireEvents)
<1>1. enc.thinking_input \in Text /\ enc.thinking_signature \in Text
  BY DEF TypeOK, Encoders
<1>2. "thinking_delta" \in NativeTypes /\ "signature_delta" \in NativeTypes
  BY DEF NativeTypes
<1>3. PICK p, q : /\ p = SentDelta("thinking_delta", enc.thinking_input)
                  /\ q = SentDelta("signature_delta", enc.thinking_signature)
  OBVIOUS
<1>4. p \in WireEvents /\ q \in WireEvents  BY <1>1, <1>2, <1>3, SentTypes
<1>5. PICK first, second :
        /\ first = IF enc.thinking_parts = <<>> /\ enc.thinking_input # <<>> THEN <<p>> ELSE <<>>
        /\ second = IF ~enc.signature_seen /\ enc.thinking_signature # <<>> THEN <<q>> ELSE <<>>
  OBVIOUS
<1>6. first \in Seq(WireEvents) /\ second \in Seq(WireEvents)
  BY <1>4, <1>5, WireLists
<1>7. ThinkingRest(enc) = first \o second  BY <1>3, <1>5 DEF ThinkingRest
<1>. QED BY <1>6, <1>7, WireLists

LEMMA ThinkingStopOutcome ==
  ASSUME TypeOK, Consistent(enc), NEW event \in Events, ApplyThinkingStop(event)
  PROVE  Outcome(event)
<1>1. Stopping(event, {"thinking"}) /\ enc \in Encoders
  BY DEF ApplyThinkingStop, TypeOK
<1>2. PICK none : none = <<>>  OBVIOUS
<1>3. none \in Text /\ none \in Seq(Text)  BY <1>2 DEF Text
<1>4. PICK d, e : /\ d = Closed(enc)
                  /\ e = [d EXCEPT !.thinking_input = none, !.thinking_signature = none,
                                   !.thinking_parts = none, !.signature_seen = FALSE]
  OBVIOUS
<1>5. /\ d \in Encoders /\ d.started = enc.started /\ d.done = enc.done
      /\ d.delta_seen = enc.delta_seen /\ d.next_index = enc.next_index /\ d.open = "none"
  BY <1>1, <1>4, ClosedFacts
<1>6. /\ e \in Encoders /\ e.started = enc.started /\ e.done = enc.done
      /\ e.delta_seen = enc.delta_seen /\ e.next_index = enc.next_index /\ e.open = "none"
      /\ ~e.signature_seen
  BY <1>3, <1>4, <1>5 DEF Encoders
<1>7. PICK wire : wire = ThinkingRest(enc) \o SentStop  OBVIOUS
<1>8. wire \in Seq(WireEvents)
  BY <1>7, ThinkingRestType, SentTypes, WireLists DEF SentStop
<1>9. Accepted(event, e, wire)  BY <1>2, <1>4, <1>7, Zenon DEF ApplyThinkingStop
<1>. QED BY <1>1, <1>6, <1>8, <1>9, StoppedOutcome

LEMMA InputRestType ==
  ASSUME TypeOK
  PROVE  InputRest(enc) \in Seq(WireEvents)
<1>1. enc.tool_input \in Text  BY DEF TypeOK, Encoders
<1>2. Wrap(enc.tool_input) \in Text
  <2>1. PICK a, b : a = Opening /\ b = Closing  OBVIOUS
  <2>2. a \in Tokens /\ b \in Tokens
    BY <2>1, Zenon DEF Opening, Closing, Tokens
  <2>3. <<a>> \in Text /\ <<b>> \in Text  BY <2>2 DEF Text
  <2>4. <<a>> \o enc.tool_input \o <<b>> \in Text  BY <1>1, <2>3 DEF Text
  <2>. QED BY <2>1, <2>4, Zenon DEF Wrap
<1>3. "input_json_delta" \in NativeTypes  BY DEF NativeTypes
<1>4. PICK p, q : /\ p = SentDelta("input_json_delta", Wrap(enc.tool_input))
                  /\ q = SentDelta("input_json_delta", enc.tool_input)
  OBVIOUS
<1>5. p \in WireEvents /\ q \in WireEvents  BY <1>1, <1>2, <1>3, <1>4, SentTypes
<1>6. InputRest(enc) \in {<<p>>, <<q>>, <<>>}  BY <1>4 DEF InputRest
<1>. QED BY <1>5, <1>6, WireLists

(* Text and tools: the rest of the input leaves before the stop. *)
LEMMA ContentStopOutcome ==
  ASSUME TypeOK, Consistent(enc), NEW event \in Events, ApplyContentStop(event)
  PROVE  Outcome(event)
<1>1. Stopping(event, {"text", "tool", "custom"}) /\ enc \in Encoders
  BY DEF ApplyContentStop, TypeOK
<1>2. enc.open # "thinking"  BY <1>1 DEF Stopping
<1>3. ~enc.signature_seen  BY <1>2 DEF Consistent
<1>4. PICK none : none = <<>>  OBVIOUS
<1>5. none \in Text /\ none \in Seq(Text)  BY <1>4 DEF Text
<1>6. PICK d, e : /\ d = Closed(enc)
                  /\ e = [d EXCEPT !.tool_input = none, !.tool_parts = none]
  OBVIOUS
<1>7. /\ d \in Encoders /\ d.started = enc.started /\ d.done = enc.done
      /\ d.delta_seen = enc.delta_seen /\ d.next_index = enc.next_index /\ d.open = "none"
      /\ ~d.signature_seen
  BY <1>1, <1>3, <1>6, ClosedFacts
<1>8. /\ e \in Encoders /\ e.started = enc.started /\ e.done = enc.done
      /\ e.delta_seen = enc.delta_seen /\ e.next_index = enc.next_index /\ e.open = "none"
      /\ ~e.signature_seen
  BY <1>5, <1>6, <1>7 DEF Encoders
<1>9. PICK wire : wire = InputRest(enc) \o SentStop  OBVIOUS
<1>10. wire \in Seq(WireEvents)
  BY <1>9, InputRestType, SentTypes, WireLists DEF SentStop
<1>11. Accepted(event, e, wire)  BY <1>4, <1>6, <1>9, Zenon DEF ApplyContentStop
<1>. QED BY <1>1, <1>8, <1>10, <1>11, StoppedOutcome

LEMMA BlockStopOutcome ==
  ASSUME TypeOK, Consistent(enc), NEW event \in Events, ApplyBlockStop(event)
  PROVE  Outcome(event)
BY StopRefusedOutcome, AtomicStopOutcome, ThinkingStopOutcome, ContentStopOutcome
   DEF ApplyBlockStop

-----------------------------------------------------------------------------
(* MessageDelta and MessageDone *)

LEMMA MessageDeltaOutcome ==
  ASSUME TypeOK, Consistent(enc), NEW event \in Events, ApplyMessageDelta(event)
  PROVE  Outcome(event)
<1>1. /\ enc \in Encoders /\ event.type = "message_delta" /\ ~enc.done
      /\ event.stop_reason \in StopReasons /\ event.stop_sequence \in Text
      /\ event.usage \in Usages
  <2>1. event.type = "message_delta" /\ ~enc.done
    BY DEF ApplyMessageDelta, Receives
  <2>. QED BY <2>1, EncoderAssumption, EventForms DEF TypeOK
<1>2. Allowed(View(enc), event) <=> ~enc.delta_seen /\ enc.started /\ enc.open = "none"
  BY <1>1 DEF Allowed, View, OpensAt, Continues, IsStart, IsDelta, IsStop
<1>3. CASE ~TerminalAccepted(enc, event)
  <2>1. Refused(event, enc)  BY <1>3 DEF ApplyMessageDelta
  <2>2. Allowed(View(enc), event) => event.stop_reason = "other"
    BY <1>2, <1>3 DEF TerminalAccepted, EffectiveStop
  <2>. QED BY <1>1, <2>1, <2>2, RefusedOutcome DEF Unfit
<1>4. CASE TerminalAccepted(enc, event)
  <2>1. enc.started /\ enc.open = "none" /\ ~enc.delta_seen
    BY <1>4 DEF TerminalAccepted
  <2>2. ~enc.signature_seen  BY <2>1 DEF Consistent
  <2>3. PICK stop, seen : /\ stop = EffectiveStop(enc, event.stop_reason)
                          /\ seen = [enc EXCEPT !.delta_seen = TRUE]
    OBVIOUS
  <2>4. stop \in StopReasons  BY <1>1, <2>3 DEF EffectiveStop, StopReasons
  <2>5. /\ seen \in Encoders /\ seen.started = enc.started /\ seen.done = enc.done
        /\ seen.delta_seen /\ seen.next_index = enc.next_index /\ seen.open = enc.open
        /\ seen.signature_seen = enc.signature_seen
    BY <1>1, <2>3 DEF Encoders
  <2>6. PICK e : e = IF stop # event.stop_reason /\ enc.custom_seen
                     THEN Lose(seen, <<"stop_reason", -1>>) ELSE seen
    OBVIOUS
  <2>7. e \in Encoders /\ SameBooks(e, seen)
    <3>1. "stop_reason" \in LossKinds /\ -1 \in Int  BY DEF LossKinds
    <3>. QED BY <2>5, <2>6, <3>1, LoseFacts DEF SameBooks
  <2>8. PICK none, sequence : /\ none = <<>>
                              /\ sequence = IF stop = "stop_sequence" THEN event.stop_sequence
                                            ELSE none
    OBVIOUS
  <2>9. sequence \in Text
    <3>1. none \in Text  BY <2>8 DEF Text
    <3>. QED BY <1>1, <2>8, <3>1
  <2>10. Terminal(stop, sequence) \in Terminals
    BY <2>4, <2>9 DEF Terminal, Terminals
  <2>11. PICK wire : wire = <<WireMessageDelta(Some(Terminal(stop, sequence)), Some(event.usage))>>
    OBVIOUS
  <2>12. wire \in Seq(WireEvents)  BY <1>1, <2>10, <2>11, WireTypes, WireLists
  <2>13. Accepted(event, e, wire)
    BY <1>4, <2>3, <2>6, <2>8, <2>11, Zenon DEF ApplyMessageDelta
  <2>14. Consistent(e)  BY <2>1, <2>2, <2>5, <2>7 DEF Consistent, SameBooks
  <2>15. Moves(View(enc), event, View(e))
    BY <1>1, <2>5, <2>7 DEF Moves, View, SameBooks
  <2>16. Advances(event, e)
    BY <1>1, <1>2, <2>1, <2>5, <2>7, <2>15 DEF Advances, SameBooks, IsStart, IsDelta
  <2>. QED BY <2>7, <2>12, <2>13, <2>14, <2>16 DEF Outcome
<1>. QED BY <1>3, <1>4

LEMMA MessageDoneOutcome ==
  ASSUME TypeOK, Consistent(enc), NEW event \in Events, ApplyMessageDone(event)
  PROVE  Outcome(event)
<1>1. enc \in Encoders /\ event.type = "message_done" /\ ~enc.done
  BY DEF TypeOK, ApplyMessageDone, Receives
<1>2. Allowed(View(enc), event) <=> enc.delta_seen
  BY <1>1 DEF Allowed, View, OpensAt, Continues, IsStart, IsDelta, IsStop
<1>3. CASE ~enc.delta_seen  BY <1>2, <1>3, RefusedOutcome DEF ApplyMessageDone
<1>4. CASE enc.delta_seen
  <2>1. PICK e, wire : e = [enc EXCEPT !.done = TRUE] /\ wire = <<WireMessageStop>>
    OBVIOUS
  <2>2. /\ e \in Encoders /\ e.done /\ e.started = enc.started
        /\ e.delta_seen = enc.delta_seen /\ e.next_index = enc.next_index /\ e.open = enc.open
        /\ e.signature_seen = enc.signature_seen
    BY <1>1, <2>1 DEF Encoders
  <2>3. wire \in Seq(WireEvents)  BY <2>1, WireTypes, WireLists
  <2>4. Accepted(event, e, wire)  BY <1>4, <2>1 DEF ApplyMessageDone
  <2>5. Consistent(e)  BY <1>4, <2>2 DEF Consistent
  <2>6. Moves(View(enc), event, View(e))  BY <1>1, <2>2 DEF View, Moves
  <2>7. Advances(event, e)
    BY <1>1, <1>2, <1>4, <2>2, <2>6 DEF Advances, IsStart, IsDelta
  <2>. QED BY <2>2, <2>3, <2>4, <2>5, <2>7 DEF Outcome
<1>. QED BY <1>3, <1>4

(* Every call has one of the two outcomes. *)
LEMMA EveryOutcome ==
  ASSUME TypeOK, Consistent(enc), NEW event \in Events, Apply(event)
  PROVE  Outcome(event)
BY AfterDoneOutcome, MessageStartOutcome, BlockStartOutcome, BlockDeltaOutcome,
   BlockStopOutcome, MessageDeltaOutcome, MessageDoneOutcome DEF Apply

-----------------------------------------------------------------------------
(* The invariant *)

(* The stray events, said of any stream s. *)
Wandering(s, n) ==
  \/ /\ IsDelta(s[n]) /\ s[n].delta.type = "custom_tool_input_delta"
     /\ \E j \in 1..n : /\ IsStart(s[j]) /\ s[j].index = s[n].index
                        /\ s[j].block.kind \in {"text", "thinking", "tool_use"}
  \/ \E j \in 1..(n - 1) :
       s[j].type = "message_delta" /\ ~(j = n - 1 /\ s[n].type = "message_done")

(* Every block has an index of its own, below the next one. *)
NewIndexes(s, next) ==
  /\ \A j \in 1..Len(s) : IsStart(s[j]) => s[j].index < next
  /\ \A j, k \in 1..Len(s) : IsStart(s[j]) /\ IsStart(s[k]) /\ s[j].index = s[k].index => j = k

(* The block the struct holds open is open in the stream. *)
HeldOpen(s, e) ==
  e.open # "none" /\ ~e.delta_seen =>
    \E k \in 1..Len(s) :
      OpenFrom(s, k) /\ s[k].index = e.open_ir_index /\ OpenAs(s[k].block.kind) = e.open

(* The struct tracks the events as long as they are in order, and only a
   stray event takes them out of order. *)
Follow(s, e) ==
  /\ NewIndexes(s, e.next_index) /\ HeldOpen(s, e)
  /\ InOrder(s) => Tracks(s, View(e))
  /\ (\A n \in 1..Len(s) : ~Wandering(s, n)) => InOrder(s)

(* The reason of the first refusal. *)
Reasoned ==
  ~Faultless =>
    /\ refused[1].after \in 0..Len(applied)
    /\ LET s == Append(SubSeq(applied, 1, refused[1].after), refused[1].event)
       IN  ~InOrder(s) \/ Unencodable(s)

EncInv ==
  /\ TypeOK /\ Consistent(enc)
  /\ Faultless => Follow(applied, enc)
  /\ Reasoned

LEMMA InitEncInv == Init => EncInv
<1> SUFFICES ASSUME Init
             PROVE  EncInv
  OBVIOUS
<1>1. NewEncoder \in Encoders
  <2>1. PICK none : none = <<>>  OBVIOUS
  <2>2. /\ none \in Text /\ none \in Seq(Text) /\ none \in Seq(WireEvents)
        /\ none \in Seq(LossKinds \X Int)
    <3>1. PICK S : S = LossKinds \X Int  OBVIOUS
    <3>. QED BY <2>1, <3>1 DEF Text
  <2>3. NewEncoder =
          [started |-> FALSE, next_index |-> 0, next_wire_index |-> 0, open_index |-> 0,
           open_ir_index |-> 0, open |-> "none", custom_seen |-> FALSE, tool_seen |-> FALSE,
           thinking_input |-> none, thinking_signature |-> none, thinking_parts |-> none,
           signature_seen |-> FALSE, tool_input |-> none, tool_parts |-> none,
           citation_loss_seen |-> FALSE, delta_seen |-> FALSE, done |-> FALSE,
           wire |-> none, losses |-> none]
    BY <2>1 DEF NewEncoder
  <2>. QED BY <2>2, <2>3 DEF Encoders, OpenKinds
<1>2. TypeOK
  <2>1. PICK none : none = <<>>  OBVIOUS
  <2>2. enc \in Encoders  BY <1>1, Zenon DEF Init
  <2>3. none \in Seq(Events)  BY <2>1
  <2>4. applied = none /\ refused \in Option(Refusals)
    BY <2>1, NoneType DEF Init
  <2>. QED BY <2>2, <2>3, <2>4, Zenon DEF TypeOK
<1>3. /\ enc.open = "none" /\ enc.next_index = 0 /\ ~enc.started /\ ~enc.done /\ ~enc.delta_seen
      /\ ~enc.signature_seen
  BY DEF Init, NewEncoder
<1>4. Consistent(enc)  BY <1>3 DEF Consistent
<1>5. applied = <<>> /\ Faultless  BY DEF Init, Faultless
<1>6. InOrder(<<>>)  BY DEF InOrder
<1>7. View(enc).place = "fresh" /\ View(enc).next = 0  BY <1>3 DEF View
<1>8. Tracks(<<>>, View(enc))  BY <1>7, TrackedInit
<1>9. NewIndexes(applied, enc.next_index) /\ HeldOpen(applied, enc)
  BY <1>3, <1>5 DEF NewIndexes, HeldOpen
<1>10. Follow(applied, enc)  BY <1>5, <1>6, <1>8, <1>9 DEF Follow
<1>. QED BY <1>2, <1>4, <1>5, <1>10 DEF EncInv, Reasoned

(* A stray event stays one when the stream goes on. *)
LEMMA WanderingStays ==
  ASSUME NEW S, NEW s \in Seq(S), NEW e \in S, NEW n \in 1..Len(s), Wandering(s, n)
  PROVE  Wandering(Append(s, e), n)
<1>1. PICK t : t = Append(s, e)  OBVIOUS
<1>2. \A j \in 1..n : t[j] = s[j]  BY <1>1, AppendFacts
<1>3. n \in 1..n /\ \A j \in 1..(n - 1) : j \in 1..n  OBVIOUS
<1>. QED BY <1>1, <1>2, <1>3 DEF Wandering

(* Each accepted event has a new index if it starts a block, ... *)
LEMMA IndexesStayNew ==
  ASSUME NEW S, NEW s \in Seq(S), NEW event \in S, NEW next \in Nat, NEW after \in Nat,
         NewIndexes(s, next),
         IsStart(event) => event.index = next /\ after = next + 1,
         ~IsStart(event) => after = next,
         \A j \in 1..Len(s) : IsStart(s[j]) => s[j].index \in Nat
  PROVE  NewIndexes(Append(s, event), after)
<1>1. PICK t, l : t = Append(s, event) /\ l = Len(s)  OBVIOUS
<1>2. l \in Nat /\ Len(t) = l + 1 /\ t[l + 1] = event /\ \A j \in 1..l : t[j] = s[j]
  BY <1>1, AppendFacts
<1>3. \A j : j \in 1..Len(t) <=> j \in 1..l \/ j = l + 1  BY <1>2
<1>4. ASSUME NEW j \in 1..Len(t), IsStart(t[j])
      PROVE  t[j].index < after
  BY <1>1, <1>2, <1>3, <1>4 DEF NewIndexes
<1>5. ASSUME NEW j \in 1..Len(t), NEW k \in 1..Len(t), IsStart(t[j]), IsStart(t[k]),
             t[j].index = t[k].index
      PROVE  j = k
  BY <1>1, <1>2, <1>3, <1>5 DEF NewIndexes
<1>. QED BY <1>1, <1>4, <1>5 DEF NewIndexes

(* ... and leaves open the block the struct holds open. *)
LEMMA OpenBlockHeld ==
  ASSUME NEW s \in Seq(IrEvents), NEW event \in IrEvents, NEW e, Advances(event, e),
         HeldOpen(s, enc)
  PROVE  HeldOpen(Append(s, event), e)
<1>1. PICK t, l : t = Append(s, event) /\ l = Len(s)  OBVIOUS
<1>2. l \in Nat /\ Len(t) = l + 1 /\ t[l + 1] = event /\ \A j \in 1..l : t[j] = s[j]
  BY <1>1, AppendFacts
<1>3. CASE IsStart(event)
  <2>1. e.open = OpenAs(event.block.kind) /\ e.open_ir_index = event.index
    BY <1>3 DEF Advances
  <2>2. OpenFrom(t, l + 1) /\ l + 1 \in 1..Len(t)  BY <1>2, <1>3 DEF OpenFrom
  <2>. QED BY <1>1, <1>2, <2>1, <2>2 DEF HeldOpen
<1>4. CASE IsDelta(event)
  <2>1. /\ e.open = enc.open /\ e.open_ir_index = enc.open_ir_index
        /\ e.delta_seen = enc.delta_seen
    BY <1>4 DEF Advances
  <2>2. ASSUME NEW k \in 1..Len(s), OpenFrom(s, k)
        PROVE  k \in 1..Len(t) /\ t[k] = s[k] /\ OpenFrom(t, k)
    <3>1. k \in 1..l /\ k \in Nat  BY <1>1, <1>2
    <3>2. k \in 1..Len(t) /\ t[k] = s[k] /\ IsStart(t[k])
      BY <1>2, <2>2, <3>1 DEF OpenFrom
    <3>3. ASSUME NEW n \in (k + 1)..Len(t)
          PROVE  IsDelta(t[n])
      <4>1. (n \in 1..l /\ n \in (k + 1)..l) \/ n = l + 1  BY <1>2, <3>1
      <4>. QED BY <1>1, <1>2, <1>4, <2>2, <4>1 DEF OpenFrom
    <3>. QED BY <3>2, <3>3 DEF OpenFrom
  <2>. QED BY <1>1, <2>1, <2>2 DEF HeldOpen
<1>5. CASE ~IsStart(event) /\ ~IsDelta(event)  BY <1>5 DEF Advances, HeldOpen
<1>. QED BY <1>3, <1>4, <1>5

(* An accepted event that the grammar does not admit is stray. *)
LEMMA OthersWander ==
  ASSUME NEW s \in Seq(IrEvents), NEW event \in IrEvents, NEW e, Advances(event, e),
         HeldOpen(s, enc), Tracks(s, View(enc)), ~Allowed(View(enc), event)
  PROVE  Wandering(Append(s, event), Len(s) + 1)
<1>1. PICK t, l : t = Append(s, event) /\ l = Len(s)  OBVIOUS
<1>2. /\ l \in Nat /\ Len(t) = l + 1 /\ t[l + 1] = event /\ \A j \in 1..l : t[j] = s[j]
  BY <1>1, AppendFacts
<1>3. CASE enc.delta_seen
  <2>1. View(enc).place = "ended"  BY <1>3 DEF Advances, View
  <2>2. s # <<>> /\ Last(s).type = "message_delta"  BY <2>1 DEF Tracks
  <2>3. event.type # "message_done"  BY <2>1 DEF Allowed
  <2>4. l \in 1..((l + 1) - 1) /\ t[l].type = "message_delta"
    BY <1>1, <1>2, <2>2 DEF Last
  <2>. QED BY <1>1, <1>2, <2>3, <2>4 DEF Wandering
<1>4. CASE ~enc.delta_seen
  <2>1. Foreign(event)  BY <1>4 DEF Advances
  <2>2. PICK k \in 1..Len(s) : s[k].index = enc.open_ir_index /\ IsStart(s[k])
                               /\ OpenAs(s[k].block.kind) = enc.open
    BY <1>4, <2>1 DEF HeldOpen, OpenFrom, Foreign
  <2>3. s[k].block.kind \in {"text", "thinking", "tool_use"}
    BY <2>1, <2>2 DEF Foreign, OpenAs
  <2>4. k \in 1..(l + 1) /\ t[k] = s[k]  BY <1>1, <1>2
  <2>. QED BY <1>1, <1>2, <2>1, <2>2, <2>3, <2>4 DEF Wandering, Foreign
<1>. QED BY <1>3, <1>4

(* An accepted event keeps all of it. *)
LEMMA FollowAppend ==
  ASSUME TypeOK, NEW s \in Seq(IrEvents), NEW event \in IrEvents, NEW e \in Encoders,
         Follow(s, enc), Advances(event, e)
  PROVE  Follow(Append(s, event), e)
<1>1. /\ NewIndexes(s, enc.next_index) /\ HeldOpen(s, enc)
      /\ InOrder(s) => Tracks(s, View(enc))
      /\ (\A n \in 1..Len(s) : ~Wandering(s, n)) => InOrder(s)
  BY DEF Follow
<1>2. enc \in Encoders /\ View(enc) \in Views /\ View(e) \in Views
  BY ViewType DEF TypeOK
<1>3. PICK t : t = Append(s, event)  OBVIOUS
<1>4. NewIndexes(t, e.next_index)
  <2>1. enc.next_index \in Nat /\ e.next_index \in Nat  BY <1>2 DEF Encoders
  <2>2. /\ IsStart(event) => event.index = enc.next_index /\ e.next_index = enc.next_index + 1
        /\ ~IsStart(event) => e.next_index = enc.next_index
    BY DEF Advances
  <2>3. \A j \in 1..Len(s) : IsStart(s[j]) => s[j].index \in Nat
    <3>1. \A j \in 1..Len(s) : s[j] \in IrEvents  OBVIOUS
    <3>. QED BY <3>1, EventForms
  <2>. QED BY <1>1, <1>3, <2>1, <2>2, <2>3, IndexesStayNew
<1>5. HeldOpen(t, e)  BY <1>1, <1>3, OpenBlockHeld
<1>6. ASSUME InOrder(t)
      PROVE  Tracks(t, View(e))
  <2>1. InOrder(s) /\ Admits(s, event)  BY <1>3, <1>6, InOrderAppend
  <2>2. Tracks(s, View(enc))  BY <1>1, <2>1
  <2>3. Allowed(View(enc), event)  BY <1>2, <2>1, <2>2, TrackedAdmits
  <2>4. Moves(View(enc), event, View(e))  BY <2>3 DEF Advances
  <2>. QED BY <1>2, <1>3, <2>2, <2>3, <2>4, TrackedMoves
<1>7. ASSUME \A n \in 1..Len(t) : ~Wandering(t, n)
      PROVE  InOrder(t)
  <2>1. Len(s) \in Nat /\ Len(t) = Len(s) + 1  BY <1>3
  <2>2. \A n \in 1..Len(s) : n \in 1..Len(t)  BY <2>1
  <2>3. \A n \in 1..Len(s) : ~Wandering(s, n)
    BY <1>3, <1>7, <2>2, WanderingStays
  <2>4. InOrder(s) /\ Tracks(s, View(enc))  BY <1>1, <2>3
  <2>5. ~Wandering(t, Len(s) + 1)  BY <1>7, <2>1
  <2>6. Allowed(View(enc), event)  BY <1>1, <1>3, <2>4, <2>5, OthersWander
  <2>7. Admits(s, event)  BY <1>2, <2>4, <2>6, TrackedAdmits
  <2>. QED BY <1>3, <2>4, <2>7, InOrderAppend
<1>. QED BY <1>3, <1>4, <1>5, <1>6, <1>7 DEF Follow

(* The reason of a refusal, said of the events applied. *)
LEMMA UnfitReason ==
  ASSUME NEW s \in Seq(IrEvents), NEW e \in IrEvents, NEW v \in Views,
         Tracks(s, v), Allowed(v, e), Unfit(v, e)
  PROVE  Unencodable(Append(s, e))
<1>1. PICK t : t = Append(s, e)  OBVIOUS
<1>2. t[Len(t)] = e  BY <1>1, AppendFacts
<1>3. CASE IsStart(e) /\ e.block.kind \notin EncodableKinds
  BY <1>1, <1>2, <1>3, Zenon DEF Unencodable
<1>4. CASE IsStart(e) /\ e.block.kind \in ToolKinds /\ ~Identified(e.block.id, e.block.name)
  BY <1>1, <1>2, <1>4, Zenon DEF Unencodable, Identified, HasId
<1>5. CASE IsStart(e) /\ ~(Sources(e.block) \subseteq {"anthropic", "openai"})
  BY <1>1, <1>2, <1>5, Zenon DEF Unencodable
<1>6. CASE /\ IsDelta(e) /\ e.delta.type = "citation_delta"
           /\ e.delta.text[1] \notin {"anthropic", "openai"}
  BY <1>1, <1>2, <1>6, Zenon DEF Unencodable
<1>7. CASE IsStop(e) /\ v.tool /\ ~InputExact(v.input, v.fragments, TRUE)
  <2>1. v.place = "within"  BY <1>7 DEF Allowed, OpensAt, IsStart, IsStop
  <2>2. ToolOpen(s, v.input, v.fragments) /\ ToolInputsExact(s, TRUE)
    BY <1>7, <2>1 DEF Tracks
  <2>3. ~ToolInputsExact(t, TRUE)  BY <1>1, <1>7, <2>2, ToolStops
  <2>. QED BY <1>1, <1>2, <1>7, <2>3, Zenon DEF Unencodable
<1>8. CASE e.type = "message_delta" /\ e.stop_reason = "other"
  BY <1>1, <1>2, <1>8, Zenon DEF Unencodable
<1>. QED BY <1>3, <1>4, <1>5, <1>6, <1>7, <1>8 DEF Unfit

(* Accepted events do not change the events before the first refusal. *)
LEMMA ReasonKept ==
  ASSUME NEW S, NEW s \in Seq(S), NEW e \in S, NEW n \in 0..Len(s)
  PROVE  n \in 0..Len(Append(s, e)) /\ SubSeq(Append(s, e), 1, n) = SubSeq(s, 1, n)
<1>1. PICK t, l : t = Append(s, e) /\ l = Len(s)  OBVIOUS
<1>2. t \in Seq(S) /\ l \in Nat /\ Len(t) = l + 1 /\ \A j \in 1..l : t[j] = s[j]
  BY <1>1, AppendFacts
<1>3. n \in 0..Len(t) /\ \A j \in 1..n : t[j] = s[j]  BY <1>1, <1>2
<1>4. SubSeq(t, 1, n) = SubSeq(s, 1, n)  BY <1>1, <1>2, <1>3
<1>. QED BY <1>1, <1>3, <1>4

(* Each call keeps the invariant. *)
LEMMA StepEncInv == EncInv /\ [Next]_vars => EncInv'
<1> SUFFICES ASSUME EncInv, [Next]_vars
             PROVE  EncInv'
  OBVIOUS
<1>1. ASSUME NEW event \in Events, Apply(event)
      PROVE  EncInv'
  <2>1. /\ TypeOK /\ Consistent(enc) /\ applied \in Seq(Events) /\ refused \in Option(Refusals)
        /\ enc \in Encoders /\ View(enc) \in Views
    BY ViewType DEF EncInv, TypeOK
  <2>2. PICK e \in Encoders :
          /\ Consistent(e)
          /\ \/ /\ \E wire \in Seq(WireEvents) : Accepted(event, e, wire)
                /\ Advances(event, e)
             \/ /\ Refused(event, e)
                /\ ~Allowed(View(enc), event) \/ Unfit(View(enc), event)
    BY <1>1, <2>1, EveryOutcome DEF Outcome
  <2>3. event \in IrEvents /\ applied \in Seq(IrEvents)
    BY <2>1, EncoderAssumption
  <2>4. CASE (\E wire \in Seq(WireEvents) : Accepted(event, e, wire)) /\ Advances(event, e)
    <3>1. PICK wire \in Seq(WireEvents) : Accepted(event, e, wire)  BY <2>4
    <3>2. PICK d : d = [e EXCEPT !.wire = @ \o wire]  OBVIOUS
    <3>3. /\ d \in Encoders /\ View(d) = View(e) /\ Consistent(d) /\ d.open = e.open
          /\ d.open_ir_index = e.open_ir_index /\ d.next_index = e.next_index
          /\ d.delta_seen = e.delta_seen
      BY <2>2, <3>2, WiredFacts
    <3>4. enc' = d /\ applied' = Append(applied, event) /\ refused' = refused
      BY <3>1, <3>2 DEF Accepted
    <3>5. applied' \in Seq(Events)  BY <2>1, <3>4
    <3>6. ASSUME Faultless'
          PROVE  Follow(applied', enc')
      <4>1. Follow(applied, enc)  BY <3>4, <3>6 DEF EncInv, Faultless
      <4>2. Follow(Append(applied, event), e)
        BY <2>1, <2>2, <2>3, <2>4, <4>1, FollowAppend
      <4>. QED BY <3>3, <3>4, <4>2 DEF Follow, HeldOpen
    <3>7. Reasoned'
      <4>1. CASE Faultless  BY <3>4, <4>1 DEF Reasoned, Faultless
      <4>2. CASE ~Faultless
        <5>1. PICK n, last : n = refused[1].after /\ last = refused[1].event
          OBVIOUS
        <5>2. /\ n \in 0..Len(applied)
              /\ \/ ~InOrder(Append(SubSeq(applied, 1, n), last))
                 \/ Unencodable(Append(SubSeq(applied, 1, n), last))
          BY <4>2, <5>1 DEF EncInv, Reasoned
        <5>3. n \in 0..Len(applied') /\ SubSeq(applied', 1, n) = SubSeq(applied, 1, n)
          BY <2>1, <3>4, <5>2, ReasonKept
        <5>. QED BY <3>4, <5>1, <5>2, <5>3 DEF Reasoned, Faultless
      <4>. QED BY <4>1, <4>2
    <3>. QED BY <2>1, <3>3, <3>4, <3>5, <3>6, <3>7 DEF EncInv, TypeOK
  <2>5. CASE /\ Refused(event, e)
             /\ ~Allowed(View(enc), event) \/ Unfit(View(enc), event)
    <3>1. PICK r : r = [after |-> Len(applied), event |-> event]  OBVIOUS
    <3>2. r \in Refusals /\ r.after = Len(applied) /\ r.event = event
      BY <2>1, <3>1 DEF Refusals
    <3>3. enc' = e /\ applied' = applied /\ refused' = IF Faultless THEN Some(r) ELSE refused
      BY <2>5, <3>1 DEF Refused, Faultless
    <3>4. Some(r) \in Option(Refusals) /\ Some(r) # None /\ Some(r)[1] = r
      BY <3>2, SomeType
    <3>5. refused' \in Option(Refusals) /\ ~Faultless'
      BY <2>1, <3>3, <3>4 DEF Faultless
    <3>6. Reasoned'
      <4>1. CASE Faultless
        <5>1. refused'[1].after = Len(applied) /\ refused'[1].event = event
          BY <3>2, <3>3, <3>4, <4>1
        <5>2. SubSeq(applied, 1, Len(applied)) = applied /\ Len(applied) \in 0..Len(applied)
          BY <2>1
        <5>3. ASSUME InOrder(Append(applied, event))
              PROVE  Unencodable(Append(applied, event))
          <6>1. InOrder(applied) /\ Admits(applied, event)
            BY <2>3, <5>3, InOrderAppend
          <6>2. Tracks(applied, View(enc))  BY <4>1, <6>1 DEF EncInv, Follow
          <6>3. Allowed(View(enc), event)  BY <2>1, <6>1, <6>2, TrackedAdmits
          <6>. QED BY <2>1, <2>3, <2>5, <6>2, <6>3, UnfitReason
        <5>. QED BY <3>3, <5>1, <5>2, <5>3 DEF Reasoned
      <4>2. CASE ~Faultless  BY <3>3, <4>2 DEF EncInv, Reasoned, Faultless
      <4>. QED BY <4>1, <4>2
    <3>. QED BY <2>1, <2>2, <3>3, <3>5, <3>6 DEF EncInv, TypeOK
  <2>. QED BY <2>2, <2>4, <2>5
<1>2. CASE UNCHANGED vars
  <2>1. enc' = enc /\ applied' = applied /\ refused' = refused  BY <1>2 DEF vars
  <2>. QED BY <2>1 DEF EncInv, TypeOK, Reasoned, Faultless
<1>. QED BY <1>1, <1>2 DEF Next

LEMMA SpecEncInv == Spec => []EncInv
BY InitEncInv, StepEncInv, PTL DEF Spec

-----------------------------------------------------------------------------
(* The theorems *)

(* The struct keeps its types, and so does every native event and loss it
   has handed over, also after errors. *)
THEOREM EncoderTypeCorrect == Spec => []TypeOK
<1>1. EncInv => TypeOK  BY DEF EncInv
<1>. QED BY <1>1, SpecEncInv, PTL

(* Whatever is applied and in whatever order: the encoder accepts a stream
   in grammar order with exact tool inputs, or it has let through a custom
   fragment in a block of another kind or an event that separates the
   terminal pair. *)
THEOREM EncoderAcceptsLittleElse == Spec => []AcceptsLittleElse
<1>1. EncInv => AcceptsLittleElse
  <2> SUFFICES ASSUME EncInv, Faultless, \A k \in 1..Len(applied) : ~Stray(k)
               PROVE  InOrder(applied) /\ ToolInputsExact(applied, TRUE)
    BY DEF AcceptsLittleElse
  <2>1. Follow(applied, enc)  BY DEF EncInv
  <2>2. ASSUME NEW n \in 1..Len(applied), Wandering(applied, n)
        PROVE  FALSE
    <3>1. ~Stray(n)  OBVIOUS
    <3>2. ~\E j \in 1..(n - 1) :
             applied[j].type = "message_delta" /\ ~(j = n - 1 /\ applied[n].type = "message_done")
      BY <3>1 DEF Stray
    <3>3. /\ IsDelta(applied[n]) /\ applied[n].delta.type = "custom_tool_input_delta"
          /\ \E j \in 1..n : /\ IsStart(applied[j]) /\ applied[j].index = applied[n].index
                             /\ applied[j].block.kind \in {"text", "thinking", "tool_use"}
      BY <2>2, <3>2 DEF Wandering
    <3>4. PICK j \in 1..n : /\ IsStart(applied[j]) /\ applied[j].index = applied[n].index
                            /\ applied[j].block.kind \in {"text", "thinking", "tool_use"}
      BY <3>3
    <3>5. PICK b : b = BlockOf(n)  OBVIOUS
    <3>6. b \in 1..n /\ IsStart(applied[b]) /\ applied[b].index = applied[n].index
      BY <3>4, <3>5, Zenon DEF BlockOf, BlockAt
    <3>7. b \in 1..Len(applied) /\ j \in 1..Len(applied)
      BY <3>4, <3>6 DEF EncInv, TypeOK
    <3>8. b = j  BY <2>1, <3>4, <3>6, <3>7 DEF Follow, NewIndexes
    <3>. QED BY <3>1, <3>3, <3>4, <3>5, <3>8 DEF Stray
  <2>3. InOrder(applied) /\ Tracks(applied, View(enc))  BY <2>1, <2>2 DEF Follow
  <2>. QED BY <2>3 DEF Tracks
<1>. QED BY <1>1, SpecEncInv, PTL

(* The first call that is refused breaks the grammar, or it is one of the
   few things that Anthropic cannot say. *)
THEOREM EncoderRefusesForCause == Spec => []RefusesOnlyForCause
<1>1. EncInv => RefusesOnlyForCause
  BY DEF EncInv, Reasoned, RefusesOnlyForCause
<1>. QED BY <1>1, SpecEncInv, PTL

-----------------------------------------------------------------------------
(* The losses *)

(* What is lost of an event, from what the struct or the stream tells
   about it: that it brings the first citation of OpenAI of its block,
   which has the native index i, and that no tool stays but patches. *)
GapOf(event, first, i, patched) ==
  CASE IsStart(event) /\ event.block.kind \in OmittedKinds -> <<<<"block", event.index>>>>
    [] (IsStart(event) \/ IsDelta(event)) /\ first -> <<<<"citations", i>>>>
    [] event.type = "message_delta" /\ event.stop_reason = "tool_use" /\ patched ->
         <<<<"stop_reason", -1>>>>
    [] OTHER -> <<>>

Cites(event) ==
  \/ IsStart(event) /\ "openai" \in Sources(event.block)
  \/ IsDelta(event) /\ event.delta.type = "citation_delta" /\ event.delta.text[1] = "openai"

(* The loss of an event as the struct reports it, ... *)
Lost(event) ==
  GapOf(event, Cites(event) /\ (IsDelta(event) => ~enc.citation_loss_seen),
        IF IsStart(event) THEN enc.next_wire_index ELSE enc.open_index,
        ~enc.tool_seen /\ enc.custom_seen)

(* ... and what the struct d that it leaves remembers for the next ones. *)
Tells(event, d) ==
  /\ d.losses = enc.losses \o Lost(event)
  /\ d.next_wire_index = IF IsStart(event) /\ event.block.kind \notin OmittedKinds
                         THEN enc.next_wire_index + 1 ELSE enc.next_wire_index
  /\ d.tool_seen <=> enc.tool_seen \/ (IsStart(event) /\ event.block.kind \in ToolKinds)
  /\ d.custom_seen <=>
       enc.custom_seen \/ (IsStart(event) /\ event.block.kind \in ApplyPatchKinds)
  /\ IsStart(event) /\ event.block.kind = "text" =>
       d.open_index = enc.next_wire_index /\ (d.citation_loss_seen <=> Cites(event))
  /\ IsDelta(event) =>
       /\ d.open_index = enc.open_index
       /\ d.citation_loss_seen <=> enc.citation_loss_seen \/ Cites(event)

(* A sequence with one more element. *)
LEMMA OneMore ==
  ASSUME NEW S, NEW s \in Seq(S), NEW x \in S
  PROVE  Append(s, x) \in Seq(S) /\ Append(s, x) = s \o <<x>>
OBVIOUS

LEMMA GapForms ==
  ASSUME NEW event, NEW first \in BOOLEAN, NEW i, NEW patched \in BOOLEAN,
         IsStart(event) /\ first => event.block.kind \notin OmittedKinds
  PROVE  /\ IsStart(event) /\ event.block.kind \in OmittedKinds =>
              GapOf(event, first, i, patched) = <<<<"block", event.index>>>>
         /\ IsStart(event) /\ event.block.kind \notin OmittedKinds /\ first =>
              GapOf(event, first, i, patched) = <<<<"citations", i>>>>
         /\ IsStart(event) /\ event.block.kind \notin OmittedKinds /\ ~first =>
              GapOf(event, first, i, patched) = <<>>
         /\ IsDelta(event) /\ first => GapOf(event, first, i, patched) = <<<<"citations", i>>>>
         /\ IsDelta(event) /\ ~first => GapOf(event, first, i, patched) = <<>>
         /\ event.type = "message_delta" /\ event.stop_reason = "tool_use" /\ patched =>
              GapOf(event, first, i, patched) = <<<<"stop_reason", -1>>>>
         /\ event.type = "message_delta" /\ ~(event.stop_reason = "tool_use" /\ patched) =>
              GapOf(event, first, i, patched) = <<>>
         /\ IsStop(event) \/ event.type \in {"message_start", "message_done"} =>
              GapOf(event, first, i, patched) = <<>>
<1>1. PICK a, b, c, none, omitted :
        /\ a = <<<<"block", event.index>>>> /\ b = <<<<"citations", i>>>>
        /\ c = <<<<"stop_reason", -1>>>> /\ none = <<>>
        /\ omitted = (event.block.kind \in OmittedKinds)
  OBVIOUS
<1>2. GapOf(event, first, i, patched) =
        CASE IsStart(event) /\ omitted -> a
          [] (IsStart(event) \/ IsDelta(event)) /\ first -> b
          [] event.type = "message_delta" /\ event.stop_reason = "tool_use" /\ patched -> c
          [] OTHER -> none
  BY <1>1, Zenon DEF GapOf
<1>3. omitted \in BOOLEAN  BY <1>1
<1>4. PICK g : g = GapOf(event, first, i, patched)  OBVIOUS
<1>5. /\ IsStart(event) /\ omitted => g = a
      /\ IsStart(event) /\ ~omitted /\ first => g = b
      /\ IsStart(event) /\ ~omitted /\ ~first => g = none
      /\ IsDelta(event) /\ first => g = b
      /\ IsDelta(event) /\ ~first => g = none
      /\ event.type = "message_delta" /\ event.stop_reason = "tool_use" /\ patched => g = c
      /\ event.type = "message_delta" /\ ~(event.stop_reason = "tool_use" /\ patched) => g = none
      /\ IsStop(event) \/ event.type \in {"message_start", "message_done"} => g = none
  <2>1. ~(IsStart(event) /\ omitted /\ first)  BY <1>1
  <2>. QED BY <1>2, <1>3, <1>4, <2>1 DEF IsStart, IsDelta, IsStop
<1>. QED BY <1>1, <1>4, <1>5

(* A refusal is not forgotten. *)
LEMMA RefusedFault ==
  ASSUME NEW event, NEW e, Refused(event, e)
  PROVE  ~Faultless'
BY SomeType DEF Refused, Faultless, Some, None

(* Only a text block starts with citations. *)
LEMMA OthersCiteNothing ==
  ASSUME NEW event \in Events, IsStart(event), event.block.kind # "text"
  PROVE  ~Cites(event)
<1>1. event.block.citations = <<>>  BY EncoderAssumption
<1>2. Sources(event.block) = {}  BY <1>1 DEF Sources
<1>. QED BY <1>2 DEF Cites, IsStart, IsDelta

(* A call that loses nothing and starts nothing. *)
LEMMA QuietTells ==
  ASSUME enc \in Encoders, NEW event, NEW d, ~IsStart(event), ~Cites(event),
         IsDelta(event) \/ IsStop(event) \/ event.type \in {"message_start", "message_done"},
         d.losses = enc.losses, d.next_wire_index = enc.next_wire_index,
         d.tool_seen = enc.tool_seen, d.custom_seen = enc.custom_seen,
         d.open_index = enc.open_index, d.citation_loss_seen = enc.citation_loss_seen
  PROVE  Tells(event, d)
<1>1. Lost(event) = <<>>  BY GapForms DEF Lost
<1>2. enc.losses \o Lost(event) = enc.losses  BY <1>1 DEF Encoders
<1>. QED BY <1>2 DEF Tells

(* What is handed over is not part of it. *)
LEMMA WiredTells ==
  ASSUME NEW event, NEW e \in Encoders, NEW wire, Accepted(event, e, wire), Tells(event, e)
  PROVE  Tells(event, enc')
<1>1. PICK sent : sent = e.wire \o wire  OBVIOUS
<1>2. enc' = [e EXCEPT !.wire = sent]  BY <1>1 DEF Accepted, Encoders
<1>3. /\ enc'.losses = e.losses /\ enc'.next_wire_index = e.next_wire_index
      /\ enc'.tool_seen = e.tool_seen /\ enc'.custom_seen = e.custom_seen
      /\ enc'.open_index = e.open_index /\ enc'.citation_loss_seen = e.citation_loss_seen
  BY <1>2 DEF Encoders
<1>. QED BY <1>3 DEF Tells

LEMMA MessageStartTells ==
  ASSUME TypeOK, NEW event \in Events, ApplyMessageStart(event), Faultless'
  PROVE  Tells(event, enc')
<1>1. enc \in Encoders /\ event.type = "message_start" /\ ~Refused(event, enc)
  BY RefusedFault DEF TypeOK, ApplyMessageStart, Receives
<1>2. PICK e : e = [enc EXCEPT !.started = TRUE]  OBVIOUS
<1>3. Accepted(event, e, <<WireMessageStart(TRUE)>>)
  BY <1>1, <1>2 DEF ApplyMessageStart
<1>4. /\ e \in Encoders /\ e.losses = enc.losses /\ e.next_wire_index = enc.next_wire_index
      /\ e.tool_seen = enc.tool_seen /\ e.custom_seen = enc.custom_seen
      /\ e.open_index = enc.open_index /\ e.citation_loss_seen = enc.citation_loss_seen
  BY <1>1, <1>2 DEF Encoders
<1>5. ~IsStart(event) /\ ~Cites(event)  BY <1>1 DEF Cites, IsStart, IsDelta
<1>6. Tells(event, e)  BY <1>1, <1>4, <1>5, QuietTells
<1>. QED BY <1>3, <1>4, <1>6, WiredTells

(* What opening a block with a native form leaves alone. *)
LEMMA OpenTells ==
  ASSUME enc \in Encoders, NEW kind
  PROVE  /\ Open(enc, kind).losses = enc.losses
         /\ Open(enc, kind).next_wire_index = enc.next_wire_index + 1
         /\ Open(enc, kind).tool_seen = enc.tool_seen
         /\ Open(enc, kind).custom_seen = enc.custom_seen
         /\ Open(enc, kind).open_index = enc.next_wire_index
BY DEF Open, Encoders

(* The start of a block with a native form and without citations. *)
LEMMA PlainStartTells ==
  ASSUME enc \in Encoders, NEW event \in Events, IsStart(event),
         event.block.kind \notin OmittedKinds, event.block.kind # "text",
         NEW d, d.losses = enc.losses, d.next_wire_index = enc.next_wire_index + 1,
         d.tool_seen <=> enc.tool_seen \/ event.block.kind \in ToolKinds,
         d.custom_seen = enc.custom_seen
  PROVE  Tells(event, d)
<1>1. ~Cites(event)  BY OthersCiteNothing
<1>2. Lost(event) = <<>>  BY <1>1, GapForms DEF Lost
<1>3. enc.losses \o Lost(event) = enc.losses  BY <1>2 DEF Encoders
<1>4. event.block.kind \notin ApplyPatchKinds /\ ~IsDelta(event)
  BY DEF TypeOK, OmittedKinds, IsStart, IsDelta
<1>. QED BY <1>3, <1>4 DEF Tells

LEMMA TextStartTells ==
  ASSUME TypeOK, NEW event \in Events, ApplyTextStart(event)
  PROVE  Tells(event, enc')
<1>1. enc \in Encoders /\ IsStart(event) /\ event.block.kind = "text"
  BY DEF TypeOK, ApplyTextStart, Starting, Receives, IsStart
<1>2. PICK d, lost, i : /\ d = Open(enc, "text") /\ lost = ("openai" \in Sources(event.block))
                        /\ i = enc.next_wire_index
  OBVIOUS
<1>3. PICK opened : opened = [d EXCEPT !.citation_loss_seen = lost]  OBVIOUS
<1>4. /\ d \in Encoders /\ d.losses = enc.losses /\ d.next_wire_index = i + 1 /\ i \in Int
      /\ d.tool_seen = enc.tool_seen /\ d.custom_seen = enc.custom_seen /\ d.open_index = i
      /\ lost \in BOOLEAN
  BY <1>1, <1>2, OpenFacts, OpenTells DEF OpenKinds
<1>5. /\ opened \in Encoders /\ opened.losses = enc.losses /\ opened.next_wire_index = i + 1
      /\ opened.tool_seen = enc.tool_seen /\ opened.custom_seen = enc.custom_seen
      /\ opened.open_index = i /\ opened.citation_loss_seen = lost
  BY <1>2, <1>3, <1>4, ZenonT(60) DEF Encoders
<1>6. PICK e : e = IF lost THEN Lose(opened, <<"citations", opened.open_index>>) ELSE opened
  OBVIOUS
<1>12. PICK block : block = [NativeBlock("text", "", <<>>, event.block.text) EXCEPT
                               !.citations = IF "anthropic" \in Sources(event.block)
                                             THEN "valid" ELSE "none"]
  OBVIOUS
<1>13. PICK wire : wire = <<WireBlockStart(opened.open_index, Some(block))>>
  OBVIOUS
<1>14. Accepted(event, e, wire)
  BY <1>2, <1>3, <1>6, <1>12, <1>13, Zenon DEF ApplyTextStart
<1>7. lost <=> Cites(event)  BY <1>1, <1>2 DEF Cites, IsStart, IsDelta
<1>8. /\ ~IsDelta(event) /\ event.block.kind \notin OmittedKinds
      /\ event.block.kind \notin ToolKinds /\ event.block.kind \notin ApplyPatchKinds
  BY <1>1 DEF OmittedKinds, ToolKinds, ApplyPatchKinds, IsStart, IsDelta
<1>9. Lost(event) = IF lost THEN <<<<"citations", i>>>> ELSE <<>>
  BY <1>1, <1>2, <1>7, <1>8, GapForms DEF Lost
<1>10. /\ e \in Encoders /\ e.losses = enc.losses \o Lost(event)
       /\ e.next_wire_index = i + 1 /\ e.open_index = i
       /\ e.tool_seen = enc.tool_seen /\ e.custom_seen = enc.custom_seen
       /\ e.citation_loss_seen = lost
  <2>1. PICK loss : loss = <<"citations", i>>  OBVIOUS
  <2>2. loss \in LossKinds \X Int  BY <1>4, <2>1 DEF LossKinds
  <2>3. PICK losses : losses = Append(enc.losses, loss)  OBVIOUS
  <2>4. losses \in Seq(LossKinds \X Int) /\ losses = enc.losses \o <<loss>>
    <3>1. enc.losses \in Seq(LossKinds \X Int)  BY <1>1 DEF Encoders
    <3>. QED BY <2>2, <2>3, <3>1, OneMore
  <2>5. CASE lost
    <3>1. e = [opened EXCEPT !.losses = losses]
      BY <1>5, <1>6, <2>1, <2>3, <2>5 DEF Lose
    <3>. QED BY <1>5, <1>9, <2>1, <2>4, <2>5, <3>1 DEF Encoders
  <2>6. CASE ~lost
    <3>1. Lost(event) = <<>> /\ e = opened  BY <1>6, <1>9, <2>6
    <3>. QED BY <1>5, <3>1 DEF Encoders
  <2>. QED BY <2>5, <2>6
<1>11. Tells(event, e)  BY <1>1, <1>2, <1>7, <1>8, <1>10 DEF Tells
<1>. QED BY <1>10, <1>11, <1>14, WiredTells

LEMMA ThinkingStartTells ==
  ASSUME TypeOK, NEW event \in Events, ApplyThinkingStart(event)
  PROVE  Tells(event, enc')
<1>1. enc \in Encoders /\ IsStart(event) /\ event.block.kind = "thinking"
  BY DEF TypeOK, ApplyThinkingStart, Starting, Receives, IsStart
<1>2. event.block \in Blocks  BY <1>1, EncoderAssumption, EventForms
<1>3. PICK d : d = Open(enc, "thinking")  OBVIOUS
<1>4. /\ d \in Encoders /\ d.losses = enc.losses /\ d.next_wire_index = enc.next_wire_index + 1
      /\ d.tool_seen = enc.tool_seen /\ d.custom_seen = enc.custom_seen
  BY <1>1, <1>3, OpenFacts, OpenTells DEF OpenKinds
<1>5. PICK none : none = <<>>  OBVIOUS
<1>6. PICK e, wire :
        /\ e = [d EXCEPT !.thinking_input = event.block.text,
                         !.thinking_signature = event.block.signature,
                         !.thinking_parts = none, !.signature_seen = FALSE]
        /\ Accepted(event, e, wire)
  BY <1>3, <1>5, Zenon DEF ApplyThinkingStart
<1>7. /\ e \in Encoders /\ e.losses = d.losses /\ e.next_wire_index = d.next_wire_index
      /\ e.tool_seen = d.tool_seen /\ e.custom_seen = d.custom_seen
  <2>1. none \in Seq(Text)  BY <1>5
  <2>. QED BY <1>2, <1>4, <1>6, <2>1 DEF Encoders, Blocks
<1>8. /\ event.block.kind \notin OmittedKinds /\ event.block.kind \notin ToolKinds
      /\ event.block.kind # "text"
  BY <1>1 DEF OmittedKinds, ToolKinds, ApplyPatchKinds
<1>9. Tells(event, e)  BY <1>1, <1>4, <1>7, <1>8, PlainStartTells
<1>. QED BY <1>6, <1>7, <1>9, WiredTells

LEMMA RedactedStartTells ==
  ASSUME TypeOK, NEW event \in Events, ApplyRedactedStart(event)
  PROVE  Tells(event, enc')
<1>1. enc \in Encoders /\ IsStart(event) /\ event.block.kind = "redacted_thinking"
  BY DEF TypeOK, ApplyRedactedStart, Starting, Receives, IsStart
<1>2. PICK e, wire : e = Open(enc, "redacted") /\ Accepted(event, e, wire)
  BY DEF ApplyRedactedStart
<1>3. /\ e \in Encoders /\ e.losses = enc.losses /\ e.next_wire_index = enc.next_wire_index + 1
      /\ e.tool_seen = enc.tool_seen /\ e.custom_seen = enc.custom_seen
  BY <1>1, <1>2, OpenFacts, OpenTells DEF OpenKinds
<1>4. /\ event.block.kind \notin OmittedKinds /\ event.block.kind \notin ToolKinds
      /\ event.block.kind # "text"
  BY <1>1 DEF OmittedKinds, ToolKinds, ApplyPatchKinds
<1>5. Tells(event, e)  BY <1>1, <1>3, <1>4, PlainStartTells
<1>. QED BY <1>2, <1>3, <1>5, WiredTells

LEMMA ToolStartTells ==
  ASSUME TypeOK, NEW event \in Events, ApplyToolStart(event)
  PROVE  Tells(event, enc')
<1>1. enc \in Encoders /\ IsStart(event) /\ event.block.kind \in ToolKinds
  BY DEF TypeOK, ApplyToolStart, Starting, Receives, IsStart
<1>2. event.block \in Blocks  BY <1>1, EncoderAssumption, EventForms
<1>3. PICK kind, none : /\ kind = (IF event.block.kind = "tool_use" THEN "tool" ELSE "custom")
                        /\ none = <<>>
  OBVIOUS
<1>4. PICK d : d = Open(enc, kind)  OBVIOUS
<1>5. /\ d \in Encoders /\ d.losses = enc.losses /\ d.next_wire_index = enc.next_wire_index + 1
      /\ d.custom_seen = enc.custom_seen
  BY <1>1, <1>3, <1>4, OpenFacts, OpenTells DEF OpenKinds
<1>6. PICK e, wire :
        /\ e = [d EXCEPT !.tool_seen = TRUE, !.tool_input = event.block.text,
                         !.tool_parts = none]
        /\ Accepted(event, e, wire)
  BY <1>3, <1>4, Zenon DEF ApplyToolStart
<1>7. /\ e \in Encoders /\ e.losses = d.losses /\ e.next_wire_index = d.next_wire_index
      /\ e.tool_seen = TRUE /\ e.custom_seen = d.custom_seen
  <2>1. none \in Seq(Text)  BY <1>3
  <2>. QED BY <1>2, <1>5, <1>6, <2>1 DEF Encoders, Blocks
<1>8. event.block.kind \notin OmittedKinds /\ event.block.kind # "text"
  BY <1>1 DEF OmittedKinds, ToolKinds, ApplyPatchKinds
<1>9. Tells(event, e)  BY <1>1, <1>5, <1>7, <1>8, PlainStartTells
<1>. QED BY <1>6, <1>7, <1>9, WiredTells

LEMMA OmittedStartTells ==
  ASSUME TypeOK, NEW event \in Events, ApplyOmittedStart(event)
  PROVE  Tells(event, enc')
<1>1. enc \in Encoders /\ IsStart(event) /\ event.block.kind \in OmittedKinds
  BY DEF TypeOK, ApplyOmittedStart, Starting, Receives, IsStart
<1>2. event.index \in Nat  BY <1>1, EncoderAssumption, EventForms
<1>3. PICK patch, loss : /\ patch = (event.block.kind \in ApplyPatchKinds)
                         /\ loss = <<"block", event.index>>
  OBVIOUS
<1>4. PICK next, custom, losses : /\ next = enc.next_index + 1
                                  /\ custom = (enc.custom_seen \/ patch)
                                  /\ losses = Append(enc.losses, loss)
  OBVIOUS
<1>5. loss \in LossKinds \X Int  BY <1>2, <1>3 DEF LossKinds
<1>6. /\ next \in Nat /\ custom \in BOOLEAN /\ losses \in Seq(LossKinds \X Int)
      /\ losses = enc.losses \o <<loss>>
  <2>1. enc.losses \in Seq(LossKinds \X Int)  BY <1>1 DEF Encoders
  <2>2. losses \in Seq(LossKinds \X Int) /\ losses = enc.losses \o <<loss>>
    BY <1>4, <1>5, <2>1, OneMore
  <2>3. next \in Nat /\ custom \in BOOLEAN  BY <1>1, <1>3, <1>4 DEF Encoders
  <2>. QED BY <1>3, <2>2, <2>3
<1>7. PICK d : d = [enc EXCEPT !.next_index = next, !.open = "atomic",
                               !.open_ir_index = event.index, !.custom_seen = custom]
  OBVIOUS
<1>8. d = [enc EXCEPT !.next_index = @ + 1, !.open = "atomic", !.open_ir_index = event.index,
                      !.custom_seen = @ \/ event.block.kind \in CustomKinds]
  BY <1>1, <1>3, <1>4, <1>7 DEF CustomKinds, Encoders
<1>9. PICK e, wire : e = Lose(d, loss) /\ Accepted(event, e, wire)
  BY <1>3, <1>8, Zenon DEF ApplyOmittedStart
<1>10. d \in Encoders /\ d.losses = enc.losses /\ d.custom_seen = custom
       /\ d.next_wire_index = enc.next_wire_index /\ d.tool_seen = enc.tool_seen
  BY <1>1, <1>2, <1>6, <1>7 DEF Encoders, OpenKinds
<1>11. e = [d EXCEPT !.losses = losses]  BY <1>4, <1>9, <1>10 DEF Lose
<1>12. e \in Encoders /\ e.losses = losses /\ e.custom_seen = custom
       /\ e.next_wire_index = enc.next_wire_index /\ e.tool_seen = enc.tool_seen
  BY <1>6, <1>10, <1>11 DEF Encoders
<1>13. ~IsDelta(event) /\ event.block.kind \notin ToolKinds /\ event.block.kind # "text"
  BY <1>1 DEF OmittedKinds, ToolKinds, ApplyPatchKinds, IsStart, IsDelta
<1>14. Lost(event) = <<loss>>
  BY <1>1, <1>3, <1>13, GapForms, OthersCiteNothing DEF Lost
<1>15. Tells(event, e)  BY <1>1, <1>3, <1>4, <1>6, <1>12, <1>13, <1>14 DEF Tells
<1>. QED BY <1>9, <1>12, <1>15, WiredTells

LEMMA BlockStartTells ==
  ASSUME TypeOK, NEW event \in Events, ApplyBlockStart(event), Faultless'
  PROVE  Tells(event, enc')
<1>1. ~ApplyBlockStartRefused(event)  BY RefusedFault DEF ApplyBlockStartRefused
<1>2. ~ApplyTextStartUnknownSource(event)
  BY RefusedFault DEF ApplyTextStartUnknownSource
<1>. QED
  BY <1>1, <1>2, TextStartTells, ThinkingStartTells, RedactedStartTells, ToolStartTells,
     OmittedStartTells DEF ApplyBlockStart

LEMMA CitationDeltaTells ==
  ASSUME TypeOK, NEW event, ApplyCitationDelta(event)
  PROVE  Tells(event, enc')
<1>1. enc \in Encoders /\ IsDelta(event) /\ ~IsStart(event) /\ event.delta.type = "citation_delta"
  BY DEF TypeOK, ApplyCitationDelta, Continuing, Receives, IsStart, IsDelta
<1>2. CASE event.delta.text[1] = "anthropic"
  <2>1. PICK wire : Accepted(event, enc, wire)  BY <1>2 DEF ApplyCitationDelta
  <2>2. ~Cites(event)  BY <1>1, <1>2 DEF Cites
  <2>3. Tells(event, enc)  BY <1>1, <2>2, QuietTells
  <2>. QED BY <1>1, <2>1, <2>3, WiredTells
<1>3. CASE event.delta.text[1] = "openai" /\ enc.citation_loss_seen
  <2>1. PICK wire : Accepted(event, enc, wire)  BY <1>3 DEF ApplyCitationDelta
  <2>2. Cites(event) /\ Lost(event) = <<>>
    BY <1>1, <1>3, GapForms DEF Cites, Lost
  <2>3. enc.losses \o Lost(event) = enc.losses  BY <1>1, <2>2 DEF Encoders
  <2>4. Tells(event, enc)  BY <1>1, <1>3, <2>2, <2>3 DEF Tells
  <2>. QED BY <1>1, <2>1, <2>4, WiredTells
<1>4. CASE event.delta.text[1] = "openai" /\ ~enc.citation_loss_seen
  <2>1. PICK d, loss, losses : /\ d = [enc EXCEPT !.citation_loss_seen = TRUE]
                               /\ loss = <<"citations", enc.open_index>>
                               /\ losses = Append(enc.losses, loss)
    OBVIOUS
  <2>2. PICK e, wire : e = Lose(d, loss) /\ Accepted(event, e, wire)
    BY <1>4, <2>1, Zenon DEF ApplyCitationDelta
  <2>3. loss \in LossKinds \X Int /\ enc.losses \in Seq(LossKinds \X Int)
    BY <1>1, <2>1 DEF Encoders, LossKinds
  <2>4. losses \in Seq(LossKinds \X Int) /\ losses = enc.losses \o <<loss>>
    BY <2>1, <2>3, OneMore
  <2>5. d \in Encoders /\ d.losses = enc.losses  BY <1>1, <2>1 DEF Encoders
  <2>6. e = [d EXCEPT !.losses = losses]  BY <2>1, <2>2, <2>5 DEF Lose
  <2>7. /\ e \in Encoders /\ e.losses = losses /\ e.citation_loss_seen = TRUE
        /\ e.next_wire_index = enc.next_wire_index /\ e.open_index = enc.open_index
        /\ e.tool_seen = enc.tool_seen /\ e.custom_seen = enc.custom_seen
    BY <1>1, <2>1, <2>4, <2>6 DEF Encoders
  <2>8. Cites(event) /\ Lost(event) = <<loss>>
    BY <1>1, <1>4, <2>1, GapForms DEF Cites, Lost
  <2>9. Tells(event, e)  BY <1>1, <2>4, <2>7, <2>8 DEF Tells
  <2>. QED BY <2>2, <2>7, <2>9, WiredTells
<1>. QED BY <1>2, <1>3, <1>4 DEF ApplyCitationDelta

(* A delta that is no citation. *)
LEMMA PlainDeltaTells ==
  ASSUME TypeOK, NEW event, NEW types, Continuing(event, types), "citation_delta" \notin types,
         NEW e \in Encoders, e.losses = enc.losses, e.next_wire_index = enc.next_wire_index,
         e.tool_seen = enc.tool_seen, e.custom_seen = enc.custom_seen,
         e.open_index = enc.open_index, e.citation_loss_seen = enc.citation_loss_seen,
         NEW wire, Accepted(event, e, wire)
  PROVE  Tells(event, enc')
<1>1. IsDelta(event) /\ ~IsStart(event) /\ event.delta.type # "citation_delta"
  BY DEF Continuing, Receives, IsStart, IsDelta
<1>2. ~Cites(event) /\ enc \in Encoders  BY <1>1 DEF Cites, TypeOK
<1>3. Tells(event, e)  BY <1>1, <1>2, QuietTells
<1>. QED BY <1>3, WiredTells

LEMMA BlockDeltaTells ==
  ASSUME TypeOK, NEW event \in Events, ApplyBlockDelta(event), Faultless'
  PROVE  Tells(event, enc')
<1>1. enc \in Encoders /\ ~ApplyDeltaRefused(event)
  BY RefusedFault DEF TypeOK, ApplyDeltaRefused
<1>2. ASSUME IsDelta(event)
      PROVE  event.delta.text \in Text
  BY <1>2, EncoderAssumption, EventForms DEF Deltas
<1>3. CASE ApplyTextDelta(event)
  <2>1. "citation_delta" \notin {"text_delta"}  OBVIOUS
  <2>. QED BY <1>1, <1>3, <2>1, PlainDeltaTells, Zenon DEF ApplyTextDelta
<1>4. CASE ApplyThinkingDelta(event)
  <2>1. Continuing(event, {"thinking_delta"}) /\ "citation_delta" \notin {"thinking_delta"}
    BY <1>4 DEF ApplyThinkingDelta
  <2>2. PICK parts : parts = Append(enc.thinking_parts, event.delta.text)
    OBVIOUS
  <2>3. PICK e, wire : e = [enc EXCEPT !.thinking_parts = parts] /\ Accepted(event, e, wire)
    BY <1>1, <1>4, <2>2 DEF ApplyThinkingDelta, Encoders
  <2>4. event.delta.text \in Text /\ enc.thinking_parts \in Seq(Text)
    BY <1>1, <1>2, <2>1 DEF Continuing, Receives, IsDelta, Encoders
  <2>5. parts \in Seq(Text)  BY <2>2, <2>4
  <2>6. /\ e \in Encoders /\ e.losses = enc.losses /\ e.next_wire_index = enc.next_wire_index
        /\ e.tool_seen = enc.tool_seen /\ e.custom_seen = enc.custom_seen
        /\ e.open_index = enc.open_index /\ e.citation_loss_seen = enc.citation_loss_seen
    BY <1>1, <2>3, <2>5 DEF Encoders
  <2>. QED BY <2>1, <2>3, <2>6, PlainDeltaTells
<1>5. CASE ApplySignatureDelta(event)
  <2>1. Continuing(event, {"signature_delta"}) /\ "citation_delta" \notin {"signature_delta"}
    BY <1>5 DEF ApplySignatureDelta
  <2>2. PICK e, wire : e = [enc EXCEPT !.signature_seen = TRUE] /\ Accepted(event, e, wire)
    BY <1>5 DEF ApplySignatureDelta
  <2>3. /\ e \in Encoders /\ e.losses = enc.losses /\ e.next_wire_index = enc.next_wire_index
        /\ e.tool_seen = enc.tool_seen /\ e.custom_seen = enc.custom_seen
        /\ e.open_index = enc.open_index /\ e.citation_loss_seen = enc.citation_loss_seen
    BY <1>1, <2>2 DEF Encoders
  <2>. QED BY <2>1, <2>2, <2>3, PlainDeltaTells
<1>6. ASSUME NEW types, Continuing(event, types), "citation_delta" \notin types,
             NEW e, NEW wire, Accepted(event, e, wire),
             e = [enc EXCEPT !.tool_parts = Append(@, event.delta.text)]
      PROVE  Tells(event, enc')
  <2>1. event.delta.text \in Text /\ enc.tool_parts \in Seq(Text)
    BY <1>1, <1>2, <1>6 DEF Continuing, Receives, IsDelta, Encoders
  <2>2. PICK parts : parts = Append(enc.tool_parts, event.delta.text)  OBVIOUS
  <2>3. parts \in Seq(Text) /\ e = [enc EXCEPT !.tool_parts = parts]
    BY <1>1, <1>6, <2>1, <2>2 DEF Encoders
  <2>4. /\ e \in Encoders /\ e.losses = enc.losses /\ e.next_wire_index = enc.next_wire_index
        /\ e.tool_seen = enc.tool_seen /\ e.custom_seen = enc.custom_seen
        /\ e.open_index = enc.open_index /\ e.citation_loss_seen = enc.citation_loss_seen
    BY <1>1, <2>3 DEF Encoders
  <2>. QED BY <1>6, <2>4, PlainDeltaTells
<1>7. CASE ApplyInputJsonDelta(event)
  <2>1. Continuing(event, {"input_json_delta"}) /\ "citation_delta" \notin {"input_json_delta"}
    BY <1>7 DEF ApplyInputJsonDelta
  <2>2. PICK e, wire : /\ e = [enc EXCEPT !.tool_parts = Append(@, event.delta.text)]
                       /\ Accepted(event, e, wire)
    BY <1>7 DEF ApplyInputJsonDelta
  <2>. QED BY <1>6, <2>1, <2>2
<1>8. CASE ApplyCustomInputDelta(event)
  <2>1. /\ Continuing(event, {"custom_tool_input_delta"})
        /\ "citation_delta" \notin {"custom_tool_input_delta"}
    BY <1>8 DEF ApplyCustomInputDelta
  <2>2. PICK e, wire : /\ e = IF enc.open = "custom"
                              THEN [enc EXCEPT !.tool_parts = Append(@, event.delta.text)]
                              ELSE enc
                       /\ Accepted(event, e, wire)
    BY <1>8, Zenon DEF ApplyCustomInputDelta
  <2>3. CASE enc.open = "custom"  BY <1>6, <2>1, <2>2, <2>3
  <2>4. CASE enc.open # "custom"  BY <1>1, <2>1, <2>2, <2>4, PlainDeltaTells
  <2>. QED BY <2>3, <2>4
<1>. QED BY <1>1, <1>3, <1>4, <1>5, <1>7, <1>8, CitationDeltaTells DEF ApplyBlockDelta

LEMMA BlockStopTells ==
  ASSUME TypeOK, NEW event \in Events, ApplyBlockStop(event), Faultless'
  PROVE  Tells(event, enc')
<1>1. enc \in Encoders /\ ~ApplyStopRefused(event)
  BY RefusedFault DEF TypeOK, ApplyStopRefused
<1>2. IsStop(event) /\ ~IsStart(event) /\ ~IsDelta(event)
  BY <1>1 DEF ApplyBlockStop, ApplyRedactedStop, ApplyOmittedStop, ApplyThinkingStop,
              ApplyContentStop, Stopping, Receives, IsStart, IsDelta, IsStop
<1>3. PICK c, none : c = Closed(enc) /\ none = <<>>  OBVIOUS
<1>4. /\ c \in Encoders /\ c.losses = enc.losses /\ c.next_wire_index = enc.next_wire_index
      /\ c.tool_seen = enc.tool_seen /\ c.custom_seen = enc.custom_seen
      /\ c.open_index = enc.open_index /\ c.citation_loss_seen = enc.citation_loss_seen
  BY <1>1, <1>3 DEF Closed, Encoders, OpenKinds
<1>5. none \in Text /\ none \in Seq(Text)  BY <1>3 DEF Text
<1>6. PICK e, wire :
        /\ Accepted(event, e, wire)
        /\ \/ e = c
           \/ e = [c EXCEPT !.thinking_input = none, !.thinking_signature = none,
                            !.thinking_parts = none, !.signature_seen = FALSE]
           \/ e = [c EXCEPT !.tool_input = none, !.tool_parts = none]
  BY <1>1, <1>3, Zenon DEF ApplyBlockStop, ApplyRedactedStop, ApplyOmittedStop,
                           ApplyThinkingStop, ApplyContentStop
<1>7. /\ e \in Encoders /\ e.losses = c.losses /\ e.next_wire_index = c.next_wire_index
      /\ e.tool_seen = c.tool_seen /\ e.custom_seen = c.custom_seen
      /\ e.open_index = c.open_index /\ e.citation_loss_seen = c.citation_loss_seen
  <2>1. CASE e = c  BY <1>4, <2>1
  <2>2. CASE e = [c EXCEPT !.thinking_input = none, !.thinking_signature = none,
                           !.thinking_parts = none, !.signature_seen = FALSE]
    BY <1>4, <1>5, <2>2 DEF Encoders
  <2>3. CASE e = [c EXCEPT !.tool_input = none, !.tool_parts = none]
    BY <1>4, <1>5, <2>3 DEF Encoders
  <2>. QED BY <1>6, <2>1, <2>2, <2>3
<1>8. ~Cites(event)  BY <1>2 DEF Cites
<1>9. Tells(event, e)  BY <1>1, <1>2, <1>4, <1>7, <1>8, QuietTells
<1>. QED BY <1>6, <1>7, <1>9, WiredTells

LEMMA MessageDeltaTells ==
  ASSUME TypeOK, NEW event \in Events, ApplyMessageDelta(event), Faultless'
  PROVE  Tells(event, enc')
<1>1. enc \in Encoders /\ event.type = "message_delta" /\ ~Refused(event, enc)
  BY RefusedFault DEF TypeOK, ApplyMessageDelta, Receives
<1>2. ~IsStart(event) /\ ~IsDelta(event)  BY <1>1 DEF IsStart, IsDelta
<1>3. PICK stop, seen, loss, losses :
        /\ stop = EffectiveStop(enc, event.stop_reason)
        /\ seen = [enc EXCEPT !.delta_seen = TRUE]
        /\ loss = <<"stop_reason", -1>> /\ losses = Append(enc.losses, loss)
  OBVIOUS
<1>4. PICK e : e = IF stop # event.stop_reason /\ enc.custom_seen THEN Lose(seen, loss) ELSE seen
  OBVIOUS
<1>5. PICK wire : Accepted(event, e, wire)
  BY <1>1, <1>3, <1>4, Zenon DEF ApplyMessageDelta
<1>6. /\ seen \in Encoders /\ seen.losses = enc.losses
      /\ seen.next_wire_index = enc.next_wire_index
      /\ seen.tool_seen = enc.tool_seen /\ seen.custom_seen = enc.custom_seen
  BY <1>1, <1>3 DEF Encoders
<1>7. stop # event.stop_reason <=> event.stop_reason = "tool_use" /\ ~enc.tool_seen
  BY <1>3 DEF EffectiveStop
<1>8. PICK lost : lost = (~enc.tool_seen /\ enc.custom_seen)  OBVIOUS
<1>9. lost \in BOOLEAN  BY <1>8
<1>10. ~Cites(event)  BY <1>2 DEF Cites
<1>11. Lost(event) = IF event.stop_reason = "tool_use" /\ lost THEN <<loss>> ELSE <<>>
  BY <1>1, <1>2, <1>3, <1>8, <1>9, <1>10, GapForms DEF Lost
<1>12. CASE event.stop_reason = "tool_use" /\ lost
  <2>1. Lost(event) = <<loss>> /\ e = Lose(seen, loss)
    BY <1>4, <1>7, <1>8, <1>11, <1>12
  <2>2. loss \in LossKinds \X Int /\ enc.losses \in Seq(LossKinds \X Int)
    BY <1>1, <1>3 DEF Encoders, LossKinds
  <2>3. losses \in Seq(LossKinds \X Int) /\ losses = enc.losses \o <<loss>>
    BY <1>3, <2>2, OneMore
  <2>4. e = [seen EXCEPT !.losses = losses]  BY <1>3, <1>6, <2>1 DEF Lose
  <2>5. /\ e \in Encoders /\ e.losses = losses /\ e.next_wire_index = enc.next_wire_index
        /\ e.tool_seen = enc.tool_seen /\ e.custom_seen = enc.custom_seen
    BY <1>6, <2>3, <2>4 DEF Encoders
  <2>6. Tells(event, e)  BY <1>2, <2>1, <2>3, <2>5 DEF Tells
  <2>. QED BY <1>5, <2>5, <2>6, WiredTells
<1>13. CASE ~(event.stop_reason = "tool_use" /\ lost)
  <2>1. Lost(event) = <<>> /\ e = seen  BY <1>4, <1>7, <1>8, <1>11, <1>13
  <2>2. enc.losses \o Lost(event) = enc.losses  BY <1>1, <2>1 DEF Encoders
  <2>3. Tells(event, e)  BY <1>2, <1>6, <2>1, <2>2 DEF Tells
  <2>. QED BY <1>5, <1>6, <2>1, <2>3, WiredTells
<1>. QED BY <1>12, <1>13

LEMMA MessageDoneTells ==
  ASSUME TypeOK, NEW event \in Events, ApplyMessageDone(event), Faultless'
  PROVE  Tells(event, enc')
<1>1. enc \in Encoders /\ event.type = "message_done" /\ ~Refused(event, enc)
  BY RefusedFault DEF TypeOK, ApplyMessageDone, Receives
<1>2. PICK e, wire : e = [enc EXCEPT !.done = TRUE] /\ Accepted(event, e, wire)
  BY <1>1 DEF ApplyMessageDone
<1>3. /\ e \in Encoders /\ e.losses = enc.losses /\ e.next_wire_index = enc.next_wire_index
      /\ e.tool_seen = enc.tool_seen /\ e.custom_seen = enc.custom_seen
      /\ e.open_index = enc.open_index /\ e.citation_loss_seen = enc.citation_loss_seen
  BY <1>1, <1>2 DEF Encoders
<1>4. ~IsStart(event) /\ ~Cites(event)  BY <1>1 DEF Cites, IsStart, IsDelta
<1>5. Tells(event, e)  BY <1>1, <1>3, <1>4, QuietTells
<1>. QED BY <1>2, <1>3, <1>5, WiredTells

(* Every accepted call reports its losses. *)
LEMMA EveryCallTells ==
  ASSUME TypeOK, NEW event \in Events, Apply(event), Faultless'
  PROVE  Tells(event, enc')
<1>1. ~ApplyAfterDone(event)  BY RefusedFault DEF ApplyAfterDone
<1>. QED
  BY <1>1, MessageStartTells, BlockStartTells, BlockDeltaTells, BlockStopTells,
     MessageDeltaTells, MessageDoneTells DEF Apply

-----------------------------------------------------------------------------
(* The gaps of a stream *)

(* The losses of the stream s. *)
Patched(s, k) == ~Brought(s, k, ToolKinds) /\ Brought(s, k, ApplyPatchKinds)

CitedSince(s, b, k) == \E j \in b..(k - 1) : Cites(s[j])

Gaps(s, k) ==
  GapOf(s[k], Cites(s[k]) /\ ~CitedSince(s, BlockAt(s, k), k),
        NativeIndex(s, BlockAt(s, k)), Patched(s, k))

AllGaps(s) == [k \in 1..Len(s) |-> Gaps(s, k)]

(* What the struct e remembers of the stream s, for the losses: the native
   index to come, the kinds of blocks that came, and, of an open text, its
   native index and whether it has cited OpenAI. *)
OwnedDeltas(s) ==
  \A k \in 1..Len(s) : IsDelta(s[k]) => \E j \in 1..k : IsStart(s[j]) /\ s[j].index = s[k].index

TextOpen(s, e) ==
  \E k \in 1..Len(s) :
    /\ OpenFrom(s, k) /\ s[k].index = e.open_ir_index /\ e.open_index = NativeIndex(s, k)
    /\ e.citation_loss_seen <=> CitedSince(s, k, Len(s) + 1)

Told(s, e) ==
  /\ e.losses = Concat(AllGaps(s))
  /\ e.next_wire_index = Cardinality(NativeAt(s))
  /\ e.tool_seen <=> Brought(s, Len(s), ToolKinds)
  /\ e.custom_seen <=> Brought(s, Len(s), ApplyPatchKinds)
  /\ e.open = "text" /\ ~e.delta_seen => TextOpen(s, e)
  /\ OwnedDeltas(s)

(* How the native indexes grow with the stream. *)
LEMMA NativeFacts ==
  ASSUME NEW s \in Seq(IrEvents), NEW event \in IrEvents
  PROVE  /\ NativeIndex(Append(s, event), Len(s) + 1) = Cardinality(NativeAt(s))
         /\ \A k \in 1..Len(s) : NativeIndex(Append(s, event), k) = NativeIndex(s, k)
         /\ Cardinality(NativeAt(Append(s, event))) =
              IF IsStart(event) /\ event.block.kind \notin OmittedKinds
              THEN Cardinality(NativeAt(s)) + 1 ELSE Cardinality(NativeAt(s))
<1>1. PICK t, l, old, new :
        t = Append(s, event) /\ l = Len(s) /\ old = NativeAt(s) /\ new = NativeAt(t)
  OBVIOUS
<1>2. l \in Nat /\ Len(t) = l + 1 /\ t[l + 1] = event /\ \A j \in 1..l : t[j] = s[j]
  BY <1>1, AppendFacts
<1>3. old \subseteq 1..l /\ new \subseteq 1..(l + 1)  BY <1>1, <1>2 DEF NativeAt
<1>4. \A j \in 1..(l + 1) : (j \in 1..l /\ j < l + 1) \/ j = l + 1  BY <1>2
<1>5. \A j \in 1..l : j < l + 1  BY <1>2
<1>6. /\ \A j : j \in old => j \in 1..l /\ j < l + 1
      /\ \A j : j \in new => (j \in 1..l /\ j < l + 1) \/ j = l + 1
  BY <1>3, <1>4, <1>5, Zenon
<1>7. \A j \in 1..l : j \in new <=> j \in old  BY <1>1, <1>2 DEF NativeAt
<1>8. l + 1 \in new <=> IsStart(event) /\ event.block.kind \notin OmittedKinds
  BY <1>1, <1>2 DEF NativeAt
<1>9. {j \in new : j < l + 1} = old
  <2>1. \A j : j \in new /\ j < l + 1 <=> j \in old  BY <1>2, <1>7, <1>6
  <2>. QED BY <2>1
<1>10. ASSUME NEW k \in 1..l
       PROVE  {j \in new : j < k} = {j \in old : j < k}
  <2>1. k < l + 1  BY <1>2
  <2>2. \A j : j \in new /\ j < k <=> j \in old /\ j < k
    BY <1>2, <1>7, <1>6, <2>1
  <2>. QED BY <2>2
<1>11. new = IF IsStart(event) /\ event.block.kind \notin OmittedKinds THEN old \union {l + 1}
            ELSE old
  <2>1. \A j : j \in new <=> j \in old \/ (j = l + 1 /\ l + 1 \in new)
    BY <1>7, <1>6
  <2>2. CASE l + 1 \in new
    <3>1. new = old \union {l + 1}  BY <2>1, <2>2
    <3>. QED BY <1>8, <2>2, <3>1
  <2>3. CASE l + 1 \notin new
    <3>1. new = old  BY <2>1, <2>3
    <3>. QED BY <1>8, <2>3, <3>1
  <2>. QED BY <2>2, <2>3
<1>12. IsFiniteSet(old)
  <2>1. IsFiniteSet(1..l)  BY <1>2, FS_Interval
  <2>. QED BY <1>3, <2>1, FS_Subset
<1>13. l + 1 \notin old  BY <1>2, <1>3
<1>14. Cardinality(old \union {l + 1}) = Cardinality(old) + 1
  BY <1>12, <1>13, FS_AddElement
<1>. QED BY <1>1, <1>9, <1>10, <1>11, <1>14 DEF NativeIndex

LEMMA NativeIndexType ==
  ASSUME NEW s \in Seq(IrEvents), NEW k
  PROVE  NativeIndex(s, k) \in Nat
<1>1. IsFiniteSet(1..Len(s))  BY FS_Interval
<1>2. {j \in NativeAt(s) : j < k} \subseteq 1..Len(s)  BY DEF NativeAt
<1>3. IsFiniteSet({j \in NativeAt(s) : j < k})  BY <1>1, <1>2, FS_Subset
<1>. QED BY <1>3, FS_CardinalityType DEF NativeIndex

LEMMA BroughtStays ==
  ASSUME NEW s \in Seq(IrEvents), NEW event \in IrEvents, NEW kinds
  PROVE  /\ \A k \in 1..Len(s) : Brought(Append(s, event), k, kinds) <=> Brought(s, k, kinds)
         /\ Brought(Append(s, event), Len(s) + 1, kinds) <=>
              Brought(s, Len(s), kinds) \/ (IsStart(event) /\ event.block.kind \in kinds)
<1>1. PICK t, l : t = Append(s, event) /\ l = Len(s)  OBVIOUS
<1>2. l \in Nat /\ Len(t) = l + 1 /\ t[l + 1] = event /\ \A j \in 1..l : t[j] = s[j]
  BY <1>1, AppendFacts
<1>3. \A j : j \in 1..(l + 1) <=> j \in 1..l \/ j = l + 1  BY <1>2
<1>4. ASSUME NEW k \in 1..l
      PROVE  Brought(t, k, kinds) <=> Brought(s, k, kinds)
  <2>1. \A j \in 1..k : t[j] = s[j]  BY <1>2
  <2>. QED BY <2>1 DEF Brought
<1>5. Brought(t, l + 1, kinds) <=> Brought(s, l, kinds) \/ (IsStart(event) /\ event.block.kind \in kinds)
  BY <1>2, <1>3 DEF Brought
<1>. QED BY <1>1, <1>4, <1>5

(* A block starts where its start is, a delta belongs to some block. *)
LEMMA BlockAtFacts ==
  ASSUME NEW s, OwnedDeltas(s), NEW k \in 1..Len(s), IsStart(s[k]) \/ IsDelta(s[k])
  PROVE  /\ BlockAt(s, k) \in 1..k /\ IsStart(s[BlockAt(s, k)])
         /\ s[BlockAt(s, k)].index = s[k].index
<1>1. \E j \in 1..k : IsStart(s[j]) /\ s[j].index = s[k].index
  <2>1. k \in 1..k  OBVIOUS
  <2>. QED BY <2>1 DEF OwnedDeltas
<1>. QED BY <1>1, Zenon DEF BlockAt

(* The gap of an event that is neither a start nor a delta. *)
LEMMA OtherGap ==
  ASSUME NEW event \in IrEvents, ~IsStart(event), ~IsDelta(event), NEW first \in BOOLEAN,
         NEW i, NEW j, NEW patched \in BOOLEAN
  PROVE  GapOf(event, first, i, patched) = GapOf(event, first, j, patched)
<1>1. IsStop(event) \/ event.type \in {"message_start", "message_delta", "message_done"}
  BY EventForms
<1>2. CASE IsStop(event) \/ event.type \in {"message_start", "message_done"}
  BY <1>2, GapForms
<1>3. CASE event.type = "message_delta" /\ event.stop_reason = "tool_use" /\ patched
  BY <1>3, GapForms
<1>4. CASE event.type = "message_delta" /\ ~(event.stop_reason = "tool_use" /\ patched)
  BY <1>4, GapForms
<1>. QED BY <1>1, <1>2, <1>3, <1>4

(* The gaps of earlier events do not change. *)
LEMMA GapsStay ==
  ASSUME NEW s \in Seq(IrEvents), NEW event \in IrEvents, OwnedDeltas(s), NEW k \in 1..Len(s)
  PROVE  Gaps(Append(s, event), k) = Gaps(s, k)
<1>1. PICK t, l, b : t = Append(s, event) /\ l = Len(s) /\ b = BlockAt(s, k)
  OBVIOUS
<1>2. l \in Nat /\ Len(t) = l + 1 /\ t[l + 1] = event /\ \A j \in 1..l : t[j] = s[j]
  BY <1>1, AppendFacts
<1>3. k \in 1..l /\ k \in Nat /\ t[k] = s[k] /\ \A j \in 1..k : t[j] = s[j]
  BY <1>1, <1>2
<1>4. BlockAt(t, k) = b
  <2>1. \A j \in 1..k : IsStart(t[j]) /\ t[j].index = t[k].index <=>
                        IsStart(s[j]) /\ s[j].index = s[k].index
    BY <1>3
  <2>. QED BY <1>1, <2>1, Zenon DEF BlockAt
<1>5. Patched(t, k) = Patched(s, k)  BY <1>1, BroughtStays DEF Patched
<1>6. CASE IsStart(s[k]) \/ IsDelta(s[k])
  <2>1. b \in 1..k  BY <1>1, <1>6, BlockAtFacts
  <2>2. NativeIndex(t, b) = NativeIndex(s, b)  BY <1>1, <1>3, <2>1, NativeFacts
  <2>3. CitedSince(t, b, k) = CitedSince(s, b, k)
    <3>1. \A j \in b..(k - 1) : t[j] = s[j]  BY <1>3, <2>1
    <3>. QED BY <3>1 DEF CitedSince
  <2>. QED BY <1>1, <1>3, <1>4, <1>5, <2>2, <2>3, Zenon DEF Gaps
<1>7. CASE ~IsStart(s[k]) /\ ~IsDelta(s[k])
  <2>1. PICK first, x, p : first = FALSE /\ x = s[k] /\ p = Patched(s, k)
    OBVIOUS
  <2>2. x \in IrEvents /\ p \in BOOLEAN  BY <2>1 DEF Patched
  <2>3. (Cites(x) /\ ~CitedSince(t, b, k)) = first /\ (Cites(x) /\ ~CitedSince(s, b, k)) = first
    BY <1>7, <2>1 DEF Cites
  <2>4. Gaps(t, k) = GapOf(x, first, NativeIndex(t, b), p)
    BY <1>3, <1>4, <1>5, <2>1, <2>3 DEF Gaps
  <2>5. Gaps(s, k) = GapOf(x, first, NativeIndex(s, b), p)
    BY <1>1, <2>1, <2>3 DEF Gaps
  <2>6. ~IsStart(x) /\ ~IsDelta(x) /\ first \in BOOLEAN  BY <1>7, <2>1
  <2>7. GapOf(x, first, NativeIndex(t, b), p) = GapOf(x, first, NativeIndex(s, b), p)
    BY <2>2, <2>6, OtherGap
  <2>. QED BY <1>1, <2>4, <2>5, <2>7
<1>. QED BY <1>6, <1>7

(* A block of its own index is where it starts. *)
LEMMA OwnBlock ==
  ASSUME NEW t, NEW next, NewIndexes(t, next), NEW k \in 1..Len(t), Len(t) \in Nat,
         NEW b \in 1..k, IsStart(t[b]), t[b].index = t[k].index
  PROVE  BlockAt(t, k) = b
<1>1. PICK c : c = BlockAt(t, k)  OBVIOUS
<1>2. c \in 1..k /\ IsStart(t[c]) /\ t[c].index = t[k].index
  BY <1>1, Zenon DEF BlockAt
<1>3. b \in 1..Len(t) /\ c \in 1..Len(t)  BY <1>2
<1>. QED BY <1>1, <1>2, <1>3 DEF NewIndexes

(* The gap at the last event is what the struct reports of it. *)
LEMMA LastGap ==
  ASSUME TypeOK, NEW s \in Seq(IrEvents), NEW event \in Events, Told(s, enc),
         NEW next, NewIndexes(Append(s, event), next), Allowed(View(enc), event)
  PROVE  Gaps(Append(s, event), Len(s) + 1) = Lost(event)
<1>0. event \in IrEvents /\ enc \in Encoders  BY EncoderAssumption DEF TypeOK
<1>1. PICK t, l : t = Append(s, event) /\ l = Len(s)  OBVIOUS
<1>2. l \in Nat /\ Len(t) = l + 1 /\ t[l + 1] = event /\ \A j \in 1..l : t[j] = s[j]
  BY <1>0, <1>1, AppendFacts
<1>3. PICK b, first, i, patched :
        /\ b = BlockAt(t, l + 1) /\ first = (Cites(event) /\ ~CitedSince(t, b, l + 1))
        /\ i = NativeIndex(t, b) /\ patched = Patched(t, l + 1)
  OBVIOUS
<1>4. Gaps(t, l + 1) = GapOf(event, first, i, patched)
  BY <1>2, <1>3, Zenon DEF Gaps
<1>5. PICK again, j, left :
        /\ again = (Cites(event) /\ (IsDelta(event) => ~enc.citation_loss_seen))
        /\ j = IF IsStart(event) THEN enc.next_wire_index ELSE enc.open_index
        /\ left = (~enc.tool_seen /\ enc.custom_seen)
  OBVIOUS
<1>6. Lost(event) = GapOf(event, again, j, left)  BY <1>5, Zenon DEF Lost
<1>7. first \in BOOLEAN /\ patched \in BOOLEAN /\ again \in BOOLEAN /\ left \in BOOLEAN
  BY <1>3, <1>5 DEF Patched
<1>8. IsStart(event) /\ (first \/ again) => event.block.kind \notin OmittedKinds
  <2>1. "text" \notin OmittedKinds  BY DEF OmittedKinds, ApplyPatchKinds
  <2>. QED BY <1>3, <1>5, <2>1, OthersCiteNothing
<1>9. CASE IsStart(event)
  <2>1. b = l + 1
    <3>1. NewIndexes(t, next) /\ Len(t) \in Nat /\ l + 1 \in 1..Len(t) /\ l + 1 \in 1..(l + 1)
      BY <1>1, <1>2
    <3>2. IsStart(t[l + 1]) /\ t[l + 1].index = t[l + 1].index  BY <1>2, <1>9
    <3>3. BlockAt(t, l + 1) = l + 1  BY <3>1, <3>2, OwnBlock
    <3>. QED BY <1>3, <3>3
  <2>2. i = enc.next_wire_index /\ j = enc.next_wire_index
    BY <1>0, <1>1, <1>3, <1>5, <1>9, <2>1, NativeFacts DEF Told
  <2>3. first <=> again
    <3>1. ~CitedSince(t, l + 1, l + 1)  BY <1>2 DEF CitedSince
    <3>2. ~IsDelta(event)  BY <1>9 DEF IsStart, IsDelta
    <3>. QED BY <1>3, <1>5, <2>1, <3>1, <3>2
  <2>4. PICK x, y : x = GapOf(event, first, i, patched) /\ y = GapOf(event, again, j, left)
    OBVIOUS
  <2>5. /\ event.block.kind \in OmittedKinds => x = <<<<"block", event.index>>>>
        /\ event.block.kind \notin OmittedKinds /\ first => x = <<<<"citations", i>>>>
        /\ event.block.kind \notin OmittedKinds /\ ~first => x = <<>>
    BY <1>7, <1>8, <1>9, <2>4, GapForms
  <2>6. /\ event.block.kind \in OmittedKinds => y = <<<<"block", event.index>>>>
        /\ event.block.kind \notin OmittedKinds /\ again => y = <<<<"citations", j>>>>
        /\ event.block.kind \notin OmittedKinds /\ ~again => y = <<>>
    BY <1>7, <1>8, <1>9, <2>4, GapForms
  <2>7. x = y  BY <1>7, <2>2, <2>3, <2>5, <2>6
  <2>. QED BY <1>1, <1>4, <1>6, <2>4, <2>7
<1>10. CASE IsDelta(event) /\ Cites(event)
  <2>1. event.delta.type = "citation_delta"
    BY <1>10 DEF Cites, IsStart, IsDelta
  <2>2. View(enc).place = "within" /\ event.index = View(enc).index /\ View(enc).family = "text"
    <3>1. DeltaFamily(event.delta) = "text"  BY <2>1 DEF DeltaFamily
    <3>. QED BY <1>10, <3>1 DEF Allowed, OpensAt, Continues, IsStart, IsDelta, IsStop
  <2>3. enc.open = "text" /\ ~enc.delta_seen /\ event.index = enc.open_ir_index
    BY <1>0, <2>2 DEF View, Family, Encoders
  <2>4. PICK k \in 1..l :
          /\ OpenFrom(s, k) /\ s[k].index = enc.open_ir_index
          /\ enc.open_index = NativeIndex(s, k)
          /\ enc.citation_loss_seen <=> CitedSince(s, k, l + 1)
    BY <1>1, <2>3 DEF Told, TextOpen
  <2>5. k \in 1..(l + 1) /\ t[k] = s[k]  BY <1>2
  <2>6. b = k
    <3>1. NewIndexes(t, next) /\ Len(t) \in Nat /\ l + 1 \in 1..Len(t)
      BY <1>1, <1>2
    <3>2. IsStart(t[k]) /\ t[k].index = t[l + 1].index
      BY <1>2, <2>3, <2>4, <2>5 DEF OpenFrom
    <3>3. BlockAt(t, l + 1) = k  BY <2>5, <3>1, <3>2, OwnBlock
    <3>. QED BY <1>3, <3>3
  <2>7. i = j
    BY <1>0, <1>1, <1>3, <1>5, <1>10, <2>4, <2>6, NativeFacts DEF IsStart, IsDelta
  <2>8. first <=> again
    <3>1. \A n \in k..((l + 1) - 1) : t[n] = s[n]  BY <1>2
    <3>2. CitedSince(t, k, l + 1) <=> CitedSince(s, k, l + 1)
      BY <3>1 DEF CitedSince
    <3>. QED BY <1>3, <1>5, <1>10, <2>4, <2>6, <3>2
  <2>9. PICK x, y : x = GapOf(event, first, i, patched) /\ y = GapOf(event, again, j, left)
    OBVIOUS
  <2>10. /\ first => x = <<<<"citations", i>>>>
         /\ ~first => x = <<>>
    BY <1>7, <1>8, <1>10, <2>9, GapForms
  <2>11. /\ again => y = <<<<"citations", j>>>>
         /\ ~again => y = <<>>
    BY <1>7, <1>8, <1>10, <2>9, GapForms
  <2>12. x = y  BY <1>7, <2>7, <2>8, <2>10, <2>11
  <2>. QED BY <1>1, <1>4, <1>6, <2>9, <2>12
<1>11. CASE IsDelta(event) /\ ~Cites(event)
  <2>1. first = FALSE /\ again = FALSE  BY <1>3, <1>5, <1>11
  <2>2. GapOf(event, first, i, patched) = <<>>
    BY <1>7, <1>8, <1>11, <2>1, GapForms
  <2>3. GapOf(event, again, j, left) = <<>>
    BY <1>7, <1>8, <1>11, <2>1, GapForms
  <2>. QED BY <1>1, <1>4, <1>6, <2>2, <2>3
<1>12. CASE event.type = "message_delta"
  <2>1. ~IsStart(event)  BY <1>12 DEF IsStart
  <2>2. patched <=> left
    <3>1. Brought(t, l + 1, ToolKinds) <=> enc.tool_seen
      BY <1>0, <1>1, <2>1, BroughtStays DEF Told
    <3>2. Brought(t, l + 1, ApplyPatchKinds) <=> enc.custom_seen
      BY <1>0, <1>1, <2>1, BroughtStays DEF Told
    <3>. QED BY <1>3, <1>5, <3>1, <3>2 DEF Patched
  <2>3. PICK x, y : x = GapOf(event, first, i, patched) /\ y = GapOf(event, again, j, left)
    OBVIOUS
  <2>4. /\ event.stop_reason = "tool_use" /\ patched => x = <<<<"stop_reason", -1>>>>
        /\ ~(event.stop_reason = "tool_use" /\ patched) => x = <<>>
    BY <1>7, <1>8, <1>12, <2>3, GapForms
  <2>5. /\ event.stop_reason = "tool_use" /\ left => y = <<<<"stop_reason", -1>>>>
        /\ ~(event.stop_reason = "tool_use" /\ left) => y = <<>>
    BY <1>7, <1>8, <1>12, <2>3, GapForms
  <2>6. x = y  BY <1>7, <2>2, <2>4, <2>5
  <2>. QED BY <1>1, <1>4, <1>6, <2>3, <2>6
<1>13. CASE IsStop(event) \/ event.type \in {"message_start", "message_done"}
  <2>1. GapOf(event, first, i, patched) = <<>>  BY <1>7, <1>8, <1>13, GapForms
  <2>2. GapOf(event, again, j, left) = <<>>  BY <1>7, <1>8, <1>13, GapForms
  <2>. QED BY <1>1, <1>4, <1>6, <2>1, <2>2
<1>. QED BY <1>0, <1>9, <1>10, <1>11, <1>12, <1>13, EventForms

(* The types of the gaps. *)
LEMMA GapType ==
  ASSUME NEW s \in Seq(IrEvents), NEW k \in 1..Len(s)
  PROVE  Gaps(s, k) \in Seq(LossKinds \X Int)
<1>1. PICK x, b, first, i, patched :
        /\ x = s[k] /\ b = BlockAt(s, k) /\ first = (Cites(x) /\ ~CitedSince(s, b, k))
        /\ i = NativeIndex(s, b) /\ patched = Patched(s, k)
  OBVIOUS
<1>2. x \in IrEvents /\ i \in Nat  BY <1>1, NativeIndexType
<1>3. PICK S : S = LossKinds \X Int  OBVIOUS
<1>4. <<"citations", i>> \in S /\ <<"stop_reason", -1>> \in S
      /\ (IsStart(x) => <<"block", x.index>> \in S)
  BY <1>2, <1>3, EventForms DEF LossKinds
<1>5. /\ <<>> \in Seq(S) /\ <<<<"citations", i>>>> \in Seq(S) /\ <<<<"stop_reason", -1>>>> \in Seq(S)
      /\ IsStart(x) => <<<<"block", x.index>>>> \in Seq(S)
  <2>1. \A y \in S : <<y>> \in Seq(S)  OBVIOUS
  <2>. QED BY <1>4, <2>1
<1>6. GapOf(x, first, i, patched) \in Seq(S)
  <2>1. PICK omitted, g, h, m, n :
          /\ omitted = (x.block.kind \in OmittedKinds) /\ g = <<<<"block", x.index>>>>
          /\ h = <<<<"citations", i>>>> /\ m = <<<<"stop_reason", -1>>>> /\ n = <<>>
    OBVIOUS
  <2>2. GapOf(x, first, i, patched) =
          CASE IsStart(x) /\ omitted -> g
            [] (IsStart(x) \/ IsDelta(x)) /\ first -> h
            [] x.type = "message_delta" /\ x.stop_reason = "tool_use" /\ patched -> m
            [] OTHER -> n
    BY <2>1, Zenon DEF GapOf
  <2>3. n \in Seq(S) /\ h \in Seq(S) /\ m \in Seq(S) /\ (IsStart(x) => g \in Seq(S))
    BY <1>5, <2>1
  <2>4. omitted \in BOOLEAN /\ first \in BOOLEAN /\ patched \in BOOLEAN
    BY <1>1, <2>1 DEF Patched
  <2>5. PICK a, c, d : /\ a = (IsStart(x) /\ omitted)
                       /\ c = ((IsStart(x) \/ IsDelta(x)) /\ first)
                       /\ d = (x.type = "message_delta" /\ x.stop_reason = "tool_use" /\ patched)
    OBVIOUS
  <2>6. GapOf(x, first, i, patched) = CASE a -> g [] c -> h [] d -> m [] OTHER -> n
    BY <2>2, <2>5, Zenon
  <2>7. a \in BOOLEAN /\ c \in BOOLEAN /\ d \in BOOLEAN /\ ~(a /\ d) /\ ~(c /\ d)
    BY <2>5 DEF IsStart, IsDelta
  <2>. QED BY <2>3, <2>4, <2>5, <2>6, <2>7
<1>. QED BY <1>1, <1>3, <1>6, Zenon DEF Gaps

(* The losses grow with the gaps. *)
LEMMA LossesGrow ==
  ASSUME TypeOK, NEW s \in Seq(IrEvents), NEW event \in Events, Told(s, enc),
         NEW next, NewIndexes(Append(s, event), next), Allowed(View(enc), event)
  PROVE  enc.losses \o Lost(event) = Concat(AllGaps(Append(s, event)))
<1>0. event \in IrEvents /\ enc.losses = Concat(AllGaps(s)) /\ OwnedDeltas(s)
  BY EncoderAssumption DEF Told
<1>1. PICK t, l, f, g : t = Append(s, event) /\ l = Len(s) /\ f = AllGaps(s) /\ g = AllGaps(t)
  OBVIOUS
<1>2. l \in Nat /\ Len(t) = l + 1 /\ t \in Seq(IrEvents)
  BY <1>0, <1>1, AppendFacts
<1>3. g[l + 1] = Lost(event)
  <2>1. l + 1 \in 1..Len(t)  BY <1>2
  <2>2. g[l + 1] = Gaps(t, l + 1)  BY <1>1, <2>1 DEF AllGaps
  <2>. QED BY <1>1, <2>2, LastGap
<1>4. \A k \in 1..l : g[k] = f[k]
  <2>1. ASSUME NEW k \in 1..l
        PROVE  g[k] = f[k]
    <3>1. g[k] = Gaps(t, k) /\ f[k] = Gaps(s, k)  BY <1>1, <1>2 DEF AllGaps
    <3>2. Gaps(t, k) = Gaps(s, k)  BY <1>0, <1>1, GapsStay
    <3>. QED BY <3>1, <3>2
  <2>. QED BY <2>1
<1>5. PICK E, S : E = LossKinds \X Int /\ S = Seq(E)  OBVIOUS
<1>6. f \in Seq(S) /\ Len(f) = l
  <2>1. \A k \in 1..l : Gaps(s, k) \in S  BY <1>1, <1>5, GapType
  <2>2. f = [k \in 1..l |-> Gaps(s, k)]  BY <1>1 DEF AllGaps
  <2>3. f \in [1..l -> S]  BY <2>1, <2>2
  <2>. QED BY <1>2, <2>2, <2>3
<1>7. Lost(event) \in S
  <2>1. l + 1 \in 1..Len(t)  BY <1>2
  <2>2. Gaps(t, l + 1) \in S  BY <1>2, <1>5, <2>1, GapType
  <2>. QED BY <1>1, <2>2, LastGap
<1>8. g = Append(f, Lost(event))
  <2>1. PICK x, h : x = Lost(event) /\ h = Append(f, x)  OBVIOUS
  <2>2. /\ h \in Seq(S) /\ Len(h) = l + 1 /\ h[l + 1] = x /\ \A k \in 1..l : h[k] = f[k]
    BY <1>2, <1>6, <1>7, <2>1
  <2>3. g = [k \in 1..(l + 1) |-> Gaps(t, k)]  BY <1>1, <1>2 DEF AllGaps
  <2>4. DOMAIN g = 1..(l + 1) /\ DOMAIN h = 1..(l + 1)  BY <2>2, <2>3
  <2>5. \A k \in 1..(l + 1) : g[k] = h[k]
    <3>1. \A k \in 1..(l + 1) : k \in 1..l \/ k = l + 1  BY <1>2
    <3>. QED BY <1>3, <1>4, <2>1, <2>2, <3>1
  <2>6. g = [k \in 1..(l + 1) |-> g[k]] /\ h = [k \in 1..(l + 1) |-> h[k]]
    BY <2>2, <2>3, <2>4
  <2>. QED BY <2>1, <2>5, <2>6
<1>9. Concat(g) = Concat(f) \o Lost(event)
  BY <1>5, <1>6, <1>7, <1>8, ConcatAppend
<1>. QED BY <1>0, <1>1, <1>9

(* A text block that the struct holds open is the one of the stream. *)
LEMMA TextStaysOpen ==
  ASSUME TypeOK, NEW s \in Seq(IrEvents), NEW event \in Events, Told(s, enc),
         NEW e, Advances(event, e), Tells(event, e), e.open = "text", ~e.delta_seen
  PROVE  TextOpen(Append(s, event), e)
<1>0. event \in IrEvents  BY EncoderAssumption
<1>1. PICK t, l : t = Append(s, event) /\ l = Len(s)  OBVIOUS
<1>2. l \in Nat /\ Len(t) = l + 1 /\ t[l + 1] = event /\ \A j \in 1..l : t[j] = s[j]
  BY <1>0, <1>1, AppendFacts
<1>3. IsStart(event) \/ IsDelta(event)  BY DEF Advances
<1>4. CASE IsStart(event)
  <2>1. event.block.kind = "text"
    <3>1. OpenAs(event.block.kind) = "text"  BY <1>4 DEF Advances
    <3>. QED BY <3>1 DEF OpenAs
  <2>2. /\ e.open_ir_index = event.index /\ e.open_index = enc.next_wire_index
        /\ e.citation_loss_seen <=> Cites(event)
    BY <1>4, <2>1 DEF Advances, Tells
  <2>3. e.open_index = NativeIndex(t, l + 1)
    BY <1>0, <1>1, <2>2, NativeFacts DEF Told
  <2>4. CitedSince(t, l + 1, (l + 1) + 1) <=> Cites(event)
    <3>1. \A n \in (l + 1)..(((l + 1) + 1) - 1) : n = l + 1  BY <1>2
    <3>2. l + 1 \in (l + 1)..(((l + 1) + 1) - 1)  BY <1>2
    <3>. QED BY <1>2, <3>1, <3>2 DEF CitedSince
  <2>5. OpenFrom(t, l + 1) /\ l + 1 \in 1..Len(t) /\ t[l + 1].index = e.open_ir_index
    BY <1>2, <1>4, <2>2 DEF OpenFrom
  <2>. QED BY <1>1, <1>2, <2>2, <2>3, <2>4, <2>5 DEF TextOpen
<1>5. CASE IsDelta(event)
  <2>1. /\ enc.open = "text" /\ ~enc.delta_seen /\ e.open_ir_index = enc.open_ir_index
        /\ e.open_index = enc.open_index
        /\ e.citation_loss_seen <=> enc.citation_loss_seen \/ Cites(event)
    BY <1>5 DEF Advances, Tells
  <2>2. PICK k \in 1..l :
          /\ OpenFrom(s, k) /\ s[k].index = enc.open_ir_index
          /\ enc.open_index = NativeIndex(s, k)
          /\ enc.citation_loss_seen <=> CitedSince(s, k, l + 1)
    BY <1>1, <2>1 DEF Told, TextOpen
  <2>3. k \in 1..Len(t) /\ t[k] = s[k] /\ k \in Nat  BY <1>2
  <2>4. OpenFrom(t, k)
    <3>1. ASSUME NEW n \in (k + 1)..Len(t)
          PROVE  IsDelta(t[n])
      <4>1. (n \in 1..l /\ n \in (k + 1)..l) \/ n = l + 1  BY <1>2, <2>3
      <4>. QED BY <1>1, <1>2, <1>5, <2>2, <4>1 DEF OpenFrom
    <3>. QED BY <2>2, <2>3, <3>1 DEF OpenFrom
  <2>5. NativeIndex(t, k) = NativeIndex(s, k)  BY <1>0, <1>1, NativeFacts
  <2>6. CitedSince(t, k, (l + 1) + 1) <=> CitedSince(s, k, l + 1) \/ Cites(event)
    <3>1. \A n : n \in k..(((l + 1) + 1) - 1) <=> n \in k..((l + 1) - 1) \/ n = l + 1
      BY <1>2, <2>3
    <3>2. \A n \in k..((l + 1) - 1) : t[n] = s[n]  BY <1>2, <2>3
    <3>. QED BY <1>2, <3>1, <3>2 DEF CitedSince
  <2>. QED BY <1>1, <1>2, <2>1, <2>2, <2>3, <2>4, <2>5, <2>6 DEF TextOpen
<1>. QED BY <1>3, <1>4, <1>5

(* In order, every delta has a block before it. *)
LEMMA DeltasStayOwned ==
  ASSUME TypeOK, NEW s \in Seq(IrEvents), NEW event \in IrEvents, OwnedDeltas(s),
         HeldOpen(s, enc), Allowed(View(enc), event)
  PROVE  OwnedDeltas(Append(s, event))
<1>1. PICK t, l : t = Append(s, event) /\ l = Len(s)  OBVIOUS
<1>2. l \in Nat /\ Len(t) = l + 1 /\ t[l + 1] = event /\ \A j \in 1..l : t[j] = s[j]
  BY <1>1, AppendFacts
<1>3. ASSUME NEW k \in 1..l, IsDelta(t[k])
      PROVE  \E j \in 1..k : IsStart(t[j]) /\ t[j].index = t[k].index
  <2>1. PICK j \in 1..k : IsStart(s[j]) /\ s[j].index = s[k].index
    BY <1>1, <1>2, <1>3 DEF OwnedDeltas
  <2>2. t[j] = s[j] /\ t[k] = s[k]  BY <1>2
  <2>. QED BY <2>1, <2>2
<1>4. ASSUME IsDelta(event)
      PROVE  \E j \in 1..(l + 1) : IsStart(t[j]) /\ t[j].index = event.index
  <2>1. View(enc).place = "within" /\ event.index = View(enc).index
    BY <1>4 DEF Allowed, OpensAt, Continues, IsStart, IsDelta, IsStop
  <2>2. enc.open # "none" /\ ~enc.delta_seen /\ event.index = enc.open_ir_index
    BY <2>1 DEF View
  <2>3. PICK k \in 1..l : OpenFrom(s, k) /\ s[k].index = enc.open_ir_index
    BY <1>1, <2>2 DEF HeldOpen
  <2>4. k \in 1..(l + 1) /\ t[k] = s[k]  BY <1>2
  <2>. QED BY <2>2, <2>3, <2>4 DEF OpenFrom
<1>5. \A k \in 1..(l + 1) : k \in 1..l \/ k = l + 1  BY <1>2
<1>. QED BY <1>1, <1>2, <1>3, <1>4, <1>5 DEF OwnedDeltas

(* An accepted event in order keeps all that the struct remembers. *)
LEMMA ToldAppend ==
  ASSUME TypeOK, NEW s \in Seq(IrEvents), NEW event \in Events, Told(s, enc),
         HeldOpen(s, enc), NEW e, Advances(event, e), Tells(event, e),
         NEW next, NewIndexes(Append(s, event), next), Allowed(View(enc), event)
  PROVE  Told(Append(s, event), e)
<1>0. event \in IrEvents  BY EncoderAssumption
<1>1. PICK t, l : t = Append(s, event) /\ l = Len(s)  OBVIOUS
<1>2. l \in Nat /\ Len(t) = l + 1  BY <1>0, <1>1, AppendFacts
<1>3. e.losses = Concat(AllGaps(t))  BY <1>1, LossesGrow DEF Tells
<1>4. e.next_wire_index = Cardinality(NativeAt(t))
  <2>1. enc.next_wire_index = Cardinality(NativeAt(s))  BY DEF Told
  <2>2. e.next_wire_index = IF IsStart(event) /\ event.block.kind \notin OmittedKinds
                            THEN enc.next_wire_index + 1 ELSE enc.next_wire_index
    BY DEF Tells
  <2>3. Cardinality(NativeAt(t)) = IF IsStart(event) /\ event.block.kind \notin OmittedKinds
                                   THEN Cardinality(NativeAt(s)) + 1 ELSE Cardinality(NativeAt(s))
    BY <1>0, <1>1, NativeFacts
  <2>. QED BY <2>1, <2>2, <2>3
<1>5. e.tool_seen <=> Brought(t, l + 1, ToolKinds)
  BY <1>0, <1>1, BroughtStays DEF Told, Tells
<1>6. e.custom_seen <=> Brought(t, l + 1, ApplyPatchKinds)
  BY <1>0, <1>1, BroughtStays DEF Told, Tells
<1>7. e.open = "text" /\ ~e.delta_seen => TextOpen(t, e)  BY <1>1, TextStaysOpen
<1>8. OwnedDeltas(t)  BY <1>0, <1>1, DeltasStayOwned DEF Told
<1>. QED BY <1>1, <1>2, <1>3, <1>4, <1>5, <1>6, <1>7, <1>8 DEF Told

-----------------------------------------------------------------------------
(* What is told of the stream is an invariant of the struct. *)

LossInv == EncInv /\ (Faultless /\ InOrder(applied) => Told(applied, enc))

LEMMA InitLossInv == Init => LossInv
<1> SUFFICES ASSUME Init
             PROVE  Told(applied, enc)
  BY InitEncInv DEF LossInv
<1>1. PICK s, none : s = applied /\ none = <<>>  OBVIOUS
<1>2. s = <<>> /\ Len(s) = 0 /\ 1..Len(s) = {}  BY <1>1 DEF Init
<1>3. /\ enc.losses = none /\ enc.next_wire_index = 0 /\ enc.tool_seen = FALSE
      /\ enc.custom_seen = FALSE /\ enc.open = "none"
  BY <1>1 DEF Init, NewEncoder
<1>4. AllGaps(s) = none  BY <1>1, <1>2 DEF AllGaps
<1>5. Concat(AllGaps(s)) = none  BY <1>1, <1>4, ConcatEmpty
<1>6. NativeAt(s) = {}  BY <1>2 DEF NativeAt
<1>7. Cardinality(NativeAt(s)) = 0  BY <1>6, FS_EmptySet
<1>8. /\ ~Brought(s, Len(s), ToolKinds) /\ ~Brought(s, Len(s), ApplyPatchKinds)
      /\ OwnedDeltas(s)
  BY <1>2 DEF Brought, OwnedDeltas
<1>. QED BY <1>1, <1>3, <1>5, <1>7, <1>8 DEF Told

LEMMA StepLossInv == LossInv /\ [Next]_vars => LossInv'
<1> SUFFICES ASSUME LossInv, [Next]_vars, Faultless', InOrder(applied)'
             PROVE  Told(applied, enc)'
  BY StepEncInv DEF LossInv
<1>1. ASSUME NEW event \in Events, Apply(event)
      PROVE  Told(applied', enc')
  <2>1. /\ TypeOK /\ Consistent(enc) /\ applied \in Seq(Events)
        /\ enc \in Encoders /\ View(enc) \in Views
    BY ViewType DEF LossInv, EncInv, TypeOK
  <2>2. Tells(event, enc')  BY <1>1, <2>1, EveryCallTells
  <2>3. PICK e \in Encoders :
          /\ Consistent(e)
          /\ \/ /\ \E wire \in Seq(WireEvents) : Accepted(event, e, wire)
                /\ Advances(event, e)
             \/ /\ Refused(event, e)
                /\ ~Allowed(View(enc), event) \/ Unfit(View(enc), event)
    BY <1>1, <2>1, EveryOutcome DEF Outcome
  <2>4. PICK wire \in Seq(WireEvents) : Accepted(event, e, wire) /\ Advances(event, e)
    BY <2>3, RefusedFault
  <2>5. PICK d : d = [e EXCEPT !.wire = @ \o wire]  OBVIOUS
  <2>6. /\ View(d) = View(e) /\ d.open = e.open /\ d.open_ir_index = e.open_ir_index
        /\ d.next_index = e.next_index /\ d.delta_seen = e.delta_seen
    BY <2>3, <2>5, WiredFacts
  <2>7. enc' = d /\ applied' = Append(applied, event) /\ refused' = refused
    BY <2>4, <2>5 DEF Accepted
  <2>8. Advances(event, d)  BY <2>4, <2>6 DEF Advances
  <2>9. event \in IrEvents /\ applied \in Seq(IrEvents)
    BY <2>1, EncoderAssumption
  <2>10. Faultless /\ InOrder(applied) /\ Admits(applied, event)
    BY <2>7, <2>9, InOrderAppend DEF Faultless
  <2>11. Told(applied, enc) /\ HeldOpen(applied, enc) /\ Tracks(applied, View(enc))
    BY <2>10 DEF LossInv, EncInv, Follow
  <2>12. Allowed(View(enc), event)  BY <2>1, <2>10, <2>11, TrackedAdmits
  <2>13. NewIndexes(applied', enc'.next_index)
    <3>1. EncInv'  BY StepEncInv DEF LossInv
    <3>. QED BY <3>1 DEF EncInv, Follow
  <2>. QED BY <2>1, <2>2, <2>7, <2>8, <2>9, <2>11, <2>12, <2>13, ToldAppend
<1>2. CASE UNCHANGED vars
  <2>1. enc' = enc /\ applied' = applied /\ refused' = refused  BY <1>2 DEF vars
  <2>. QED BY <2>1 DEF LossInv, Faultless
<1>. QED BY <1>1, <1>2 DEF Next

(* In order, no block starts after the terminal event. *)
LEMMA NothingStartsLate ==
  ASSUME NEW s, Len(s) \in Nat, InOrder(s), NEW k \in 1..Len(s), s[k].type = "message_delta",
         NEW kinds
  PROVE  Brought(s, k, kinds) <=> Brought(s, Len(s), kinds)
<1>1. PICK l : l = Len(s)  OBVIOUS
<1>2. l \in Nat /\ k \in 1..l /\ k \in Nat /\ \A i \in 1..(l - 1) : Follows(s[i], s[i + 1])
  BY <1>1 DEF InOrder
<1>3. k < l => s[k + 1].type = "message_done"
  BY <1>2 DEF Follows, IsStart, IsDelta, IsStop
<1>4. ~(k + 1 < l)
  <2> SUFFICES ASSUME k + 1 < l
               PROVE  FALSE
    OBVIOUS
  <2>1. Follows(s[k + 1], s[(k + 1) + 1]) /\ s[k + 1].type = "message_done"
    BY <1>2, <1>3
  <2>. QED BY <2>1 DEF Follows, IsStart, IsDelta, IsStop
<1>5. \A j \in 1..l : j \in 1..k \/ (j = k + 1 /\ k < l)  BY <1>2, <1>4
<1>6. \A j \in 1..k : j \in 1..l  BY <1>2
<1>7. \A j \in 1..l : IsStart(s[j]) => j \in 1..k  BY <1>3, <1>5 DEF IsStart
<1>. QED BY <1>1, <1>6, <1>7 DEF Brought

(* The gaps of the property are the gaps of the stream. *)
LEMMA GapsApplied ==
  ASSUME TypeOK, InOrder(applied), NEW k \in 1..Len(applied)
  PROVE  GapsAt(k) = Gaps(applied, k)
<1>1. PICK s, x, b : s = applied /\ x = applied[k] /\ b = BlockOf(k)  OBVIOUS
<1>2. s \in Seq(IrEvents) /\ Len(s) \in Nat /\ x \in IrEvents
  BY <1>1, EncoderAssumption DEF TypeOK
<1>3. b = BlockAt(s, k)  BY <1>1, Zenon DEF BlockOf, BlockAt
<1>5. PICK first, i, left, patched :
        /\ first = (Cites(x) /\ ~CitedSince(s, b, k)) /\ i = NativeIndex(s, b)
        /\ left = (Kinds \intersect ToolKinds = {} /\ Kinds \intersect ApplyPatchKinds # {})
        /\ patched = Patched(s, k)
  OBVIOUS
<1>6. (CitesOpenAI(k) /\ ~\E j \in BlockOf(k)..(k - 1) : CitesOpenAI(j)) = first
  <2>1. CitesOpenAI(k) <=> Cites(x)  BY <1>1 DEF CitesOpenAI, Cites
  <2>2. \A j \in b..(k - 1) : CitesOpenAI(j) <=> Cites(s[j])
    BY <1>1 DEF CitesOpenAI, Cites
  <2>. QED BY <1>1, <1>5, <2>1, <2>2 DEF CitedSince
<1>7. NativeIndex(applied, BlockOf(k)) = i  BY <1>1, <1>5
<1>8. GapsAt(k) = GapOf(x, first, i, left)
  <2>1. PICK own, m : /\ own = (CitesOpenAI(k) /\ ~\E j \in BlockOf(k)..(k - 1) : CitesOpenAI(j))
                      /\ m = NativeIndex(applied, BlockOf(k))
    OBVIOUS
  <2>2. own = first /\ m = i  BY <1>6, <1>7, <2>1
  <2>3. PICK f, g, h, n :
          /\ f = <<<<"block", x.index>>>> /\ g = <<<<"citations", m>>>>
          /\ h = <<<<"stop_reason", -1>>>> /\ n = <<>>
    OBVIOUS
  <2>4. GapsAt(k) =
          CASE IsStart(x) /\ x.block.kind \in OmittedKinds -> f
            [] (IsStart(x) \/ IsDelta(x)) /\ own -> g
            [] /\ x.type = "message_delta" /\ x.stop_reason = "tool_use"
               /\ Kinds \intersect ToolKinds = {} /\ Kinds \intersect ApplyPatchKinds # {} -> h
            [] OTHER -> n
    BY <1>1, <2>1, <2>3, Zenon DEF GapsAt
  <2>5. GapOf(x, first, i, left) =
          CASE IsStart(x) /\ x.block.kind \in OmittedKinds -> f
            [] (IsStart(x) \/ IsDelta(x)) /\ own -> g
            [] x.type = "message_delta" /\ x.stop_reason = "tool_use" /\ left -> h
            [] OTHER -> n
    BY <2>2, <2>3, Zenon DEF GapOf
  <2>6. (/\ x.type = "message_delta" /\ x.stop_reason = "tool_use"
         /\ Kinds \intersect ToolKinds = {} /\ Kinds \intersect ApplyPatchKinds # {}) =
        (x.type = "message_delta" /\ x.stop_reason = "tool_use" /\ left)
    BY <1>5
  <2>. QED BY <2>4, <2>5, <2>6, Zenon
<1>9. Gaps(s, k) = GapOf(x, first, i, patched)
  BY <1>1, <1>3, <1>5, Zenon DEF Gaps
<1>10. GapOf(x, first, i, left) = GapOf(x, first, i, patched)
  <2>1. CASE x.type = "message_delta"
    <3>1. \A kinds : Kinds \intersect kinds # {} <=> Brought(s, Len(s), kinds)
      BY <1>1 DEF Kinds, Brought
    <3>2. \A kinds : Brought(s, k, kinds) <=> Brought(s, Len(s), kinds)
      BY <1>1, <1>2, <2>1, NothingStartsLate
    <3>3. left = patched  BY <1>5, <3>1, <3>2 DEF Patched
    <3>. QED BY <3>3
  <2>2. CASE x.type # "message_delta"  BY <2>2, Zenon DEF GapOf
  <2>. QED BY <2>1, <2>2
<1>. QED BY <1>1, <1>8, <1>9, <1>10

(* Until the first error and for a stream in grammar order: one loss for
   every omitted block, one for the citations of OpenAI of a text block,
   at the first of them, one for a stop reason that has become untrue; in
   the order of the events that cause them, and no other. *)
THEOREM EncoderTellsLosses == Spec => []LossesInOrderOfGaps
<1>1. LossInv => LossesInOrderOfGaps
  <2> SUFFICES ASSUME LossInv, Faultless, InOrder(applied)
               PROVE  enc.losses = Concat([k \in 1..Len(applied) |-> GapsAt(k)])
    BY DEF LossesInOrderOfGaps
  <2>1. TypeOK /\ enc.losses = Concat(AllGaps(applied))
    BY DEF LossInv, EncInv, Told
  <2>2. \A k \in 1..Len(applied) : GapsAt(k) = Gaps(applied, k)
    BY <2>1, GapsApplied
  <2>3. [k \in 1..Len(applied) |-> GapsAt(k)] = [k \in 1..Len(applied) |-> Gaps(applied, k)]
    BY <2>2
  <2>. QED BY <2>1, <2>3, Zenon DEF AllGaps
<1>. QED BY <1>1, InitLossInv, StepLossInv, PTL DEF Spec

-----------------------------------------------------------------------------
(* What is handed over *)

(* The forms of the native events that stand for an event. *)
LEMMA NativeForms ==
  ASSUME NEW e, NEW block, NEW i, NEW types, NEW called
  PROVE  /\ e.type = "message_start" =>
              NativeFor(e, block, i, types, called) = <<WireMessageStart(TRUE)>>
         /\ IsStart(e) /\ block.kind \notin OmittedKinds =>
              NativeFor(e, block, i, types, called) = <<WireBlockStart(i, Some(NativeForm(block)))>>
         /\ IsDelta(e) => NativeFor(e, block, i, types, called) = Carried(i, e.delta)
         /\ IsStop(e) /\ block.kind \notin OmittedKinds =>
              NativeFor(e, block, i, types, called)
                = Remainder(i, block, types) \o <<WireBlockStop(i)>>
         /\ (IsStart(e) \/ IsStop(e)) /\ block.kind \in OmittedKinds =>
              NativeFor(e, block, i, types, called) = <<>>
         /\ e.type = "message_delta" =>
              NativeFor(e, block, i, types, called) = <<NativeTerminal(e, called)>>
         /\ e.type = "message_done" =>
              NativeFor(e, block, i, types, called) = <<WireMessageStop>>
<1>1. PICK a, b, c, d, f, g, none, omitted :
        /\ a = <<WireMessageStart(TRUE)>> /\ b = <<WireBlockStart(i, Some(NativeForm(block)))>>
        /\ c = Carried(i, e.delta) /\ d = Remainder(i, block, types) \o <<WireBlockStop(i)>>
        /\ f = <<NativeTerminal(e, called)>> /\ g = <<WireMessageStop>> /\ none = <<>>
        /\ omitted = (block.kind \in OmittedKinds)
  OBVIOUS
<1>2. PICK n : n = NativeFor(e, block, i, types, called)  OBVIOUS
<1>3. n = CASE e.type = "message_start" -> a
            [] IsStart(e) /\ ~omitted -> b
            [] IsDelta(e) -> c
            [] IsStop(e) /\ ~omitted -> d
            [] e.type = "message_delta" -> f
            [] e.type = "message_done" -> g
            [] OTHER -> none
  BY <1>1, <1>2, Zenon DEF NativeFor
<1>4. /\ e.type = "message_start" => n = a
      /\ IsStart(e) /\ ~omitted => n = b
      /\ IsDelta(e) => n = c
      /\ IsStop(e) /\ ~omitted => n = d
      /\ (IsStart(e) \/ IsStop(e)) /\ omitted => n = none
      /\ e.type = "message_delta" => n = f
      /\ e.type = "message_done" => n = g
  BY <1>3 DEF IsStart, IsDelta, IsStop
<1>. QED BY <1>1, <1>2, <1>4, Zenon

LEMMA StartForm ==
  ASSUME NEW e, NEW block, NEW i, NEW types, NEW called, IsStart(e), block.kind \notin OmittedKinds
  PROVE  NativeFor(e, block, i, types, called) = <<WireBlockStart(i, Some(NativeForm(block)))>>
<1>1. PICK n, m : n = NativeFor(e, block, i, types, called)
                  /\ m = <<WireBlockStart(i, Some(NativeForm(block)))>>
  OBVIOUS
<1>2. IsStart(e) /\ block.kind \notin OmittedKinds => n = m
  BY <1>1, NativeForms, Zenon
<1>. QED BY <1>1, <1>2

LEMMA DeltaForm ==
  ASSUME NEW e, NEW block, NEW i, NEW types, NEW called, IsDelta(e)
  PROVE  NativeFor(e, block, i, types, called) = Carried(i, e.delta)
<1>1. PICK a, b, c, d, f, g, none, omitted :
        /\ a = <<WireMessageStart(TRUE)>> /\ b = <<WireBlockStart(i, Some(NativeForm(block)))>>
        /\ c = Carried(i, e.delta) /\ d = Remainder(i, block, types) \o <<WireBlockStop(i)>>
        /\ f = <<NativeTerminal(e, called)>> /\ g = <<WireMessageStop>> /\ none = <<>>
        /\ omitted = (block.kind \in OmittedKinds)
  OBVIOUS
<1>2. PICK n : n = NativeFor(e, block, i, types, called)  OBVIOUS
<1>3. n = CASE e.type = "message_start" -> a
            [] IsStart(e) /\ ~omitted -> b
            [] IsDelta(e) -> c
            [] IsStop(e) /\ ~omitted -> d
            [] e.type = "message_delta" -> f
            [] e.type = "message_done" -> g
            [] OTHER -> none
  BY <1>1, <1>2, Zenon DEF NativeFor
<1>4. n = c  BY <1>3 DEF IsStart, IsDelta, IsStop
<1>. QED BY <1>1, <1>2, <1>4, Zenon

LEMMA StopForm ==
  ASSUME NEW e, NEW block, NEW i, NEW types, NEW called, IsStop(e)
  PROVE  NativeFor(e, block, i, types, called) =
           IF block.kind \in OmittedKinds THEN <<>>
           ELSE Remainder(i, block, types) \o <<WireBlockStop(i)>>
<1>1. PICK n, m, none : /\ n = NativeFor(e, block, i, types, called) /\ none = <<>>
                        /\ m = Remainder(i, block, types) \o <<WireBlockStop(i)>>
  OBVIOUS
<1>2. /\ IsStop(e) /\ block.kind \notin OmittedKinds => n = m
      /\ (IsStart(e) \/ IsStop(e)) /\ block.kind \in OmittedKinds => n = none
  BY <1>1, NativeForms, Zenon
<1>. QED BY <1>1, <1>2

LEMMA CarriedForms ==
  ASSUME NEW i, NEW delta
  PROVE  /\ delta.type \in {"text_delta", "input_json_delta", "thinking_delta", "signature_delta"} =>
              Carried(i, delta) = <<Says(i, delta.type, delta.text)>>
         /\ delta.type = "citation_delta" /\ delta.text[1] = "anthropic" =>
              Carried(i, delta) = <<WireBlockDelta(i, Some(CitationsDelta("valid")))>>
         /\ delta.type = "citation_delta" /\ delta.text[1] # "anthropic" =>
              Carried(i, delta) = <<>>
         /\ delta.type = "custom_tool_input_delta" => Carried(i, delta) = <<>>
<1>1. PICK a, b, none, c, cites :
        /\ a = <<Says(i, delta.type, delta.text)>> /\ none = <<>>
        /\ b = <<WireBlockDelta(i, Some(CitationsDelta("valid")))>> /\ c = Carried(i, delta)
        /\ cites = (delta.text[1] = "anthropic")
  OBVIOUS
<1>2. c = CASE delta.type \in {"text_delta", "input_json_delta"} \union ThinkingDeltas -> a
            [] delta.type = "citation_delta" /\ cites -> b
            [] OTHER -> none
  BY <1>1, Zenon DEF Carried
<1>3. /\ delta.type \in {"text_delta", "input_json_delta", "thinking_delta", "signature_delta"}
           => c = a
      /\ delta.type = "citation_delta" /\ cites => c = b
      /\ delta.type = "citation_delta" /\ ~cites => c = none
      /\ delta.type = "custom_tool_input_delta" => c = none
  BY <1>2 DEF ThinkingDeltas
<1>. QED BY <1>1, <1>3, Zenon

LEMMA RemainderForms ==
  ASSUME NEW i, NEW block, NEW types
  PROVE  /\ block.kind = "tool_use" /\ "input_json_delta" \notin types =>
              Remainder(i, block, types) = <<Says(i, "input_json_delta", block.text)>>
         /\ block.kind = "custom_tool_use" =>
              Remainder(i, block, types) = <<Says(i, "input_json_delta", Wrap(block.text))>>
         /\ block.kind = "thinking" =>
              Remainder(i, block, types) =
                (IF block.text # <<>> /\ "thinking_delta" \notin types
                 THEN <<Says(i, "thinking_delta", block.text)>> ELSE <<>>)
                \o (IF block.signature # <<>> /\ "signature_delta" \notin types
                    THEN <<Says(i, "signature_delta", block.signature)>> ELSE <<>>)
         /\ block.kind = "tool_use" /\ "input_json_delta" \in types =>
              Remainder(i, block, types) = <<>>
         /\ block.kind \in {"text", "redacted_thinking"} => Remainder(i, block, types) = <<>>
<1>1. PICK a, b, c, none, r, had :
        /\ a = <<Says(i, "input_json_delta", block.text)>>
        /\ b = <<Says(i, "input_json_delta", Wrap(block.text))>>
        /\ c = (IF block.text # <<>> /\ "thinking_delta" \notin types
                THEN <<Says(i, "thinking_delta", block.text)>> ELSE <<>>)
               \o (IF block.signature # <<>> /\ "signature_delta" \notin types
                   THEN <<Says(i, "signature_delta", block.signature)>> ELSE <<>>)
        /\ none = <<>> /\ r = Remainder(i, block, types)
        /\ had = ("input_json_delta" \in types)
  OBVIOUS
<1>2. r = CASE block.kind = "tool_use" /\ ~had -> a
            [] block.kind = "custom_tool_use" -> b
            [] block.kind = "thinking" -> c
            [] OTHER -> none
  BY <1>1, Zenon DEF Remainder
<1>3. /\ block.kind = "tool_use" /\ ~had => r = a
      /\ block.kind = "custom_tool_use" => r = b
      /\ block.kind = "thinking" => r = c
      /\ block.kind = "tool_use" /\ had => r = none
      /\ block.kind \in {"text", "redacted_thinking"} => r = none
  BY <1>2
<1>. QED BY <1>1, <1>3, Zenon

(* What the struct d remembers of the open block, once deltas of these
   types came. *)
Remembers(d, block, types) ==
  /\ block.kind = "thinking" =>
       /\ d.thinking_input = block.text /\ d.thinking_signature = block.signature
       /\ d.thinking_parts = <<>> <=> "thinking_delta" \notin types
       /\ d.signature_seen <=> "signature_delta" \in types
  /\ block.kind \in ToolKinds => d.tool_input = block.text
  /\ block.kind = "tool_use" => (d.tool_parts = <<>> <=> "input_json_delta" \notin types)

(* The events that a call has handed over. *)
Wrote(wire) == wire \in Seq(WireEvents) /\ enc'.wire = enc.wire \o wire

(* A call hands over the native events that stand for its event, and keeps
   what is to be remembered of the block. *)
MessageSpeaks(event) ==
  /\ \A block, i, types : Wrote(NativeFor(event, block, i, types, enc.tool_seen))
  /\ event.type \in {"message_start", "message_delta"} => enc'.open = "none"
  /\ event.type = "message_done" => enc'.done

StartSpeaks(event) ==
  /\ event.block.kind \in EncodableKinds
  /\ \A types, called :
       Wrote(NativeFor(event, event.block, enc.next_wire_index, types, called))
  /\ event.block.kind \notin OmittedKinds => enc'.open_index = enc.next_wire_index
  /\ Remembers(enc', event.block, {})

DeltaSpeaks(event) ==
  /\ event.index = enc.open_ir_index /\ enc.open \in {"text", "thinking", "tool", "custom"}
  /\ \A block, types, called :
       Wrote(NativeFor(event, block, enc.open_index, types, called))
  /\ enc'.open_index = enc.open_index
  /\ \A block, types :
       OpenAs(block.kind) = enc.open /\ Remembers(enc, block, types) =>
         Remembers(enc', block, types \union {event.delta.type})

StopSpeaks(event) ==
  /\ event.index = enc.open_ir_index /\ enc.open # "none" /\ enc'.open = "none"
  /\ \A block, types, called :
       /\ block \in Blocks /\ block.kind \in EncodableKinds /\ OpenAs(block.kind) = enc.open
       /\ Remembers(enc, block, types)
       => Wrote(NativeFor(event, block, enc.open_index, types, called))

Speaks(event) ==
  /\ ~enc.done
  /\ event.type \in {"message_start", "message_delta", "message_done"} => MessageSpeaks(event)
  /\ IsStart(event) => StartSpeaks(event)
  /\ IsDelta(event) => DeltaSpeaks(event)
  /\ IsStop(event) => StopSpeaks(event)

(* What is handed over changes nothing else. *)
LEMMA AcceptedFacts ==
  ASSUME NEW event, NEW e \in Encoders, NEW wire \in Seq(WireEvents), Accepted(event, e, wire),
         e.wire = enc.wire
  PROVE  /\ Wrote(wire)
         /\ enc'.open = e.open /\ enc'.open_index = e.open_index /\ enc'.done = e.done
         /\ enc'.thinking_input = e.thinking_input
         /\ enc'.thinking_signature = e.thinking_signature
         /\ enc'.thinking_parts = e.thinking_parts /\ enc'.signature_seen = e.signature_seen
         /\ enc'.tool_input = e.tool_input /\ enc'.tool_parts = e.tool_parts
         /\ \A block, types : Remembers(enc', block, types) <=> Remembers(e, block, types)
<1>1. PICK sent : sent = e.wire \o wire  OBVIOUS
<1>2. enc' = [e EXCEPT !.wire = sent]  BY <1>1 DEF Accepted, Encoders
<1>3. /\ enc'.open = e.open /\ enc'.open_index = e.open_index /\ enc'.done = e.done
      /\ enc'.thinking_input = e.thinking_input
      /\ enc'.thinking_signature = e.thinking_signature
      /\ enc'.thinking_parts = e.thinking_parts /\ enc'.signature_seen = e.signature_seen
      /\ enc'.tool_input = e.tool_input /\ enc'.tool_parts = e.tool_parts
      /\ enc'.wire = sent
  BY <1>2 DEF Encoders
<1>4. Wrote(wire)  BY <1>1, <1>3 DEF Wrote
<1>5. ASSUME NEW block, NEW types
      PROVE  Remembers(enc', block, types) <=> Remembers(e, block, types)
  BY <1>3, Zenon DEF Remembers
<1>. QED BY <1>3, <1>4, <1>5

LEMMA MessageStartSpeaks ==
  ASSUME TypeOK, Consistent(enc), NEW event \in Events, ApplyMessageStart(event), Faultless'
  PROVE  Speaks(event)
<1>1. /\ enc \in Encoders /\ event.type = "message_start" /\ ~Refused(event, enc)
      /\ ~enc.done /\ ~enc.started
  BY RefusedFault DEF TypeOK, ApplyMessageStart, Receives
<1>2. PICK e, wire : e = [enc EXCEPT !.started = TRUE] /\ wire = <<WireMessageStart(TRUE)>>
  OBVIOUS
<1>3. Accepted(event, e, wire)  BY <1>1, <1>2 DEF ApplyMessageStart
<1>4. e \in Encoders /\ e.wire = enc.wire /\ e.open = enc.open /\ enc.open = "none"
  BY <1>1, <1>2 DEF Encoders, Consistent
<1>5. wire \in Seq(WireEvents)  BY <1>2, WireTypes, WireLists
<1>6. Wrote(wire) /\ enc'.open = "none"  BY <1>3, <1>4, <1>5, AcceptedFacts
<1>7. ~IsStart(event) /\ ~IsDelta(event) /\ ~IsStop(event) /\ event.type # "message_done"
  BY <1>1 DEF IsStart, IsDelta, IsStop
<1>8. \A block, i, types, called : NativeFor(event, block, i, types, called) = wire
  BY <1>1, <1>2, NativeForms
<1>. QED BY <1>1, <1>6, <1>7, <1>8, Zenon DEF Speaks, MessageSpeaks

(* The start of a block with a native form. *)
LEMMA NativeStartSpeaks ==
  ASSUME TypeOK, NEW event \in Events, IsStart(event), ~enc.done,
         event.block.kind \in EncodableKinds, event.block.kind \notin OmittedKinds,
         NEW e \in Encoders, e.wire = enc.wire, e.open_index = enc.next_wire_index,
         Remembers(e, event.block, {}), NativeForm(event.block) \in NativeBlocks,
         Accepted(event, e, <<WireBlockStart(enc.next_wire_index, Some(NativeForm(event.block)))>>)
  PROVE  Speaks(event)
<1>1. PICK wire : wire = <<WireBlockStart(enc.next_wire_index, Some(NativeForm(event.block)))>>
  OBVIOUS
<1>2. wire \in Seq(WireEvents)
  <2>1. enc.next_wire_index \in Int  BY DEF TypeOK, Encoders
  <2>2. WireBlockStart(enc.next_wire_index, Some(NativeForm(event.block))) \in WireEvents
    BY <2>1, WireTypes
  <2>. QED BY <1>1, <2>2, WireLists
<1>3. Accepted(event, e, wire)  BY <1>1
<1>4. Wrote(wire) /\ enc'.open_index = enc.next_wire_index /\ Remembers(enc', event.block, {})
  BY <1>2, <1>3, AcceptedFacts
<1>5. ~IsDelta(event) /\ ~IsStop(event)
      /\ event.type \notin {"message_start", "message_delta", "message_done"}
  BY DEF IsStart, IsDelta, IsStop
<1>6. \A types, called :
        NativeFor(event, event.block, enc.next_wire_index, types, called) = wire
  <2> SUFFICES ASSUME NEW types, NEW called
               PROVE  NativeFor(event, event.block, enc.next_wire_index, types, called) = wire
    OBVIOUS
  <2>1. NativeFor(event, event.block, enc.next_wire_index, types, called)
          = <<WireBlockStart(enc.next_wire_index, Some(NativeForm(event.block)))>>
    BY StartForm
  <2>. QED BY <1>1, <2>1, Zenon
<1>7. StartSpeaks(event)  BY <1>4, <1>6, Zenon DEF StartSpeaks
<1>. QED BY <1>5, <1>7 DEF Speaks

LEMMA TextStartSpeaks ==
  ASSUME TypeOK, Consistent(enc), NEW event \in Events, ApplyTextStart(event)
  PROVE  Speaks(event)
<1>1. /\ enc \in Encoders /\ IsStart(event) /\ event.block.kind = "text" /\ ~enc.done
      /\ event.block \in Blocks
  BY StartFacts DEF ApplyTextStart
<1>2. PICK d, lost, i : /\ d = Open(enc, "text") /\ lost = ("openai" \in Sources(event.block))
                        /\ i = enc.next_wire_index
  OBVIOUS
<1>3. PICK opened : opened = [d EXCEPT !.citation_loss_seen = lost]  OBVIOUS
<1>4. /\ d \in Encoders /\ d.wire = enc.wire /\ i \in Int /\ d.open_index = i
      /\ lost \in BOOLEAN
  <2>1. d \in Encoders /\ d.open_index = i /\ i \in Int
    BY <1>1, <1>2, OpenFacts DEF OpenKinds
  <2>2. d.wire = enc.wire  BY <1>1, <1>2 DEF Open, Encoders
  <2>. QED BY <1>2, <2>1, <2>2
<1>5. opened \in Encoders /\ opened.wire = enc.wire /\ opened.open_index = i
  BY <1>3, <1>4, ZenonT(60) DEF Encoders
<1>6. PICK e : e = IF lost THEN Lose(opened, <<"citations", opened.open_index>>) ELSE opened
  OBVIOUS
<1>7. PICK block : block = [NativeBlock("text", "", <<>>, event.block.text) EXCEPT
                              !.citations = IF "anthropic" \in Sources(event.block)
                                            THEN "valid" ELSE "none"]
  OBVIOUS
<1>8. Accepted(event, e, <<WireBlockStart(opened.open_index, Some(block))>>)
  BY <1>2, <1>3, <1>6, <1>7, Zenon DEF ApplyTextStart
<1>9. block = NativeForm(event.block)  BY <1>1, <1>7, Zenon DEF NativeForm
<1>10. block \in NativeBlocks
  <2>1. event.block.text \in Text /\ "" \in Tokens /\ "text" \in NativeKinds
    BY <1>1 DEF Blocks, Tokens, NativeKinds
  <2>2. <<>> \in Text  BY DEF Text
  <2>3. (IF "anthropic" \in Sources(event.block) THEN "valid" ELSE "none") \in {"none", "valid"}
    OBVIOUS
  <2>. QED BY <1>7, <2>1, <2>2, <2>3, StartTypes
<1>11. e \in Encoders /\ e.wire = enc.wire /\ e.open_index = i
  <2>1. CASE lost
    <3>1. Lose(opened, <<"citations", opened.open_index>>) \in Encoders
      BY <1>4, <1>5, LoseFacts DEF LossKinds
    <3>2. e.wire = opened.wire /\ e.open_index = opened.open_index
      BY <1>5, <1>6, <2>1 DEF Lose, Encoders
    <3>. QED BY <1>5, <1>6, <2>1, <3>1, <3>2
  <2>2. CASE ~lost  BY <1>5, <1>6, <2>2
  <2>. QED BY <2>1, <2>2
<1>12. Remembers(e, event.block, {})  BY <1>1 DEF Remembers, ToolKinds
<1>13. event.block.kind \in EncodableKinds /\ event.block.kind \notin OmittedKinds
  BY <1>1 DEF EncodableKinds, OmittedKinds, ApplyPatchKinds
<1>. QED BY <1>1, <1>2, <1>5, <1>8, <1>9, <1>10, <1>11, <1>12, <1>13, NativeStartSpeaks

LEMMA ThinkingStartSpeaks ==
  ASSUME TypeOK, Consistent(enc), NEW event \in Events, ApplyThinkingStart(event)
  PROVE  Speaks(event)
<1>1. /\ enc \in Encoders /\ IsStart(event) /\ event.block.kind = "thinking" /\ ~enc.done
      /\ event.block \in Blocks
  <2>1. Starting(event, {"thinking"})  BY DEF ApplyThinkingStart
  <2>. QED BY <2>1, StartFacts
<1>2. PICK d, none : d = Open(enc, "thinking") /\ none = <<>>  OBVIOUS
<1>3. d \in Encoders /\ d.wire = enc.wire /\ d.open_index = enc.next_wire_index
  <2>1. d \in Encoders /\ d.open_index = enc.next_wire_index
    BY <1>2, OpenFacts DEF OpenKinds
  <2>2. d.wire = enc.wire  BY <1>1, <1>2 DEF Open, Encoders
  <2>. QED BY <2>1, <2>2
<1>4. PICK e :
        e = [d EXCEPT !.thinking_input = event.block.text,
                      !.thinking_signature = event.block.signature,
                      !.thinking_parts = none, !.signature_seen = FALSE]
  OBVIOUS
<1>5. Accepted(event, e, <<WireBlockStart(enc.next_wire_index,
                                          Some(NativeBlock("thinking", "", <<>>, <<>>)))>>)
  BY <1>2, <1>4, Zenon DEF ApplyThinkingStart
<1>6. none \in Seq(Text) /\ none \in Text  BY <1>2 DEF Text
<1>7. e \in Encoders /\ e.wire = enc.wire /\ e.open_index = enc.next_wire_index
  BY <1>1, <1>3, <1>4, <1>6 DEF Encoders, Blocks
<1>8. /\ e.thinking_input = event.block.text /\ e.thinking_signature = event.block.signature
      /\ e.thinking_parts = none /\ e.signature_seen = FALSE
  BY <1>3, <1>4 DEF Encoders
<1>9. Remembers(e, event.block, {})
  BY <1>1, <1>2, <1>8 DEF Remembers, ToolKinds
<1>10. NativeForm(event.block) = NativeBlock("thinking", "", <<>>, <<>>)
  BY <1>1 DEF NativeForm
<1>11. NativeForm(event.block) \in NativeBlocks
  <2>1. "" \in Tokens /\ "thinking" \in NativeKinds  BY DEF Tokens, NativeKinds
  <2>. QED BY <1>2, <1>6, <1>10, <2>1, StartTypes
<1>12. event.block.kind \in EncodableKinds /\ event.block.kind \notin OmittedKinds
  BY <1>1 DEF EncodableKinds, OmittedKinds, ApplyPatchKinds
<1>. QED BY <1>1, <1>5, <1>7, <1>9, <1>10, <1>11, <1>12, NativeStartSpeaks

LEMMA RedactedStartSpeaks ==
  ASSUME TypeOK, Consistent(enc), NEW event \in Events, ApplyRedactedStart(event)
  PROVE  Speaks(event)
<1>1. /\ enc \in Encoders /\ IsStart(event) /\ event.block.kind = "redacted_thinking"
      /\ ~enc.done /\ event.block \in Blocks
  <2>1. Starting(event, {"redacted_thinking"})  BY DEF ApplyRedactedStart
  <2>. QED BY <2>1, StartFacts
<1>2. PICK e : e = Open(enc, "redacted")  OBVIOUS
<1>3. e \in Encoders /\ e.wire = enc.wire /\ e.open_index = enc.next_wire_index
  <2>1. e \in Encoders /\ e.open_index = enc.next_wire_index
    BY <1>2, OpenFacts DEF OpenKinds
  <2>2. e.wire = enc.wire  BY <1>1, <1>2 DEF Open, Encoders
  <2>. QED BY <2>1, <2>2
<1>4. Accepted(event, e, <<WireBlockStart(enc.next_wire_index,
                 Some(NativeBlock("redacted_thinking", "", <<>>, event.block.text)))>>)
  BY <1>2, Zenon DEF ApplyRedactedStart
<1>5. NativeForm(event.block) = NativeBlock("redacted_thinking", "", <<>>, event.block.text)
  BY <1>1 DEF NativeForm
<1>6. NativeForm(event.block) \in NativeBlocks
  <2>1. "" \in Tokens /\ "redacted_thinking" \in NativeKinds /\ event.block.text \in Text
    BY <1>1 DEF Tokens, NativeKinds, Blocks
  <2>2. <<>> \in Text  BY DEF Text
  <2>. QED BY <1>5, <2>1, <2>2, StartTypes
<1>7. Remembers(e, event.block, {})  BY <1>1 DEF Remembers, ToolKinds
<1>8. event.block.kind \in EncodableKinds /\ event.block.kind \notin OmittedKinds
  BY <1>1 DEF EncodableKinds, OmittedKinds, ApplyPatchKinds
<1>. QED BY <1>1, <1>3, <1>4, <1>5, <1>6, <1>7, <1>8, NativeStartSpeaks

LEMMA ToolStartSpeaks ==
  ASSUME TypeOK, Consistent(enc), NEW event \in Events, ApplyToolStart(event)
  PROVE  Speaks(event)
<1>1. /\ enc \in Encoders /\ IsStart(event) /\ event.block.kind \in ToolKinds /\ ~enc.done
      /\ event.block \in Blocks
  BY StartFacts DEF ApplyToolStart
<1>2. PICK kind, none : /\ kind = (IF event.block.kind = "tool_use" THEN "tool" ELSE "custom")
                        /\ none = <<>>
  OBVIOUS
<1>3. PICK d : d = Open(enc, kind)  OBVIOUS
<1>4. d \in Encoders /\ d.wire = enc.wire /\ d.open_index = enc.next_wire_index
  <2>1. d \in Encoders /\ d.open_index = enc.next_wire_index
    BY <1>2, <1>3, OpenFacts DEF OpenKinds
  <2>2. d.wire = enc.wire  BY <1>1, <1>3 DEF Open, Encoders
  <2>. QED BY <2>1, <2>2
<1>5. PICK e : e = [d EXCEPT !.tool_seen = TRUE, !.tool_input = event.block.text,
                             !.tool_parts = none]
  OBVIOUS
<1>6. PICK name : name = <<"{}">>  OBVIOUS
<1>7. Accepted(event, e, <<WireBlockStart(enc.next_wire_index,
                 Some(NativeBlock("tool_use", event.block.id, event.block.name, name)))>>)
  BY <1>2, <1>3, <1>5, <1>6, Zenon DEF ApplyToolStart
<1>8. none \in Seq(Text) /\ name \in Text
  <2>1. PICK object : object = "{}"  OBVIOUS
  <2>2. name \in Text
    <3>1. object \in Tokens  BY <2>1, Zenon DEF Tokens
    <3>2. <<object>> \in Text  BY <3>1 DEF Text
    <3>. QED BY <1>6, <2>1, <3>2, Zenon
  <2>3. none \in Seq(Text)  BY <1>2
  <2>. QED BY <2>2, <2>3
<1>9. e \in Encoders /\ e.wire = enc.wire /\ e.open_index = enc.next_wire_index
  BY <1>1, <1>4, <1>5, <1>8 DEF Encoders, Blocks
<1>10. e.tool_input = event.block.text /\ e.tool_parts = none
  BY <1>4, <1>5 DEF Encoders
<1>11. Remembers(e, event.block, {})
  BY <1>1, <1>2, <1>10 DEF Remembers, ToolKinds
<1>12. NativeForm(event.block) = NativeBlock("tool_use", event.block.id, event.block.name, name)
  BY <1>1, <1>6 DEF NativeForm, ToolKinds
<1>13. NativeForm(event.block) \in NativeBlocks
  <2>1. /\ event.block.id \in Tokens /\ event.block.name \in Text
        /\ "tool_use" \in NativeKinds
    BY <1>1 DEF Blocks, NativeKinds
  <2>. QED BY <1>8, <1>12, <2>1, StartTypes
<1>14. event.block.kind \in EncodableKinds /\ event.block.kind \notin OmittedKinds
  BY <1>1 DEF EncodableKinds, OmittedKinds, ApplyPatchKinds, ToolKinds
<1>. QED BY <1>1, <1>7, <1>9, <1>11, <1>12, <1>13, <1>14, NativeStartSpeaks

LEMMA OmittedStartSpeaks ==
  ASSUME TypeOK, Consistent(enc), NEW event \in Events, ApplyOmittedStart(event)
  PROVE  Speaks(event)
<1>1. /\ enc \in Encoders /\ IsStart(event) /\ event.block.kind \in OmittedKinds /\ ~enc.done
      /\ event.index \in Nat
  BY StartFacts DEF ApplyOmittedStart
<1>2. PICK i, custom, none : /\ i = enc.next_index + 1 /\ none = <<>>
                             /\ custom = (enc.custom_seen \/ event.block.kind \in CustomKinds)
  OBVIOUS
<1>3. PICK d : d = [enc EXCEPT !.next_index = i, !.open = "atomic",
                               !.open_ir_index = event.index, !.custom_seen = custom]
  OBVIOUS
<1>4. PICK e : e = Lose(d, <<"block", event.index>>)  OBVIOUS
<1>5. Accepted(event, e, none)
  <2>1. d = [enc EXCEPT !.next_index = @ + 1, !.open = "atomic", !.open_ir_index = event.index,
                        !.custom_seen = @ \/ event.block.kind \in CustomKinds]
    BY <1>1, <1>2, <1>3 DEF Encoders
  <2>. QED BY <1>2, <1>4, <2>1, Zenon DEF ApplyOmittedStart
<1>6. d \in Encoders /\ d.wire = enc.wire
  <2>1. i \in Nat /\ custom \in BOOLEAN /\ "atomic" \in OpenKinds
    BY <1>1, <1>2 DEF Encoders, OpenKinds
  <2>. QED BY <1>1, <1>3, <2>1 DEF Encoders
<1>7. e \in Encoders  BY <1>1, <1>4, <1>6, LoseFacts DEF LossKinds
<1>8. e.wire = enc.wire  BY <1>4, <1>6 DEF Lose, Encoders
<1>9. none \in Seq(WireEvents)  BY <1>2
<1>10. Wrote(none)  BY <1>5, <1>7, <1>8, <1>9, AcceptedFacts
<1>11. /\ ~IsDelta(event) /\ ~IsStop(event)
       /\ event.type \notin {"message_start", "message_delta", "message_done"}
  BY <1>1 DEF IsStart, IsDelta, IsStop
<1>12. \A types, called :
         NativeFor(event, event.block, enc.next_wire_index, types, called) = none
  BY <1>1, <1>2, NativeForms
<1>13. Remembers(enc', event.block, {})
  BY <1>1 DEF Remembers, ToolKinds, OmittedKinds, ApplyPatchKinds
<1>14. event.block.kind \in EncodableKinds  BY <1>1 DEF EncodableKinds
<1>15. StartSpeaks(event)
  BY <1>1, <1>10, <1>12, <1>13, <1>14, Zenon DEF StartSpeaks
<1>. QED BY <1>1, <1>11, <1>15 DEF Speaks

LEMMA BlockStartSpeaks ==
  ASSUME TypeOK, Consistent(enc), NEW event \in Events, ApplyBlockStart(event), Faultless'
  PROVE  Speaks(event)
<1>1. ~ApplyBlockStartRefused(event)  BY RefusedFault DEF ApplyBlockStartRefused
<1>2. ~ApplyTextStartUnknownSource(event)
  BY RefusedFault DEF ApplyTextStartUnknownSource
<1>. QED
  BY <1>1, <1>2, TextStartSpeaks, ThinkingStartSpeaks, RedactedStartSpeaks, ToolStartSpeaks,
     OmittedStartSpeaks DEF ApplyBlockStart

(* A delta whose fragment is handed over, or nothing of it. *)
LEMMA FragmentSpeaks ==
  ASSUME TypeOK, Consistent(enc), NEW event \in Events, NEW types, Continuing(event, types),
         NEW e \in Encoders, e.wire = enc.wire, e.open_index = enc.open_index,
         NEW wire \in Seq(WireEvents), Accepted(event, e, wire),
         wire = Carried(enc.open_index, event.delta),
         \A block, had : OpenAs(block.kind) = enc.open /\ Remembers(enc, block, had) =>
                           Remembers(e, block, had \union {event.delta.type})
  PROVE  Speaks(event)
<1>1. IsDelta(event) /\ ~enc.done /\ event.index = enc.open_ir_index
  BY ContinuingFacts
<1>2. enc.open \in {"text", "thinking", "tool", "custom"}
  BY DEF Continuing, DeltaAccepted
<1>3. /\ Wrote(wire) /\ enc'.open_index = enc.open_index
      /\ \A block, had : Remembers(enc', block, had) <=> Remembers(e, block, had)
  BY AcceptedFacts
<1>4. ASSUME NEW block, NEW had, NEW called
      PROVE  NativeFor(event, block, enc.open_index, had, called) = wire
  <2>1. NativeFor(event, block, enc.open_index, had, called)
          = Carried(enc.open_index, event.delta)
    BY <1>1, DeltaForm
  <2>. QED BY <2>1
<1>5. DeltaSpeaks(event)  BY <1>1, <1>2, <1>3, <1>4, Zenon DEF DeltaSpeaks
<1>6. /\ ~IsStart(event) /\ ~IsStop(event)
      /\ event.type \notin {"message_start", "message_delta", "message_done"}
  BY <1>1 DEF IsStart, IsDelta, IsStop
<1>. QED BY <1>1, <1>5, <1>6 DEF Speaks

(* Deltas of other types leave alone what is remembered. *)
LEMMA OtherTypes ==
  ASSUME NEW e, NEW type,
         type \notin {"thinking_delta", "signature_delta", "input_json_delta"},
         e.thinking_input = enc.thinking_input, e.thinking_signature = enc.thinking_signature,
         e.thinking_parts = enc.thinking_parts, e.signature_seen = enc.signature_seen,
         e.tool_input = enc.tool_input,
         enc.open # "custom" => e.tool_parts = enc.tool_parts,
         NEW block, NEW had, OpenAs(block.kind) = enc.open, Remembers(enc, block, had)
  PROVE  Remembers(e, block, had \union {type})
<1>1. PICK more : more = had \union {type}  OBVIOUS
<1>2. /\ "thinking_delta" \in more <=> "thinking_delta" \in had
      /\ "signature_delta" \in more <=> "signature_delta" \in had
      /\ "input_json_delta" \in more <=> "input_json_delta" \in had
  BY <1>1
<1>3. block.kind = "tool_use" => enc.open = "tool"  BY DEF OpenAs
<1>4. Remembers(e, block, more)  BY <1>2, <1>3 DEF Remembers
<1>. QED BY <1>1, <1>4

LEMMA TextDeltaSpeaks ==
  ASSUME TypeOK, Consistent(enc), NEW event \in Events, ApplyTextDelta(event)
  PROVE  Speaks(event)
<1>1. Continuing(event, {"text_delta"})  BY DEF ApplyTextDelta
<1>2. enc \in Encoders /\ event.delta.type = "text_delta" /\ event.delta.text \in Text
  BY <1>1, ContinuingFacts
<1>3. PICK wire : wire = <<SentDelta("text_delta", event.delta.text)>>  OBVIOUS
<1>4. Accepted(event, enc, wire)  BY <1>3 DEF ApplyTextDelta
<1>5. wire \in Seq(WireEvents)
  <2>1. SentDelta("text_delta", event.delta.text) \in WireEvents
    BY <1>2, SentTypes DEF NativeTypes
  <2>. QED BY <1>3, <2>1, WireLists
<1>6. wire = Carried(enc.open_index, event.delta)
  <2>1. Carried(enc.open_index, event.delta)
          = <<Says(enc.open_index, event.delta.type, event.delta.text)>>
    BY <1>2, CarriedForms
  <2>. QED BY <1>2, <1>3, <2>1, Zenon DEF Says, SentDelta
<1>7. \A block, had : OpenAs(block.kind) = enc.open /\ Remembers(enc, block, had) =>
                        Remembers(enc, block, had \union {event.delta.type})
  BY <1>2, OtherTypes
<1>. QED BY <1>1, <1>2, <1>4, <1>5, <1>6, <1>7, FragmentSpeaks

LEMMA CitationDeltaSpeaks ==
  ASSUME TypeOK, Consistent(enc), NEW event \in Events, ApplyCitationDelta(event)
  PROVE  Speaks(event)
<1>1. Continuing(event, {"citation_delta"})  BY DEF ApplyCitationDelta
<1>2. enc \in Encoders /\ event.delta.type = "citation_delta"
  BY <1>1, ContinuingFacts
<1>3. ASSUME NEW e, e.thinking_input = enc.thinking_input,
             e.thinking_signature = enc.thinking_signature,
             e.thinking_parts = enc.thinking_parts, e.signature_seen = enc.signature_seen,
             e.tool_input = enc.tool_input, e.tool_parts = enc.tool_parts
      PROVE  \A block, had : OpenAs(block.kind) = enc.open /\ Remembers(enc, block, had) =>
                               Remembers(e, block, had \union {event.delta.type})
  BY <1>2, <1>3, OtherTypes
<1>4. CASE event.delta.text[1] = "anthropic"
  <2>1. PICK wire : wire = <<WireBlockDelta(enc.open_index, Some(CitationsDelta("valid")))>>
    OBVIOUS
  <2>2. Accepted(event, enc, wire)  BY <1>4, <2>1 DEF ApplyCitationDelta
  <2>3. wire \in Seq(WireEvents)  BY <2>1, SentTypes, WireLists
  <2>4. wire = Carried(enc.open_index, event.delta)
    BY <1>2, <1>4, <2>1, CarriedForms
  <2>. QED BY <1>1, <1>2, <1>3, <2>2, <2>3, <2>4, FragmentSpeaks
<1>5. ASSUME NEW e \in Encoders, e.wire = enc.wire, e.open_index = enc.open_index,
             event.delta.text[1] = "openai", Accepted(event, e, <<>>),
             \A block, had : OpenAs(block.kind) = enc.open /\ Remembers(enc, block, had) =>
                               Remembers(e, block, had \union {event.delta.type})
      PROVE  Speaks(event)
  <2>1. PICK none : none = <<>>  OBVIOUS
  <2>2. none \in Seq(WireEvents)  BY <2>1
  <2>3. none = Carried(enc.open_index, event.delta)
    BY <1>2, <1>5, <2>1, CarriedForms
  <2>4. Accepted(event, e, none)  BY <1>5, <2>1
  <2>. QED BY <1>1, <1>5, <2>2, <2>3, <2>4, FragmentSpeaks
<1>6. CASE event.delta.text[1] = "openai" /\ enc.citation_loss_seen
  <2>1. Accepted(event, enc, <<>>)  BY <1>6 DEF ApplyCitationDelta
  <2>. QED BY <1>2, <1>3, <1>5, <1>6, <2>1
<1>7. CASE event.delta.text[1] = "openai" /\ ~enc.citation_loss_seen
  <2>1. PICK d, e : /\ d = [enc EXCEPT !.citation_loss_seen = TRUE]
                    /\ e = Lose(d, <<"citations", enc.open_index>>)
    OBVIOUS
  <2>2. Accepted(event, e, <<>>)  BY <1>7, <2>1, Zenon DEF ApplyCitationDelta
  <2>3. /\ d \in Encoders /\ d.wire = enc.wire /\ d.open_index = enc.open_index
        /\ d.thinking_input = enc.thinking_input
        /\ d.thinking_signature = enc.thinking_signature
        /\ d.thinking_parts = enc.thinking_parts /\ d.signature_seen = enc.signature_seen
        /\ d.tool_input = enc.tool_input /\ d.tool_parts = enc.tool_parts
    BY <1>2, <2>1 DEF Encoders
  <2>4. e \in Encoders
    <3>1. enc.open_index \in Int  BY <1>2 DEF Encoders
    <3>. QED BY <2>1, <2>3, <3>1, LoseFacts DEF LossKinds
  <2>5. /\ e.wire = d.wire /\ e.open_index = d.open_index
        /\ e.thinking_input = d.thinking_input
        /\ e.thinking_signature = d.thinking_signature
        /\ e.thinking_parts = d.thinking_parts /\ e.signature_seen = d.signature_seen
        /\ e.tool_input = d.tool_input /\ e.tool_parts = d.tool_parts
    BY <2>1, <2>3 DEF Lose, Encoders
  <2>. QED BY <1>3, <1>5, <1>7, <2>2, <2>3, <2>4, <2>5
<1>. QED BY <1>4, <1>6, <1>7 DEF ApplyCitationDelta

LEMMA ThinkingDeltaSpeaks ==
  ASSUME TypeOK, Consistent(enc), NEW event \in Events, ApplyThinkingDelta(event)
  PROVE  Speaks(event)
<1>1. Continuing(event, {"thinking_delta"})  BY DEF ApplyThinkingDelta
<1>2. enc \in Encoders /\ event.delta.type = "thinking_delta" /\ event.delta.text \in Text
  BY <1>1, ContinuingFacts
<1>3. PICK wire, parts : /\ wire = <<SentDelta("thinking_delta", event.delta.text)>>
                         /\ parts = Append(enc.thinking_parts, event.delta.text)
  OBVIOUS
<1>4. PICK e : e = [enc EXCEPT !.thinking_parts = parts]  OBVIOUS
<1>5. Accepted(event, e, wire)
  BY <1>2, <1>3, <1>4 DEF ApplyThinkingDelta, Encoders
<1>6. wire \in Seq(WireEvents)
  <2>1. SentDelta("thinking_delta", event.delta.text) \in WireEvents
    BY <1>2, SentTypes DEF NativeTypes
  <2>. QED BY <1>3, <2>1, WireLists
<1>7. wire = Carried(enc.open_index, event.delta)
  <2>1. Carried(enc.open_index, event.delta)
          = <<Says(enc.open_index, event.delta.type, event.delta.text)>>
    BY <1>2, CarriedForms
  <2>. QED BY <1>2, <1>3, <2>1, Zenon DEF Says, SentDelta
<1>8. parts \in Seq(Text) /\ parts # <<>>
  <2>1. enc.thinking_parts \in Seq(Text)  BY <1>2 DEF Encoders
  <2>. QED BY <1>2, <1>3, <2>1, AppendFacts
<1>9. /\ e \in Encoders /\ e.wire = enc.wire /\ e.open_index = enc.open_index
      /\ e.thinking_input = enc.thinking_input
      /\ e.thinking_signature = enc.thinking_signature
      /\ e.thinking_parts = parts /\ e.signature_seen = enc.signature_seen
      /\ e.tool_input = enc.tool_input /\ e.tool_parts = enc.tool_parts
  BY <1>2, <1>4, <1>8 DEF Encoders
<1>10. ASSUME NEW block, NEW had, Remembers(enc, block, had)
       PROVE  Remembers(e, block, had \union {event.delta.type})
  <2>1. PICK more : more = had \union {event.delta.type}  OBVIOUS
  <2>2. /\ "thinking_delta" \in more
        /\ "signature_delta" \in more <=> "signature_delta" \in had
        /\ "input_json_delta" \in more <=> "input_json_delta" \in had
    BY <1>2, <2>1
  <2>3. Remembers(e, block, more)  BY <1>8, <1>9, <1>10, <2>2 DEF Remembers
  <2>. QED BY <2>1, <2>3
<1>. QED BY <1>1, <1>5, <1>6, <1>7, <1>9, <1>10, FragmentSpeaks

LEMMA SignatureDeltaSpeaks ==
  ASSUME TypeOK, Consistent(enc), NEW event \in Events, ApplySignatureDelta(event)
  PROVE  Speaks(event)
<1>1. Continuing(event, {"signature_delta"})  BY DEF ApplySignatureDelta
<1>2. enc \in Encoders /\ event.delta.type = "signature_delta" /\ event.delta.text \in Text
  BY <1>1, ContinuingFacts
<1>3. PICK wire, e : /\ wire = <<SentDelta("signature_delta", event.delta.text)>>
                     /\ e = [enc EXCEPT !.signature_seen = TRUE]
  OBVIOUS
<1>5. Accepted(event, e, wire)  BY <1>3 DEF ApplySignatureDelta
<1>6. wire \in Seq(WireEvents)
  <2>1. SentDelta("signature_delta", event.delta.text) \in WireEvents
    BY <1>2, SentTypes DEF NativeTypes
  <2>. QED BY <1>3, <2>1, WireLists
<1>7. wire = Carried(enc.open_index, event.delta)
  <2>1. Carried(enc.open_index, event.delta)
          = <<Says(enc.open_index, event.delta.type, event.delta.text)>>
    BY <1>2, CarriedForms
  <2>. QED BY <1>2, <1>3, <2>1, Zenon DEF Says, SentDelta
<1>9. /\ e \in Encoders /\ e.wire = enc.wire /\ e.open_index = enc.open_index
      /\ e.thinking_input = enc.thinking_input
      /\ e.thinking_signature = enc.thinking_signature
      /\ e.thinking_parts = enc.thinking_parts /\ e.signature_seen = TRUE
      /\ e.tool_input = enc.tool_input /\ e.tool_parts = enc.tool_parts
  BY <1>2, <1>3 DEF Encoders
<1>10. ASSUME NEW block, NEW had, Remembers(enc, block, had)
       PROVE  Remembers(e, block, had \union {event.delta.type})
  <2>1. PICK more : more = had \union {event.delta.type}  OBVIOUS
  <2>2. /\ "signature_delta" \in more
        /\ "thinking_delta" \in more <=> "thinking_delta" \in had
        /\ "input_json_delta" \in more <=> "input_json_delta" \in had
    BY <1>2, <2>1
  <2>3. Remembers(e, block, more)  BY <1>9, <1>10, <2>2 DEF Remembers
  <2>. QED BY <2>1, <2>3
<1>. QED BY <1>1, <1>5, <1>6, <1>7, <1>9, <1>10, FragmentSpeaks

LEMMA InputJsonDeltaSpeaks ==
  ASSUME TypeOK, Consistent(enc), NEW event \in Events, ApplyInputJsonDelta(event)
  PROVE  Speaks(event)
<1>1. Continuing(event, {"input_json_delta"})  BY DEF ApplyInputJsonDelta
<1>2. enc \in Encoders /\ event.delta.type = "input_json_delta" /\ event.delta.text \in Text
  BY <1>1, ContinuingFacts
<1>3. PICK wire, parts : /\ wire = <<SentDelta("input_json_delta", event.delta.text)>>
                         /\ parts = Append(enc.tool_parts, event.delta.text)
  OBVIOUS
<1>4. PICK e : e = [enc EXCEPT !.tool_parts = parts]  OBVIOUS
<1>5. Accepted(event, e, wire)
  BY <1>2, <1>3, <1>4 DEF ApplyInputJsonDelta, Encoders
<1>6. wire \in Seq(WireEvents)
  <2>1. SentDelta("input_json_delta", event.delta.text) \in WireEvents
    BY <1>2, SentTypes DEF NativeTypes
  <2>. QED BY <1>3, <2>1, WireLists
<1>7. wire = Carried(enc.open_index, event.delta)
  <2>1. Carried(enc.open_index, event.delta)
          = <<Says(enc.open_index, event.delta.type, event.delta.text)>>
    BY <1>2, CarriedForms
  <2>. QED BY <1>2, <1>3, <2>1, Zenon DEF Says, SentDelta
<1>8. parts \in Seq(Text) /\ parts # <<>>
  <2>1. enc.tool_parts \in Seq(Text)  BY <1>2 DEF Encoders
  <2>. QED BY <1>2, <1>3, <2>1, AppendFacts
<1>9. /\ e \in Encoders /\ e.wire = enc.wire /\ e.open_index = enc.open_index
      /\ e.thinking_input = enc.thinking_input
      /\ e.thinking_signature = enc.thinking_signature
      /\ e.thinking_parts = enc.thinking_parts /\ e.signature_seen = enc.signature_seen
      /\ e.tool_input = enc.tool_input /\ e.tool_parts = parts
  BY <1>2, <1>4, <1>8 DEF Encoders
<1>10. ASSUME NEW block, NEW had, Remembers(enc, block, had)
       PROVE  Remembers(e, block, had \union {event.delta.type})
  <2>1. PICK more : more = had \union {event.delta.type}  OBVIOUS
  <2>2. /\ "input_json_delta" \in more
        /\ "signature_delta" \in more <=> "signature_delta" \in had
        /\ "thinking_delta" \in more <=> "thinking_delta" \in had
    BY <1>2, <2>1
  <2>3. Remembers(e, block, more)  BY <1>8, <1>9, <1>10, <2>2 DEF Remembers
  <2>. QED BY <2>1, <2>3
<1>. QED BY <1>1, <1>5, <1>6, <1>7, <1>9, <1>10, FragmentSpeaks

LEMMA CustomInputDeltaSpeaks ==
  ASSUME TypeOK, Consistent(enc), NEW event \in Events, ApplyCustomInputDelta(event)
  PROVE  Speaks(event)
<1>1. Continuing(event, {"custom_tool_input_delta"})
  BY DEF ApplyCustomInputDelta
<1>2. enc \in Encoders /\ event.delta.type = "custom_tool_input_delta" /\ event.delta.text \in Text
  BY <1>1, ContinuingFacts
<1>3. PICK none, parts : none = <<>> /\ parts = Append(enc.tool_parts, event.delta.text)
  OBVIOUS
<1>4. PICK e : e = IF enc.open = "custom" THEN [enc EXCEPT !.tool_parts = parts] ELSE enc
  OBVIOUS
<1>5. Accepted(event, e, none)
  <2>1. [enc EXCEPT !.tool_parts = Append(@, event.delta.text)] = [enc EXCEPT !.tool_parts = parts]
    BY <1>2, <1>3 DEF Encoders
  <2>. QED BY <1>3, <1>4, <2>1, Zenon DEF ApplyCustomInputDelta
<1>6. none \in Seq(WireEvents) /\ none = Carried(enc.open_index, event.delta)
  BY <1>2, <1>3, CarriedForms
<1>7. parts \in Seq(Text)
  <2>1. enc.tool_parts \in Seq(Text)  BY <1>2 DEF Encoders
  <2>. QED BY <1>2, <1>3, <2>1, AppendFacts
<1>8. /\ e \in Encoders /\ e.wire = enc.wire /\ e.open_index = enc.open_index
      /\ e.thinking_input = enc.thinking_input
      /\ e.thinking_signature = enc.thinking_signature
      /\ e.thinking_parts = enc.thinking_parts /\ e.signature_seen = enc.signature_seen
      /\ e.tool_input = enc.tool_input
      /\ enc.open # "custom" => e.tool_parts = enc.tool_parts
  <2>1. CASE enc.open = "custom"  BY <1>2, <1>4, <1>7, <2>1 DEF Encoders
  <2>2. CASE enc.open # "custom"  BY <1>2, <1>4, <2>2
  <2>. QED BY <2>1, <2>2
<1>9. \A block, had : OpenAs(block.kind) = enc.open /\ Remembers(enc, block, had) =>
                        Remembers(e, block, had \union {event.delta.type})
  BY <1>2, <1>8, OtherTypes
<1>. QED BY <1>1, <1>5, <1>6, <1>8, <1>9, FragmentSpeaks

LEMMA BlockDeltaSpeaks ==
  ASSUME TypeOK, Consistent(enc), NEW event \in Events, ApplyBlockDelta(event), Faultless'
  PROVE  Speaks(event)
<1>1. ~ApplyDeltaRefused(event)  BY RefusedFault DEF ApplyDeltaRefused
<1>. QED
  BY <1>1, TextDeltaSpeaks, CitationDeltaSpeaks, ThinkingDeltaSpeaks, SignatureDeltaSpeaks,
     InputJsonDeltaSpeaks, CustomInputDeltaSpeaks DEF ApplyBlockDelta

(* The kind of block that the struct holds open. *)
LEMMA OpenAsKinds ==
  ASSUME NEW kind \in EncodableKinds
  PROVE  /\ OpenAs(kind) = "text" => kind = "text"
         /\ OpenAs(kind) = "thinking" => kind = "thinking"
         /\ OpenAs(kind) = "redacted" => kind = "redacted_thinking"
         /\ OpenAs(kind) = "tool" => kind = "tool_use"
         /\ OpenAs(kind) = "custom" => kind = "custom_tool_use"
         /\ OpenAs(kind) = "atomic" <=> kind \in OmittedKinds
BY DEF OpenAs, EncodableKinds, OmittedKinds, ToolKinds, ApplyPatchKinds

(* A stop hands over what is left of its block. *)
LEMMA ClosingSpeaks ==
  ASSUME TypeOK, NEW event \in Events, NEW kinds, Stopping(event, kinds),
         NEW e \in Encoders, e.wire = enc.wire, e.open = "none",
         NEW wire \in Seq(WireEvents), Accepted(event, e, wire),
         \A block, types :
           /\ block \in Blocks /\ block.kind \in EncodableKinds
           /\ OpenAs(block.kind) = enc.open /\ Remembers(enc, block, types)
           => wire = IF block.kind \in OmittedKinds THEN <<>>
                     ELSE Remainder(enc.open_index, block, types)
                            \o <<WireBlockStop(enc.open_index)>>
  PROVE  Speaks(event)
<1>1. /\ IsStop(event) /\ ~enc.done /\ event.index = enc.open_ir_index /\ enc.open # "none"
  BY DEF Stopping, Receives, StopAccepted, IsStop
<1>2. Wrote(wire) /\ enc'.open = "none"  BY AcceptedFacts
<1>3. ASSUME NEW block, NEW types, NEW called, block \in Blocks, block.kind \in EncodableKinds,
             OpenAs(block.kind) = enc.open, Remembers(enc, block, types)
      PROVE  Wrote(NativeFor(event, block, enc.open_index, types, called))
  <2>1. NativeFor(event, block, enc.open_index, types, called) = wire
    <3>1. wire = IF block.kind \in OmittedKinds THEN <<>>
                 ELSE Remainder(enc.open_index, block, types)
                        \o <<WireBlockStop(enc.open_index)>>
      BY <1>3
    <3>2. PICK n, m, none : /\ n = NativeFor(event, block, enc.open_index, types, called)
                            /\ m = Remainder(enc.open_index, block, types)
                                     \o <<WireBlockStop(enc.open_index)>>
                            /\ none = <<>>
      OBVIOUS
    <3>3. wire = IF block.kind \in OmittedKinds THEN none ELSE m
      BY <3>1, <3>2, Zenon
    <3>4. CASE block.kind \in OmittedKinds
      <4>1. NativeFor(event, block, enc.open_index, types, called) = <<>>
        BY <1>1, <3>4, StopForm
      <4>. QED BY <3>2, <3>3, <3>4, <4>1, Zenon
    <3>6. CASE block.kind \notin OmittedKinds
      <4>1. NativeFor(event, block, enc.open_index, types, called)
              = Remainder(enc.open_index, block, types) \o <<WireBlockStop(enc.open_index)>>
        BY <1>1, <3>6, StopForm
      <4>. QED BY <3>2, <3>3, <3>6, <4>1, Zenon
    <3>5. n = wire  BY <3>2, <3>4, <3>6, Zenon
    <3>. QED BY <3>2, <3>5, Zenon
  <2>. QED BY <1>2, <2>1
<1>4. StopSpeaks(event)  BY <1>1, <1>2, <1>3 DEF StopSpeaks
<1>5. /\ ~IsStart(event) /\ ~IsDelta(event)
      /\ event.type \notin {"message_start", "message_delta", "message_done"}
  BY <1>1 DEF IsStart, IsDelta, IsStop
<1>. QED BY <1>1, <1>4, <1>5 DEF Speaks

LEMMA ClosedSpeaks ==
  ASSUME enc \in Encoders
  PROVE  /\ Closed(enc) \in Encoders /\ Closed(enc).wire = enc.wire /\ Closed(enc).open = "none"
         /\ SentStop = <<WireBlockStop(enc.open_index)>>
BY DEF Closed, Encoders, OpenKinds, SentStop

LEMMA AtomicStopSpeaks ==
  ASSUME TypeOK, NEW event \in Events, ApplyRedactedStop(event) \/ ApplyOmittedStop(event)
  PROVE  Speaks(event)
<1>1. PICK e : e = Closed(enc)  OBVIOUS
<1>2. /\ e \in Encoders /\ e.wire = enc.wire /\ e.open = "none"
      /\ SentStop = <<WireBlockStop(enc.open_index)>>
  BY <1>1, ClosedSpeaks DEF TypeOK
<1>3. CASE ApplyRedactedStop(event)
  <2>1. PICK wire : wire = <<WireBlockStop(enc.open_index)>>  OBVIOUS
  <2>2. Stopping(event, {"redacted"}) /\ Accepted(event, e, wire) /\ enc.open = "redacted"
    BY <1>1, <1>2, <1>3, <2>1 DEF ApplyRedactedStop, Stopping
  <2>3. wire \in Seq(WireEvents)  BY <2>1, SentTypes, WireLists
  <2>4. ASSUME NEW block, NEW types, block.kind \in EncodableKinds, OpenAs(block.kind) = enc.open
        PROVE  wire = IF block.kind \in OmittedKinds THEN <<>>
                      ELSE Remainder(enc.open_index, block, types)
                             \o <<WireBlockStop(enc.open_index)>>
    <3>1. block.kind = "redacted_thinking"  BY <2>2, <2>4, OpenAsKinds
    <3>2. block.kind \notin OmittedKinds
      BY <3>1 DEF OmittedKinds, ApplyPatchKinds
    <3>3. Remainder(enc.open_index, block, types) = <<>>
      BY <3>1, RemainderForms
    <3>4. <<>> \o wire = wire  BY <2>3
    <3>. QED BY <2>1, <3>2, <3>3, <3>4
  <2>. QED BY <1>2, <2>2, <2>3, <2>4, ClosingSpeaks
<1>4. CASE ApplyOmittedStop(event)
  <2>1. PICK none : none = <<>>  OBVIOUS
  <2>2. Stopping(event, {"atomic"}) /\ Accepted(event, e, none) /\ enc.open = "atomic"
    BY <1>1, <1>4, <2>1 DEF ApplyOmittedStop, Stopping
  <2>3. none \in Seq(WireEvents)  BY <2>1
  <2>4. ASSUME NEW block, NEW types, block.kind \in EncodableKinds, OpenAs(block.kind) = enc.open
        PROVE  none = IF block.kind \in OmittedKinds THEN <<>>
                      ELSE Remainder(enc.open_index, block, types)
                             \o <<WireBlockStop(enc.open_index)>>
    BY <2>1, <2>2, <2>4, OpenAsKinds
  <2>. QED BY <1>2, <2>2, <2>3, <2>4, ClosingSpeaks
<1>. QED BY <1>3, <1>4

(* Two texts that are sent if they are owed. *)
Owing(p, a, q, b) == (IF p THEN a ELSE <<>>) \o (IF q THEN b ELSE <<>>)

LEMMA ThinkingStopSpeaks ==
  ASSUME TypeOK, NEW event \in Events, ApplyThinkingStop(event)
  PROVE  Speaks(event)
<1>1. enc \in Encoders /\ Stopping(event, {"thinking"}) /\ enc.open = "thinking"
  BY DEF TypeOK, ApplyThinkingStop, Stopping
<1>2. PICK c, none, wire : /\ c = Closed(enc) /\ none = <<>>
                           /\ wire = ThinkingRest(enc) \o <<WireBlockStop(enc.open_index)>>
  OBVIOUS
<1>3. /\ c \in Encoders /\ c.wire = enc.wire /\ c.open = "none"
      /\ SentStop = <<WireBlockStop(enc.open_index)>>
  BY <1>1, <1>2, ClosedSpeaks
<1>4. PICK e : e = [c EXCEPT !.thinking_input = none, !.thinking_signature = none,
                             !.thinking_parts = none, !.signature_seen = FALSE]
  OBVIOUS
<1>5. Accepted(event, e, wire)  BY <1>2, <1>3, <1>4, Zenon DEF ApplyThinkingStop
<1>6. e \in Encoders /\ e.wire = enc.wire /\ e.open = "none"
  <2>1. none \in Text /\ none \in Seq(Text)  BY <1>2 DEF Text
  <2>. QED BY <1>3, <1>4, <2>1 DEF Encoders
<1>7. wire \in Seq(WireEvents)
  <2>1. ThinkingRest(enc) \in Seq(WireEvents)  BY <1>1, ThinkingRestType
  <2>2. <<WireBlockStop(enc.open_index)>> \in Seq(WireEvents)
    BY SentTypes, WireLists
  <2>. QED BY <1>2, <2>1, <2>2, WireLists
<1>8. ASSUME NEW block, NEW types, block.kind \in EncodableKinds, OpenAs(block.kind) = enc.open,
             Remembers(enc, block, types)
      PROVE  wire = IF block.kind \in OmittedKinds THEN <<>>
                    ELSE Remainder(enc.open_index, block, types)
                           \o <<WireBlockStop(enc.open_index)>>
  <2>1. block.kind = "thinking"  BY <1>1, <1>8, OpenAsKinds
  <2>2. block.kind \notin OmittedKinds
    BY <2>1 DEF OmittedKinds, ApplyPatchKinds
  <2>3. PICK p, q, a, b :
          /\ p = (block.text # <<>> /\ "thinking_delta" \notin types)
          /\ q = (block.signature # <<>> /\ "signature_delta" \notin types)
          /\ a = <<Says(enc.open_index, "thinking_delta", block.text)>>
          /\ b = <<Says(enc.open_index, "signature_delta", block.signature)>>
    OBVIOUS
  <2>4. /\ enc.thinking_input = block.text /\ enc.thinking_signature = block.signature
        /\ enc.thinking_parts = <<>> <=> "thinking_delta" \notin types
        /\ enc.signature_seen <=> "signature_delta" \in types
    BY <1>8, <2>1, Zenon DEF Remembers
  <2>5. /\ (enc.thinking_parts = <<>> /\ enc.thinking_input # <<>>) = p
        /\ (~enc.signature_seen /\ enc.thinking_signature # <<>>) = q
    BY <2>3, <2>4
  <2>6. /\ <<SentDelta("thinking_delta", enc.thinking_input)>> = a
        /\ <<SentDelta("signature_delta", enc.thinking_signature)>> = b
    BY <2>3, <2>4, Zenon DEF SentDelta, Says
  <2>7. ThinkingRest(enc) = Owing(p, a, q, b)
    BY <2>5, <2>6, Zenon DEF ThinkingRest, Owing
  <2>8. Remainder(enc.open_index, block, types)
          = Owing(block.text # <<>> /\ "thinking_delta" \notin types,
                  <<Says(enc.open_index, "thinking_delta", block.text)>>,
                  block.signature # <<>> /\ "signature_delta" \notin types,
                  <<Says(enc.open_index, "signature_delta", block.signature)>>)
    BY <2>1, RemainderForms, Zenon DEF Owing
  <2>9. Remainder(enc.open_index, block, types) = Owing(p, a, q, b)
    BY <2>3, <2>8, Zenon
  <2>10. ThinkingRest(enc) = Remainder(enc.open_index, block, types)
    BY <2>7, <2>9, Zenon
  <2>11. wire = Remainder(enc.open_index, block, types) \o <<WireBlockStop(enc.open_index)>>
    BY <1>2, <2>10, Zenon
  <2>. QED BY <2>2, <2>11, Zenon
<1>. QED BY <1>1, <1>5, <1>6, <1>7, <1>8, ClosingSpeaks

LEMMA ContentStopSpeaks ==
  ASSUME TypeOK, NEW event \in Events, ApplyContentStop(event)
  PROVE  Speaks(event)
<1>1. /\ enc \in Encoders /\ Stopping(event, {"text", "tool", "custom"})
      /\ enc.open \in {"text", "tool", "custom"}
  BY DEF TypeOK, ApplyContentStop, Stopping
<1>2. PICK c, none, wire : /\ c = Closed(enc) /\ none = <<>>
                           /\ wire = InputRest(enc) \o <<WireBlockStop(enc.open_index)>>
  OBVIOUS
<1>3. /\ c \in Encoders /\ c.wire = enc.wire /\ c.open = "none"
      /\ SentStop = <<WireBlockStop(enc.open_index)>>
  BY <1>1, <1>2, ClosedSpeaks
<1>4. PICK e : e = [c EXCEPT !.tool_input = none, !.tool_parts = none]  OBVIOUS
<1>5. Accepted(event, e, wire)  BY <1>2, <1>3, <1>4, Zenon DEF ApplyContentStop
<1>6. e \in Encoders /\ e.wire = enc.wire /\ e.open = "none"
  <2>1. none \in Text /\ none \in Seq(Text)  BY <1>2 DEF Text
  <2>. QED BY <1>3, <1>4, <2>1 DEF Encoders
<1>7. wire \in Seq(WireEvents)
  <2>1. InputRest(enc) \in Seq(WireEvents)  BY <1>1, InputRestType
  <2>2. <<WireBlockStop(enc.open_index)>> \in Seq(WireEvents)
    BY SentTypes, WireLists
  <2>. QED BY <1>2, <2>1, <2>2, WireLists
<1>8. ASSUME NEW block, NEW types, block.kind \in EncodableKinds, OpenAs(block.kind) = enc.open,
             Remembers(enc, block, types)
      PROVE  wire = IF block.kind \in OmittedKinds THEN <<>>
                    ELSE Remainder(enc.open_index, block, types)
                           \o <<WireBlockStop(enc.open_index)>>
  <2>1. PICK kind, r : kind = block.kind /\ r = Remainder(enc.open_index, block, types)
    OBVIOUS
  <2>2. /\ enc.open = "text" => kind = "text"
        /\ enc.open = "tool" => kind = "tool_use"
        /\ enc.open = "custom" => kind = "custom_tool_use"
    BY <1>8, <2>1, OpenAsKinds
  <2>3. kind \notin OmittedKinds
    BY <1>1, <2>2 DEF OmittedKinds, ApplyPatchKinds
  <2>4. InputRest(enc) = r
    <3>1. CASE enc.open = "text"
      <4>1. r = <<>>  BY <2>1, <2>2, <3>1, RemainderForms
      <4>. QED BY <3>1, <4>1 DEF InputRest
    <3>2. CASE enc.open = "custom"
      <4>1. enc.tool_input = block.text
        BY <1>8, <2>1, <2>2, <3>2 DEF Remembers, ToolKinds
      <4>2. r = <<Says(enc.open_index, "input_json_delta", Wrap(block.text))>>
        BY <2>1, <2>2, <3>2, RemainderForms
      <4>3. InputRest(enc) = <<SentDelta("input_json_delta", Wrap(enc.tool_input))>>
        BY <3>2, Zenon DEF InputRest
      <4>. QED BY <4>1, <4>2, <4>3, Zenon DEF SentDelta, Says
    <3>3. CASE enc.open = "tool" /\ enc.tool_parts = <<>>
      <4>1. enc.tool_input = block.text /\ "input_json_delta" \notin types
        BY <1>8, <2>1, <2>2, <3>3 DEF Remembers, ToolKinds
      <4>2. r = <<Says(enc.open_index, "input_json_delta", block.text)>>
        BY <2>1, <2>2, <3>3, <4>1, RemainderForms
      <4>3. InputRest(enc) = <<SentDelta("input_json_delta", enc.tool_input)>>
        BY <3>3 DEF InputRest
      <4>. QED BY <4>1, <4>2, <4>3, Zenon DEF SentDelta, Says
    <3>4. CASE enc.open = "tool" /\ enc.tool_parts # <<>>
      <4>1. "input_json_delta" \in types
        BY <1>8, <2>1, <2>2, <3>4 DEF Remembers
      <4>2. r = <<>>  BY <2>1, <2>2, <3>4, <4>1, RemainderForms
      <4>. QED BY <3>4, <4>2 DEF InputRest
    <3>. QED BY <1>1, <3>1, <3>2, <3>3, <3>4
  <2>. QED BY <1>2, <2>1, <2>3, <2>4, Zenon
<1>. QED BY <1>1, <1>5, <1>6, <1>7, <1>8, ClosingSpeaks

LEMMA BlockStopSpeaks ==
  ASSUME TypeOK, NEW event \in Events, ApplyBlockStop(event), Faultless'
  PROVE  Speaks(event)
<1>1. ~ApplyStopRefused(event)  BY RefusedFault DEF ApplyStopRefused
<1>. QED BY <1>1, AtomicStopSpeaks, ThinkingStopSpeaks, ContentStopSpeaks DEF ApplyBlockStop

LEMMA MessageDeltaSpeaks ==
  ASSUME TypeOK, NEW event \in Events, ApplyMessageDelta(event), Faultless'
  PROVE  Speaks(event)
<1>1. /\ enc \in Encoders /\ event.type = "message_delta" /\ ~Refused(event, enc) /\ ~enc.done
      /\ enc.open = "none"
  <2>1. ~Refused(event, enc)  BY RefusedFault
  <2>. QED BY <2>1 DEF TypeOK, ApplyMessageDelta, Receives, TerminalAccepted
<1>2. PICK stop, seen, loss, sequence, wire :
        /\ stop = EffectiveStop(enc, event.stop_reason)
        /\ seen = [enc EXCEPT !.delta_seen = TRUE]
        /\ loss = <<"stop_reason", -1>>
        /\ sequence = (IF stop = "stop_sequence" THEN event.stop_sequence ELSE <<>>)
        /\ wire = <<WireMessageDelta(Some(Terminal(stop, sequence)), Some(event.usage))>>
  OBVIOUS
<1>3. PICK e : e = IF stop # event.stop_reason /\ enc.custom_seen THEN Lose(seen, loss) ELSE seen
  OBVIOUS
<1>4. Accepted(event, e, wire) /\ stop # "other"
  BY <1>1, <1>2, <1>3, Zenon DEF ApplyMessageDelta, TerminalAccepted
<1>5. e \in Encoders /\ e.wire = enc.wire /\ e.open = "none"
  <2>1. seen \in Encoders /\ seen.wire = enc.wire /\ seen.open = "none"
    BY <1>1, <1>2 DEF Encoders
  <2>2. Lose(seen, loss) \in Encoders  BY <1>2, <2>1, LoseFacts DEF LossKinds
  <2>3. Lose(seen, loss).wire = seen.wire /\ Lose(seen, loss).open = seen.open
    BY <2>1 DEF Lose, Encoders
  <2>. QED BY <1>3, <2>1, <2>2, <2>3
<1>6. wire \in Seq(WireEvents)
  <2>1. /\ event.stop_reason \in StopReasons /\ event.stop_sequence \in Text
        /\ event.usage \in Usages
    BY <1>1, EncoderAssumption, EventForms
  <2>2. stop \in StopReasons  BY <1>2, <2>1 DEF EffectiveStop, StopReasons
  <2>3. sequence \in Text
    <3>1. <<>> \in Text  BY DEF Text
    <3>. QED BY <1>2, <2>1, <3>1
  <2>4. Terminal(stop, sequence) \in Terminals
    BY <2>2, <2>3 DEF Terminal, Terminals
  <2>5. WireMessageDelta(Some(Terminal(stop, sequence)), Some(event.usage)) \in WireEvents
    BY <2>1, <2>4, WireTypes
  <2>. QED BY <1>2, <2>5, WireLists
<1>7. Wrote(wire) /\ enc'.open = "none"  BY <1>4, <1>5, <1>6, AcceptedFacts
<1>8. NativeTerminal(event, enc.tool_seen)
        = WireMessageDelta(Some(Terminal(stop, sequence)), Some(event.usage))
  BY <1>2, Zenon DEF NativeTerminal, EffectiveStop
<1>9. ASSUME NEW block, NEW i, NEW types
      PROVE  NativeFor(event, block, i, types, enc.tool_seen) = wire
  <2>1. NativeFor(event, block, i, types, enc.tool_seen) = <<NativeTerminal(event, enc.tool_seen)>>
    BY <1>1, NativeForms
  <2>. QED BY <1>2, <1>8, <2>1, Zenon
<1>10. MessageSpeaks(event)
  <2>1. event.type # "message_done"  BY <1>1
  <2>. QED BY <1>7, <1>9, <2>1, Zenon DEF MessageSpeaks
<1>11. ~IsStart(event) /\ ~IsDelta(event) /\ ~IsStop(event)
  BY <1>1 DEF IsStart, IsDelta, IsStop
<1>. QED BY <1>1, <1>10, <1>11 DEF Speaks

LEMMA MessageDoneSpeaks ==
  ASSUME TypeOK, NEW event \in Events, ApplyMessageDone(event), Faultless'
  PROVE  Speaks(event)
<1>1. /\ enc \in Encoders /\ event.type = "message_done" /\ ~Refused(event, enc) /\ ~enc.done
  BY RefusedFault DEF TypeOK, ApplyMessageDone, Receives
<1>2. PICK e, wire : e = [enc EXCEPT !.done = TRUE] /\ wire = <<WireMessageStop>>
  OBVIOUS
<1>3. Accepted(event, e, wire)  BY <1>1, <1>2 DEF ApplyMessageDone
<1>4. e \in Encoders /\ e.wire = enc.wire /\ e.done  BY <1>1, <1>2 DEF Encoders
<1>5. wire \in Seq(WireEvents)  BY <1>2, WireTypes, WireLists
<1>6. Wrote(wire) /\ enc'.done  BY <1>3, <1>4, <1>5, AcceptedFacts
<1>7. \A block, i, types, called : NativeFor(event, block, i, types, called) = wire
  BY <1>1, <1>2, NativeForms
<1>8. MessageSpeaks(event)  BY <1>1, <1>6, <1>7 DEF MessageSpeaks
<1>9. ~IsStart(event) /\ ~IsDelta(event) /\ ~IsStop(event)
  BY <1>1 DEF IsStart, IsDelta, IsStop
<1>. QED BY <1>1, <1>8, <1>9 DEF Speaks

(* Every accepted call hands over what stands for its event. *)
LEMMA EveryCallSpeaks ==
  ASSUME TypeOK, Consistent(enc), NEW event \in Events, Apply(event), Faultless'
  PROVE  Speaks(event)
<1>1. ~ApplyAfterDone(event)  BY RefusedFault DEF ApplyAfterDone
<1>. QED
  BY <1>1, MessageStartSpeaks, BlockStartSpeaks, BlockDeltaSpeaks, BlockStopSpeaks,
     MessageDeltaSpeaks, MessageDoneSpeaks DEF Apply

-----------------------------------------------------------------------------
(* The output of a stream *)

AllOutput(s) == [k \in 1..Len(s) |-> OutputOf(s, k)]

(* Every delta and every stop has a block before it. *)
Owned(s) ==
  \A k \in 1..Len(s) : IsDelta(s[k]) \/ IsStop(s[k]) =>
    \E j \in 1..k : IsStart(s[j]) /\ s[j].index = s[k].index

(* The block that starts at k is the one that the struct e holds open. *)
HeldBlock(s, e, k) ==
  /\ OpenFrom(s, k) /\ s[k].index = e.open_ir_index
  /\ s[k].block.kind \in EncodableKinds /\ OpenAs(s[k].block.kind) = e.open
  /\ s[k].block.kind \notin OmittedKinds => e.open_index = NativeIndex(s, k)
  /\ Remembers(e, s[k].block, TypesIn(s, k, Len(s)))

BlockKnown(s, e) == e.open # "none" /\ ~e.done => \E k \in 1..Len(s) : HeldBlock(s, e, k)

(* What the struct e has handed over for the stream s, and what it knows
   of it for the events to come. *)
Spoken(s, e) ==
  /\ e.wire = Concat(AllOutput(s)) /\ AllOutput(s) \in Seq(Seq(WireEvents))
  /\ e.next_wire_index = Cardinality(NativeAt(s))
  /\ e.tool_seen <=> Brought(s, Len(s), ToolKinds)
  /\ BlockKnown(s, e) /\ Owned(s)

(* What stands for an event outside of the blocks depends on no block. *)
LEMMA MessageForm ==
  ASSUME NEW e \in IrEvents, ~IsStart(e), ~IsDelta(e), ~IsStop(e),
         NEW block, NEW i, NEW types, NEW called, NEW other, NEW j, NEW those
  PROVE  NativeFor(e, block, i, types, called) = NativeFor(e, other, j, those, called)
<1>1. e.type \in {"message_start", "message_delta", "message_done"}
  BY EventForms
<1>2. PICK x, y : /\ x = NativeFor(e, block, i, types, called)
                  /\ y = NativeFor(e, other, j, those, called)
  OBVIOUS
<1>3. CASE e.type = "message_start"  BY <1>3, NativeForms, Zenon
<1>4. CASE e.type = "message_delta"  BY <1>4, NativeForms, Zenon
<1>5. CASE e.type = "message_done"  BY <1>5, NativeForms, Zenon
<1>. QED BY <1>1, <1>3, <1>4, <1>5

(* A block starts where its start is, a delta or a stop has its block. *)
LEMMA BlockOwns ==
  ASSUME NEW s, Owned(s), NEW k \in 1..Len(s), IsStart(s[k]) \/ IsDelta(s[k]) \/ IsStop(s[k])
  PROVE  /\ BlockAt(s, k) \in 1..k /\ IsStart(s[BlockAt(s, k)])
         /\ s[BlockAt(s, k)].index = s[k].index
<1>1. \E j \in 1..k : IsStart(s[j]) /\ s[j].index = s[k].index
  <2>1. k \in 1..k  OBVIOUS
  <2>. QED BY <2>1 DEF Owned
<1>. QED BY <1>1, Zenon DEF BlockAt

(* What stands for the earlier events does not change. *)
LEMMA OutputStays ==
  ASSUME NEW s \in Seq(IrEvents), NEW event \in IrEvents, Owned(s), NEW k \in 1..Len(s)
  PROVE  OutputOf(Append(s, event), k) = OutputOf(s, k)
<1>1. PICK t, l, b, called : /\ t = Append(s, event) /\ l = Len(s) /\ b = BlockAt(s, k)
                             /\ called = Brought(s, k, ToolKinds)
  OBVIOUS
<1>2. l \in Nat /\ Len(t) = l + 1 /\ t[l + 1] = event /\ \A j \in 1..l : t[j] = s[j]
  BY <1>1, AppendFacts
<1>3. k \in 1..l /\ k \in Nat /\ t[k] = s[k] /\ \A j \in 1..k : t[j] = s[j]
  BY <1>1, <1>2
<1>4. BlockAt(t, k) = b
  <2>1. \A j \in 1..k : IsStart(t[j]) /\ t[j].index = t[k].index <=>
                        IsStart(s[j]) /\ s[j].index = s[k].index
    BY <1>3
  <2>. QED BY <1>1, <2>1, Zenon DEF BlockAt
<1>5. Brought(t, k, ToolKinds) = called  BY <1>1, BroughtStays DEF Brought
<1>6. OutputOf(t, k) = NativeFor(s[k], t[b].block, NativeIndex(t, b), TypesIn(t, b, k), called)
  BY <1>3, <1>4, <1>5, Zenon DEF OutputOf
<1>7. OutputOf(s, k) = NativeFor(s[k], s[b].block, NativeIndex(s, b), TypesIn(s, b, k), called)
  BY <1>1, Zenon DEF OutputOf
<1>8. CASE IsStart(s[k]) \/ IsDelta(s[k]) \/ IsStop(s[k])
  <2>1. b \in 1..k  BY <1>1, <1>8, BlockOwns
  <2>2. NativeIndex(t, b) = NativeIndex(s, b)  BY <1>1, <1>3, <2>1, NativeFacts
  <2>3. TypesIn(t, b, k) = TypesIn(s, b, k)
    <3>1. \A j \in b..k : t[j] = s[j]  BY <1>3, <2>1
    <3>. QED BY <3>1 DEF TypesIn
  <2>4. t[b] = s[b]  BY <1>3, <2>1
  <2>. QED BY <1>1, <1>6, <1>7, <2>2, <2>3, <2>4, Zenon
<1>9. CASE ~IsStart(s[k]) /\ ~IsDelta(s[k]) /\ ~IsStop(s[k])
  <2>1. s[k] \in IrEvents  OBVIOUS
  <2>2. NativeFor(s[k], t[b].block, NativeIndex(t, b), TypesIn(t, b, k), called)
          = NativeFor(s[k], s[b].block, NativeIndex(s, b), TypesIn(s, b, k), called)
    BY <1>9, <2>1, MessageForm
  <2>. QED BY <1>1, <1>6, <1>7, <2>2, Zenon
<1>. QED BY <1>8, <1>9

(* The types of the deltas of a block, one event later. *)
LEMMA TypesGrow ==
  ASSUME NEW s \in Seq(IrEvents), NEW event \in IrEvents, NEW k \in 1..Len(s)
  PROVE  /\ IsDelta(event) =>
              TypesIn(Append(s, event), k, Len(s) + 1)
                = TypesIn(s, k, Len(s)) \union {event.delta.type}
         /\ ~IsDelta(event) =>
              TypesIn(Append(s, event), k, Len(s) + 1) = TypesIn(s, k, Len(s))
<1>1. PICK t, l : t = Append(s, event) /\ l = Len(s)  OBVIOUS
<1>2. l \in Nat /\ k \in 1..l /\ t[l + 1] = event /\ \A j \in 1..l : t[j] = s[j]
  BY <1>1, AppendFacts
<1>3. PICK old, new : old = {n \in k..l : IsDelta(s[n])} /\ new = {n \in k..(l + 1) : IsDelta(t[n])}
  OBVIOUS
<1>4. /\ \A n \in old : n \in new /\ t[n] = s[n]
      /\ \A n \in new : (n \in old /\ t[n] = s[n]) \/ n = l + 1
      /\ l + 1 \in new <=> IsDelta(event)
  <2>1. \A n : n \in k..(l + 1) <=> n \in k..l \/ n = l + 1  BY <1>2
  <2>2. \A n \in k..l : t[n] = s[n]  BY <1>2
  <2>. QED BY <1>2, <1>3, <2>1, <2>2
<1>5. /\ TypesIn(t, k, l + 1) = {t[n].delta.type : n \in new}
      /\ TypesIn(s, k, l) = {s[n].delta.type : n \in old}
  BY <1>3, Zenon DEF TypesIn
<1>6. CASE IsDelta(event)
  <2>1. {t[n].delta.type : n \in new} = {s[n].delta.type : n \in old} \union {event.delta.type}
    BY <1>2, <1>4, <1>6
  <2>. QED BY <1>1, <1>5, <1>6, <2>1
<1>7. CASE ~IsDelta(event)
  <2>1. {t[n].delta.type : n \in new} = {s[n].delta.type : n \in old}
    BY <1>2, <1>4, <1>7
  <2>. QED BY <1>1, <1>5, <1>7, <2>1
<1>. QED BY <1>6, <1>7

(* What stands for the last event, with the block at b. *)
LEMMA OutputAtEnd ==
  ASSUME NEW s \in Seq(IrEvents), NEW event \in IrEvents,
         NEW next, NewIndexes(Append(s, event), next), NEW b \in 1..(Len(s) + 1),
         IsStart(Append(s, event)[b]), Append(s, event)[b].index = event.index
  PROVE  OutputOf(Append(s, event), Len(s) + 1)
           = NativeFor(event, Append(s, event)[b].block, NativeIndex(Append(s, event), b),
                       TypesIn(Append(s, event), b, Len(s) + 1),
                       Brought(Append(s, event), Len(s) + 1, ToolKinds))
<1>1. PICK t, l : t = Append(s, event) /\ l = Len(s)  OBVIOUS
<1>2. l \in Nat /\ Len(t) = l + 1 /\ t[l + 1] = event  BY <1>1, AppendFacts
<1>3. NewIndexes(t, next) /\ Len(t) \in Nat /\ l + 1 \in 1..Len(t) /\ b \in 1..(l + 1)
  BY <1>1, <1>2
<1>4. IsStart(t[b]) /\ t[b].index = t[l + 1].index  BY <1>1, <1>2
<1>5. BlockAt(t, l + 1) = b  BY <1>3, <1>4, OwnBlock
<1>6. OutputOf(t, l + 1) = NativeFor(event, t[b].block, NativeIndex(t, b), TypesIn(t, b, l + 1),
                                     Brought(t, l + 1, ToolKinds))
  BY <1>2, <1>5, Zenon DEF OutputOf
<1>. QED BY <1>1, <1>6, Zenon

(* What a call hands over is what stands for its event. *)
LEMMA StartOutput ==
  ASSUME TypeOK, NEW s \in Seq(IrEvents), NEW event \in IrEvents, Spoken(s, enc), Speaks(event),
         NEW next, NewIndexes(Append(s, event), next), IsStart(event)
  PROVE  Wrote(OutputOf(Append(s, event), Len(s) + 1))
<1>1. PICK t, l : t = Append(s, event) /\ l = Len(s)  OBVIOUS
<1>2. l \in Nat /\ Len(t) = l + 1 /\ t[l + 1] = event  BY <1>1, AppendFacts
<1>3. PICK types, called : /\ types = TypesIn(t, l + 1, l + 1)
                           /\ called = Brought(t, l + 1, ToolKinds)
  OBVIOUS
<1>4. OutputOf(t, l + 1) = NativeFor(event, t[l + 1].block, NativeIndex(t, l + 1), types, called)
  <2>1. l + 1 \in 1..(l + 1)  BY <1>2
  <2>. QED BY <1>1, <1>2, <1>3, <2>1, OutputAtEnd
<1>5. NativeIndex(t, l + 1) = enc.next_wire_index
  BY <1>1, NativeFacts DEF Spoken
<1>6. OutputOf(t, l + 1) = NativeFor(event, event.block, enc.next_wire_index, types, called)
  BY <1>2, <1>4, <1>5, Zenon
<1>7. Wrote(NativeFor(event, event.block, enc.next_wire_index, types, called))
  BY Zenon DEF Speaks, StartSpeaks
<1>. QED BY <1>1, <1>6, <1>7, Zenon

LEMMA DeltaOutput ==
  ASSUME TypeOK, NEW s \in Seq(IrEvents), NEW event \in IrEvents, Spoken(s, enc), Speaks(event),
         NEW next, NewIndexes(Append(s, event), next), IsDelta(event)
  PROVE  Wrote(OutputOf(Append(s, event), Len(s) + 1))
<1>1. PICK t, l : t = Append(s, event) /\ l = Len(s)  OBVIOUS
<1>2. l \in Nat /\ Len(t) = l + 1 /\ t[l + 1] = event /\ \A j \in 1..l : t[j] = s[j]
  BY <1>1, AppendFacts
<1>3. DeltaSpeaks(event) /\ ~enc.done  BY DEF Speaks
<1>4. event.index = enc.open_ir_index /\ enc.open \in {"text", "thinking", "tool", "custom"}
  BY <1>3 DEF DeltaSpeaks
<1>5. PICK k \in 1..l : HeldBlock(s, enc, k)
  BY <1>1, <1>3, <1>4 DEF Spoken, BlockKnown
<1>6. PICK block, types, called : /\ block = s[k].block /\ types = TypesIn(t, k, l + 1)
                                  /\ called = Brought(t, l + 1, ToolKinds)
  OBVIOUS
<1>7. k \in 1..(l + 1) /\ t[k] = s[k]  BY <1>2
<1>8. IsStart(s[k]) /\ s[k].index = event.index
  BY <1>4, <1>5 DEF HeldBlock, OpenFrom
<1>9. enc.open_index = NativeIndex(s, k)
  <2>1. block.kind \in EncodableKinds /\ OpenAs(block.kind) # "atomic"
    BY <1>4, <1>5, <1>6 DEF HeldBlock
  <2>2. block.kind \notin OmittedKinds  BY <2>1, OpenAsKinds
  <2>. QED BY <1>5, <1>6, <2>2 DEF HeldBlock
<1>10. NativeIndex(t, k) = enc.open_index  BY <1>1, <1>9, NativeFacts
<1>11. OutputOf(t, l + 1) = NativeFor(event, block, enc.open_index, types, called)
  <2>1. OutputOf(t, l + 1) = NativeFor(event, t[k].block, NativeIndex(t, k), types, called)
    BY <1>1, <1>6, <1>7, <1>8, OutputAtEnd
  <2>. QED BY <1>6, <1>7, <1>10, <2>1, Zenon
<1>12. Wrote(NativeFor(event, block, enc.open_index, types, called))
  BY <1>3, Zenon DEF DeltaSpeaks
<1>. QED BY <1>1, <1>11, <1>12, Zenon

LEMMA StopOutput ==
  ASSUME TypeOK, NEW s \in Seq(IrEvents), NEW event \in IrEvents, Spoken(s, enc), Speaks(event),
         NEW next, NewIndexes(Append(s, event), next), IsStop(event)
  PROVE  Wrote(OutputOf(Append(s, event), Len(s) + 1))
<1>1. PICK t, l : t = Append(s, event) /\ l = Len(s)  OBVIOUS
<1>2. l \in Nat /\ Len(t) = l + 1 /\ t[l + 1] = event /\ \A j \in 1..l : t[j] = s[j]
  BY <1>1, AppendFacts
<1>3. StopSpeaks(event) /\ ~enc.done  BY DEF Speaks
<1>4. event.index = enc.open_ir_index /\ enc.open # "none"
  BY <1>3 DEF StopSpeaks
<1>5. PICK k \in 1..l : HeldBlock(s, enc, k)
  BY <1>1, <1>3, <1>4 DEF Spoken, BlockKnown
<1>6. PICK block, types, called : /\ block = s[k].block /\ types = TypesIn(s, k, l)
                                  /\ called = Brought(t, l + 1, ToolKinds)
  OBVIOUS
<1>7. k \in 1..(l + 1) /\ t[k] = s[k]  BY <1>2
<1>8. IsStart(s[k]) /\ s[k].index = event.index
  BY <1>4, <1>5 DEF HeldBlock, OpenFrom
<1>9. /\ block \in Blocks /\ block.kind \in EncodableKinds /\ OpenAs(block.kind) = enc.open
      /\ Remembers(enc, block, types)
      /\ block.kind \notin OmittedKinds => enc.open_index = NativeIndex(s, k)
  <2>1. s[k] \in IrEvents  BY <1>1
  <2>2. s[k].block \in Blocks  BY <1>8, <2>1, EventForms
  <2>. QED BY <1>1, <1>5, <1>6, <2>2 DEF HeldBlock
<1>10. NativeIndex(t, k) = NativeIndex(s, k) /\ TypesIn(t, k, l + 1) = types
  <2>1. ~IsDelta(event)  BY DEF IsDelta, IsStop
  <2>. QED BY <1>1, <1>6, <2>1, NativeFacts, TypesGrow
<1>11. OutputOf(t, l + 1) = NativeFor(event, block, NativeIndex(s, k), types, called)
  <2>1. OutputOf(t, l + 1)
          = NativeFor(event, t[k].block, NativeIndex(t, k), TypesIn(t, k, l + 1), called)
    BY <1>1, <1>6, <1>7, <1>8, OutputAtEnd
  <2>. QED BY <1>6, <1>7, <1>10, <2>1, Zenon
<1>12. Wrote(NativeFor(event, block, enc.open_index, types, called))
  BY <1>3, <1>9, Zenon DEF StopSpeaks
<1>13. NativeFor(event, block, NativeIndex(s, k), types, called)
         = NativeFor(event, block, enc.open_index, types, called)
  <2>1. CASE block.kind \in OmittedKinds  BY <2>1, StopForm
  <2>2. CASE block.kind \notin OmittedKinds  BY <1>9, <2>2, Zenon
  <2>. QED BY <2>1, <2>2
<1>. QED BY <1>1, <1>11, <1>12, <1>13, Zenon

LEMMA MessageOutput ==
  ASSUME TypeOK, NEW s \in Seq(IrEvents), NEW event \in IrEvents, Spoken(s, enc), Speaks(event),
         ~IsStart(event), ~IsDelta(event), ~IsStop(event)
  PROVE  Wrote(OutputOf(Append(s, event), Len(s) + 1))
<1>1. PICK t, l : t = Append(s, event) /\ l = Len(s)  OBVIOUS
<1>2. l \in Nat /\ Len(t) = l + 1 /\ t[l + 1] = event  BY <1>1, AppendFacts
<1>3. MessageSpeaks(event)  BY EventForms DEF Speaks
<1>4. PICK b, block, i, types :
        /\ b = BlockAt(t, l + 1) /\ block = t[b].block /\ i = NativeIndex(t, b)
        /\ types = TypesIn(t, b, l + 1)
  OBVIOUS
<1>5. Brought(t, l + 1, ToolKinds) = enc.tool_seen
  <2>1. Brought(t, l + 1, ToolKinds) <=> enc.tool_seen
    BY <1>1, BroughtStays DEF Spoken
  <2>2. enc.tool_seen \in BOOLEAN  BY DEF TypeOK, Encoders
  <2>. QED BY <2>1, <2>2 DEF Brought
<1>6. OutputOf(t, l + 1) = NativeFor(event, block, i, types, enc.tool_seen)
  BY <1>2, <1>4, <1>5, Zenon DEF OutputOf
<1>7. Wrote(NativeFor(event, block, i, types, enc.tool_seen))
  BY <1>3, Zenon DEF MessageSpeaks
<1>. QED BY <1>1, <1>6, <1>7, Zenon

LEMMA LastOutput ==
  ASSUME TypeOK, NEW s \in Seq(IrEvents), NEW event \in IrEvents, Spoken(s, enc), Speaks(event),
         NEW next, NewIndexes(Append(s, event), next)
  PROVE  Wrote(OutputOf(Append(s, event), Len(s) + 1))
BY StartOutput, DeltaOutput, StopOutput, MessageOutput

(* The output grows with what a call hands over. *)
LEMMA OutputGrows ==
  ASSUME TypeOK, NEW s \in Seq(IrEvents), NEW event \in IrEvents, Spoken(s, enc), Speaks(event),
         NEW next, NewIndexes(Append(s, event), next)
  PROVE  /\ enc'.wire = Concat(AllOutput(Append(s, event)))
         /\ AllOutput(Append(s, event)) \in Seq(Seq(WireEvents))
<1>1. PICK t, l, f, g, x, S :
        /\ t = Append(s, event) /\ l = Len(s) /\ f = AllOutput(s) /\ g = AllOutput(t)
        /\ x = OutputOf(t, l + 1) /\ S = Seq(WireEvents)
  OBVIOUS
<1>2. l \in Nat /\ Len(t) = l + 1  BY <1>1, AppendFacts
<1>3. x \in S /\ enc'.wire = enc.wire \o x  BY <1>1, LastOutput DEF Wrote
<1>4. f \in Seq(S) /\ Len(f) = l /\ enc.wire = Concat(f) /\ Owned(s)
  BY <1>1, <1>2 DEF Spoken, AllOutput
<1>5. g = [k \in 1..(l + 1) |-> OutputOf(t, k)] /\ f = [k \in 1..l |-> OutputOf(s, k)]
  BY <1>1, <1>2 DEF AllOutput
<1>6. \A k \in 1..l : g[k] = f[k]
  <2>1. ASSUME NEW k \in 1..l
        PROVE  g[k] = f[k]
    <3>1. OutputOf(t, k) = OutputOf(s, k)  BY <1>1, <1>4, OutputStays
    <3>2. k \in 1..(l + 1)  BY <1>2
    <3>. QED BY <1>5, <3>1, <3>2
  <2>. QED BY <2>1
<1>7. g = Append(f, x)
  <2>1. PICK h : h = Append(f, x)  OBVIOUS
  <2>2. /\ h \in Seq(S) /\ Len(h) = l + 1 /\ h[l + 1] = x /\ \A k \in 1..l : h[k] = f[k]
    BY <1>2, <1>3, <1>4, <2>1
  <2>3. DOMAIN g = 1..(l + 1) /\ DOMAIN h = 1..(l + 1)  BY <1>5, <2>2
  <2>4. g[l + 1] = x  BY <1>1, <1>2, <1>5
  <2>5. \A k \in 1..(l + 1) : g[k] = h[k]
    <3>1. \A k \in 1..(l + 1) : k \in 1..l \/ k = l + 1  BY <1>2
    <3>. QED BY <1>6, <2>2, <2>4, <3>1
  <2>6. g = [k \in 1..(l + 1) |-> g[k]] /\ h = [k \in 1..(l + 1) |-> h[k]]
    BY <1>5, <2>2, <2>3
  <2>. QED BY <2>1, <2>5, <2>6
<1>8. Concat(g) = Concat(f) \o x  BY <1>1, <1>3, <1>4, <1>7, ConcatAppend
<1>9. g \in Seq(S)  BY <1>3, <1>4, <1>7
<1>. QED BY <1>1, <1>3, <1>4, <1>8, <1>9

(* The block that the struct holds open stays the one of the stream, ... *)
LEMMA BlockStaysKnown ==
  ASSUME TypeOK, NEW s \in Seq(IrEvents), NEW event \in IrEvents, Spoken(s, enc), Speaks(event),
         Advances(event, enc')
  PROVE  BlockKnown(Append(s, event), enc')
<1>1. PICK t, l, e : t = Append(s, event) /\ l = Len(s) /\ e = enc'  OBVIOUS
<1>2. l \in Nat /\ Len(t) = l + 1 /\ t[l + 1] = event /\ \A j \in 1..l : t[j] = s[j]
  BY <1>1, AppendFacts
<1>3. CASE IsStart(event)
  <2>1. e.open = OpenAs(event.block.kind) /\ e.open_ir_index = event.index
    BY <1>1, <1>3 DEF Advances
  <2>2. /\ event.block.kind \in EncodableKinds
        /\ event.block.kind \notin OmittedKinds => e.open_index = enc.next_wire_index
        /\ Remembers(e, event.block, {})
    BY <1>1, <1>3, Zenon DEF Speaks, StartSpeaks
  <2>3. OpenFrom(t, l + 1) /\ l + 1 \in 1..Len(t)  BY <1>2, <1>3 DEF OpenFrom
  <2>4. NativeIndex(t, l + 1) = enc.next_wire_index
    BY <1>1, NativeFacts DEF Spoken
  <2>5. TypesIn(t, l + 1, l + 1) = {}
    <3>1. \A n \in (l + 1)..(l + 1) : n = l + 1  BY <1>2
    <3>2. ~IsDelta(event)  BY <1>3 DEF IsStart, IsDelta
    <3>3. {n \in (l + 1)..(l + 1) : IsDelta(t[n])} = {}  BY <1>2, <3>1, <3>2
    <3>. QED BY <3>3 DEF TypesIn
  <2>6. HeldBlock(t, e, l + 1)
    BY <1>2, <2>1, <2>2, <2>3, <2>4, <2>5, Zenon DEF HeldBlock
  <2>. QED BY <1>1, <2>3, <2>6 DEF BlockKnown
<1>4. CASE IsDelta(event)
  <2>1. DeltaSpeaks(event) /\ ~enc.done  BY <1>4 DEF Speaks
  <2>2. enc.open # "none" /\ e.open_index = enc.open_index
    BY <1>1, <2>1 DEF DeltaSpeaks
  <2>3. PICK k \in 1..l : HeldBlock(s, enc, k)
    BY <1>1, <2>1, <2>2 DEF Spoken, BlockKnown
  <2>4. e.open = enc.open /\ e.open_ir_index = enc.open_ir_index
    BY <1>1, <1>4 DEF Advances
  <2>5. PICK block, types : block = s[k].block /\ types = TypesIn(s, k, l)
    OBVIOUS
  <2>6. k \in 1..Len(t) /\ t[k] = s[k] /\ k \in Nat  BY <1>2
  <2>7. OpenFrom(t, k)
    <3>1. ASSUME NEW n \in (k + 1)..Len(t)
          PROVE  IsDelta(t[n])
      <4>1. (n \in 1..l /\ n \in (k + 1)..l) \/ n = l + 1  BY <1>2, <2>6
      <4>. QED BY <1>1, <1>2, <1>4, <2>3, <4>1 DEF HeldBlock, OpenFrom
    <3>. QED BY <2>3, <2>6, <3>1 DEF HeldBlock, OpenFrom
  <2>8. NativeIndex(t, k) = NativeIndex(s, k)  BY <1>1, NativeFacts
  <2>9. TypesIn(t, k, l + 1) = types \union {event.delta.type}
    BY <1>1, <1>4, <2>5, TypesGrow
  <2>10. OpenAs(block.kind) = enc.open /\ Remembers(enc, block, types)
    BY <1>1, <2>3, <2>5, Zenon DEF HeldBlock
  <2>11. Remembers(e, block, types \union {event.delta.type})
    BY <1>1, <2>1, <2>10, Zenon DEF DeltaSpeaks
  <2>12. HeldBlock(t, e, k)
    BY <1>2, <2>2, <2>3, <2>4, <2>5, <2>6, <2>7, <2>8, <2>9, <2>11, Zenon DEF HeldBlock
  <2>. QED BY <1>1, <2>6, <2>12 DEF BlockKnown
<1>5. CASE ~IsStart(event) /\ ~IsDelta(event)
  <2>1. \/ IsStop(event)
        \/ event.type \in {"message_start", "message_delta", "message_done"}
    BY <1>5, EventForms
  <2>2. e.open = "none" \/ e.done
    BY <1>1, <2>1 DEF Speaks, StopSpeaks, MessageSpeaks
  <2>. QED BY <1>1, <2>2 DEF BlockKnown
<1>. QED BY <1>3, <1>4, <1>5

(* ... so that every delta and every stop has a block before it. *)
LEMMA OwnedStays ==
  ASSUME NEW s \in Seq(IrEvents), NEW event \in IrEvents, Spoken(s, enc), Speaks(event)
  PROVE  Owned(Append(s, event))
<1>1. PICK t, l : t = Append(s, event) /\ l = Len(s)  OBVIOUS
<1>2. l \in Nat /\ Len(t) = l + 1 /\ t[l + 1] = event /\ \A j \in 1..l : t[j] = s[j]
  BY <1>1, AppendFacts
<1>3. ASSUME NEW k \in 1..l, IsDelta(t[k]) \/ IsStop(t[k])
      PROVE  \E j \in 1..k : IsStart(t[j]) /\ t[j].index = t[k].index
  <2>1. PICK j \in 1..k : IsStart(s[j]) /\ s[j].index = s[k].index
    BY <1>1, <1>2, <1>3 DEF Spoken, Owned
  <2>2. t[j] = s[j] /\ t[k] = s[k]  BY <1>2
  <2>. QED BY <2>1, <2>2
<1>4. ASSUME IsDelta(event) \/ IsStop(event)
      PROVE  \E j \in 1..(l + 1) : IsStart(t[j]) /\ t[j].index = event.index
  <2>1. enc.open # "none" /\ ~enc.done /\ event.index = enc.open_ir_index
    BY <1>4 DEF Speaks, DeltaSpeaks, StopSpeaks
  <2>2. PICK k \in 1..l : OpenFrom(s, k) /\ s[k].index = enc.open_ir_index
    BY <1>1, <2>1 DEF Spoken, BlockKnown, HeldBlock
  <2>3. k \in 1..(l + 1) /\ t[k] = s[k]  BY <1>2
  <2>. QED BY <2>1, <2>2, <2>3 DEF OpenFrom
<1>5. \A k \in 1..(l + 1) : k \in 1..l \/ k = l + 1  BY <1>2
<1>. QED BY <1>1, <1>2, <1>3, <1>4, <1>5 DEF Owned

(* An accepted event keeps what is said and known of the stream. *)
LEMMA SpokenAppend ==
  ASSUME TypeOK, NEW s \in Seq(IrEvents), NEW event \in IrEvents, Spoken(s, enc), Speaks(event),
         Advances(event, enc'), Tells(event, enc'),
         NEW next, NewIndexes(Append(s, event), next)
  PROVE  Spoken(Append(s, event), enc')
<1>1. PICK t, l, e : t = Append(s, event) /\ l = Len(s) /\ e = enc'  OBVIOUS
<1>2. l \in Nat /\ Len(t) = l + 1  BY <1>1, AppendFacts
<1>3. e.wire = Concat(AllOutput(t)) /\ AllOutput(t) \in Seq(Seq(WireEvents))
  BY <1>1, OutputGrows
<1>4. e.next_wire_index = Cardinality(NativeAt(t))
  <2>1. enc.next_wire_index = Cardinality(NativeAt(s))  BY DEF Spoken
  <2>2. e.next_wire_index = IF IsStart(event) /\ event.block.kind \notin OmittedKinds
                            THEN enc.next_wire_index + 1 ELSE enc.next_wire_index
    BY <1>1 DEF Tells
  <2>3. Cardinality(NativeAt(t)) = IF IsStart(event) /\ event.block.kind \notin OmittedKinds
                                   THEN Cardinality(NativeAt(s)) + 1 ELSE Cardinality(NativeAt(s))
    BY <1>1, NativeFacts
  <2>. QED BY <2>1, <2>2, <2>3
<1>5. e.tool_seen <=> Brought(t, l + 1, ToolKinds)
  BY <1>1, BroughtStays DEF Spoken, Tells
<1>6. BlockKnown(t, e)  BY <1>1, BlockStaysKnown
<1>7. Owned(t)  BY <1>1, OwnedStays
<1>. QED BY <1>1, <1>2, <1>3, <1>4, <1>5, <1>6, <1>7 DEF Spoken

-----------------------------------------------------------------------------
(* What is said of the stream is an invariant of the struct. *)

OutInv == EncInv /\ (Faultless => Spoken(applied, enc))

LEMMA InitOutInv == Init => OutInv
<1> SUFFICES ASSUME Init
             PROVE  Spoken(applied, enc)
  BY InitEncInv DEF OutInv
<1>1. PICK s, none : s = applied /\ none = <<>>  OBVIOUS
<1>2. s = <<>> /\ Len(s) = 0 /\ 1..Len(s) = {}  BY <1>1 DEF Init
<1>3. enc.wire = none /\ enc.next_wire_index = 0 /\ enc.tool_seen = FALSE /\ enc.open = "none"
  BY <1>1 DEF Init, NewEncoder
<1>4. AllOutput(s) = none  BY <1>1, <1>2 DEF AllOutput
<1>5. Concat(AllOutput(s)) = none /\ AllOutput(s) \in Seq(Seq(WireEvents))
  BY <1>1, <1>4, ConcatEmpty
<1>6. NativeAt(s) = {}  BY <1>2 DEF NativeAt
<1>7. Cardinality(NativeAt(s)) = 0  BY <1>6, FS_EmptySet
<1>8. ~Brought(s, Len(s), ToolKinds) /\ Owned(s) /\ BlockKnown(s, enc)
  BY <1>2, <1>3 DEF Brought, Owned, BlockKnown
<1>. QED BY <1>1, <1>3, <1>5, <1>7, <1>8 DEF Spoken

LEMMA StepOutInv == OutInv /\ [Next]_vars => OutInv'
<1> SUFFICES ASSUME OutInv, [Next]_vars, Faultless'
             PROVE  Spoken(applied, enc)'
  BY StepEncInv DEF OutInv
<1>1. ASSUME NEW event \in Events, Apply(event)
      PROVE  Spoken(applied', enc')
  <2>1. /\ TypeOK /\ Consistent(enc) /\ applied \in Seq(Events) /\ enc \in Encoders
    BY DEF OutInv, EncInv, TypeOK
  <2>2. Tells(event, enc') /\ Speaks(event)
    BY <1>1, <2>1, EveryCallTells, EveryCallSpeaks
  <2>3. PICK e \in Encoders :
          /\ Consistent(e)
          /\ \/ /\ \E wire \in Seq(WireEvents) : Accepted(event, e, wire)
                /\ Advances(event, e)
             \/ /\ Refused(event, e)
                /\ ~Allowed(View(enc), event) \/ Unfit(View(enc), event)
    BY <1>1, <2>1, EveryOutcome DEF Outcome
  <2>4. PICK wire \in Seq(WireEvents) : Accepted(event, e, wire) /\ Advances(event, e)
    BY <2>3, RefusedFault
  <2>5. PICK d : d = [e EXCEPT !.wire = @ \o wire]  OBVIOUS
  <2>6. /\ View(d) = View(e) /\ d.open = e.open /\ d.open_ir_index = e.open_ir_index
        /\ d.next_index = e.next_index /\ d.delta_seen = e.delta_seen
    BY <2>3, <2>5, WiredFacts
  <2>7. enc' = d /\ applied' = Append(applied, event) /\ refused' = refused
    BY <2>4, <2>5 DEF Accepted
  <2>8. Advances(event, d)  BY <2>4, <2>6 DEF Advances
  <2>9. event \in IrEvents /\ applied \in Seq(IrEvents)
    BY <2>1, EncoderAssumption
  <2>10. Spoken(applied, enc)  BY <2>7 DEF OutInv, Faultless
  <2>11. NewIndexes(applied', enc'.next_index)
    <3>1. EncInv'  BY StepEncInv DEF OutInv
    <3>. QED BY <3>1 DEF EncInv, Follow
  <2>12. Advances(event, enc') /\ NewIndexes(Append(applied, event), enc'.next_index)
    BY <2>7, <2>8, <2>11
  <2>13. Spoken(Append(applied, event), enc')
    BY <2>1, <2>2, <2>9, <2>10, <2>12, SpokenAppend
  <2>. QED BY <2>7, <2>13
<1>2. CASE UNCHANGED vars
  <2>1. enc' = enc /\ applied' = applied /\ refused' = refused  BY <1>2 DEF vars
  <2>. QED BY <2>1 DEF OutInv, Faultless
<1>. QED BY <1>1, <1>2 DEF Next

(* What the encoder hands over, as long as it has refused nothing, is what
   it was given: event by event and each in its own block, under native
   indexes that count the blocks with a native form; every fragment where
   it was named; what no fragment brought once, at the stop of its block;
   a stop reason that fits the blocks that came.  Of a stream in which
   thinking comes late the theorem says nothing. *)
THEOREM EncoderIsBlockwise == Spec => []OutputIsBlockwise
<1>1. OutInv => OutputIsBlockwise
  BY Zenon DEF OutInv, Spoken, AllOutput, OutputIsBlockwise
<1>. QED BY <1>1, InitOutInv, StepOutInv, PTL DEF Spec
=============================================================================
