----------------------- MODULE ReStreamEncoder_proofs ------------------------
(***************************************************************************)
(* Theorems about ReStreamEncoder, for every set of events and any number  *)
(* of calls.                                                               *)
(*                                                                         *)
(* The encoder does not notice the signature of a thinking block; apart    *)
(* from that, the flags and the active block are a view of IrStream_proofs *)
(* that tracks the events applied.  Up to the first refusal it is shown    *)
(* that an event the grammar does not admit is a delta after a signature,  *)
(* that the item under way is never in the way of the next block, and      *)
(* that every gap has its loss.                                            *)
(*                                                                         *)
(* For the terminal event the stream is read as a ledger: every item but   *)
(* the one under way was announced, told part by part and ended, and       *)
(* nothing was said of an index not yet announced.                         *)
(***************************************************************************)
EXTENDS ReStreamEncoder, IrStream_proofs, TLAPS

-----------------------------------------------------------------------------
(* The struct *)

(* What is sent is left open: the ids of items are made of texts and
   numbers.  The fields that decide what is accepted are typed. *)
ItemShape(item) ==
  item = [kind |-> item.kind, id |-> item.id, role |-> item.role, call_id |-> item.call_id,
          name |-> item.name, ns |-> item.ns, status |-> item.status,
          payload |-> item.payload, input |-> item.input, cipher |-> item.cipher,
          content |-> item.content]

ActiveShape(a) == a = [output_index |-> a.output_index, item |-> a.item] /\ ItemShape(a.item)

BlockShape(b) ==
  /\ b = [index |-> b.index, source |-> b.source, content_index |-> b.content_index,
          text |-> b.text, fragments |-> b.fragments,
          citation_loss_seen |-> b.citation_loss_seen]
  /\ b.index \in Nat /\ b.source \in Blocks /\ b.fragments \in Seq(Text)
  /\ b.citation_loss_seen \in BOOLEAN

Shape(e) ==
  e = [started |-> e.started, delta |-> e.delta, done |-> e.done,
       next_block_index |-> e.next_block_index, next_output_index |-> e.next_output_index,
       next_item |-> e.next_item, active_item |-> e.active_item,
       active_block |-> e.active_block, completed |-> e.completed,
       event_ordinal |-> e.event_ordinal, wire |-> e.wire, losses |-> e.losses]

LossesTold == {"citations", "signature", "block", "stop_sequence"} \X Int

ItemHeld(o) == o = None \/ \E a : ActiveShape(a) /\ o = Some(a)

BlockHeld(o) == o = None \/ \E b : BlockShape(b) /\ o = Some(b)

Typed(e) ==
  /\ Shape(e)
  /\ e.started \in BOOLEAN /\ e.delta \in BOOLEAN /\ e.done \in BOOLEAN
  /\ e.next_block_index \in Nat /\ e.event_ordinal \in Nat
  /\ e.losses \in Seq(LossesTold)
  /\ ItemHeld(e.active_item) /\ BlockHeld(e.active_block)

(* Everything but the item under way, what is numbered and what is sent. *)
SameBooks(d, e) ==
  /\ d.started = e.started /\ d.delta = e.delta /\ d.done = e.done
  /\ d.next_block_index = e.next_block_index /\ d.event_ordinal = e.event_ordinal
  /\ d.active_block = e.active_block /\ d.losses = e.losses

(* An Option that is taken. *)
LEMMA SomeFacts ==
  ASSUME NEW x
  PROVE  Some(x) # None /\ Some(x)[1] = x
BY DEF Some, None

(* Sending changes nothing else. *)
LEMMA SendFacts ==
  ASSUME NEW e, Typed(e), NEW events
  PROVE  /\ Typed(Send(e, events)) /\ SameBooks(Send(e, events), e)
         /\ Send(e, events).active_item = e.active_item
<1>1. PICK wire : wire = e.wire \o events  OBVIOUS
<1>2. PICK d : d = [e EXCEPT !.wire = wire]  OBVIOUS
<1>3. Send(e, events) = d  BY <1>1, <1>2 DEF Send, Typed, Shape
<1>4. Shape(d) /\ SameBooks(d, e) /\ d.active_item = e.active_item
  BY <1>2 DEF Typed, Shape, SameBooks
<1>. QED BY <1>3, <1>4 DEF Typed, SameBooks

(* A loss is told at the end of the losses. *)
LEMMA LoseFacts ==
  ASSUME NEW e, Typed(e), NEW what \in LossesTold
  PROVE  /\ Typed(Lose(e, what)) /\ Lose(e, what).losses = Append(e.losses, what)
         /\ Lose(e, what).active_item = e.active_item
         /\ Lose(e, what).started = e.started /\ Lose(e, what).delta = e.delta
         /\ Lose(e, what).done = e.done
         /\ Lose(e, what).next_block_index = e.next_block_index
         /\ Lose(e, what).event_ordinal = e.event_ordinal
         /\ Lose(e, what).active_block = e.active_block
<1>1. PICK losses : losses = Append(e.losses, what)  OBVIOUS
<1>2. PICK d : d = [e EXCEPT !.losses = losses]  OBVIOUS
<1>3. Lose(e, what) = d  BY <1>1, <1>2 DEF Lose, Typed, Shape
<1>4. Shape(d) /\ d.losses = losses /\ d.active_item = e.active_item /\ d.started = e.started
      /\ d.delta = e.delta /\ d.done = e.done /\ d.next_block_index = e.next_block_index
      /\ d.event_ordinal = e.event_ordinal /\ d.active_block = e.active_block
  BY <1>2 DEF Typed, Shape
<1>5. losses \in Seq(LossesTold)  BY <1>1 DEF Typed
<1>6. Typed(d)  BY <1>4, <1>5 DEF Typed
<1>. QED BY <1>1, <1>3, <1>4, <1>6

(* An item is opened, ... *)
LEMMA OpenItemFacts ==
  ASSUME NEW e, Typed(e), NEW item, ItemShape(item)
  PROVE  /\ Typed(OpenItem(e, item)) /\ SameBooks(OpenItem(e, item), e)
         /\ OpenItem(e, item).active_item # None
         /\ OpenItem(e, item).active_item[1].item = item
<1>1. PICK a, index, next : /\ a = [output_index |-> e.next_output_index, item |-> item]
                            /\ index = e.next_output_index + 1
                            /\ next = IF item.kind \in NumberedItems
                                      THEN [e.next_item EXCEPT ![item.kind] = @ + 1]
                                      ELSE e.next_item
  OBVIOUS
<1>2. ActiveShape(a) /\ a.item = item  BY <1>1 DEF ActiveShape
<1>3. PICK d : d = [e EXCEPT !.active_item = Some(a), !.next_output_index = index,
                            !.next_item = next]
  OBVIOUS
<1>4. Shape(d) /\ SameBooks(d, e) /\ d.active_item = Some(a)
  BY <1>3 DEF Typed, Shape, SameBooks
<1>5. ItemHeld(d.active_item)  BY <1>2, <1>4 DEF ItemHeld
<1>6. Typed(d)  BY <1>4, <1>5 DEF Typed, SameBooks
<1>7. PICK events : events = <<WireItem("output_item.added", e.next_output_index, Some(item))>>
  OBVIOUS
<1>8. OpenItem(e, item) = Send(d, events)
  BY <1>1, <1>3, <1>7 DEF OpenItem, Typed, Shape
<1>9. /\ Typed(Send(d, events)) /\ SameBooks(Send(d, events), d)
      /\ Send(d, events).active_item = d.active_item
  BY <1>6, SendFacts
<1>. QED BY <1>2, <1>4, <1>8, <1>9, SomeFacts DEF SameBooks

(* ... and closed. *)
LEMMA CloseItemFacts ==
  ASSUME NEW e, Typed(e), NEW item
  PROVE  /\ Typed(CloseItem(e, item)) /\ SameBooks(CloseItem(e, item), e)
         /\ CloseItem(e, item).active_item = None
<1>1. PICK completed : completed = Append(e.completed, item)  OBVIOUS
<1>2. PICK d : d = [e EXCEPT !.active_item = None, !.completed = completed]
  OBVIOUS
<1>3. Shape(d) /\ SameBooks(d, e) /\ d.active_item = None
  BY <1>2 DEF Typed, Shape, SameBooks
<1>4. Typed(d)  BY <1>3 DEF Typed, SameBooks, ItemHeld
<1>5. PICK events : events = <<WireItem("output_item.done", e.active_item[1].output_index,
                                       Some(item))>>
  OBVIOUS
<1>6. CloseItem(e, item) = Send(d, events)
  BY <1>1, <1>2, <1>5 DEF CloseItem, Typed, Shape
<1>7. /\ Typed(Send(d, events)) /\ SameBooks(Send(d, events), d)
      /\ Send(d, events).active_item = d.active_item
  BY <1>4, SendFacts
<1>. QED BY <1>3, <1>6, <1>7 DEF SameBooks

(* Room for a block: the item stays if it takes the block. *)
LEMMA MakeRoomFacts ==
  ASSUME NEW e, Typed(e), NEW kind
  PROVE  /\ Typed(MakeRoom(e, kind)) /\ SameBooks(MakeRoom(e, kind), e)
         /\ \/ MakeRoom(e, kind).active_item = None
            \/ /\ MakeRoom(e, kind).active_item = e.active_item /\ e.active_item # None
               /\ StaysOpen(e.active_item[1].item, kind)
<1>1. CASE MakeRoom(e, kind) = e /\ e.active_item = None  BY <1>1 DEF SameBooks
<1>2. CASE MakeRoom(e, kind) = e /\ e.active_item # None /\ StaysOpen(e.active_item[1].item, kind)
  BY <1>2 DEF SameBooks
<1>3. CASE MakeRoom(e, kind) = Completed(e)
  BY <1>3, CloseItemFacts DEF Completed
<1>. QED BY <1>1, <1>2, <1>3 DEF MakeRoom

(* An item for a part or a cipher. *)
LEMMA WithItemFacts ==
  ASSUME NEW e, Typed(e), NEW kind, NEW of \in {"message", "reasoning"}
  PROVE  /\ Typed(WithItem(e, kind, of)) /\ SameBooks(WithItem(e, kind, of), e)
         /\ WithItem(e, kind, of).active_item # None
         /\ WithItem(e, kind, of).active_item[1].item.kind \in {"message", "reasoning"}
<1>1. PICK room : room = MakeRoom(e, kind)  OBVIOUS
<1>2. /\ Typed(room) /\ SameBooks(room, e)
      /\ room.active_item # None =>
           /\ room.active_item = e.active_item /\ StaysOpen(e.active_item[1].item, kind)
  BY <1>1, MakeRoomFacts
<1>3. CASE room.active_item # None
  <2>1. WithItem(e, kind, of) = room  BY <1>1, <1>3 DEF WithItem
  <2>2. room.active_item[1].item.kind \in {"message", "reasoning"}
    BY <1>2, <1>3 DEF StaysOpen
  <2>. QED BY <1>2, <1>3, <2>1, <2>2
<1>4. CASE room.active_item = None
  <2>1. PICK id, item : /\ id = GeneratedId(e, of)
                        /\ item = [Item(of, id) EXCEPT !.status = "in_progress"]
    OBVIOUS
  <2>2. ItemShape(item) /\ item.kind = of
    <3>1. PICK empty : empty = ""  OBVIOUS
    <3>2. Item(of, id) =
            [kind |-> of, id |-> id, role |-> "assistant", call_id |-> empty, name |-> <<>>,
             ns |-> empty, status |-> empty, payload |-> "absent", input |-> None,
             cipher |-> <<>>, content |-> <<>>]
      BY <3>1, Zenon DEF Item
    <3>. QED BY <2>1, <3>2 DEF ItemShape
  <2>3. WithItem(e, kind, of) = OpenItem(room, item)
    <3>1. WithItem(e, kind, of) =
            IF room.active_item # None THEN room
            ELSE OpenItem(room, [Item(of, GeneratedId(e, of)) EXCEPT !.status = "in_progress"])
      BY <1>1, Zenon DEF WithItem
    <3>. QED BY <1>4, <2>1, <3>1
  <2>4. /\ Typed(OpenItem(room, item)) /\ SameBooks(OpenItem(room, item), room)
        /\ OpenItem(room, item).active_item # None
        /\ OpenItem(room, item).active_item[1].item = item
    BY <1>2, <2>2, OpenItemFacts
  <2>. QED BY <1>2, <2>2, <2>3, <2>4 DEF SameBooks
<1>. QED BY <1>3, <1>4

(* The block that starts. *)
LEMMA OpenFacts ==
  ASSUME NEW e, Typed(e), NEW event, IsStart(event), event \in IrEvents, NEW content_index,
         NEW d, d = Open(e, event, content_index)
  PROVE  /\ Typed(d)
         /\ d.active_block # None
         /\ d.active_block[1].index = event.index /\ d.active_block[1].source = event.block
         /\ d.active_block[1].fragments = <<>>
         /\ d.active_block[1].citation_loss_seen <=> event.block.citations # <<>>
         /\ d.started = e.started /\ d.delta = e.delta /\ d.done = e.done
         /\ d.next_block_index = e.next_block_index /\ d.event_ordinal = e.event_ordinal
         /\ d.active_item = e.active_item /\ d.losses = e.losses
<1>1. PICK none, cited : none = <<>> /\ cited = (event.block.citations # <<>>)
  OBVIOUS
<1>2. PICK b : b = [index |-> event.index, source |-> event.block,
                    content_index |-> content_index, text |-> event.block.text,
                    fragments |-> none, citation_loss_seen |-> cited]
  OBVIOUS
<1>3. BlockShape(b)
  <2>1. none \in Seq(Text) /\ cited \in BOOLEAN  BY <1>1
  <2>2. event.index \in Nat /\ event.block \in Blocks  BY EventForms
  <2>. QED BY <1>2, <2>1, <2>2 DEF BlockShape
<1>4. d = [e EXCEPT !.active_block = Some(b)]  BY <1>1, <1>2, Zenon DEF Open
<1>5. /\ Shape(d) /\ d.active_block = Some(b)
      /\ d.started = e.started /\ d.delta = e.delta /\ d.done = e.done
      /\ d.next_block_index = e.next_block_index /\ d.event_ordinal = e.event_ordinal
      /\ d.active_item = e.active_item /\ d.losses = e.losses
  BY <1>4 DEF Typed, Shape
<1>6. BlockHeld(d.active_block)  BY <1>3, <1>5 DEF BlockHeld
<1>7. Typed(d)  BY <1>5, <1>6 DEF Typed
<1>8. d.active_block # None /\ d.active_block[1] = b  BY <1>5, SomeFacts
<1>9. /\ b.index = event.index /\ b.source = event.block /\ b.fragments = <<>>
      /\ b.citation_loss_seen = cited
  BY <1>1, <1>2
<1>10. cited <=> event.block.citations # <<>>  BY <1>1, Zenon
<1>11. d.active_block[1].citation_loss_seen <=> event.block.citations # <<>>
  BY <1>8, <1>9, <1>10, Zenon
<1>. QED BY <1>5, <1>7, <1>8, <1>9, <1>11

(* A field of the item under way is set. *)
LEMMA ItemSetFacts ==
  ASSUME NEW e, Typed(e), e.active_item # None, NEW x
  PROVE  /\ \A d : d = [e EXCEPT !.active_item[1].item.content = x] =>
              /\ Typed(d) /\ SameBooks(d, e) /\ d.active_item # None
              /\ d.active_item[1].item.kind = e.active_item[1].item.kind
         /\ \A d : d = [e EXCEPT !.active_item[1].item.cipher = x] =>
              /\ Typed(d) /\ SameBooks(d, e) /\ d.active_item # None
              /\ d.active_item[1].item.kind = e.active_item[1].item.kind
<1>1. PICK a : ActiveShape(a) /\ e.active_item = Some(a)  BY DEF Typed, ItemHeld
<1>2. e.active_item = <<a>> /\ e.active_item[1] = a  BY <1>1 DEF Some
<1>3. ASSUME NEW item, ItemShape(item), item.kind = a.item.kind,
             NEW d, d = [e EXCEPT !.active_item = <<[output_index |-> a.output_index, item |-> item]>>]
      PROVE  /\ Typed(d) /\ SameBooks(d, e) /\ d.active_item # None
             /\ d.active_item[1].item.kind = e.active_item[1].item.kind
  <2>1. PICK b : b = [output_index |-> a.output_index, item |-> item]  OBVIOUS
  <2>2. ActiveShape(b) /\ b.item = item  BY <1>3, <2>1 DEF ActiveShape
  <2>3. Shape(d) /\ SameBooks(d, e) /\ d.active_item = Some(b)
    BY <1>3, <2>1 DEF Typed, Shape, SameBooks, Some
  <2>4. ItemHeld(d.active_item)  BY <2>2, <2>3 DEF ItemHeld
  <2>5. Typed(d)  BY <2>3, <2>4 DEF Typed, SameBooks
  <2>. QED BY <1>2, <1>3, <2>2, <2>3, <2>5, SomeFacts
<1>4. ASSUME NEW d, d = [e EXCEPT !.active_item[1].item.content = x]
      PROVE  \E item : /\ ItemShape(item) /\ item.kind = a.item.kind
                       /\ d = [e EXCEPT !.active_item =
                                 <<[output_index |-> a.output_index, item |-> item]>>]
  <2>1. PICK item : item = [a.item EXCEPT !.content = x]  OBVIOUS
  <2>2. ItemShape(item) /\ item.kind = a.item.kind
    BY <1>1, <2>1 DEF ActiveShape, ItemShape
  <2>3. [a EXCEPT !.item.content = x] = [output_index |-> a.output_index, item |-> item]
    BY <1>1, <2>1 DEF ActiveShape
  <2>4. [e.active_item EXCEPT ![1].item.content = x] =
          <<[output_index |-> a.output_index, item |-> item]>>
    BY <1>2, <2>3
  <2>5. d = [e EXCEPT !.active_item = [e.active_item EXCEPT ![1].item.content = x]]
    BY <1>4 DEF Typed, Shape
  <2>. QED BY <2>2, <2>4, <2>5
<1>5. ASSUME NEW d, d = [e EXCEPT !.active_item[1].item.cipher = x]
      PROVE  \E item : /\ ItemShape(item) /\ item.kind = a.item.kind
                       /\ d = [e EXCEPT !.active_item =
                                 <<[output_index |-> a.output_index, item |-> item]>>]
  <2>1. PICK item : item = [a.item EXCEPT !.cipher = x]  OBVIOUS
  <2>2. ItemShape(item) /\ item.kind = a.item.kind
    BY <1>1, <2>1 DEF ActiveShape, ItemShape
  <2>3. [a EXCEPT !.item.cipher = x] = [output_index |-> a.output_index, item |-> item]
    BY <1>1, <2>1 DEF ActiveShape
  <2>4. [e.active_item EXCEPT ![1].item.cipher = x] =
          <<[output_index |-> a.output_index, item |-> item]>>
    BY <1>2, <2>3
  <2>5. d = [e EXCEPT !.active_item = [e.active_item EXCEPT ![1].item.cipher = x]]
    BY <1>5 DEF Typed, Shape
  <2>. QED BY <2>2, <2>4, <2>5
<1>. QED BY <1>3, <1>4, <1>5

-----------------------------------------------------------------------------
(* The outcome of one call *)

(* The block that is open, or some block. *)
Held(e) ==
  IF e.active_block = None THEN [index |-> 0, source |-> TextBlock, fragments |-> <<>>]
  ELSE e.active_block[1]

View(e, signed) ==
  [place |-> IF e.done THEN "done"
             ELSE IF e.delta THEN "ended"
             ELSE IF ~e.started THEN "fresh"
             ELSE IF e.active_block # None THEN "within"
             ELSE "between",
   next |-> e.next_block_index, index |-> Held(e).index,
   family |-> BlockFamily(Held(e).source), signed |-> signed,
   tool |-> Held(e).source.kind \in ToolKinds, input |-> Held(e).source.text,
   fragments |-> Held(e).fragments]

(* These have an item of their own, which ends with them. *)
OwnItem == ToolKinds \union ApplyPatchKinds \union {"web_search_call"}

(* An item that takes no further block belongs to the block that is open. *)
Settled(e) ==
  \/ ActiveKind(e) \in {"none", "message", "reasoning"}
  \/ e.active_block # None /\ e.active_block[1].source.kind \in OwnItem

(* The flags, the block and the item agree. *)
Consistent(e) ==
  /\ ~e.started => e.active_block = None /\ e.next_block_index = 0 /\ ~e.delta
  /\ e.delta => e.active_block = None
  /\ e.done => e.delta
  /\ Settled(e)
  /\ (e.active_block # None /\ e.active_block[1].source.kind # "redacted_thinking") =>
       e.active_item # None

Signs(event) == IsDelta(event) /\ event.delta.type = "signature_delta"

(* What Responses cannot express, or an input that is not exact. *)
Unfit(v, event) ==
  \/ IsStart(event) /\ BlockInvalid(event.block)
  \/ IsStop(event) /\ v.tool /\ ~InputExact(v.input, v.fragments, TRUE)
  \/ event.type = "message_delta" /\ event.stop_reason = "other"

(* The gaps of one event. *)
Lost(event) ==
  CASE IsStart(event) /\ event.block.kind = "redacted_thinking" ->
         <<<<"block", enc.event_ordinal>>>>
    [] IsStart(event) /\ event.block.kind # "redacted_thinking" ->
         StartLosses(event.block, enc.event_ordinal)
    [] IsDelta(event) /\ event.delta.type = "signature_delta" ->
         <<<<"signature", enc.event_ordinal>>>>
    [] IsDelta(event) /\ event.delta.type = "citation_delta" ->
         IF enc.active_block[1].citation_loss_seen THEN <<>>
         ELSE <<<<"citations", enc.event_ordinal>>>>
    [] event.type = "message_delta" /\ event.stop_reason = "stop_sequence" ->
         <<<<"stop_sequence", -1>>>>
    [] OTHER -> <<>>

(* What an accepted call does: the grammar admits the event, unless the
   signature it does not know of forbids it; the view moves; the gaps are
   told; and the block that is open is the one that started. *)
Advances(event, e) ==
  /\ Allowed(View(enc, FALSE), event)
  /\ Moves(View(enc, FALSE), event, View(e, Signs(event)))
  /\ e.event_ordinal = enc.event_ordinal + 1
  /\ e.losses = enc.losses \o Lost(event)
  /\ IsStart(event) =>
       /\ event.index = enc.next_block_index /\ e.next_block_index = enc.next_block_index + 1
       /\ e.active_block # None
       /\ e.active_block[1].index = event.index /\ e.active_block[1].source = event.block
       /\ e.active_block[1].citation_loss_seen <=> event.block.citations # <<>>
  /\ ~IsStart(event) => e.next_block_index = enc.next_block_index
  /\ IsDelta(event) =>
       /\ enc.active_block # None /\ event.index = enc.active_block[1].index
       /\ e.active_block # None
       /\ e.active_block[1].index = enc.active_block[1].index
       /\ e.active_block[1].source = enc.active_block[1].source
       /\ e.active_block[1].citation_loss_seen <=>
            \/ enc.active_block[1].citation_loss_seen
            \/ event.delta.type = "citation_delta"
  /\ ~IsStart(event) /\ ~IsDelta(event) => e.active_block = None

Outcome(event) ==
  \/ \E e : Typed(e) /\ Consistent(e) /\ Accepted(event, e) /\ Advances(event, e)
  \/ \E e : Refused(event, e) /\ (~Allowed(View(enc, FALSE), event) \/ Unfit(View(enc, FALSE), event))

LEMMA HeldFacts ==
  ASSUME NEW e, Typed(e)
  PROVE  /\ Held(e).index \in Nat /\ Held(e).source \in Blocks
         /\ Held(e).fragments \in Seq(Text)
         /\ e.active_block # None =>
              /\ Held(e) = e.active_block[1] /\ BlockShape(e.active_block[1])
              /\ e.active_block = <<e.active_block[1]>>
<1>1. CASE e.active_block = None
  <2>1. TextBlock \in Blocks
    <3>1. "text" \in StreamedKinds  BY DEF StreamedKinds
    <3>. QED BY <3>1, BlockTypes, NoToken DEF TextBlock
  <2>2. PICK b : b = TextBlock  OBVIOUS
  <2>3. Held(e) = [index |-> 0, source |-> b, fragments |-> <<>>]
    BY <1>1, <2>2, Zenon DEF Held
  <2>. QED BY <1>1, <2>1, <2>2, <2>3
<1>2. CASE e.active_block # None
  <2>1. PICK b : BlockShape(b) /\ e.active_block = Some(b)
    BY <1>2 DEF Typed, BlockHeld
  <2>2. e.active_block[1] = b /\ e.active_block = <<b>>
    BY <2>1, SomeFacts DEF Some
  <2>3. Held(e) = b  BY <1>2, <2>2, Zenon DEF Held
  <2>. QED BY <1>2, <2>1, <2>2, <2>3 DEF BlockShape
<1>. QED BY <1>1, <1>2

LEMMA ViewType ==
  ASSUME NEW e, Typed(e), NEW signed \in BOOLEAN
  PROVE  View(e, signed) \in Views
<1>1. PICK h : h = Held(e)  OBVIOUS
<1>2. h.index \in Nat /\ h.source \in Blocks /\ h.fragments \in Seq(Text)
  BY <1>1, HeldFacts
<1>3. BlockFamily(h.source) \in {"text", "thinking", "tool", "custom", "atomic"}
  BY DEF BlockFamily
<1>4. h.source.text \in Text  BY <1>2 DEF Blocks
<1>. QED BY <1>1, <1>2, <1>3, <1>4 DEF View, Views, Typed

LEMMA RefusedOutcome ==
  ASSUME NEW event, NEW e, Refused(event, e),
         ~Allowed(View(enc, FALSE), event) \/ Unfit(View(enc, FALSE), event)
  PROVE  Outcome(event)
BY DEF Outcome

(* The call is counted, a block takes its index. *)
LEMMA CountedFacts ==
  ASSUME Typed(enc)
  PROVE  /\ Typed(Counted) /\ Counted.event_ordinal = enc.event_ordinal + 1
         /\ Counted.started = enc.started /\ Counted.delta = enc.delta
         /\ Counted.done = enc.done /\ Counted.next_block_index = enc.next_block_index
         /\ Counted.active_block = enc.active_block /\ Counted.active_item = enc.active_item
         /\ Counted.losses = enc.losses
<1>1. PICK n : n = enc.event_ordinal + 1  OBVIOUS
<1>2. n \in Nat  BY <1>1 DEF Typed
<1>3. PICK d : d = [enc EXCEPT !.event_ordinal = n]  OBVIOUS
<1>4. Counted = d  BY <1>1, <1>3 DEF Counted, Typed, Shape
<1>5. /\ Shape(d) /\ d.event_ordinal = n
      /\ d.started = enc.started /\ d.delta = enc.delta
      /\ d.done = enc.done /\ d.next_block_index = enc.next_block_index
      /\ d.active_block = enc.active_block /\ d.active_item = enc.active_item
      /\ d.losses = enc.losses
  BY <1>3 DEF Typed, Shape
<1>. QED BY <1>1, <1>2, <1>4, <1>5 DEF Typed

LEMMA BegunFacts ==
  ASSUME Typed(enc)
  PROVE  /\ Typed(Begun) /\ Begun.event_ordinal = enc.event_ordinal + 1
         /\ Begun.started = enc.started /\ Begun.delta = enc.delta
         /\ Begun.done = enc.done /\ Begun.next_block_index = enc.next_block_index + 1
         /\ Begun.active_block = enc.active_block /\ Begun.active_item = enc.active_item
         /\ Begun.losses = enc.losses
<1>1. PICK n, c : n = enc.next_block_index + 1 /\ c = Counted  OBVIOUS
<1>2. /\ Typed(c) /\ c.event_ordinal = enc.event_ordinal + 1
      /\ c.started = enc.started /\ c.delta = enc.delta
      /\ c.done = enc.done /\ c.next_block_index = enc.next_block_index
      /\ c.active_block = enc.active_block /\ c.active_item = enc.active_item
      /\ c.losses = enc.losses
  BY <1>1, CountedFacts
<1>3. n \in Nat  BY <1>1 DEF Typed
<1>4. PICK d : d = [c EXCEPT !.next_block_index = n]  OBVIOUS
<1>5. Begun = d  BY <1>1, <1>2, <1>4 DEF Begun, Typed, Shape
<1>6. /\ Shape(d) /\ d.next_block_index = n /\ d.event_ordinal = c.event_ordinal
      /\ d.started = c.started /\ d.delta = c.delta /\ d.done = c.done
      /\ d.active_block = c.active_block /\ d.active_item = c.active_item
      /\ d.losses = c.losses
  BY <1>2, <1>4 DEF Typed, Shape
<1>7. Typed(d)  BY <1>2, <1>3, <1>6 DEF Typed
<1>. QED BY <1>1, <1>2, <1>5, <1>6, <1>7

(* After the end nothing but the last event may come. *)
LEMMA AfterEndOutcome ==
  ASSUME Typed(enc), Consistent(enc), NEW event \in Events, ApplyAfterEnd(event)
  PROVE  Outcome(event)
<1>1. Refused(event, enc) /\ Ended(event)  BY DEF ApplyAfterEnd
<1>2. ~Allowed(View(enc, FALSE), event)  BY <1>1 DEF Ended, View, Allowed
<1>. QED BY <1>1, <1>2, RefusedOutcome

(* A message starts once. *)
LEMMA MessageStartOutcome ==
  ASSUME Typed(enc), Consistent(enc), NEW event \in Events, ApplyMessageStart(event)
  PROVE  Outcome(event)
<1>1. event.type = "message_start" /\ ~enc.done /\ ~enc.delta
  BY DEF ApplyMessageStart, Receives, Ended
<1>2. CASE enc.started
  <2>1. Refused(event, Counted)  BY <1>2 DEF ApplyMessageStart
  <2>2. ~Allowed(View(enc, FALSE), event)
    BY <1>1, <1>2 DEF View, Allowed, OpensAt, Continues, IsStart, IsDelta, IsStop
  <2>. QED BY <2>1, <2>2, RefusedOutcome
<1>3. CASE ~enc.started
  <2>1. PICK d, e, events : /\ d = [Counted EXCEPT !.started = TRUE]
                            /\ events = <<WireCreated(TRUE)>> /\ e = Send(d, events)
    OBVIOUS
  <2>2. Accepted(event, e)  BY <1>3, <2>1, Zenon DEF ApplyMessageStart
  <2>3. /\ Typed(d) /\ d.started /\ d.delta = enc.delta /\ d.done = enc.done
        /\ d.next_block_index = enc.next_block_index
        /\ d.event_ordinal = enc.event_ordinal + 1
        /\ d.active_block = enc.active_block /\ d.active_item = enc.active_item
        /\ d.losses = enc.losses
    <3>1. PICK c : c = Counted  OBVIOUS
    <3>2. /\ Typed(c) /\ c.event_ordinal = enc.event_ordinal + 1
          /\ c.delta = enc.delta
          /\ c.done = enc.done /\ c.next_block_index = enc.next_block_index
          /\ c.active_block = enc.active_block /\ c.active_item = enc.active_item
          /\ c.losses = enc.losses
      BY <3>1, CountedFacts
    <3>3. /\ Shape(d) /\ d.started = TRUE /\ d.delta = c.delta /\ d.done = c.done
          /\ d.next_block_index = c.next_block_index
          /\ d.event_ordinal = c.event_ordinal
          /\ d.active_block = c.active_block /\ d.active_item = c.active_item
          /\ d.losses = c.losses
      BY <2>1, <3>1, <3>2 DEF Typed, Shape
    <3>. QED BY <3>2, <3>3 DEF Typed
  <2>4. Typed(e) /\ SameBooks(e, d) /\ e.active_item = d.active_item
    BY <2>1, <2>3, SendFacts
  <2>5. enc.active_block = None /\ enc.next_block_index = 0 /\ Settled(enc)
    BY <1>3 DEF Consistent
  <2>6. Consistent(e)
    BY <1>1, <2>3, <2>4, <2>5 DEF Consistent, SameBooks, Settled, ActiveKind
  <2>7. /\ View(enc, FALSE).place = "fresh"
        /\ View(e, Signs(event)).place = "between" /\ View(e, Signs(event)).next = 0
    BY <1>1, <1>3, <2>3, <2>4, <2>5 DEF View, SameBooks
  <2>8. Lost(event) = <<>>  BY <1>1 DEF Lost, IsStart, IsDelta
  <2>9. enc.losses \o <<>> = enc.losses  BY DEF Typed
  <2>10. Advances(event, e)
    BY <1>1, <2>3, <2>4, <2>5, <2>7, <2>8, <2>9
    DEF Advances, Allowed, Moves, SameBooks, IsStart, IsDelta, IsStop
  <2>. QED BY <2>2, <2>4, <2>6, <2>10 DEF Outcome
<1>. QED BY <1>2, <1>3

(* When a block may start. *)
LEMMA StartAllowed ==
  ASSUME Typed(enc), NEW event, IsStart(event)
  PROVE  Allowed(View(enc, FALSE), event) <=>
           /\ ~enc.done /\ ~enc.delta /\ ~StartOutOfOrder(enc, event)
BY DEF Allowed, View, OpensAt, Continues, StartOutOfOrder, IsStart, IsDelta, IsStop

LEMMA StartRefusedOutcome ==
  ASSUME Typed(enc), Consistent(enc), NEW event \in Events,
         ApplyStartOutOfOrder(event) \/ ApplyStartInvalid(event)
  PROVE  Outcome(event)
<1>1. IsStart(event)
  BY DEF ApplyStartOutOfOrder, ApplyStartInvalid, Receives, IsStart
<1>2. CASE ApplyStartOutOfOrder(event)
  BY <1>1, <1>2, StartAllowed, RefusedOutcome DEF ApplyStartOutOfOrder
<1>3. CASE ApplyStartInvalid(event)
  <2>1. Refused(event, Begun) /\ enc.active_block = None
        /\ (BlockInvalid(event.block) \/ ItemInTheWay(enc, event.block.kind))
    BY <1>3 DEF ApplyStartInvalid, StartOutOfOrder
  <2>2. ~ItemInTheWay(enc, event.block.kind)
    BY <2>1 DEF Consistent, Settled, ItemInTheWay
  <2>3. Unfit(View(enc, FALSE), event)  BY <1>1, <2>1, <2>2 DEF Unfit
  <2>. QED BY <2>1, <2>3, RefusedOutcome
<1>. QED BY <1>2, <1>3

(* What is known when a block starts. *)
LEMMA StartFacts ==
  ASSUME Typed(enc), Consistent(enc), NEW event \in Events, NEW kinds, Starting(event, kinds)
  PROVE  /\ IsStart(event) /\ event \in IrEvents /\ event.block \in Blocks
         /\ event.block.kind \in kinds /\ ~enc.done /\ ~enc.delta /\ enc.started
         /\ enc.active_block = None /\ event.index = enc.next_block_index
         /\ ActiveKind(enc) \in {"none", "message", "reasoning"}
         /\ event.block.citations # <<>> => event.block.kind = "text"
         /\ event.block.signature # <<>> => event.block.kind = "thinking"
         /\ Allowed(View(enc, FALSE), event)
<1>1. /\ IsStart(event) /\ event.block.kind \in kinds /\ ~enc.done /\ ~enc.delta
      /\ ~StartOutOfOrder(enc, event)
  BY DEF Starting, Receives, Ended, IsStart
<1>2. /\ event \in IrEvents
      /\ event.block.citations # <<>> => event.block.kind = "text"
      /\ event.block.signature # <<>> => event.block.kind = "thinking"
  BY <1>1, EncoderAssumption
<1>3. event.block \in Blocks  BY <1>1, <1>2, EventForms
<1>4. enc.started /\ enc.active_block = None /\ event.index = enc.next_block_index
  BY <1>1 DEF StartOutOfOrder
<1>5. ActiveKind(enc) \in {"none", "message", "reasoning"}
  BY <1>4 DEF Consistent, Settled
<1>6. Allowed(View(enc, FALSE), event)  BY <1>1, StartAllowed
<1>. QED BY <1>1, <1>2, <1>3, <1>4, <1>5, <1>6

(* The losses of a start. *)
LEMMA StartLossFacts ==
  ASSUME NEW block, NEW ordinal \in Nat
  PROVE  /\ StartLosses(block, ordinal) \in Seq(LossesTold)
         /\ block.citations = <<>> /\ block.signature = <<>> => StartLosses(block, ordinal) = <<>>
<1>1. PICK a, b : /\ a = IF block.citations # <<>> THEN <<<<"citations", ordinal>>>> ELSE <<>>
                  /\ b = IF block.signature # <<>> THEN <<<<"signature", ordinal>>>> ELSE <<>>
  OBVIOUS
<1>2. <<"citations", ordinal>> \in LossesTold /\ <<"signature", ordinal>> \in LossesTold
  BY DEF LossesTold
<1>3. a \in Seq(LossesTold) /\ b \in Seq(LossesTold)  BY <1>1, <1>2
<1>4. StartLosses(block, ordinal) = a \o b  BY <1>1, Zenon DEF StartLosses
<1>5. block.citations = <<>> /\ block.signature = <<>> => a = <<>> /\ b = <<>>
  BY <1>1
<1>. QED BY <1>3, <1>4, <1>5

(* The block that has started is the one the view shows. *)
LEMMA StartedOutcome ==
  ASSUME Typed(enc), Consistent(enc), NEW event \in Events, NEW kinds, Starting(event, kinds),
         NEW e, Accepted(event, e), Typed(e), e.active_block # None,
         e.active_block[1].index = event.index, e.active_block[1].source = event.block,
         e.active_block[1].fragments = <<>>,
         e.active_block[1].citation_loss_seen <=> event.block.citations # <<>>,
         e.started = enc.started, e.delta = enc.delta, e.done = enc.done,
         e.next_block_index = enc.next_block_index + 1,
         e.event_ordinal = enc.event_ordinal + 1, e.losses = enc.losses \o Lost(event),
         ActiveKind(e) \in {"none", "message", "reasoning"} \/ event.block.kind \in OwnItem,
         event.block.kind # "redacted_thinking" => e.active_item # None
  PROVE  Outcome(event)
<1>1. /\ IsStart(event) /\ ~enc.done /\ ~enc.delta /\ enc.started
      /\ event.index = enc.next_block_index /\ Allowed(View(enc, FALSE), event)
  BY StartFacts
<1>2. Consistent(e)  BY <1>1 DEF Consistent, Settled
<1>3. ~Signs(event) /\ ~IsDelta(event)  BY <1>1 DEF Signs, IsStart, IsDelta
<1>4. PICK h : h = Held(e)  OBVIOUS
<1>5. h.index = event.index /\ h.source = event.block /\ h.fragments = <<>>
  BY <1>4, HeldFacts
<1>6. PICK w : w = View(e, Signs(event))  OBVIOUS
<1>7. /\ w.place = "within" /\ w.index = event.index /\ w.next = event.index + 1
      /\ w.family = BlockFamily(event.block) /\ ~w.signed
      /\ w.tool <=> event.block.kind \in ToolKinds
      /\ w.input = event.block.text /\ w.fragments = <<>>
  BY <1>1, <1>3, <1>4, <1>5, <1>6 DEF View
<1>8. Moves(View(enc, FALSE), event, w)  BY <1>1, <1>7 DEF Moves
<1>9. Advances(event, e)  BY <1>1, <1>3, <1>6, <1>8 DEF Advances
<1>. QED BY <1>2, <1>9 DEF Outcome

(* The gaps of each event. *)
LEMMA LostForms ==
  ASSUME NEW event
  PROVE  /\ IsStart(event) /\ event.block.kind = "redacted_thinking" =>
              Lost(event) = <<<<"block", enc.event_ordinal>>>>
         /\ IsStart(event) /\ event.block.kind # "redacted_thinking" =>
              Lost(event) = StartLosses(event.block, enc.event_ordinal)
         /\ IsDelta(event) /\ event.delta.type = "signature_delta" =>
              Lost(event) = <<<<"signature", enc.event_ordinal>>>>
         /\ IsDelta(event) /\ event.delta.type = "citation_delta" =>
              Lost(event) = IF enc.active_block[1].citation_loss_seen THEN <<>>
                            ELSE <<<<"citations", enc.event_ordinal>>>>
         /\ IsDelta(event) /\ event.delta.type \notin {"signature_delta", "citation_delta"} =>
              Lost(event) = <<>>
         /\ event.type = "message_delta" /\ event.stop_reason = "stop_sequence" =>
              Lost(event) = <<<<"stop_sequence", -1>>>>
         /\ event.type = "message_delta" /\ event.stop_reason # "stop_sequence" =>
              Lost(event) = <<>>
         /\ IsStop(event) \/ event.type \in {"message_start", "message_done"} =>
              Lost(event) = <<>>
<1>1. PICK a, b, c, d, e, none :
        /\ a = <<<<"block", enc.event_ordinal>>>>
        /\ b = StartLosses(event.block, enc.event_ordinal)
        /\ c = <<<<"signature", enc.event_ordinal>>>>
        /\ d = <<<<"citations", enc.event_ordinal>>>>
        /\ e = <<<<"stop_sequence", -1>>>>
        /\ none = <<>>
  OBVIOUS
<1>2. Lost(event) =
        CASE IsStart(event) /\ event.block.kind = "redacted_thinking" -> a
          [] IsStart(event) /\ event.block.kind # "redacted_thinking" -> b
          [] IsDelta(event) /\ event.delta.type = "signature_delta" -> c
          [] IsDelta(event) /\ event.delta.type = "citation_delta" ->
               IF enc.active_block[1].citation_loss_seen THEN none ELSE d
          [] event.type = "message_delta" /\ event.stop_reason = "stop_sequence" -> e
          [] OTHER -> none
  BY <1>1, Zenon DEF Lost
<1>. QED BY <1>1, <1>2 DEF IsStart, IsDelta, IsStop

LEMMA OneMore ==
  ASSUME NEW S, NEW s \in Seq(S), NEW x \in S
  PROVE  Append(s, x) = s \o <<x>>
OBVIOUS

(* A block without an item: it is left out, and told. *)
LEMMA RedactedStartOutcome ==
  ASSUME Typed(enc), Consistent(enc), NEW event \in Events, ApplyRedactedStart(event)
  PROVE  Outcome(event)
<1>1. PICK kinds : kinds = {"redacted_thinking"}  OBVIOUS
<1>2. Starting(event, kinds)  BY <1>1 DEF ApplyRedactedStart
<1>3. /\ IsStart(event) /\ event \in IrEvents /\ event.block.kind = "redacted_thinking"
      /\ enc.active_block = None /\ ActiveKind(enc) \in {"none", "message", "reasoning"}
  <2>1. event.block.kind \in kinds  BY <1>2, StartFacts
  <2>. QED BY <1>1, <1>2, <2>1, StartFacts
<1>4. PICK b, d, what, e : /\ b = Begun /\ d = Open(b, event, 0)
                           /\ what = <<"block", enc.event_ordinal>> /\ e = Lose(d, what)
  OBVIOUS
<1>5. Accepted(event, e)  BY <1>4, Zenon DEF ApplyRedactedStart
<1>6. /\ Typed(b) /\ b.event_ordinal = enc.event_ordinal + 1
      /\ b.started = enc.started /\ b.delta = enc.delta
      /\ b.done = enc.done /\ b.next_block_index = enc.next_block_index + 1
      /\ b.active_block = enc.active_block /\ b.active_item = enc.active_item
      /\ b.losses = enc.losses
  BY <1>4, BegunFacts
<1>7. /\ Typed(d) /\ d.active_block # None
      /\ d.active_block[1].index = event.index /\ d.active_block[1].source = event.block
      /\ d.active_block[1].fragments = <<>>
      /\ d.active_block[1].citation_loss_seen <=> event.block.citations # <<>>
      /\ d.started = b.started /\ d.delta = b.delta /\ d.done = b.done
      /\ d.next_block_index = b.next_block_index /\ d.event_ordinal = b.event_ordinal
      /\ d.active_item = b.active_item /\ d.losses = b.losses
  BY <1>3, <1>4, <1>6, OpenFacts
<1>8. what \in LossesTold  BY <1>4 DEF LossesTold, Typed
<1>9. /\ Typed(e) /\ e.losses = Append(d.losses, what) /\ e.active_item = d.active_item
      /\ e.started = d.started /\ e.delta = d.delta /\ e.done = d.done
      /\ e.next_block_index = d.next_block_index /\ e.event_ordinal = d.event_ordinal
      /\ e.active_block = d.active_block
  <2>1. e = Lose(d, what) /\ Typed(d)  BY <1>4, <1>7
  <2>. QED BY <1>8, <2>1, LoseFacts, ZenonT(60)
<1>10. Lost(event) = <<what>>  BY <1>3, <1>4, LostForms
<1>11. e.losses = enc.losses \o Lost(event)
  <2>1. enc.losses \in Seq(LossesTold) /\ e.losses = Append(enc.losses, what)
    BY <1>6, <1>7, <1>9 DEF Typed
  <2>. QED BY <1>8, <1>10, <2>1, OneMore
<1>12. ActiveKind(e) = ActiveKind(enc)  BY <1>6, <1>7, <1>9 DEF ActiveKind
<1>. QED BY <1>2, <1>3, <1>5, <1>6, <1>7, <1>9, <1>11, <1>12, StartedOutcome

(* An encrypted content joins or begins a reasoning item. *)
LEMMA EncryptedStartOutcome ==
  ASSUME Typed(enc), Consistent(enc), NEW event \in Events, ApplyEncryptedStart(event)
  PROVE  Outcome(event)
<1>1. PICK kinds : kinds = {"encrypted_content"}  OBVIOUS
<1>2. Starting(event, kinds)  BY <1>1 DEF ApplyEncryptedStart
<1>3. /\ IsStart(event) /\ event \in IrEvents /\ event.block.kind = "encrypted_content"
      /\ event.block.citations = <<>> /\ event.block.signature = <<>>
  <2>1. event.block.kind \in kinds  BY <1>2, StartFacts
  <2>2. event.block.kind = "encrypted_content"  BY <1>1, <2>1
  <2>. QED BY <1>2, <2>2, StartFacts
<1>4. PICK b, ready, text, filled, e :
        /\ b = Begun /\ ready = WithItem(b, "encrypted_content", "reasoning")
        /\ text = event.block.text
        /\ filled = [ready EXCEPT !.active_item[1].item.cipher = text]
        /\ e = Open(filled, event, 0)
  OBVIOUS
<1>5. Accepted(event, e)  BY <1>4, Zenon DEF ApplyEncryptedStart
<1>6. /\ Typed(b) /\ b.event_ordinal = enc.event_ordinal + 1
      /\ b.started = enc.started /\ b.delta = enc.delta
      /\ b.done = enc.done /\ b.next_block_index = enc.next_block_index + 1
      /\ b.losses = enc.losses
  BY <1>4, BegunFacts
<1>7. /\ Typed(ready) /\ SameBooks(ready, b) /\ ready.active_item # None
      /\ ready.active_item[1].item.kind \in {"message", "reasoning"}
  <2>1. PICK of : of = "reasoning"  OBVIOUS
  <2>. QED BY <1>4, <1>6, <2>1, WithItemFacts
<1>8. /\ Typed(filled) /\ SameBooks(filled, ready) /\ filled.active_item # None
      /\ filled.active_item[1].item.kind = ready.active_item[1].item.kind
  <2>1. filled = [ready EXCEPT !.active_item[1].item.cipher = text]  BY <1>4
  <2>. QED BY <1>7, <2>1, ItemSetFacts, ZenonT(60)
<1>9. /\ Typed(e) /\ e.active_block # None
      /\ e.active_block[1].index = event.index /\ e.active_block[1].source = event.block
      /\ e.active_block[1].fragments = <<>>
      /\ e.active_block[1].citation_loss_seen <=> event.block.citations # <<>>
      /\ e.started = filled.started /\ e.delta = filled.delta /\ e.done = filled.done
      /\ e.next_block_index = filled.next_block_index
      /\ e.event_ordinal = filled.event_ordinal
      /\ e.active_item = filled.active_item /\ e.losses = filled.losses
  <2>1. e = Open(filled, event, 0)  BY <1>4
  <2>. QED BY <1>3, <1>8, <2>1, OpenFacts
<1>10. Lost(event) = <<>>
  <2>1. enc.event_ordinal \in Nat  BY DEF Typed
  <2>. QED BY <1>3, <2>1, StartLossFacts, LostForms
<1>11. e.losses = enc.losses \o Lost(event)
  BY <1>6, <1>7, <1>8, <1>9, <1>10 DEF Typed, SameBooks
<1>12. ActiveKind(e) \in {"none", "message", "reasoning"} /\ e.active_item # None
  BY <1>7, <1>8, <1>9 DEF ActiveKind
<1>13. /\ e.started = enc.started /\ e.delta = enc.delta /\ e.done = enc.done
       /\ e.next_block_index = enc.next_block_index + 1
       /\ e.event_ordinal = enc.event_ordinal + 1
  BY <1>6, <1>7, <1>8, <1>9 DEF SameBooks
<1>. QED BY <1>2, <1>5, <1>9, <1>11, <1>12, <1>13, StartedOutcome

(* A text or thinking block becomes a part of an item. *)
LEMMA PartStartOutcome ==
  ASSUME Typed(enc), Consistent(enc), NEW event \in Events, ApplyPartStart(event)
  PROVE  Outcome(event)
<1>1. Starting(event, PartKinds)  BY DEF ApplyPartStart
<1>2. /\ IsStart(event) /\ event \in IrEvents /\ event.block.kind # "redacted_thinking"
  <2>1. event.block.kind \in PartKinds  BY <1>1, StartFacts
  <2>. QED BY <1>1, <2>1, StartFacts DEF PartKinds
<1>3. PICK b, kind, of, ready : /\ b = Begun /\ kind = event.block.kind
                                /\ of = IF kind = "text" THEN "message" ELSE "reasoning"
                                /\ ready = WithItem(b, kind, of)
  OBVIOUS
<1>4. PICK content, told, losses :
        /\ content = Append(ready.active_item[1].item.content, event.block.text)
        /\ told = StartLosses(event.block, enc.event_ordinal)
        /\ losses = ready.losses \o told
  OBVIOUS
<1>5. PICK part, filled : /\ part = [ready EXCEPT !.active_item[1].item.content = content]
                          /\ filled = [part EXCEPT !.losses = losses]
  OBVIOUS
<1>6. PICK c, opened, events, e :
        /\ c = Len(ready.active_item[1].item.content)
        /\ opened = Open(filled, event, c)
        /\ events = <<WirePart(PartAddedOf(kind), ready.active_item[1].output_index,
                               ready.active_item[1].item.id, c,
                               Some(Part("output_text", event.block.text)))>>
        /\ e = Send(opened, events)
  OBVIOUS
<1>7. /\ Typed(b) /\ b.event_ordinal = enc.event_ordinal + 1
      /\ b.started = enc.started /\ b.delta = enc.delta
      /\ b.done = enc.done /\ b.next_block_index = enc.next_block_index + 1
      /\ b.losses = enc.losses
  BY <1>3, BegunFacts
<1>8. /\ Typed(ready) /\ SameBooks(ready, b) /\ ready.active_item # None
      /\ ready.active_item[1].item.kind \in {"message", "reasoning"}
  <2>1. of \in {"message", "reasoning"}  BY <1>3
  <2>. QED BY <1>3, <1>7, <2>1, WithItemFacts
<1>9. /\ Typed(part) /\ SameBooks(part, ready) /\ part.active_item # None
      /\ part.active_item[1].item.kind = ready.active_item[1].item.kind
  <2>1. part = [ready EXCEPT !.active_item[1].item.content = content]  BY <1>5
  <2>. QED BY <1>8, <2>1, ItemSetFacts, ZenonT(60)
<1>10. told \in Seq(LossesTold) /\ losses \in Seq(LossesTold)
       /\ losses = enc.losses \o Lost(event)
  <2>1. enc.event_ordinal \in Nat /\ enc.losses \in Seq(LossesTold)
    BY DEF Typed
  <2>2. told \in Seq(LossesTold)  BY <1>4, <2>1, StartLossFacts
  <2>3. Lost(event) = told  BY <1>2, <1>4, LostForms
  <2>4. losses = enc.losses \o told  BY <1>4, <1>7, <1>8 DEF SameBooks
  <2>. QED BY <2>1, <2>2, <2>3, <2>4
<1>11. /\ Typed(filled) /\ filled.losses = losses /\ filled.active_item = part.active_item
       /\ filled.started = part.started /\ filled.delta = part.delta
       /\ filled.done = part.done /\ filled.next_block_index = part.next_block_index
       /\ filled.event_ordinal = part.event_ordinal
  <2>1. /\ Shape(filled) /\ filled.losses = losses /\ filled.active_item = part.active_item
        /\ filled.started = part.started /\ filled.delta = part.delta
        /\ filled.done = part.done /\ filled.next_block_index = part.next_block_index
        /\ filled.event_ordinal = part.event_ordinal
        /\ filled.active_block = part.active_block
    <3>1. filled = [part EXCEPT !.losses = losses]  BY <1>5
    <3>. QED BY <1>9, <3>1 DEF Typed, Shape
  <2>. QED BY <1>9, <1>10, <2>1 DEF Typed
<1>12. /\ Typed(opened) /\ opened.active_block # None
       /\ opened.active_block[1].index = event.index
       /\ opened.active_block[1].source = event.block
       /\ opened.active_block[1].fragments = <<>>
       /\ opened.active_block[1].citation_loss_seen <=> event.block.citations # <<>>
       /\ opened.started = filled.started /\ opened.delta = filled.delta
       /\ opened.done = filled.done
       /\ opened.next_block_index = filled.next_block_index
       /\ opened.event_ordinal = filled.event_ordinal
       /\ opened.active_item = filled.active_item /\ opened.losses = filled.losses
  <2>1. opened = Open(filled, event, c)  BY <1>6
  <2>. QED BY <1>2, <1>11, <2>1, OpenFacts
<1>13. Typed(e) /\ SameBooks(e, opened) /\ e.active_item = opened.active_item
  <2>1. e = Send(opened, events)  BY <1>6
  <2>. QED BY <1>12, <2>1, SendFacts
<1>14. Accepted(event, e)
  <2>1. filled = [ready EXCEPT !.active_item[1].item.content = Append(@, event.block.text),
                              !.losses = @ \o StartLosses(event.block, enc.event_ordinal)]
    BY <1>4, <1>5, <1>8 DEF Typed, Shape
  <2>2. Accepted(event,
          LET b_ == event.block
              ready_ == WithItem(Begun, b_.kind, IF b_.kind = "text" THEN "message" ELSE "reasoning")
              active == ready_.active_item[1]
              c_ == Len(active.item.content)
              filled_ == [ready_ EXCEPT !.active_item[1].item.content = Append(@, b_.text),
                                        !.losses = @ \o StartLosses(b_, enc.event_ordinal)]
          IN  Send(Open(filled_, event, c_),
                <<WirePart(PartAddedOf(b_.kind), active.output_index, active.item.id, c_,
                           Some(Part("output_text", b_.text)))>>))
    BY Zenon DEF ApplyPartStart
  <2>3. ready = WithItem(Begun, event.block.kind,
                         IF event.block.kind = "text" THEN "message" ELSE "reasoning")
    BY <1>3, Zenon
  <2>. QED BY <1>3, <1>6, <2>1, <2>2, <2>3, ZenonT(60)
<1>15. ActiveKind(e) \in {"none", "message", "reasoning"} /\ e.active_item # None
  BY <1>8, <1>9, <1>11, <1>12, <1>13 DEF ActiveKind
<1>16. /\ e.started = enc.started /\ e.delta = enc.delta /\ e.done = enc.done
       /\ e.next_block_index = enc.next_block_index + 1
       /\ e.event_ordinal = enc.event_ordinal + 1
       /\ e.active_block = opened.active_block /\ e.losses = enc.losses \o Lost(event)
  BY <1>7, <1>8, <1>9, <1>10, <1>11, <1>12, <1>13 DEF SameBooks
<1>. QED BY <1>1, <1>12, <1>13, <1>14, <1>15, <1>16, StartedOutcome

(* The items of calls, patches and searches. *)
LEMMA ItemForShape ==
  ASSUME NEW e, NEW block
  PROVE  ItemShape(ItemFor(e, block))
<1>1. ASSUME NEW kind, NEW id
      PROVE  ItemShape(Item(kind, id))
  <2>1. PICK empty : empty = ""  OBVIOUS
  <2>2. Item(kind, id) =
          [kind |-> kind, id |-> id, role |-> "assistant", call_id |-> empty, name |-> <<>>,
           ns |-> empty, status |-> empty, payload |-> "absent", input |-> None,
           cipher |-> <<>>, content |-> <<>>]
    BY <2>1, Zenon DEF Item
  <2>. QED BY <2>2 DEF ItemShape
<1>2. ItemShape(CallItem(e, block))
  <2>1. PICK kind : kind = BlockItems[block.kind]  OBVIOUS
  <2>2. PICK item, call_id, name, ns, input, status :
          /\ item = Item(kind, GeneratedId(e, kind))
          /\ call_id = block.id /\ name = SplitName(block.name).name
          /\ ns = SplitName(block.name).ns /\ input = Some(<<>>)
          /\ status = IF kind = "function_call" THEN "in_progress" ELSE ""
    BY Zenon
  <2>3. CallItem(e, block) = [item EXCEPT !.call_id = call_id, !.name = name, !.ns = ns,
                                          !.input = input, !.status = status]
    BY <2>1, <2>2, Zenon DEF CallItem
  <2>4. ItemShape(item)  BY <1>1, <2>2
  <2>. QED BY <2>3, <2>4 DEF ItemShape
<1>3. ItemShape(PatchItem(e, block))
  <2>1. PICK kind : kind = BlockItems[block.kind]  OBVIOUS
  <2>2. PICK item, call_id, payload, status :
          /\ item = Item(kind, GeneratedId(e, kind))
          /\ call_id = block.id /\ payload = PayloadOf(block)
          /\ status = IF kind = "apply_patch_call" THEN "in_progress" ELSE StatusOf(block)
    BY Zenon
  <2>3. PatchItem(e, block) = [item EXCEPT !.call_id = call_id, !.payload = payload,
                                           !.status = status]
    BY <2>1, <2>2, Zenon DEF PatchItem
  <2>4. ItemShape(item)  BY <1>1, <2>2
  <2>. QED BY <2>3, <2>4 DEF ItemShape
<1>4. ItemShape(SearchItem(block))
  <2>1. PICK item, payload, status :
          /\ item = Item("web_search_call", block.id)
          /\ payload = PayloadOf(block) /\ status = StatusOf(block)
    BY Zenon
  <2>2. SearchItem(block) = [item EXCEPT !.status = status, !.payload = payload]
    BY <2>1, Zenon DEF SearchItem
  <2>3. ItemShape(item)  BY <1>1, <2>1
  <2>. QED BY <2>2, <2>3 DEF ItemShape
<1>5. ItemFor(e, block) \in {CallItem(e, block), PatchItem(e, block), SearchItem(block)}
  BY DEF ItemFor
<1>. QED BY <1>2, <1>3, <1>4, <1>5

(* A call, a patch or a search gets an item of its own. *)
LEMMA ItemStartOutcome ==
  ASSUME Typed(enc), Consistent(enc), NEW event \in Events, ApplyItemStart(event)
  PROVE  Outcome(event)
<1>1. PICK kinds : kinds = DOMAIN BlockItems \union {"web_search_call"}  OBVIOUS
<1>2. Starting(event, kinds)  BY <1>1 DEF ApplyItemStart
<1>3. /\ IsStart(event) /\ event \in IrEvents /\ event.block.kind \in OwnItem
      /\ event.block.kind # "redacted_thinking"
      /\ event.block.citations = <<>> /\ event.block.signature = <<>>
  <2>1. event.block.kind \in kinds  BY <1>2, StartFacts
  <2>2. /\ event.block.kind \in OwnItem /\ event.block.kind # "redacted_thinking"
        /\ event.block.kind # "text" /\ event.block.kind # "thinking"
    BY <1>1, <2>1 DEF BlockItems, OwnItem, ToolKinds, ApplyPatchKinds
  <2>. QED BY <1>2, <2>2, StartFacts
<1>4. PICK b, room, item, d, e : /\ b = Begun /\ room = MakeRoom(b, event.block.kind)
                                 /\ item = ItemFor(enc, event.block)
                                 /\ d = OpenItem(room, item) /\ e = Open(d, event, 0)
  OBVIOUS
<1>5. Accepted(event, e)  BY <1>4, Zenon DEF ApplyItemStart
<1>6. /\ Typed(b) /\ b.event_ordinal = enc.event_ordinal + 1
      /\ b.started = enc.started /\ b.delta = enc.delta
      /\ b.done = enc.done /\ b.next_block_index = enc.next_block_index + 1
      /\ b.losses = enc.losses
  BY <1>4, BegunFacts
<1>7. Typed(room) /\ SameBooks(room, b)  BY <1>4, <1>6, MakeRoomFacts
<1>8. Typed(d) /\ SameBooks(d, room) /\ d.active_item # None
  BY <1>4, <1>7, ItemForShape, OpenItemFacts
<1>9. /\ Typed(e) /\ e.active_block # None
      /\ e.active_block[1].index = event.index /\ e.active_block[1].source = event.block
      /\ e.active_block[1].fragments = <<>>
      /\ e.active_block[1].citation_loss_seen <=> event.block.citations # <<>>
      /\ e.started = d.started /\ e.delta = d.delta /\ e.done = d.done
      /\ e.next_block_index = d.next_block_index
      /\ e.event_ordinal = d.event_ordinal
      /\ e.active_item = d.active_item /\ e.losses = d.losses
  <2>1. e = Open(d, event, 0)  BY <1>4
  <2>. QED BY <1>3, <1>8, <2>1, OpenFacts
<1>10. Lost(event) = <<>>
  <2>1. enc.event_ordinal \in Nat  BY DEF Typed
  <2>. QED BY <1>3, <2>1, StartLossFacts, LostForms
<1>11. e.losses = enc.losses \o Lost(event)
  BY <1>6, <1>7, <1>8, <1>9, <1>10 DEF Typed, SameBooks
<1>12. /\ e.started = enc.started /\ e.delta = enc.delta /\ e.done = enc.done
       /\ e.next_block_index = enc.next_block_index + 1
       /\ e.event_ordinal = enc.event_ordinal + 1 /\ e.active_item # None
  BY <1>6, <1>7, <1>8, <1>9 DEF SameBooks
<1>. QED BY <1>2, <1>3, <1>5, <1>9, <1>11, <1>12, StartedOutcome

LEMMA BlockStartOutcome ==
  ASSUME Typed(enc), Consistent(enc), NEW event \in Events, ApplyBlockStart(event)
  PROVE  Outcome(event)
BY StartRefusedOutcome, PartStartOutcome, RedactedStartOutcome, EncryptedStartOutcome,
   ItemStartOutcome DEF ApplyBlockStart

(* The encoder takes a delta that belongs to the block that is open. *)
LEMMA TakesFamily ==
  ASSUME NEW b \in Blocks, NEW d \in Deltas
  PROVE  TakesDelta(b.kind, d.type) <=> DeltaFamily(d) = BlockFamily(b)
<1>1. PICK type, kind : type = d.type /\ kind = b.kind  OBVIOUS
<1>2. type \in DeltaTypes  BY <1>1 DEF Deltas
<1>3. DeltaFamily(d) = IF type \in {"text_delta", "citation_delta"} THEN "text"
                       ELSE IF type \in {"thinking_delta", "signature_delta"} THEN "thinking"
                       ELSE IF type = "input_json_delta" THEN "tool" ELSE "custom"
  BY <1>1, <1>2 DEF DeltaFamily, DeltaTypes
<1>4. BlockFamily(b) = IF kind = "text" THEN "text"
                       ELSE IF kind = "thinking" THEN "thinking"
                       ELSE IF kind = "tool_use" THEN "tool"
                       ELSE IF kind = "custom_tool_use" THEN "custom" ELSE "atomic"
  BY <1>1 DEF BlockFamily
<1>. QED BY <1>1, <1>2, <1>3, <1>4 DEF TakesDelta, DeltaTypes

LEMMA DeltaAllowed ==
  ASSUME Typed(enc), Consistent(enc), NEW event \in IrEvents, IsDelta(event),
         ~enc.done, ~enc.delta
  PROVE  Allowed(View(enc, FALSE), event) <=> DeltaAccepted(enc, event)
<1>1. event.delta \in Deltas  BY EventForms
<1>2. PICK v, h : v = View(enc, FALSE) /\ h = Held(enc)  OBVIOUS
<1>3. /\ h.source \in Blocks
      /\ enc.active_block # None => h = enc.active_block[1]
  BY <1>2, HeldFacts
<1>4. /\ v.place = "within" <=> enc.active_block # None
      /\ v.index = h.index /\ v.family = BlockFamily(h.source) /\ ~v.signed
      /\ v.place \in {"within", "fresh", "between"}
  BY <1>2 DEF View, Consistent
<1>5. Allowed(v, event) <=> /\ v.place = "within" /\ event.index = v.index
                            /\ DeltaFamily(event.delta) = v.family
  BY <1>4 DEF Allowed, OpensAt, Continues, IsStart, IsDelta, IsStop
<1>6. TakesDelta(h.source.kind, event.delta.type) <=> DeltaFamily(event.delta) = v.family
  <2>1. PICK b, d : b = h.source /\ d = event.delta  OBVIOUS
  <2>2. TakesDelta(b.kind, d.type) <=> DeltaFamily(d) = BlockFamily(b)
    BY <1>1, <1>3, <2>1, TakesFamily
  <2>. QED BY <1>4, <2>1, <2>2
<1>7. CASE enc.active_block = None
  BY <1>2, <1>4, <1>5, <1>7 DEF DeltaAccepted, InBlock
<1>8. CASE enc.active_block # None
  <2>1. DeltaAccepted(enc, event) <=>
          event.index = h.index /\ TakesDelta(h.source.kind, event.delta.type)
    BY <1>3, <1>8 DEF DeltaAccepted, InBlock
  <2>. QED BY <1>2, <1>4, <1>5, <1>6, <1>8, <2>1
<1>. QED BY <1>7, <1>8

LEMMA DeltaRefusedOutcome ==
  ASSUME Typed(enc), Consistent(enc), NEW event \in Events, ApplyDeltaRefused(event)
  PROVE  Outcome(event)
<1>1. /\ IsDelta(event) /\ ~enc.done /\ ~enc.delta /\ ~DeltaAccepted(enc, event)
      /\ Refused(event, Counted)
  BY DEF ApplyDeltaRefused, Receives, Ended, IsDelta
<1>2. event \in IrEvents  BY EncoderAssumption
<1>. QED BY <1>1, <1>2, DeltaAllowed, RefusedOutcome

(* What is known when a delta is taken. *)
LEMMA ContinuingFacts ==
  ASSUME Typed(enc), Consistent(enc), NEW event \in Events, NEW types, Continuing(event, types)
  PROVE  /\ IsDelta(event) /\ event \in IrEvents /\ event.delta \in Deltas
         /\ event.delta.type \in types /\ ~enc.done /\ ~enc.delta /\ enc.started
         /\ enc.active_block # None /\ event.index = enc.active_block[1].index
         /\ TakesDelta(enc.active_block[1].source.kind, event.delta.type)
         /\ enc.active_block[1].source.kind # "redacted_thinking"
         /\ Allowed(View(enc, FALSE), event)
         /\ BlockShape(enc.active_block[1]) /\ enc.active_block = <<enc.active_block[1]>>
<1>1. /\ IsDelta(event) /\ ~enc.done /\ ~enc.delta /\ DeltaAccepted(enc, event)
      /\ event.delta.type \in types
  BY DEF Continuing, Receives, Ended, IsDelta
<1>2. event \in IrEvents /\ event.delta \in Deltas
  BY <1>1, EncoderAssumption, EventForms
<1>3. /\ enc.active_block # None /\ event.index = enc.active_block[1].index
      /\ TakesDelta(enc.active_block[1].source.kind, event.delta.type)
  BY <1>1 DEF DeltaAccepted, InBlock
<1>4. enc.started  BY <1>3 DEF Consistent, Typed
<1>5. enc.active_block[1].source.kind # "redacted_thinking"
  BY <1>3 DEF TakesDelta, ToolKinds
<1>6. Allowed(View(enc, FALSE), event)  BY <1>1, <1>2, DeltaAllowed
<1>7. BlockShape(enc.active_block[1]) /\ enc.active_block = <<enc.active_block[1]>>
  BY <1>3, HeldFacts
<1>. QED BY <1>1, <1>2, <1>3, <1>4, <1>5, <1>6, <1>7

(* The view moves with the fragment. *)
LEMMA ContinuedOutcome ==
  ASSUME Typed(enc), Consistent(enc), NEW event \in Events, NEW types, Continuing(event, types),
         NEW e, Accepted(event, e), Typed(e), e.active_block # None,
         e.active_block[1].index = enc.active_block[1].index,
         e.active_block[1].source = enc.active_block[1].source,
         enc.active_block[1].source.kind \in ToolKinds =>
           e.active_block[1].fragments = Append(enc.active_block[1].fragments, event.delta.text),
         e.active_block[1].citation_loss_seen <=>
           enc.active_block[1].citation_loss_seen \/ event.delta.type = "citation_delta",
         e.started = enc.started, e.delta = enc.delta, e.done = enc.done,
         e.next_block_index = enc.next_block_index, e.active_item = enc.active_item,
         e.event_ordinal = enc.event_ordinal + 1, e.losses = enc.losses \o Lost(event)
  PROVE  Outcome(event)
<1>1. /\ IsDelta(event) /\ ~enc.done /\ ~enc.delta /\ enc.started /\ enc.active_block # None
      /\ event.index = enc.active_block[1].index /\ Allowed(View(enc, FALSE), event)
  BY ContinuingFacts
<1>2. ~IsStart(event)  BY <1>1 DEF IsStart, IsDelta
<1>3. Consistent(e)  BY <1>1 DEF Consistent, Settled, ActiveKind
<1>4. PICK h, g : h = Held(enc) /\ g = Held(e)  OBVIOUS
<1>5. h = enc.active_block[1] /\ g = e.active_block[1]  BY <1>1, <1>4, HeldFacts
<1>6. PICK v, w : v = View(enc, FALSE) /\ w = View(e, Signs(event))  OBVIOUS
<1>7. /\ v.place = "within" /\ w.place = "within"
      /\ w.index = v.index /\ w.next = v.next /\ w.family = v.family
      /\ w.tool = v.tool /\ w.input = v.input
      /\ w.tool => w.fragments = Append(v.fragments, event.delta.text)
  BY <1>1, <1>4, <1>5, <1>6 DEF View
<1>8. w.signed <=> event.delta.type = "signature_delta"
  BY <1>1, <1>6 DEF View, Signs
<1>9. Moves(v, event, w)  BY <1>1, <1>7, <1>8 DEF Moves
<1>10. Advances(event, e)  BY <1>1, <1>2, <1>6, <1>9 DEF Advances
<1>. QED BY <1>3, <1>10 DEF Outcome

(* The call is counted, and a field of the open block is set. *)
LEMMA BlockCounted ==
  ASSUME Typed(enc), NEW b, BlockShape(b)
  PROVE  \A d : d = [Counted EXCEPT !.active_block = <<b>>] =>
           /\ Typed(d) /\ d.active_block # None /\ d.active_block[1] = b
           /\ d.event_ordinal = enc.event_ordinal + 1
           /\ d.started = enc.started /\ d.delta = enc.delta /\ d.done = enc.done
           /\ d.next_block_index = enc.next_block_index
           /\ d.active_item = enc.active_item /\ d.losses = enc.losses
<1>1. PICK c : c = Counted  OBVIOUS
<1>2. /\ Typed(c) /\ c.event_ordinal = enc.event_ordinal + 1
      /\ c.started = enc.started /\ c.delta = enc.delta
      /\ c.done = enc.done /\ c.next_block_index = enc.next_block_index
      /\ c.active_block = enc.active_block /\ c.active_item = enc.active_item
      /\ c.losses = enc.losses
  BY <1>1, CountedFacts
<1>3. Typed(c) /\ BlockShape(b)  BY <1>2
<1>4. ASSUME NEW d, d = [c EXCEPT !.active_block = <<b>>]
      PROVE  /\ Typed(d) /\ d.active_block # None /\ d.active_block[1] = b
             /\ d.started = c.started /\ d.delta = c.delta /\ d.done = c.done
             /\ d.next_block_index = c.next_block_index
             /\ d.event_ordinal = c.event_ordinal
             /\ d.active_item = c.active_item /\ d.losses = c.losses
  <2>1. /\ Shape(d) /\ d.active_block = Some(b)
        /\ d.started = c.started /\ d.delta = c.delta /\ d.done = c.done
        /\ d.next_block_index = c.next_block_index /\ d.event_ordinal = c.event_ordinal
        /\ d.active_item = c.active_item /\ d.losses = c.losses
    BY <1>2, <1>4 DEF Typed, Shape, Some
  <2>2. BlockHeld(d.active_block)  BY <1>3, <2>1 DEF BlockHeld
  <2>3. Typed(d)  BY <1>2, <2>1, <2>2 DEF Typed
  <2>. QED BY <2>1, <2>3, SomeFacts
<1>. QED BY <1>1, <1>2, <1>4

LEMMA TextDeltaOutcome ==
  ASSUME Typed(enc), Consistent(enc), NEW event \in Events, ApplyTextDelta(event)
  PROVE  Outcome(event)
<1>1. PICK types : types = {"text_delta", "thinking_delta"}  OBVIOUS
<1>2. Continuing(event, types)  BY <1>1 DEF ApplyTextDelta
<1>3. /\ IsDelta(event) /\ enc.active_block # None /\ event.delta.type \in types
      /\ TakesDelta(enc.active_block[1].source.kind, event.delta.type)
      /\ BlockShape(enc.active_block[1]) /\ enc.active_block = <<enc.active_block[1]>>
  BY <1>2, ContinuingFacts
<1>4. PICK a, text, b : /\ a = enc.active_block[1] /\ text = a.text \o event.delta.text
                        /\ b = [a EXCEPT !.text = text]
  OBVIOUS
<1>5. /\ BlockShape(b) /\ b.index = a.index /\ b.source = a.source
      /\ b.citation_loss_seen = a.citation_loss_seen
  BY <1>3, <1>4 DEF BlockShape
<1>6. PICK d, events, e :
        /\ d = [Counted EXCEPT !.active_block = <<b>>]
        /\ events = <<WireText(IF event.delta.type = "text_delta" THEN "output_text.delta"
                               ELSE "reasoning_summary_text.delta", ActiveIndex, ActiveId,
                               enc.active_block[1].content_index, Some(event.delta.text))>>
        /\ e = Send(d, events)
  OBVIOUS
<1>7. d = [Counted EXCEPT !.active_block[1].text = @ \o event.delta.text]
  <2>1. PICK c : c = Counted  OBVIOUS
  <2>2. Typed(c) /\ c.active_block = <<a>>  BY <1>3, <1>4, <2>1, CountedFacts
  <2>3. [<<a>> EXCEPT ![1].text = @ \o event.delta.text] = <<b>>
    <3>1. [<<a>> EXCEPT ![1].text = text] = <<[a EXCEPT !.text = text]>>
      OBVIOUS
    <3>2. a.text \o event.delta.text = text  BY <1>4
    <3>. QED BY <1>4, <3>1, <3>2
  <2>4. [c EXCEPT !.active_block[1].text = @ \o event.delta.text] = [c EXCEPT !.active_block = <<b>>]
    BY <2>2, <2>3 DEF Typed, Shape
  <2>. QED BY <1>6, <2>1, <2>4
<1>8. Accepted(event, e)  BY <1>6, <1>7, Zenon DEF ApplyTextDelta
<1>9. /\ Typed(d) /\ d.active_block # None /\ d.active_block[1] = b
      /\ d.event_ordinal = enc.event_ordinal + 1
      /\ d.started = enc.started /\ d.delta = enc.delta /\ d.done = enc.done
      /\ d.next_block_index = enc.next_block_index
      /\ d.active_item = enc.active_item /\ d.losses = enc.losses
  <2>1. d = [Counted EXCEPT !.active_block = <<b>>]  BY <1>6
  <2>2. BlockShape(b)  BY <1>5
  <2>. QED BY <2>1, <2>2, BlockCounted, ZenonT(60)
<1>10. Typed(e) /\ SameBooks(e, d) /\ e.active_item = d.active_item
  <2>1. e = Send(d, events)  BY <1>6
  <2>. QED BY <1>9, <2>1, SendFacts
<1>11. /\ event.delta.type # "citation_delta" /\ event.delta.type # "signature_delta"
       /\ a.source.kind \notin ToolKinds
  BY <1>1, <1>3, <1>4 DEF TakesDelta, ToolKinds
<1>12. e.losses = enc.losses \o Lost(event)
  <2>1. Lost(event) = <<>>  BY <1>3, <1>11, LostForms
  <2>. QED BY <1>9, <1>10, <2>1 DEF SameBooks, Typed
<1>13. /\ e.active_block # None /\ e.active_block[1] = b
       /\ e.event_ordinal = enc.event_ordinal + 1
       /\ e.started = enc.started /\ e.delta = enc.delta /\ e.done = enc.done
       /\ e.next_block_index = enc.next_block_index /\ e.active_item = enc.active_item
  BY <1>9, <1>10 DEF SameBooks
<1>14. /\ b.index = enc.active_block[1].index /\ b.source = enc.active_block[1].source
       /\ b.citation_loss_seen <=>
            enc.active_block[1].citation_loss_seen \/ event.delta.type = "citation_delta"
       /\ enc.active_block[1].source.kind \notin ToolKinds
  BY <1>4, <1>5, <1>11
<1>. QED BY <1>2, <1>8, <1>10, <1>12, <1>13, <1>14, ContinuedOutcome

(* The first citation of a block is told, the others are not. *)
LEMMA CitationDeltaOutcome ==
  ASSUME Typed(enc), Consistent(enc), NEW event \in Events, ApplyCitationDelta(event)
  PROVE  Outcome(event)
<1>1. PICK types : types = {"citation_delta"}  OBVIOUS
<1>2. Continuing(event, types)  BY <1>1 DEF ApplyCitationDelta
<1>3. /\ IsDelta(event) /\ enc.active_block # None /\ event.delta.type = "citation_delta"
      /\ TakesDelta(enc.active_block[1].source.kind, event.delta.type)
      /\ BlockShape(enc.active_block[1]) /\ enc.active_block = <<enc.active_block[1]>>
  <2>1. event.delta.type \in types  BY <1>2, ContinuingFacts
  <2>. QED BY <1>1, <1>2, <2>1, ContinuingFacts
<1>4. enc.active_block[1].source.kind \notin ToolKinds
  BY <1>3 DEF TakesDelta, ToolKinds
<1>5. CASE enc.active_block[1].citation_loss_seen
  <2>1. PICK e : e = Counted  OBVIOUS
  <2>2. Accepted(event, e)  BY <1>5, <2>1 DEF ApplyCitationDelta
  <2>3. /\ Typed(e) /\ e.event_ordinal = enc.event_ordinal + 1
        /\ e.started = enc.started /\ e.delta = enc.delta
        /\ e.done = enc.done /\ e.next_block_index = enc.next_block_index
        /\ e.active_block = enc.active_block /\ e.active_item = enc.active_item
        /\ e.losses = enc.losses
    BY <2>1, CountedFacts
  <2>4. Lost(event) = <<>>  BY <1>3, <1>5, LostForms
  <2>5. e.losses = enc.losses \o Lost(event)  BY <2>3, <2>4 DEF Typed
  <2>6. /\ e.active_block # None /\ e.active_block[1] = enc.active_block[1]
        /\ e.active_block[1].citation_loss_seen <=>
             enc.active_block[1].citation_loss_seen \/ event.delta.type = "citation_delta"
    BY <1>3, <1>5, <2>3
  <2>. QED BY <1>2, <1>4, <2>2, <2>3, <2>5, <2>6, ContinuedOutcome
<1>6. CASE ~enc.active_block[1].citation_loss_seen
  <2>1. PICK a, seen, b : /\ a = enc.active_block[1] /\ seen = TRUE
                          /\ b = [a EXCEPT !.citation_loss_seen = seen]
    OBVIOUS
  <2>2. /\ BlockShape(b) /\ b.index = a.index /\ b.source = a.source
        /\ b.citation_loss_seen = TRUE
    BY <1>3, <2>1 DEF BlockShape
  <2>3. PICK d, what, e : /\ d = [Counted EXCEPT !.active_block = <<b>>]
                          /\ what = <<"citations", enc.event_ordinal>>
                          /\ e = Lose(d, what)
    OBVIOUS
  <2>4. d = [Counted EXCEPT !.active_block[1].citation_loss_seen = TRUE]
    <3>1. PICK c : c = Counted  OBVIOUS
    <3>2. Typed(c) /\ c.active_block = <<a>>  BY <1>3, <2>1, <3>1, CountedFacts
    <3>3. [<<a>> EXCEPT ![1].citation_loss_seen = TRUE] = <<b>>
      <4>1. [<<a>> EXCEPT ![1].citation_loss_seen = seen] =
              <<[a EXCEPT !.citation_loss_seen = seen]>>
        OBVIOUS
      <4>. QED BY <2>1, <4>1, Zenon
    <3>4. [c EXCEPT !.active_block[1].citation_loss_seen = TRUE] =
            [c EXCEPT !.active_block = <<b>>]
      BY <3>2, <3>3 DEF Typed, Shape
    <3>. QED BY <2>3, <3>1, <3>4
  <2>5. Accepted(event, e)  BY <1>6, <2>3, <2>4, Zenon DEF ApplyCitationDelta
  <2>6. /\ Typed(d) /\ d.active_block # None /\ d.active_block[1] = b
        /\ d.event_ordinal = enc.event_ordinal + 1
        /\ d.started = enc.started /\ d.delta = enc.delta /\ d.done = enc.done
        /\ d.next_block_index = enc.next_block_index
        /\ d.active_item = enc.active_item /\ d.losses = enc.losses
    <3>1. d = [Counted EXCEPT !.active_block = <<b>>]  BY <2>3
    <3>2. BlockShape(b)  BY <2>2
    <3>. QED BY <3>1, <3>2, BlockCounted, Zenon
  <2>7. what \in LossesTold  BY <2>3 DEF LossesTold, Typed
  <2>8. /\ Typed(e) /\ e.losses = Append(d.losses, what) /\ e.active_item = d.active_item
        /\ e.started = d.started /\ e.delta = d.delta /\ e.done = d.done
        /\ e.next_block_index = d.next_block_index /\ e.event_ordinal = d.event_ordinal
        /\ e.active_block = d.active_block
    BY <2>3, <2>6, <2>7, LoseFacts, ZenonT(60)
  <2>9. e.losses = enc.losses \o Lost(event)
    <3>1. Lost(event) = <<what>>  BY <1>3, <1>6, <2>3, LostForms
    <3>2. enc.losses \in Seq(LossesTold) /\ e.losses = Append(enc.losses, what)
      BY <2>6, <2>8 DEF Typed
    <3>. QED BY <2>7, <3>1, <3>2, OneMore
  <2>10. /\ e.active_block # None /\ e.active_block[1] = b
         /\ e.event_ordinal = enc.event_ordinal + 1
         /\ e.started = enc.started /\ e.delta = enc.delta /\ e.done = enc.done
         /\ e.next_block_index = enc.next_block_index /\ e.active_item = enc.active_item
    BY <2>6, <2>8
  <2>11. /\ b.index = enc.active_block[1].index /\ b.source = enc.active_block[1].source
         /\ b.citation_loss_seen <=>
              enc.active_block[1].citation_loss_seen \/ event.delta.type = "citation_delta"
    BY <1>3, <2>1, <2>2
  <2>. QED BY <1>2, <1>4, <2>5, <2>8, <2>9, <2>10, <2>11, ContinuedOutcome
<1>. QED BY <1>5, <1>6

(* A signature is left out, and told. *)
LEMMA SignatureDeltaOutcome ==
  ASSUME Typed(enc), Consistent(enc), NEW event \in Events, ApplySignatureDelta(event)
  PROVE  Outcome(event)
<1>1. PICK types : types = {"signature_delta"}  OBVIOUS
<1>2. Continuing(event, types)  BY <1>1 DEF ApplySignatureDelta
<1>3. /\ IsDelta(event) /\ enc.active_block # None /\ event.delta.type = "signature_delta"
      /\ TakesDelta(enc.active_block[1].source.kind, event.delta.type)
  <2>1. event.delta.type \in types  BY <1>2, ContinuingFacts
  <2>. QED BY <1>1, <1>2, <2>1, ContinuingFacts
<1>4. enc.active_block[1].source.kind \notin ToolKinds
  BY <1>3 DEF TakesDelta, ToolKinds
<1>5. PICK d, what, e : /\ d = Counted /\ what = <<"signature", enc.event_ordinal>>
                        /\ e = Lose(d, what)
  OBVIOUS
<1>6. Accepted(event, e)  BY <1>5, Zenon DEF ApplySignatureDelta
<1>7. /\ Typed(d) /\ d.event_ordinal = enc.event_ordinal + 1
      /\ d.started = enc.started /\ d.delta = enc.delta
      /\ d.done = enc.done /\ d.next_block_index = enc.next_block_index
      /\ d.active_block = enc.active_block /\ d.active_item = enc.active_item
      /\ d.losses = enc.losses
  BY <1>5, CountedFacts
<1>8. what \in LossesTold  BY <1>5 DEF LossesTold, Typed
<1>9. /\ Typed(e) /\ e.losses = Append(d.losses, what) /\ e.active_item = d.active_item
      /\ e.started = d.started /\ e.delta = d.delta /\ e.done = d.done
      /\ e.next_block_index = d.next_block_index /\ e.event_ordinal = d.event_ordinal
      /\ e.active_block = d.active_block
  BY <1>5, <1>7, <1>8, LoseFacts
<1>10. e.losses = enc.losses \o Lost(event)
  <2>1. Lost(event) = <<what>>  BY <1>3, <1>5, LostForms
  <2>2. enc.losses \in Seq(LossesTold) /\ e.losses = Append(enc.losses, what)
    BY <1>7, <1>9 DEF Typed
  <2>. QED BY <1>8, <2>1, <2>2, OneMore
<1>11. /\ e.active_block # None /\ e.active_block = enc.active_block
       /\ e.event_ordinal = enc.event_ordinal + 1
       /\ e.started = enc.started /\ e.delta = enc.delta /\ e.done = enc.done
       /\ e.next_block_index = enc.next_block_index /\ e.active_item = enc.active_item
  BY <1>3, <1>7, <1>9
<1>12. e.active_block[1].citation_loss_seen <=>
         enc.active_block[1].citation_loss_seen \/ event.delta.type = "citation_delta"
  BY <1>3, <1>11
<1>. QED BY <1>2, <1>4, <1>6, <1>9, <1>10, <1>11, <1>12, ContinuedOutcome

(* A fragment of a tool's input is sent and kept. *)
LEMMA InputDeltaOutcome ==
  ASSUME Typed(enc), Consistent(enc), NEW event \in Events, ApplyInputDelta(event)
  PROVE  Outcome(event)
<1>1. PICK types : types = {"input_json_delta", "custom_tool_input_delta"}
  OBVIOUS
<1>2. Continuing(event, types)  BY <1>1 DEF ApplyInputDelta
<1>3. /\ IsDelta(event) /\ enc.active_block # None /\ event.delta.type \in types
      /\ BlockShape(enc.active_block[1]) /\ enc.active_block = <<enc.active_block[1]>>
      /\ event.delta.text \in Text
  <2>1. event.delta \in Deltas  BY <1>2, ContinuingFacts
  <2>2. event.delta.text \in Text  BY <2>1 DEF Deltas
  <2>. QED BY <1>2, <2>2, ContinuingFacts
<1>4. PICK a, fragments, b : /\ a = enc.active_block[1]
                             /\ fragments = Append(a.fragments, event.delta.text)
                             /\ b = [a EXCEPT !.fragments = fragments]
  OBVIOUS
<1>5. /\ BlockShape(b) /\ b.index = a.index /\ b.source = a.source
      /\ b.citation_loss_seen = a.citation_loss_seen /\ b.fragments = fragments
  <2>1. fragments \in Seq(Text)  BY <1>3, <1>4 DEF BlockShape
  <2>. QED BY <1>3, <1>4, <2>1 DEF BlockShape
<1>6. PICK d, events, e : /\ d = [Counted EXCEPT !.active_block = <<b>>]
                          /\ events = <<SentInput(event.delta.text)>> /\ e = Send(d, events)
  OBVIOUS
<1>7. d = [Counted EXCEPT !.active_block[1].fragments = Append(@, event.delta.text)]
  <2>1. PICK c : c = Counted  OBVIOUS
  <2>2. Typed(c) /\ c.active_block = <<a>>  BY <1>3, <1>4, <2>1, CountedFacts
  <2>3. [<<a>> EXCEPT ![1].fragments = Append(@, event.delta.text)] = <<b>>
    <3>1. [<<a>> EXCEPT ![1].fragments = fragments] = <<[a EXCEPT !.fragments = fragments]>>
      OBVIOUS
    <3>2. Append(a.fragments, event.delta.text) = fragments  BY <1>4
    <3>. QED BY <1>4, <3>1, <3>2
  <2>4. [c EXCEPT !.active_block[1].fragments = Append(@, event.delta.text)] =
          [c EXCEPT !.active_block = <<b>>]
    BY <2>2, <2>3 DEF Typed, Shape
  <2>. QED BY <1>6, <2>1, <2>4
<1>8. Accepted(event, e)  BY <1>6, <1>7, Zenon DEF ApplyInputDelta
<1>9. /\ Typed(d) /\ d.active_block # None /\ d.active_block[1] = b
      /\ d.event_ordinal = enc.event_ordinal + 1
      /\ d.started = enc.started /\ d.delta = enc.delta /\ d.done = enc.done
      /\ d.next_block_index = enc.next_block_index
      /\ d.active_item = enc.active_item /\ d.losses = enc.losses
  <2>1. d = [Counted EXCEPT !.active_block = <<b>>]  BY <1>6
  <2>2. BlockShape(b)  BY <1>5
  <2>. QED BY <2>1, <2>2, BlockCounted, ZenonT(60)
<1>10. Typed(e) /\ SameBooks(e, d) /\ e.active_item = d.active_item
  <2>1. e = Send(d, events)  BY <1>6
  <2>. QED BY <1>9, <2>1, SendFacts
<1>11. event.delta.type # "citation_delta" /\ event.delta.type # "signature_delta"
  BY <1>1, <1>3
<1>12. e.losses = enc.losses \o Lost(event)
  <2>1. Lost(event) = <<>>  BY <1>3, <1>11, LostForms
  <2>. QED BY <1>9, <1>10, <2>1 DEF SameBooks, Typed
<1>13. /\ e.active_block # None /\ e.active_block[1] = b
       /\ e.event_ordinal = enc.event_ordinal + 1
       /\ e.started = enc.started /\ e.delta = enc.delta /\ e.done = enc.done
       /\ e.next_block_index = enc.next_block_index /\ e.active_item = enc.active_item
  BY <1>9, <1>10 DEF SameBooks
<1>14. /\ b.index = enc.active_block[1].index /\ b.source = enc.active_block[1].source
       /\ b.fragments = Append(enc.active_block[1].fragments, event.delta.text)
       /\ b.citation_loss_seen <=>
            enc.active_block[1].citation_loss_seen \/ event.delta.type = "citation_delta"
  BY <1>4, <1>5, <1>11
<1>. QED BY <1>2, <1>8, <1>10, <1>12, <1>13, <1>14, ContinuedOutcome

LEMMA BlockDeltaOutcome ==
  ASSUME Typed(enc), Consistent(enc), NEW event \in Events, ApplyBlockDelta(event)
  PROVE  Outcome(event)
BY DeltaRefusedOutcome, TextDeltaOutcome, CitationDeltaOutcome, SignatureDeltaOutcome,
   InputDeltaOutcome DEF ApplyBlockDelta

(* When a block may stop. *)
LEMMA StopAllowed ==
  ASSUME Typed(enc), Consistent(enc), NEW event, IsStop(event), ~enc.done, ~enc.delta
  PROVE  Allowed(View(enc, FALSE), event) <=> InBlock(enc, event)
<1>1. PICK v, h : v = View(enc, FALSE) /\ h = Held(enc)  OBVIOUS
<1>2. /\ v.place = "within" <=> enc.active_block # None
      /\ v.index = h.index /\ ~v.signed
      /\ v.place \in {"within", "fresh", "between"}
  BY <1>1 DEF View, Consistent
<1>3. Allowed(v, event) <=> v.place = "within" /\ event.index = v.index
  BY <1>2 DEF Allowed, OpensAt, Continues, IsStart, IsDelta, IsStop
<1>4. CASE enc.active_block = None  BY <1>1, <1>2, <1>3, <1>4 DEF InBlock
<1>5. CASE enc.active_block # None
  <2>1. h = enc.active_block[1]  BY <1>1, <1>5, HeldFacts
  <2>. QED BY <1>1, <1>2, <1>3, <1>5, <2>1 DEF InBlock
<1>. QED BY <1>4, <1>5

LEMMA StopRefusedOutcome ==
  ASSUME Typed(enc), Consistent(enc), NEW event \in Events, ApplyStopRefused(event)
  PROVE  Outcome(event)
<1>1. /\ IsStop(event) /\ ~enc.done /\ ~enc.delta /\ ~InBlock(enc, event)
      /\ Refused(event, Counted)
  BY DEF ApplyStopRefused, Receives, Ended, IsStop
<1>. QED BY <1>1, StopAllowed, RefusedOutcome

(* What is known when a block stops. *)
LEMMA StoppingFacts ==
  ASSUME Typed(enc), Consistent(enc), NEW event \in Events, NEW kinds, Stopping(event, kinds)
  PROVE  /\ IsStop(event) /\ ~enc.done /\ ~enc.delta /\ enc.started
         /\ enc.active_block # None /\ enc.active_block[1].source.kind \in kinds
         /\ Allowed(View(enc, FALSE), event)
         /\ BlockShape(enc.active_block[1]) /\ Held(enc) = enc.active_block[1]
<1>1. /\ IsStop(event) /\ ~enc.done /\ ~enc.delta /\ InBlock(enc, event)
      /\ enc.active_block[1].source.kind \in kinds
  BY DEF Stopping, Receives, Ended, IsStop
<1>2. enc.active_block # None  BY <1>1 DEF InBlock
<1>3. enc.started  BY <1>2 DEF Consistent
<1>. QED BY <1>1, <1>2, <1>3, StopAllowed, HeldFacts

(* The block that is gone. *)
LEMMA ClosedFacts ==
  ASSUME Typed(enc)
  PROVE  /\ Typed(Closed) /\ Closed.event_ordinal = enc.event_ordinal + 1
         /\ Closed.started = enc.started /\ Closed.delta = enc.delta
         /\ Closed.done = enc.done /\ Closed.next_block_index = enc.next_block_index
         /\ Closed.active_block = None /\ Closed.active_item = enc.active_item
         /\ Closed.losses = enc.losses
<1>1. PICK c : c = Counted  OBVIOUS
<1>2. /\ Typed(c) /\ c.event_ordinal = enc.event_ordinal + 1
      /\ c.started = enc.started /\ c.delta = enc.delta
      /\ c.done = enc.done /\ c.next_block_index = enc.next_block_index
      /\ c.active_item = enc.active_item /\ c.losses = enc.losses
  BY <1>1, CountedFacts
<1>3. PICK d : d = [c EXCEPT !.active_block = None]  OBVIOUS
<1>4. Closed = d  BY <1>1, <1>3 DEF Closed
<1>5. /\ Shape(d) /\ d.active_block = None /\ d.event_ordinal = c.event_ordinal
      /\ d.started = c.started /\ d.delta = c.delta
      /\ d.done = c.done /\ d.next_block_index = c.next_block_index
      /\ d.active_item = c.active_item /\ d.losses = c.losses
  BY <1>2, <1>3 DEF Typed, Shape
<1>6. Typed(d)  BY <1>2, <1>5 DEF Typed, BlockHeld
<1>. QED BY <1>2, <1>4, <1>5, <1>6

(* The view moves back between the blocks. *)
LEMMA StoppedOutcome ==
  ASSUME Typed(enc), Consistent(enc), NEW event \in Events, NEW kinds, Stopping(event, kinds),
         enc.active_block[1].source.kind \in ToolKinds => InputFits(enc.active_block[1]),
         NEW e, Accepted(event, e), Typed(e), e.active_block = None,
         ActiveKind(e) \in {"none", "message", "reasoning"},
         e.started = enc.started, e.delta = enc.delta, e.done = enc.done,
         e.next_block_index = enc.next_block_index,
         e.event_ordinal = enc.event_ordinal + 1, e.losses = enc.losses
  PROVE  Outcome(event)
<1>1. /\ IsStop(event) /\ ~enc.done /\ ~enc.delta /\ enc.started /\ enc.active_block # None
      /\ Allowed(View(enc, FALSE), event) /\ Held(enc) = enc.active_block[1]
  BY StoppingFacts
<1>2. ~IsStart(event) /\ ~IsDelta(event)  BY <1>1 DEF IsStart, IsDelta, IsStop
<1>3. Consistent(e)  BY <1>1 DEF Consistent, Settled
<1>4. PICK v, w, b : v = View(enc, FALSE) /\ w = View(e, Signs(event)) /\ b = enc.active_block[1]
  OBVIOUS
<1>5. v.place = "within" /\ w.place = "between" /\ w.next = v.next
  BY <1>1, <1>4 DEF View
<1>6. /\ v.tool <=> b.source.kind \in ToolKinds
      /\ v.input = b.source.text /\ v.fragments = b.fragments
  BY <1>1, <1>4 DEF View
<1>7. InputFits(b) => InputExact(v.input, v.fragments, TRUE)
  BY <1>6 DEF InputFits, SentFragments, InputExact
<1>8. Moves(v, event, w)  BY <1>1, <1>4, <1>5, <1>6, <1>7 DEF Moves
<1>9. e.losses = enc.losses \o Lost(event)
  <2>1. Lost(event) = <<>>  BY <1>1, LostForms
  <2>. QED BY <2>1 DEF Typed
<1>10. Advances(event, e)  BY <1>1, <1>2, <1>4, <1>8, <1>9 DEF Advances
<1>. QED BY <1>3, <1>10 DEF Outcome

(* A block without an item of its own leaves the item under way as it is. *)
LEMMA SilentStopOutcome ==
  ASSUME Typed(enc), Consistent(enc), NEW event \in Events, ApplySilentStop(event)
  PROVE  Outcome(event)
<1>1. PICK kinds, e : kinds = {"redacted_thinking", "encrypted_content"} /\ e = Closed
  OBVIOUS
<1>2. Stopping(event, kinds) /\ Accepted(event, e)  BY <1>1 DEF ApplySilentStop
<1>3. enc.active_block[1].source.kind \in kinds  BY <1>2, StoppingFacts
<1>4. enc.active_block[1].source.kind \notin OwnItem
  BY <1>1, <1>3 DEF OwnItem, ToolKinds, ApplyPatchKinds
<1>5. /\ Typed(e) /\ e.event_ordinal = enc.event_ordinal + 1
      /\ e.started = enc.started /\ e.delta = enc.delta
      /\ e.done = enc.done /\ e.next_block_index = enc.next_block_index
      /\ e.active_block = None /\ e.active_item = enc.active_item
      /\ e.losses = enc.losses
  BY <1>1, ClosedFacts
<1>6. ActiveKind(e) \in {"none", "message", "reasoning"}
  BY <1>4, <1>5 DEF Consistent, Settled, ActiveKind
<1>7. enc.active_block[1].source.kind \notin ToolKinds  BY <1>4 DEF OwnItem
<1>. QED BY <1>2, <1>5, <1>6, <1>7, StoppedOutcome

(* A part keeps its text; its item stays open. *)
LEMMA PartStopOutcome ==
  ASSUME Typed(enc), Consistent(enc), NEW event \in Events, ApplyPartStop(event)
  PROVE  Outcome(event)
<1>1. Stopping(event, PartKinds)  BY DEF ApplyPartStop
<1>2. enc.active_block # None /\ enc.active_block[1].source.kind \in PartKinds
  BY <1>1, StoppingFacts
<1>3. /\ enc.active_block[1].source.kind \notin OwnItem
      /\ enc.active_block[1].source.kind \notin ToolKinds
      /\ enc.active_block[1].source.kind # "redacted_thinking"
  BY <1>2 DEF PartKinds, OwnItem, ToolKinds, ApplyPatchKinds
<1>4. /\ enc.active_item # None /\ ActiveKind(enc) \in {"none", "message", "reasoning"}
  BY <1>2, <1>3 DEF Consistent, Settled
<1>5. PICK c, block, text, n : /\ c = Closed /\ block = enc.active_block[1]
                               /\ text = PartText(block) /\ n = block.content_index + 1
  OBVIOUS
<1>6. /\ Typed(c) /\ c.event_ordinal = enc.event_ordinal + 1
      /\ c.started = enc.started /\ c.delta = enc.delta
      /\ c.done = enc.done /\ c.next_block_index = enc.next_block_index
      /\ c.active_block = None /\ c.active_item = enc.active_item
      /\ c.losses = enc.losses
  BY <1>5, ClosedFacts
<1>7. PICK content : content = [c.active_item[1].item.content EXCEPT ![n] = text]
  OBVIOUS
<1>8. PICK kept : kept = [c EXCEPT !.active_item[1].item.content = content]
  OBVIOUS
<1>9. kept = [c EXCEPT !.active_item[1].item.content[n] = text]  BY <1>7, <1>8
<1>10. /\ Typed(kept) /\ SameBooks(kept, c) /\ kept.active_item # None
       /\ kept.active_item[1].item.kind = c.active_item[1].item.kind
  <2>1. Typed(c) /\ c.active_item # None  BY <1>4, <1>6
  <2>. QED BY <1>8, <2>1, ItemSetFacts, Zenon
<1>11. PICK events : Accepted(event, Send(kept, events))
  <2>1. \E events : Accepted(event, Send(
          [Closed EXCEPT !.active_item[1].item.content[enc.active_block[1].content_index + 1] =
                           PartText(enc.active_block[1])], events))
    BY Zenon DEF ApplyPartStop
  <2>. QED BY <1>5, <1>9, <2>1, Zenon
<1>12. PICK e : e = Send(kept, events)  OBVIOUS
<1>13. Typed(e) /\ SameBooks(e, kept) /\ e.active_item = kept.active_item
  BY <1>10, <1>12, SendFacts
<1>14. ActiveKind(e) \in {"none", "message", "reasoning"}
  BY <1>4, <1>6, <1>10, <1>13 DEF ActiveKind
<1>15. /\ e.event_ordinal = enc.event_ordinal + 1
       /\ e.started = enc.started /\ e.delta = enc.delta
       /\ e.done = enc.done /\ e.next_block_index = enc.next_block_index
       /\ e.active_block = None /\ e.losses = enc.losses
  BY <1>6, <1>10, <1>13 DEF SameBooks
<1>. QED BY <1>1, <1>3, <1>11, <1>12, <1>13, <1>14, <1>15, StoppedOutcome

(* Fragments that do not spell the input are refused. *)
LEMMA InputMismatchOutcome ==
  ASSUME Typed(enc), Consistent(enc), NEW event \in Events, ApplyInputMismatch(event)
  PROVE  Outcome(event)
<1>1. PICK b : b = enc.active_block[1]  OBVIOUS
<1>2. Stopping(event, ToolKinds) /\ ~InputFits(b) /\ Refused(event, Closed)
  BY <1>1 DEF ApplyInputMismatch
<1>3. /\ IsStop(event) /\ b.source.kind \in ToolKinds /\ BlockShape(b) /\ Held(enc) = b
  BY <1>1, <1>2, StoppingFacts
<1>4. b.source.text \in Text  BY <1>3 DEF BlockShape, Blocks
<1>5. Concat(<<b.source.text>>) = b.source.text  BY <1>4, ConcatSingle DEF Text
<1>6. b.fragments # <<>> /\ Concat(b.fragments) # b.source.text
  BY <1>2, <1>5 DEF InputFits, SentFragments
<1>7. /\ View(enc, FALSE).tool /\ View(enc, FALSE).input = b.source.text
      /\ View(enc, FALSE).fragments = b.fragments
  BY <1>3 DEF View
<1>8. Unfit(View(enc, FALSE), event)  BY <1>3, <1>6, <1>7 DEF Unfit, InputExact
<1>. QED BY <1>2, <1>8, RefusedOutcome

(* The item of a call ends with the call. *)
LEMMA ItemEnds ==
  ASSUME Typed(enc), Consistent(enc), NEW event \in Events, NEW kinds, Stopping(event, kinds),
         enc.active_block[1].source.kind \in ToolKinds => InputFits(enc.active_block[1]),
         NEW events, NEW item, Accepted(event, CloseItem(Send(Closed, events), item))
  PROVE  Outcome(event)
<1>1. PICK c, d, e : c = Closed /\ d = Send(c, events) /\ e = CloseItem(d, item)
  OBVIOUS
<1>2. /\ Typed(c) /\ c.event_ordinal = enc.event_ordinal + 1
      /\ c.started = enc.started /\ c.delta = enc.delta
      /\ c.done = enc.done /\ c.next_block_index = enc.next_block_index
      /\ c.active_block = None /\ c.losses = enc.losses
  BY <1>1, ClosedFacts
<1>3. Typed(d) /\ SameBooks(d, c)  BY <1>1, <1>2, SendFacts
<1>4. Typed(e) /\ SameBooks(e, d) /\ e.active_item = None
  BY <1>1, <1>3, CloseItemFacts
<1>5. /\ e.event_ordinal = enc.event_ordinal + 1
      /\ e.started = enc.started /\ e.delta = enc.delta
      /\ e.done = enc.done /\ e.next_block_index = enc.next_block_index
      /\ e.active_block = None /\ e.losses = enc.losses
  BY <1>2, <1>3, <1>4 DEF SameBooks
<1>6. ActiveKind(e) \in {"none", "message", "reasoning"}  BY <1>4 DEF ActiveKind
<1>7. Accepted(event, e)  BY <1>1
<1>. QED BY <1>4, <1>5, <1>6, <1>7, StoppedOutcome

LEMMA CallStopOutcome ==
  ASSUME Typed(enc), Consistent(enc), NEW event \in Events, ApplyCallStop(event)
  PROVE  Outcome(event)
<1>1. Stopping(event, ToolKinds) /\ InputFits(enc.active_block[1])
  BY DEF ApplyCallStop
<1>2. PICK events, item : Accepted(event, CloseItem(Send(Closed, events), item))
  BY Zenon DEF ApplyCallStop
<1>. QED BY <1>1, <1>2, ItemEnds

(* The ends of patches and searches. *)
LEMMA ItemStopOutcome ==
  ASSUME Typed(enc), Consistent(enc), NEW event \in Events, ApplyItemStop(event)
  PROVE  Outcome(event)
<1>1. PICK kinds : kinds = ApplyPatchKinds \union {"web_search_call"}  OBVIOUS
<1>2. Stopping(event, kinds)  BY <1>1 DEF ApplyItemStop
<1>3. enc.active_block[1].source.kind \in kinds  BY <1>2, StoppingFacts
<1>4. enc.active_block[1].source.kind \notin ToolKinds
  BY <1>1, <1>3 DEF ToolKinds, ApplyPatchKinds
<1>5. PICK c, item : c = Closed /\ Accepted(event, CloseItem(c, item))
  BY Zenon DEF ApplyItemStop
<1>6. /\ Typed(c) /\ c.event_ordinal = enc.event_ordinal + 1
      /\ c.started = enc.started /\ c.delta = enc.delta
      /\ c.done = enc.done /\ c.next_block_index = enc.next_block_index
      /\ c.active_block = None /\ c.losses = enc.losses
  BY <1>5, ClosedFacts
<1>7. PICK e : e = CloseItem(c, item)  OBVIOUS
<1>8. Typed(e) /\ SameBooks(e, c) /\ e.active_item = None
  BY <1>6, <1>7, CloseItemFacts
<1>9. /\ e.event_ordinal = enc.event_ordinal + 1
      /\ e.started = enc.started /\ e.delta = enc.delta
      /\ e.done = enc.done /\ e.next_block_index = enc.next_block_index
      /\ e.active_block = None /\ e.losses = enc.losses
  BY <1>6, <1>8 DEF SameBooks
<1>10. ActiveKind(e) \in {"none", "message", "reasoning"}
  BY <1>8 DEF ActiveKind
<1>. QED BY <1>2, <1>4, <1>5, <1>7, <1>8, <1>9, <1>10, StoppedOutcome

LEMMA BlockStopOutcome ==
  ASSUME Typed(enc), Consistent(enc), NEW event \in Events, ApplyBlockStop(event)
  PROVE  Outcome(event)
BY StopRefusedOutcome, SilentStopOutcome, PartStopOutcome, InputMismatchOutcome,
   CallStopOutcome, ItemStopOutcome DEF ApplyBlockStop

-----------------------------------------------------------------------------
(* MessageDelta and MessageDone *)

(* When the message may end: the item is never in the way. *)
LEMMA EndAllowed ==
  ASSUME Typed(enc), Consistent(enc), NEW event, event.type = "message_delta",
         ~enc.done, ~enc.delta
  PROVE  Allowed(View(enc, FALSE), event) <=> ~TerminalOutOfOrder(enc)
<1>1. Allowed(View(enc, FALSE), event) <=> enc.started /\ enc.active_block = None
  BY DEF Allowed, View, OpensAt, Continues, IsStart, IsDelta, IsStop
<1>2. TerminalOutOfOrder(enc) <=> ~enc.started \/ enc.active_block # None
  BY DEF TerminalOutOfOrder, Consistent, Settled
<1>. QED BY <1>1, <1>2

LEMMA EndRefusedOutcome ==
  ASSUME Typed(enc), Consistent(enc), NEW event \in Events,
         ApplyTerminalOutOfOrder(event) \/ ApplyTerminalRefused(event)
  PROVE  Outcome(event)
<1>1. event.type = "message_delta" /\ ~enc.done /\ ~enc.delta
  BY DEF ApplyTerminalOutOfOrder, ApplyTerminalRefused, Receives, Ended
<1>2. PICK e : Refused(event, e)
  BY Zenon DEF ApplyTerminalOutOfOrder, ApplyTerminalRefused
<1>3. CASE ApplyTerminalOutOfOrder(event)
  <2>1. ~Allowed(View(enc, FALSE), event)
    BY <1>1, <1>3, EndAllowed DEF ApplyTerminalOutOfOrder
  <2>. QED BY <1>2, <2>1, RefusedOutcome
<1>4. CASE ApplyTerminalRefused(event)
  <2>1. Unfit(View(enc, FALSE), event)
    BY <1>1, <1>4 DEF ApplyTerminalRefused, Unfit
  <2>. QED BY <1>2, <2>1, RefusedOutcome
<1>. QED BY <1>3, <1>4

(* The item under way ends with the message. *)
LEMMA ItemClosedFacts ==
  ASSUME NEW e, Typed(e)
  PROVE  /\ Typed(ItemClosed(e)) /\ SameBooks(ItemClosed(e), e)
         /\ ItemClosed(e).active_item = None
<1>1. CASE e.active_item = None  BY <1>1 DEF ItemClosed, SameBooks
<1>2. CASE e.active_item # None
  <2>1. ItemClosed(e) = Completed(e)  BY <1>2 DEF ItemClosed
  <2>. QED BY <2>1, CloseItemFacts DEF Completed
<1>. QED BY <1>1, <1>2

(* The terminal event, with the loss of a stop sequence. *)
LEMMA TerminalOutcome ==
  ASSUME Typed(enc), Consistent(enc), NEW event \in Events, ApplyTerminal(event)
  PROVE  Outcome(event)
<1>1. /\ event.type = "message_delta" /\ ~enc.done /\ ~enc.delta /\ ~TerminalOutOfOrder(enc)
  BY DEF ApplyTerminal, Receives, Ended
<1>2. enc.started /\ enc.active_block = None /\ Allowed(View(enc, FALSE), event)
  BY <1>1, EndAllowed DEF TerminalOutOfOrder
<1>3. PICK c, d, what, closed : /\ c = Counted /\ d = ItemClosed(c)
                                /\ what = <<"stop_sequence", -1>>
                                /\ closed = [d EXCEPT !.delta = TRUE]
  OBVIOUS
<1>4. PICK events, sent : /\ sent = Send(closed, events)
                          /\ Accepted(event, IF event.stop_reason = "stop_sequence"
                                             THEN Lose(sent, what) ELSE sent)
  <2>1. \E events : Accepted(event, IF event.stop_reason = "stop_sequence"
                                    THEN Lose(Send([ItemClosed(Counted) EXCEPT !.delta = TRUE],
                                                   events), <<"stop_sequence", -1>>)
                                    ELSE Send([ItemClosed(Counted) EXCEPT !.delta = TRUE], events))
    BY Zenon DEF ApplyTerminal
  <2>. QED BY <1>3, <2>1, Zenon
<1>5. /\ Typed(c) /\ c.event_ordinal = enc.event_ordinal + 1
      /\ c.started = enc.started /\ c.delta = enc.delta
      /\ c.done = enc.done /\ c.next_block_index = enc.next_block_index
      /\ c.active_block = enc.active_block /\ c.losses = enc.losses
  BY <1>3, CountedFacts
<1>6. Typed(d) /\ SameBooks(d, c) /\ d.active_item = None
  BY <1>3, <1>5, ItemClosedFacts
<1>7. /\ Typed(closed) /\ closed.delta = TRUE /\ closed.active_item = None
      /\ closed.event_ordinal = d.event_ordinal /\ closed.started = d.started
      /\ closed.done = d.done /\ closed.next_block_index = d.next_block_index
      /\ closed.active_block = d.active_block /\ closed.losses = d.losses
  <2>1. /\ Shape(closed) /\ closed.delta = TRUE /\ closed.active_item = d.active_item
        /\ closed.event_ordinal = d.event_ordinal /\ closed.started = d.started
        /\ closed.done = d.done /\ closed.next_block_index = d.next_block_index
        /\ closed.active_block = d.active_block /\ closed.losses = d.losses
    BY <1>3, <1>6 DEF Typed, Shape
  <2>. QED BY <1>6, <2>1 DEF Typed
<1>8. Typed(sent) /\ SameBooks(sent, closed) /\ sent.active_item = closed.active_item
  BY <1>4, <1>7, SendFacts
<1>9. /\ sent.delta /\ sent.active_item = None /\ sent.active_block = None
      /\ sent.event_ordinal = enc.event_ordinal + 1 /\ sent.started = enc.started
      /\ sent.done = enc.done /\ sent.next_block_index = enc.next_block_index
      /\ sent.losses = enc.losses
  BY <1>2, <1>5, <1>6, <1>7, <1>8 DEF SameBooks
<1>10. PICK e : e = IF event.stop_reason = "stop_sequence" THEN Lose(sent, what) ELSE sent
  OBVIOUS
<1>11. Accepted(event, e)  BY <1>4, <1>10
<1>12. what \in LossesTold  BY <1>3 DEF LossesTold
<1>13. /\ Typed(e) /\ e.losses = enc.losses \o Lost(event)
       /\ e.delta /\ e.active_item = None /\ e.active_block = None
       /\ e.event_ordinal = enc.event_ordinal + 1 /\ e.started = enc.started
       /\ e.done = enc.done /\ e.next_block_index = enc.next_block_index
  <2>1. CASE event.stop_reason = "stop_sequence"
    <3>1. e = Lose(sent, what) /\ Lost(event) = <<what>>
      BY <1>1, <1>3, <1>10, <2>1, LostForms
    <3>2. /\ Typed(e) /\ e.losses = Append(sent.losses, what)
          /\ e.active_item = sent.active_item
          /\ e.started = sent.started /\ e.delta = sent.delta /\ e.done = sent.done
          /\ e.next_block_index = sent.next_block_index
          /\ e.event_ordinal = sent.event_ordinal /\ e.active_block = sent.active_block
      BY <1>8, <1>12, <3>1, LoseFacts
    <3>3. enc.losses \in Seq(LossesTold) /\ e.losses = Append(enc.losses, what)
      BY <1>9, <3>2 DEF Typed
    <3>4. e.losses = enc.losses \o Lost(event)  BY <1>12, <3>1, <3>3, OneMore
    <3>. QED BY <1>9, <3>2, <3>4
  <2>2. CASE event.stop_reason # "stop_sequence"
    <3>1. e = sent /\ Lost(event) = <<>>  BY <1>1, <1>10, <2>2, LostForms
    <3>2. e.losses = enc.losses \o Lost(event)  BY <1>9, <3>1 DEF Typed
    <3>. QED BY <1>8, <1>9, <3>1, <3>2
  <2>. QED BY <2>1, <2>2
<1>14. Consistent(e)  BY <1>1, <1>2, <1>13 DEF Consistent, Settled, ActiveKind
<1>15. View(e, Signs(event)).place = "ended"  BY <1>1, <1>13 DEF View
<1>16. Moves(View(enc, FALSE), event, View(e, Signs(event)))
  BY <1>1, <1>15 DEF Moves
<1>17. Advances(event, e)
  BY <1>1, <1>2, <1>13, <1>16 DEF Advances, IsStart, IsDelta
<1>. QED BY <1>11, <1>13, <1>14, <1>17 DEF Outcome

(* The last event comes after the terminal one. *)
LEMMA MessageDoneOutcome ==
  ASSUME Typed(enc), Consistent(enc), NEW event \in Events, ApplyMessageDone(event)
  PROVE  Outcome(event)
<1>1. event.type = "message_done" /\ ~enc.done
  BY DEF ApplyMessageDone, Receives, Ended
<1>2. Allowed(View(enc, FALSE), event) <=> enc.delta
  BY <1>1 DEF Allowed, View, OpensAt, Continues, IsStart, IsDelta, IsStop
<1>3. CASE ~enc.delta  BY <1>2, <1>3, RefusedOutcome DEF ApplyMessageDone
<1>4. CASE enc.delta
  <2>1. PICK c, e : c = Counted /\ e = [c EXCEPT !.done = TRUE]  OBVIOUS
  <2>2. Accepted(event, e)  BY <1>4, <2>1, Zenon DEF ApplyMessageDone
  <2>3. /\ Typed(c) /\ c.event_ordinal = enc.event_ordinal + 1
        /\ c.started = enc.started /\ c.delta = enc.delta
        /\ c.next_block_index = enc.next_block_index
        /\ c.active_block = enc.active_block /\ c.active_item = enc.active_item
        /\ c.losses = enc.losses
    BY <2>1, CountedFacts
  <2>4. /\ Typed(e) /\ e.done = TRUE /\ e.event_ordinal = c.event_ordinal
        /\ e.started = c.started /\ e.delta = c.delta
        /\ e.next_block_index = c.next_block_index
        /\ e.active_block = c.active_block /\ e.active_item = c.active_item
        /\ e.losses = c.losses
    <3>1. /\ Shape(e) /\ e.done = TRUE /\ e.event_ordinal = c.event_ordinal
          /\ e.started = c.started /\ e.delta = c.delta
          /\ e.next_block_index = c.next_block_index
          /\ e.active_block = c.active_block /\ e.active_item = c.active_item
          /\ e.losses = c.losses
      BY <2>1, <2>3 DEF Typed, Shape
    <3>. QED BY <2>3, <3>1 DEF Typed
  <2>5. enc.active_block = None /\ enc.started  BY <1>4 DEF Consistent
  <2>6. Consistent(e)
    BY <1>4, <2>3, <2>4, <2>5 DEF Consistent, Settled, ActiveKind
  <2>7. Lost(event) = <<>>  BY <1>1, LostForms
  <2>8. e.losses = enc.losses \o Lost(event)  BY <2>3, <2>4, <2>7 DEF Typed
  <2>9. View(e, Signs(event)).place = "done"  BY <2>4 DEF View
  <2>10. Moves(View(enc, FALSE), event, View(e, Signs(event)))
    BY <1>1, <2>9 DEF Moves
  <2>11. Advances(event, e)
    BY <1>1, <1>2, <1>4, <2>3, <2>4, <2>5, <2>8, <2>10 DEF Advances, IsStart, IsDelta
  <2>. QED BY <2>2, <2>4, <2>6, <2>11 DEF Outcome
<1>. QED BY <1>3, <1>4

(* Every call has one of the two outcomes. *)
LEMMA EveryOutcome ==
  ASSUME Typed(enc), Consistent(enc), NEW event \in Events, Apply(event)
  PROVE  Outcome(event)
BY AfterEndOutcome, MessageStartOutcome, BlockStartOutcome, BlockDeltaOutcome,
   BlockStopOutcome, EndRefusedOutcome, TerminalOutcome, MessageDoneOutcome DEF Apply

-----------------------------------------------------------------------------
(* The invariant *)

(* The stray events, said of any stream s. *)
Wandering(s, n) ==
  /\ IsDelta(s[n])
  /\ \E j \in 1..(n - 1) : /\ IsDelta(s[j]) /\ s[j].index = s[n].index
                           /\ s[j].delta.type = "signature_delta"

(* Every block has an index of its own, below the next one, and every
   delta has the index of a block. *)
Indexed(s, next) ==
  /\ \A j \in 1..Len(s) : IsStart(s[j]) => s[j].index < next
  /\ \A j, k \in 1..Len(s) : IsStart(s[j]) /\ IsStart(s[k]) /\ s[j].index = s[k].index => j = k
  /\ \A k \in 1..Len(s) : IsDelta(s[k]) =>
       \E j \in 1..k : IsStart(s[j]) /\ s[j].index = s[k].index

Cites(event) ==
  \/ IsStart(event) /\ event.block.citations # <<>>
  \/ IsDelta(event) /\ event.delta.type = "citation_delta"

(* The block the struct holds is open in the stream, and its flag tells
   whether it has cited. *)
HeldOpen(s, e) ==
  e.active_block # None =>
    \E k \in 1..Len(s) :
      /\ OpenFrom(s, k) /\ s[k].index = e.active_block[1].index
      /\ e.active_block[1].citation_loss_seen <=> \E j \in k..Len(s) : Cites(s[j])

(* The gaps of a stream s. *)
BlockAt(s, k) == CHOOSE j \in 1..k : IsStart(s[j]) /\ s[j].index = s[k].index

Gaps(s, k) ==
  LET e == s[k]
  IN  CASE IsStart(e) /\ e.block.kind = "redacted_thinking" -> <<<<"block", k - 1>>>>
        [] IsStart(e) /\ e.block.kind # "redacted_thinking" -> StartLosses(e.block, k - 1)
        [] IsDelta(e) /\ e.delta.type = "signature_delta" -> <<<<"signature", k - 1>>>>
        [] IsDelta(e) /\ e.delta.type = "citation_delta" ->
             IF \E j \in BlockAt(s, k)..(k - 1) : Cites(s[j]) THEN <<>>
             ELSE <<<<"citations", k - 1>>>>
        [] e.type = "message_delta" /\ e.stop_reason = "stop_sequence" ->
             <<<<"stop_sequence", -1>>>>
        [] OTHER -> <<>>

AllGaps(s) == [k \in 1..Len(s) |-> Gaps(s, k)]

(* The struct tracks the events as long as they are in order, only a stray
   event takes them out of order, and every gap has been told. *)
Follow(s, e) ==
  /\ Indexed(s, e.next_block_index) /\ HeldOpen(s, e)
  /\ e.event_ordinal = Len(s) /\ e.losses = Concat(AllGaps(s))
  /\ InOrder(s) => \E signed \in BOOLEAN : Tracks(s, View(e, signed))
  /\ (\A n \in 1..Len(s) : ~Wandering(s, n)) => InOrder(s)

(* The reason of the first refusal. *)
Reasoned ==
  ~Faultless =>
    /\ refused[1].after \in 0..Len(applied)
    /\ LET s == Append(SubSeq(applied, 1, refused[1].after), refused[1].event)
       IN  ~InOrder(s) \/ Unencodable(s)

(* Nothing is said of the struct once a call was refused. *)
EncInv ==
  /\ applied \in Seq(Events)
  /\ Faultless => Typed(enc) /\ Consistent(enc) /\ Follow(applied, enc)
  /\ Reasoned

LEMMA InitEncInv == Init => EncInv
<1> SUFFICES ASSUME Init
             PROVE  EncInv
  OBVIOUS
<1>1. PICK none, items : none = <<>> /\ items = [kind \in NumberedItems |-> 0]
  OBVIOUS
<1>2. enc = [started |-> FALSE, delta |-> FALSE, done |-> FALSE, next_block_index |-> 0,
             next_output_index |-> 0, next_item |-> items, active_item |-> None,
             active_block |-> None, completed |-> none, event_ordinal |-> 0,
             wire |-> none, losses |-> none]
  BY <1>1, Zenon DEF Init, NewEncoder
<1>3. /\ Shape(enc) /\ enc.started = FALSE /\ enc.delta = FALSE /\ enc.done = FALSE
      /\ enc.next_block_index = 0 /\ enc.event_ordinal = 0 /\ enc.losses = none
      /\ enc.active_item = None /\ enc.active_block = None
  BY <1>2 DEF Shape
<1>4. none \in Seq(LossesTold)
  <2>1. PICK S : S = LossesTold  OBVIOUS
  <2>. QED BY <1>1, <2>1
<1>5. Typed(enc)
  <2>1. ItemHeld(enc.active_item)  BY <1>3, Zenon DEF ItemHeld
  <2>2. BlockHeld(enc.active_block)  BY <1>3, Zenon DEF BlockHeld
  <2>3. enc.losses \in Seq(LossesTold)  BY <1>3, <1>4
  <2>4. enc.started \in BOOLEAN /\ enc.delta \in BOOLEAN /\ enc.done \in BOOLEAN
    BY <1>3, Zenon
  <2>5. enc.next_block_index \in Nat /\ enc.event_ordinal \in Nat
    <3>1. enc.next_block_index = 0 /\ enc.event_ordinal = 0  BY <1>3, Zenon
    <3>. QED BY <3>1
  <2>6. Shape(enc)  BY <1>3, Zenon
  <2>. QED BY <2>1, <2>2, <2>3, <2>4, <2>5, <2>6, Zenon DEF Typed
<1>6. Consistent(enc)  BY <1>3 DEF Consistent, Settled, ActiveKind
<1>7. applied = <<>> /\ refused = None  BY DEF Init
<1>8. InOrder(<<>>)  BY DEF InOrder
<1>9. View(enc, FALSE).place = "fresh" /\ View(enc, FALSE).next = 0
  BY <1>3 DEF View
<1>10. Tracks(<<>>, View(enc, FALSE))  BY <1>9, TrackedInit
<1>11. Indexed(applied, enc.next_block_index) /\ HeldOpen(applied, enc)
  BY <1>3, <1>7 DEF Indexed, HeldOpen
<1>12. Len(applied) = 0 /\ AllGaps(applied) = <<>>  BY <1>7 DEF AllGaps
<1>13. enc.losses = Concat(AllGaps(applied))  BY <1>1, <1>3, <1>12, ConcatEmpty
<1>14. Follow(applied, enc)
  BY <1>3, <1>7, <1>8, <1>10, <1>11, <1>12, <1>13 DEF Follow
<1>15. applied \in Seq(Events)  BY <1>7
<1>. QED BY <1>5, <1>6, <1>7, <1>14, <1>15 DEF EncInv, Reasoned, Faultless

(* A stray event stays one when the stream goes on. *)
LEMMA WanderingStays ==
  ASSUME NEW S, NEW s \in Seq(S), NEW e \in S, NEW n \in 1..Len(s), Wandering(s, n)
  PROVE  Wandering(Append(s, e), n)
<1>1. PICK t : t = Append(s, e)  OBVIOUS
<1>2. \A j \in 1..n : t[j] = s[j]  BY <1>1, AppendFacts
<1>3. n \in 1..n /\ \A j \in 1..(n - 1) : j \in 1..n  OBVIOUS
<1>. QED BY <1>1, <1>2, <1>3 DEF Wandering

(* Each accepted event has a new index if it starts a block, and the index
   of the open block if it continues one. *)
LEMMA IndexesStayNew ==
  ASSUME NEW S, NEW s \in Seq(S), NEW event \in S, NEW next \in Nat, NEW after \in Nat,
         Indexed(s, next),
         IsStart(event) => event.index = next /\ after = next + 1,
         ~IsStart(event) => after = next,
         IsDelta(event) => \E j \in 1..Len(s) : IsStart(s[j]) /\ s[j].index = event.index,
         \A j \in 1..Len(s) : IsStart(s[j]) => s[j].index \in Nat
  PROVE  Indexed(Append(s, event), after)
<1>1. PICK t, l : t = Append(s, event) /\ l = Len(s)  OBVIOUS
<1>2. l \in Nat /\ Len(t) = l + 1 /\ t[l + 1] = event /\ \A j \in 1..l : t[j] = s[j]
  BY <1>1, AppendFacts
<1>3. \A j : j \in 1..Len(t) <=> j \in 1..l \/ j = l + 1  BY <1>2
<1>4. ASSUME NEW j \in 1..Len(t), IsStart(t[j])
      PROVE  t[j].index < after
  BY <1>1, <1>2, <1>3, <1>4 DEF Indexed
<1>5. ASSUME NEW j \in 1..Len(t), NEW k \in 1..Len(t), IsStart(t[j]), IsStart(t[k]),
             t[j].index = t[k].index
      PROVE  j = k
  BY <1>1, <1>2, <1>3, <1>5 DEF Indexed
<1>6. ASSUME NEW k \in 1..Len(t), IsDelta(t[k])
      PROVE  \E j \in 1..k : IsStart(t[j]) /\ t[j].index = t[k].index
  <2>1. CASE k = l + 1
    <3>1. PICK j \in 1..l : IsStart(s[j]) /\ s[j].index = event.index
      BY <1>1, <1>2, <1>6, <2>1
    <3>2. j \in 1..k /\ t[j] = s[j] /\ t[k] = event  BY <1>2, <2>1
    <3>. QED BY <3>1, <3>2
  <2>2. CASE k \in 1..l
    <3>1. IsDelta(s[k]) /\ t[k] = s[k]  BY <1>2, <1>6, <2>2
    <3>2. PICK j \in 1..k : IsStart(s[j]) /\ s[j].index = s[k].index
      BY <1>1, <2>2, <3>1 DEF Indexed
    <3>3. t[j] = s[j]  BY <1>2, <2>2
    <3>. QED BY <3>1, <3>2, <3>3
  <2>. QED BY <1>3, <2>1, <2>2
<1>. QED BY <1>1, <1>4, <1>5, <1>6 DEF Indexed

(* The block the struct holds open stays the one that is open. *)
LEMMA OpenBlockHeld ==
  ASSUME NEW s \in Seq(IrEvents), NEW event \in IrEvents, NEW e, Advances(event, e),
         HeldOpen(s, enc)
  PROVE  HeldOpen(Append(s, event), e)
<1>1. PICK t, l : t = Append(s, event) /\ l = Len(s)  OBVIOUS
<1>2. l \in Nat /\ Len(t) = l + 1 /\ t[l + 1] = event /\ \A j \in 1..l : t[j] = s[j]
  BY <1>1, AppendFacts
<1>3. CASE IsStart(event)
  <2>1. /\ e.active_block[1].index = event.index
        /\ e.active_block[1].citation_loss_seen <=> event.block.citations # <<>>
    BY <1>3 DEF Advances
  <2>2. OpenFrom(t, l + 1) /\ l + 1 \in 1..Len(t) /\ t[l + 1].index = event.index
    BY <1>2, <1>3 DEF OpenFrom
  <2>3. Cites(event) <=> event.block.citations # <<>>
    BY <1>3 DEF Cites, IsStart, IsDelta
  <2>4. (\E j \in (l + 1)..Len(t) : Cites(t[j])) <=> Cites(event)
    <3>1. \A j : j \in (l + 1)..Len(t) <=> j = l + 1  BY <1>2
    <3>. QED BY <1>2, <3>1
  <2>5. e.active_block[1].citation_loss_seen <=> \E j \in (l + 1)..Len(t) : Cites(t[j])
    BY <2>1, <2>3, <2>4
  <2>. QED BY <1>1, <2>1, <2>2, <2>5 DEF HeldOpen
<1>4. CASE IsDelta(event)
  <2>1. /\ enc.active_block # None
        /\ e.active_block[1].index = enc.active_block[1].index
        /\ e.active_block[1].citation_loss_seen <=>
             \/ enc.active_block[1].citation_loss_seen
             \/ event.delta.type = "citation_delta"
    BY <1>4 DEF Advances
  <2>2. PICK k \in 1..Len(s) :
          /\ OpenFrom(s, k) /\ s[k].index = enc.active_block[1].index
          /\ enc.active_block[1].citation_loss_seen <=> \E j \in k..Len(s) : Cites(s[j])
    BY <2>1 DEF HeldOpen
  <2>3. k \in 1..l /\ k \in Nat  BY <1>1, <1>2
  <2>4. k \in 1..Len(t) /\ t[k] = s[k] /\ IsStart(t[k])
    BY <1>2, <2>2, <2>3 DEF OpenFrom
  <2>5. ASSUME NEW n \in (k + 1)..Len(t)
        PROVE  IsDelta(t[n])
    <3>1. (n \in 1..l /\ n \in (k + 1)..l) \/ n = l + 1  BY <1>2, <2>3
    <3>. QED BY <1>1, <1>2, <1>4, <2>2, <3>1 DEF OpenFrom
  <2>6. OpenFrom(t, k)  BY <2>4, <2>5 DEF OpenFrom
  <2>7. Cites(event) <=> event.delta.type = "citation_delta"
    BY <1>4 DEF Cites, IsStart, IsDelta
  <2>8. (\E j \in k..Len(t) : Cites(t[j])) <=> (\E j \in k..l : Cites(s[j])) \/ Cites(event)
    <3>1. \A j : j \in k..Len(t) <=> j \in k..l \/ j = l + 1  BY <1>2, <2>3
    <3>2. \A j \in k..l : t[j] = s[j]  BY <1>2, <2>3
    <3>. QED BY <1>2, <3>1, <3>2
  <2>9. e.active_block[1].citation_loss_seen <=> \E j \in k..Len(t) : Cites(t[j])
    BY <1>1, <2>1, <2>2, <2>7, <2>8
  <2>. QED BY <1>1, <2>1, <2>2, <2>4, <2>6, <2>9 DEF HeldOpen
<1>5. CASE ~IsStart(event) /\ ~IsDelta(event)
  BY <1>5, SMTT(60) DEF Advances, HeldOpen
<1>. QED BY <1>3, <1>4, <1>5

(* The gaps are losses. *)
LEMMA GapForms ==
  ASSUME NEW s, NEW k \in Nat, NEW cited \in BOOLEAN,
         IsDelta(s[k]) /\ s[k].delta.type = "citation_delta" =>
           (cited <=> \E j \in BlockAt(s, k)..(k - 1) : Cites(s[j]))
  PROVE  /\ IsStart(s[k]) /\ s[k].block.kind = "redacted_thinking" =>
              Gaps(s, k) = <<<<"block", k - 1>>>>
         /\ IsStart(s[k]) /\ s[k].block.kind # "redacted_thinking" =>
              Gaps(s, k) = StartLosses(s[k].block, k - 1)
         /\ IsDelta(s[k]) /\ s[k].delta.type = "signature_delta" =>
              Gaps(s, k) = <<<<"signature", k - 1>>>>
         /\ IsDelta(s[k]) /\ s[k].delta.type = "citation_delta" =>
              Gaps(s, k) = IF cited THEN <<>> ELSE <<<<"citations", k - 1>>>>
         /\ IsDelta(s[k]) /\ s[k].delta.type \notin {"signature_delta", "citation_delta"} =>
              Gaps(s, k) = <<>>
         /\ s[k].type = "message_delta" /\ s[k].stop_reason = "stop_sequence" =>
              Gaps(s, k) = <<<<"stop_sequence", -1>>>>
         /\ s[k].type = "message_delta" /\ s[k].stop_reason # "stop_sequence" =>
              Gaps(s, k) = <<>>
         /\ IsStop(s[k]) \/ s[k].type \in {"message_start", "message_done"} =>
              Gaps(s, k) = <<>>
<1>1. PICK x, a, b, c, d, e, none :
        /\ x = s[k]
        /\ a = <<<<"block", k - 1>>>>
        /\ b = StartLosses(s[k].block, k - 1)
        /\ c = <<<<"signature", k - 1>>>>
        /\ d = <<<<"citations", k - 1>>>>
        /\ e = <<<<"stop_sequence", -1>>>>
        /\ none = <<>>
  OBVIOUS
<1>2. PICK before : before = \E j \in BlockAt(s, k)..(k - 1) : Cites(s[j])
  OBVIOUS
<1>3. Gaps(s, k) =
        CASE IsStart(x) /\ x.block.kind = "redacted_thinking" -> a
          [] IsStart(x) /\ x.block.kind # "redacted_thinking" -> b
          [] IsDelta(x) /\ x.delta.type = "signature_delta" -> c
          [] IsDelta(x) /\ x.delta.type = "citation_delta" -> IF before THEN none ELSE d
          [] x.type = "message_delta" /\ x.stop_reason = "stop_sequence" -> e
          [] OTHER -> none
  BY <1>1, <1>2, Zenon DEF Gaps
<1>4. IsDelta(x) /\ x.delta.type = "citation_delta" =>
        (IF before THEN none ELSE d) = IF cited THEN none ELSE d
  BY <1>1, <1>2, Zenon
<1>. QED BY <1>1, <1>3, <1>4 DEF IsStart, IsDelta, IsStop

LEMMA GapType ==
  ASSUME NEW s \in Seq(IrEvents), NEW k \in 1..Len(s)
  PROVE  Gaps(s, k) \in Seq(LossesTold)
<1>1. PICK x, a, c, d, e, none :
        /\ x = s[k]
        /\ a = <<"block", k - 1>>
        /\ c = <<"signature", k - 1>>
        /\ d = <<"citations", k - 1>>
        /\ e = <<"stop_sequence", -1>>
        /\ none = <<>>
  OBVIOUS
<1>2. PICK cited : cited = \E j \in BlockAt(s, k)..(k - 1) : Cites(s[j])
  OBVIOUS
<1>3. k \in Nat /\ k - 1 \in Nat /\ x \in IrEvents  BY <1>1
<1>4. /\ a \in LossesTold /\ c \in LossesTold /\ d \in LossesTold /\ e \in LossesTold
  BY <1>1, <1>3 DEF LossesTold
<1>5. PICK S : S = LossesTold  OBVIOUS
<1>6. /\ <<a>> \in Seq(S) /\ <<c>> \in Seq(S) /\ <<d>> \in Seq(S) /\ <<e>> \in Seq(S)
      /\ none \in Seq(S)
  BY <1>1, <1>4, <1>5
<1>7. StartLosses(x.block, k - 1) \in Seq(S)  BY <1>3, <1>5, StartLossFacts
<1>8. cited \in BOOLEAN  BY <1>2
<1>9. Gaps(s, k) \in {<<a>>, StartLosses(x.block, k - 1), <<c>>, <<d>>, <<e>>, none}
  <2>1. \/ IsStart(x) \/ IsDelta(x) \/ IsStop(x)
        \/ x.type \in {"message_start", "message_done", "message_delta"}
    BY <1>3 DEF IrEvents, IsStart, IsDelta, IsStop
  <2>2. IsDelta(s[k]) /\ s[k].delta.type = "citation_delta" =>
          (cited <=> \E j \in BlockAt(s, k)..(k - 1) : Cites(s[j]))
    BY <1>2, Zenon
  <2>. QED BY <1>1, <1>3, <1>8, <2>1, <2>2, GapForms, ZenonT(60)
<1>. QED BY <1>5, <1>6, <1>7, <1>9

(* The block of a delta is the one with its index. *)
LEMMA BlockAtFacts ==
  ASSUME NEW s, NEW next, Indexed(s, next), NEW k \in 1..Len(s), IsDelta(s[k])
  PROVE  /\ BlockAt(s, k) \in 1..k /\ IsStart(s[BlockAt(s, k)])
         /\ s[BlockAt(s, k)].index = s[k].index
<1>1. \E j \in 1..k : IsStart(s[j]) /\ s[j].index = s[k].index  BY DEF Indexed
<1>. QED BY <1>1, Zenon DEF BlockAt

(* The gaps of earlier events do not change. *)
LEMMA GapsStay ==
  ASSUME NEW s \in Seq(IrEvents), NEW event \in IrEvents, NEW next, Indexed(s, next),
         NEW k \in 1..Len(s)
  PROVE  Gaps(Append(s, event), k) = Gaps(s, k)
<1>1. PICK t, l : t = Append(s, event) /\ l = Len(s)  OBVIOUS
<1>2. l \in Nat /\ Len(t) = l + 1 /\ t[l + 1] = event /\ \A j \in 1..l : t[j] = s[j]
  BY <1>1, AppendFacts
<1>3. k \in 1..l /\ k \in Nat /\ t[k] = s[k] /\ \A j \in 1..k : t[j] = s[j]
  BY <1>1, <1>2
<1>4. PICK cited : cited = \E j \in BlockAt(s, k)..(k - 1) : Cites(s[j])
  OBVIOUS
<1>5. cited \in BOOLEAN  BY <1>4
<1>6. IsDelta(s[k]) /\ s[k].delta.type = "citation_delta" =>
        (cited <=> \E j \in BlockAt(s, k)..(k - 1) : Cites(s[j]))
  BY <1>4, Zenon
<1>7. IsDelta(t[k]) /\ t[k].delta.type = "citation_delta" =>
        (cited <=> \E j \in BlockAt(t, k)..(k - 1) : Cites(t[j]))
  <2> SUFFICES ASSUME IsDelta(s[k]), s[k].delta.type = "citation_delta"
               PROVE  cited <=> \E j \in BlockAt(t, k)..(k - 1) : Cites(t[j])
    BY <1>3
  <2>1. \A j \in 1..k : IsStart(t[j]) /\ t[j].index = t[k].index <=>
                        IsStart(s[j]) /\ s[j].index = s[k].index
    BY <1>3
  <2>2. BlockAt(t, k) = BlockAt(s, k)  BY <2>1, Zenon DEF BlockAt
  <2>3. BlockAt(s, k) \in 1..k  BY BlockAtFacts
  <2>4. \A j \in BlockAt(s, k)..(k - 1) : t[j] = s[j]  BY <1>3, <2>3
  <2>5. (\E j \in BlockAt(s, k)..(k - 1) : Cites(t[j])) <=>
        \E j \in BlockAt(s, k)..(k - 1) : Cites(s[j])
    BY <2>4
  <2>. QED BY <1>6, <2>2, <2>5, Zenon
<1>8. \/ IsStart(s[k]) \/ IsDelta(s[k]) \/ IsStop(s[k])
      \/ s[k].type \in {"message_start", "message_done", "message_delta"}
  <2>1. s[k] \in IrEvents  OBVIOUS
  <2>. QED BY <2>1 DEF IrEvents, IsStart, IsDelta, IsStop
<1>9. PICK x, a, c : x = s[k] /\ a = Gaps(s, k) /\ c = Gaps(t, k)  OBVIOUS
<1>10. PICK p, q, r, u, v, none :
         /\ p = <<<<"block", k - 1>>>>
         /\ q = StartLosses(x.block, k - 1)
         /\ r = <<<<"signature", k - 1>>>>
         /\ u = IF cited THEN <<>> ELSE <<<<"citations", k - 1>>>>
         /\ v = <<<<"stop_sequence", -1>>>>
         /\ none = <<>>
  OBVIOUS
<1>11. /\ IsStart(x) /\ x.block.kind = "redacted_thinking" => a = p
       /\ IsStart(x) /\ x.block.kind # "redacted_thinking" => a = q
       /\ IsDelta(x) /\ x.delta.type = "signature_delta" => a = r
       /\ IsDelta(x) /\ x.delta.type = "citation_delta" => a = u
       /\ IsDelta(x) /\ x.delta.type \notin {"signature_delta", "citation_delta"} => a = none
       /\ x.type = "message_delta" /\ x.stop_reason = "stop_sequence" => a = v
       /\ x.type = "message_delta" /\ x.stop_reason # "stop_sequence" => a = none
       /\ IsStop(x) \/ x.type \in {"message_start", "message_done"} => a = none
  BY <1>3, <1>5, <1>6, <1>9, <1>10, GapForms
<1>12. /\ IsStart(x) /\ x.block.kind = "redacted_thinking" => c = p
       /\ IsStart(x) /\ x.block.kind # "redacted_thinking" => c = q
       /\ IsDelta(x) /\ x.delta.type = "signature_delta" => c = r
       /\ IsDelta(x) /\ x.delta.type = "citation_delta" => c = u
       /\ IsDelta(x) /\ x.delta.type \notin {"signature_delta", "citation_delta"} => c = none
       /\ x.type = "message_delta" /\ x.stop_reason = "stop_sequence" => c = v
       /\ x.type = "message_delta" /\ x.stop_reason # "stop_sequence" => c = none
       /\ IsStop(x) \/ x.type \in {"message_start", "message_done"} => c = none
  <2>1. t[k] = x  BY <1>3, <1>9
  <2>. QED BY <1>3, <1>5, <1>7, <1>9, <1>10, <2>1, GapForms
<1>13. a = c  BY <1>8, <1>9, <1>11, <1>12
<1>. QED BY <1>1, <1>9, <1>13

(* The gap of the last event is the loss it was told with. *)
LEMMA LastGap ==
  ASSUME NEW s \in Seq(IrEvents), NEW event \in IrEvents, NEW e, Advances(event, e),
         HeldOpen(s, enc), enc.event_ordinal = Len(s),
         NEW next, Indexed(Append(s, event), next)
  PROVE  Gaps(Append(s, event), Len(s) + 1) = Lost(event)
<1>1. PICK t, l, k : t = Append(s, event) /\ l = Len(s) /\ k = l + 1  OBVIOUS
<1>2. /\ l \in Nat /\ k \in Nat /\ k - 1 = l /\ Len(t) = k /\ t[k] = event
      /\ \A j \in 1..l : t[j] = s[j]
  BY <1>1, AppendFacts
<1>3. PICK cited : cited = \E j \in BlockAt(t, k)..(k - 1) : Cites(t[j])
  OBVIOUS
<1>4. cited \in BOOLEAN  BY <1>3
<1>5. IsDelta(t[k]) /\ t[k].delta.type = "citation_delta" =>
        (cited <=> \E j \in BlockAt(t, k)..(k - 1) : Cites(t[j]))
  BY <1>3, Zenon
<1>6. ASSUME IsDelta(event)
      PROVE  enc.active_block[1].citation_loss_seen <=> cited
  <2>1. enc.active_block # None /\ event.index = enc.active_block[1].index
    BY <1>6 DEF Advances
  <2>2. PICK m \in 1..Len(s) :
          /\ OpenFrom(s, m) /\ s[m].index = enc.active_block[1].index
          /\ enc.active_block[1].citation_loss_seen <=> \E j \in m..Len(s) : Cites(s[j])
    BY <2>1 DEF HeldOpen
  <2>3. PICK b : b = BlockAt(t, k)  OBVIOUS
  <2>4. b \in 1..k /\ IsStart(t[b]) /\ t[b].index = t[k].index
    <3>1. k \in 1..Len(t) /\ IsDelta(t[k]) /\ Indexed(t, next)
      BY <1>1, <1>2, <1>6
    <3>. QED BY <2>3, <3>1, BlockAtFacts
  <2>5. m \in 1..l /\ t[m] = s[m] /\ IsStart(t[m]) /\ t[m].index = t[k].index
    BY <1>1, <1>2, <2>1, <2>2 DEF OpenFrom
  <2>6. b = m
    <3>1. b \in 1..Len(t) /\ m \in 1..Len(t)  BY <1>2, <2>4, <2>5
    <3>2. t[b].index = t[m].index  BY <2>4, <2>5
    <3>. QED BY <1>1, <2>4, <2>5, <3>1, <3>2 DEF Indexed
  <2>7. cited <=> \E j \in m..l : Cites(t[j])  BY <1>2, <1>3, <2>3, <2>6
  <2>8. (\E j \in m..l : Cites(t[j])) <=> \E j \in m..l : Cites(s[j])
    <3>1. \A j \in m..l : t[j] = s[j]  BY <1>2, <2>5
    <3>. QED BY <3>1
  <2>. QED BY <1>1, <2>2, <2>7, <2>8
<1>7. \/ IsStart(event) \/ IsDelta(event) \/ IsStop(event)
      \/ event.type \in {"message_start", "message_done", "message_delta"}
  BY DEF IrEvents, IsStart, IsDelta, IsStop
<1>8. PICK a, c : a = Lost(event) /\ c = Gaps(t, k)  OBVIOUS
<1>9. PICK p, q, r, u, v, none :
        /\ p = <<<<"block", l>>>>
        /\ q = StartLosses(event.block, l)
        /\ r = <<<<"signature", l>>>>
        /\ u = IF cited THEN <<>> ELSE <<<<"citations", l>>>>
        /\ v = <<<<"stop_sequence", -1>>>>
        /\ none = <<>>
  OBVIOUS
<1>10. /\ IsStart(event) /\ event.block.kind = "redacted_thinking" => a = p
       /\ IsStart(event) /\ event.block.kind # "redacted_thinking" => a = q
       /\ IsDelta(event) /\ event.delta.type = "signature_delta" => a = r
       /\ IsDelta(event) /\ event.delta.type = "citation_delta" => a = u
       /\ IsDelta(event) /\ event.delta.type \notin {"signature_delta", "citation_delta"} =>
            a = none
       /\ event.type = "message_delta" /\ event.stop_reason = "stop_sequence" => a = v
       /\ event.type = "message_delta" /\ event.stop_reason # "stop_sequence" => a = none
       /\ IsStop(event) \/ event.type \in {"message_start", "message_done"} => a = none
  <2>1. enc.event_ordinal = l  BY <1>1
  <2>2. IsDelta(event) /\ event.delta.type = "citation_delta" => a = u
    <3> SUFFICES ASSUME IsDelta(event), event.delta.type = "citation_delta"
                 PROVE  a = u
      OBVIOUS
    <3>1. Lost(event) = IF enc.active_block[1].citation_loss_seen THEN <<>>
                        ELSE <<<<"citations", enc.event_ordinal>>>>
      BY LostForms
    <3>. QED BY <1>6, <1>8, <1>9, <2>1, <3>1
  <2>. QED BY <1>8, <1>9, <2>1, <2>2, LostForms
<1>11. /\ IsStart(event) /\ event.block.kind = "redacted_thinking" => c = p
       /\ IsStart(event) /\ event.block.kind # "redacted_thinking" => c = q
       /\ IsDelta(event) /\ event.delta.type = "signature_delta" => c = r
       /\ IsDelta(event) /\ event.delta.type = "citation_delta" => c = u
       /\ IsDelta(event) /\ event.delta.type \notin {"signature_delta", "citation_delta"} =>
            c = none
       /\ event.type = "message_delta" /\ event.stop_reason = "stop_sequence" => c = v
       /\ event.type = "message_delta" /\ event.stop_reason # "stop_sequence" => c = none
       /\ IsStop(event) \/ event.type \in {"message_start", "message_done"} => c = none
  BY <1>2, <1>4, <1>5, <1>8, <1>9, GapForms
<1>12. a = c  BY <1>7, <1>10, <1>11
<1>. QED BY <1>1, <1>8, <1>12

(* The losses grow with the gaps. *)
LEMMA LossesGrow ==
  ASSUME NEW s \in Seq(IrEvents), NEW event \in IrEvents, NEW e, Advances(event, e),
         HeldOpen(s, enc), enc.event_ordinal = Len(s), NEW next, Indexed(s, next),
         NEW after, Indexed(Append(s, event), after), enc.losses = Concat(AllGaps(s))
  PROVE  e.losses = Concat(AllGaps(Append(s, event)))
<1>1. PICK t, l, f, g : t = Append(s, event) /\ l = Len(s) /\ f = AllGaps(s) /\ g = AllGaps(t)
  OBVIOUS
<1>2. l \in Nat /\ Len(t) = l + 1 /\ t \in Seq(IrEvents)  BY <1>1, AppendFacts
<1>3. g[l + 1] = Lost(event)
  <2>1. l + 1 \in 1..Len(t)  BY <1>2
  <2>2. g[l + 1] = Gaps(t, l + 1)  BY <1>1, <2>1 DEF AllGaps
  <2>. QED BY <1>1, <2>2, LastGap
<1>4. \A k \in 1..l : g[k] = f[k]
  <2>1. ASSUME NEW k \in 1..l
        PROVE  g[k] = f[k]
    <3>1. g[k] = Gaps(t, k) /\ f[k] = Gaps(s, k)  BY <1>1, <1>2 DEF AllGaps
    <3>2. Gaps(t, k) = Gaps(s, k)  BY <1>1, GapsStay
    <3>. QED BY <3>1, <3>2
  <2>. QED BY <2>1
<1>5. PICK S : S = Seq(LossesTold)  OBVIOUS
<1>6. f \in Seq(S) /\ Len(f) = l
  <2>1. \A k \in 1..l : Gaps(s, k) \in S  BY <1>1, <1>5, GapType
  <2>2. f = [k \in 1..l |-> Gaps(s, k)]  BY <1>1 DEF AllGaps
  <2>3. f \in [1..l -> S]  BY <2>1, <2>2
  <2>. QED BY <1>2, <2>2, <2>3
<1>7. Lost(event) \in S
  <2>1. l + 1 \in 1..Len(t)  BY <1>2
  <2>2. Gaps(t, l + 1) \in S  BY <1>2, <1>5, <2>1, GapType
  <2>. QED BY <1>1, <2>2, LastGap
<1>8. g = Append(f, Lost(event))
  <2>1. PICK x, h : x = Lost(event) /\ h = Append(f, x)  OBVIOUS
  <2>2. /\ h \in Seq(S) /\ Len(h) = l + 1 /\ h[l + 1] = x /\ \A k \in 1..l : h[k] = f[k]
    BY <1>2, <1>6, <1>7, <2>1
  <2>3. g = [k \in 1..(l + 1) |-> Gaps(t, k)]  BY <1>1, <1>2 DEF AllGaps
  <2>4. DOMAIN g = 1..(l + 1) /\ DOMAIN h = 1..(l + 1)  BY <2>2, <2>3
  <2>5. \A k \in 1..(l + 1) : g[k] = h[k]
    <3>1. \A k \in 1..(l + 1) : k \in 1..l \/ k = l + 1  BY <1>2
    <3>. QED BY <1>3, <1>4, <2>1, <2>2, <3>1
  <2>6. g = [k \in 1..(l + 1) |-> g[k]] /\ h = [k \in 1..(l + 1) |-> h[k]]
    BY <2>2, <2>3, <2>4
  <2>. QED BY <2>1, <2>5, <2>6
<1>9. Concat(g) = Concat(f) \o Lost(event)
  BY <1>5, <1>6, <1>7, <1>8, ConcatAppend
<1>10. e.losses = enc.losses \o Lost(event)  BY DEF Advances
<1>. QED BY <1>1, <1>9, <1>10

(* The signature the struct does not know of makes no other difference. *)
LEMMA SignedView ==
  ASSUME NEW signed, NEW event, NEW w
  PROVE  /\ Moves(View(enc, FALSE), event, w) => Moves(View(enc, signed), event, w)
         /\ Unfit(View(enc, FALSE), event) => Unfit(View(enc, signed), event)
         /\ Allowed(View(enc, signed), event) => Allowed(View(enc, FALSE), event)
         /\ (Allowed(View(enc, FALSE), event) /\ ~Allowed(View(enc, signed), event)) =>
              /\ signed /\ View(enc, signed).place = "within" /\ IsDelta(event)
              /\ event.index = View(enc, signed).index
BY DEF Moves, Unfit, Allowed, View, Continues, IsStart, IsDelta, IsStop

(* An accepted event that the grammar does not admit comes after the
   signature of its block. *)
LEMMA OthersWander ==
  ASSUME NEW s \in Seq(IrEvents), NEW event \in IrEvents, NEW signed \in BOOLEAN,
         Tracks(s, View(enc, signed)), Allowed(View(enc, FALSE), event),
         ~Allowed(View(enc, signed), event)
  PROVE  Wandering(Append(s, event), Len(s) + 1)
<1>1. PICK t, l : t = Append(s, event) /\ l = Len(s)  OBVIOUS
<1>2. /\ l \in Nat /\ Len(t) = l + 1 /\ t[l + 1] = event /\ \A j \in 1..l : t[j] = s[j]
  BY <1>1, AppendFacts
<1>3. PICK v : v = View(enc, signed)  OBVIOUS
<1>4. signed = TRUE /\ v.place = "within" /\ v.signed = signed /\ IsDelta(event)
      /\ event.index = v.index
  BY <1>3, SignedView DEF View
<1>5. WithinBlock(s, v.index, v.family, TRUE)  BY <1>3, <1>4 DEF Tracks
<1>6. /\ s # <<>> /\ IsDelta(Last(s)) /\ Last(s).index = v.index
      /\ Last(s).delta.type = "signature_delta"
  BY <1>5 DEF WithinBlock
<1>7. l \in 1..((l + 1) - 1) /\ t[l] = Last(s)  BY <1>1, <1>2, <1>6 DEF Last
<1>. QED BY <1>1, <1>2, <1>4, <1>6, <1>7 DEF Wandering

(* An accepted event keeps all of it. *)
LEMMA FollowAppend ==
  ASSUME Typed(enc), NEW s \in Seq(IrEvents), NEW event \in IrEvents, NEW e, Typed(e),
         Follow(s, enc), Advances(event, e)
  PROVE  Follow(Append(s, event), e)
<1>1. /\ Indexed(s, enc.next_block_index) /\ HeldOpen(s, enc)
      /\ enc.event_ordinal = Len(s) /\ enc.losses = Concat(AllGaps(s))
      /\ InOrder(s) => \E signed \in BOOLEAN : Tracks(s, View(enc, signed))
      /\ (\A n \in 1..Len(s) : ~Wandering(s, n)) => InOrder(s)
  BY DEF Follow
<1>2. \A signed \in BOOLEAN : View(enc, signed) \in Views /\ View(e, signed) \in Views
  BY ViewType
<1>3. PICK t : t = Append(s, event)  OBVIOUS
<1>4. /\ Allowed(View(enc, FALSE), event)
      /\ Moves(View(enc, FALSE), event, View(e, Signs(event)))
      /\ e.event_ordinal = enc.event_ordinal + 1
  BY DEF Advances
<1>5. Signs(event) \in BOOLEAN  BY DEF Signs, IsDelta
<1>6. Indexed(t, e.next_block_index)
  <2>1. enc.next_block_index \in Nat /\ e.next_block_index \in Nat  BY DEF Typed
  <2>2. /\ IsStart(event) => /\ event.index = enc.next_block_index
                             /\ e.next_block_index = enc.next_block_index + 1
        /\ ~IsStart(event) => e.next_block_index = enc.next_block_index
    BY DEF Advances
  <2>3. \A j \in 1..Len(s) : IsStart(s[j]) => s[j].index \in Nat
    <3>1. \A j \in 1..Len(s) : s[j] \in IrEvents  OBVIOUS
    <3>. QED BY <3>1, EventForms
  <2>4. ASSUME IsDelta(event)
        PROVE  \E j \in 1..Len(s) : IsStart(s[j]) /\ s[j].index = event.index
    <3>1. enc.active_block # None /\ event.index = enc.active_block[1].index
      BY <2>4 DEF Advances
    <3>. QED BY <1>1, <3>1 DEF HeldOpen, OpenFrom
  <2>. QED BY <1>1, <1>3, <2>1, <2>2, <2>3, <2>4, IndexesStayNew
<1>7. HeldOpen(t, e)  BY <1>1, <1>3, OpenBlockHeld
<1>8. e.event_ordinal = Len(t)  BY <1>1, <1>3, <1>4
<1>9. e.losses = Concat(AllGaps(t))  BY <1>1, <1>3, <1>6, LossesGrow
<1>10. ASSUME InOrder(t)
       PROVE  \E signed \in BOOLEAN : Tracks(t, View(e, signed))
  <2>1. InOrder(s) /\ Admits(s, event)  BY <1>3, <1>10, InOrderAppend
  <2>2. PICK signed \in BOOLEAN : Tracks(s, View(enc, signed))  BY <1>1, <2>1
  <2>3. PICK v, w : v = View(enc, signed) /\ w = View(e, Signs(event))  OBVIOUS
  <2>4. v \in Views /\ w \in Views  BY <1>2, <1>5, <2>3
  <2>5. Tracks(s, v) /\ Allowed(v, event)
    BY <2>1, <2>2, <2>3, <2>4, TrackedAdmits
  <2>6. Moves(v, event, w)  BY <1>4, <2>3, SignedView
  <2>7. Tracks(t, w)  BY <1>3, <2>4, <2>5, <2>6, TrackedMoves
  <2>. QED BY <1>5, <2>3, <2>7
<1>11. ASSUME \A n \in 1..Len(t) : ~Wandering(t, n)
       PROVE  InOrder(t)
  <2>1. Len(s) \in Nat /\ Len(t) = Len(s) + 1  BY <1>3
  <2>2. \A n \in 1..Len(s) : n \in 1..Len(t)  BY <2>1
  <2>3. \A n \in 1..Len(s) : ~Wandering(s, n)
    BY <1>3, <1>11, <2>2, WanderingStays
  <2>4. InOrder(s)  BY <1>1, <2>3
  <2>5. PICK signed \in BOOLEAN : Tracks(s, View(enc, signed))  BY <1>1, <2>4
  <2>6. ~Wandering(t, Len(s) + 1)  BY <1>11, <2>1
  <2>7. Allowed(View(enc, signed), event)
    BY <1>3, <1>4, <2>5, <2>6, OthersWander
  <2>8. Admits(s, event)  BY <1>2, <2>5, <2>7, TrackedAdmits
  <2>. QED BY <1>3, <2>4, <2>8, InOrderAppend
<1>. QED BY <1>3, <1>6, <1>7, <1>8, <1>9, <1>10, <1>11 DEF Follow

(* The reason of a refusal, said of the events applied. *)
LEMMA UnfitReason ==
  ASSUME NEW s \in Seq(IrEvents), NEW e \in IrEvents, NEW v \in Views,
         Tracks(s, v), Allowed(v, e), Unfit(v, e)
  PROVE  Unencodable(Append(s, e))
<1>1. PICK t : t = Append(s, e)  OBVIOUS
<1>2. t[Len(t)] = e  BY <1>1, AppendFacts
<1>3. CASE IsStart(e) /\ BlockInvalid(e.block)
  BY <1>1, <1>2, <1>3, Zenon DEF Unencodable
<1>4. CASE IsStop(e) /\ v.tool /\ ~InputExact(v.input, v.fragments, TRUE)
  <2>1. v.place = "within"  BY <1>4 DEF Allowed, OpensAt, IsStart, IsStop
  <2>2. ToolOpen(s, v.input, v.fragments) /\ ToolInputsExact(s, TRUE)
    BY <1>4, <2>1 DEF Tracks
  <2>3. ~ToolInputsExact(t, TRUE)  BY <1>1, <1>4, <2>2, ToolStops
  <2>. QED BY <1>1, <1>2, <1>4, <2>3, Zenon DEF Unencodable
<1>5. CASE e.type = "message_delta" /\ e.stop_reason = "other"
  BY <1>1, <1>2, <1>5, Zenon DEF Unencodable
<1>. QED BY <1>3, <1>4, <1>5 DEF Unfit

(* Accepted events do not change the events before the first refusal. *)
LEMMA ReasonKept ==
  ASSUME NEW S, NEW s \in Seq(S), NEW e \in S, NEW n \in 0..Len(s)
  PROVE  n \in 0..Len(Append(s, e)) /\ SubSeq(Append(s, e), 1, n) = SubSeq(s, 1, n)
<1>1. PICK t, l : t = Append(s, e) /\ l = Len(s)  OBVIOUS
<1>2. t \in Seq(S) /\ l \in Nat /\ Len(t) = l + 1 /\ \A j \in 1..l : t[j] = s[j]
  BY <1>1, AppendFacts
<1>3. n \in 0..Len(t) /\ \A j \in 1..n : t[j] = s[j]  BY <1>1, <1>2
<1>4. SubSeq(t, 1, n) = SubSeq(s, 1, n)  BY <1>1, <1>2, <1>3
<1>. QED BY <1>1, <1>3, <1>4

(* Every call is accepted or refused, whatever the struct. *)
LEMMA OneAnswer ==
  ASSUME NEW event, Apply(event)
  PROVE  \E e : Accepted(event, e) \/ Refused(event, e)
<1>1. CASE ApplyBlockStart(event)
  <2>1. CASE ApplyStartOutOfOrder(event) \/ ApplyStartInvalid(event)
    BY <2>1, Zenon DEF ApplyStartOutOfOrder, ApplyStartInvalid
  <2>2. CASE ApplyPartStart(event)  BY <2>2, Zenon DEF ApplyPartStart
  <2>3. CASE ApplyRedactedStart(event)  BY <2>3, Zenon DEF ApplyRedactedStart
  <2>4. CASE ApplyEncryptedStart(event)  BY <2>4, Zenon DEF ApplyEncryptedStart
  <2>5. CASE ApplyItemStart(event)  BY <2>5, Zenon DEF ApplyItemStart
  <2>. QED BY <1>1, <2>1, <2>2, <2>3, <2>4, <2>5 DEF ApplyBlockStart
<1>2. CASE ApplyBlockDelta(event)
  <2>1. CASE ApplyDeltaRefused(event) \/ ApplyTextDelta(event)
    BY <2>1, Zenon DEF ApplyDeltaRefused, ApplyTextDelta
  <2>2. CASE ApplyCitationDelta(event)  BY <2>2, Zenon DEF ApplyCitationDelta
  <2>3. CASE ApplySignatureDelta(event) \/ ApplyInputDelta(event)
    BY <2>3, Zenon DEF ApplySignatureDelta, ApplyInputDelta
  <2>. QED BY <1>2, <2>1, <2>2, <2>3 DEF ApplyBlockDelta
<1>3. CASE ApplyBlockStop(event)
  <2>1. CASE ApplyStopRefused(event) \/ ApplySilentStop(event) \/ ApplyInputMismatch(event)
    BY <2>1, Zenon DEF ApplyStopRefused, ApplySilentStop, ApplyInputMismatch
  <2>2. CASE ApplyPartStop(event)  BY <2>2, Zenon DEF ApplyPartStop
  <2>3. CASE ApplyCallStop(event)  BY <2>3, Zenon DEF ApplyCallStop
  <2>4. CASE ApplyItemStop(event)  BY <2>4, Zenon DEF ApplyItemStop
  <2>. QED BY <1>3, <2>1, <2>2, <2>3, <2>4 DEF ApplyBlockStop
<1>4. CASE ApplyAfterEnd(event) \/ ApplyMessageStart(event) \/ ApplyMessageDone(event)
  BY <1>4, Zenon DEF ApplyAfterEnd, ApplyMessageStart, ApplyMessageDone
<1>5. CASE ApplyTerminalOutOfOrder(event) \/ ApplyTerminalRefused(event)
  BY <1>5, Zenon DEF ApplyTerminalOutOfOrder, ApplyTerminalRefused
<1>6. CASE ApplyTerminal(event)  BY <1>6, Zenon DEF ApplyTerminal
<1>. QED BY <1>1, <1>2, <1>3, <1>4, <1>5, <1>6 DEF Apply

(* Each call keeps the invariant. *)
LEMMA StepEncInv == EncInv /\ [Next]_vars => EncInv'
<1> SUFFICES ASSUME EncInv, [Next]_vars
             PROVE  EncInv'
  OBVIOUS
<1>1. ASSUME NEW event \in Events, Apply(event), Faultless
      PROVE  EncInv'
  <2>1. /\ Typed(enc) /\ Consistent(enc) /\ Follow(applied, enc)
        /\ applied \in Seq(Events) /\ applied \in Seq(IrEvents) /\ event \in IrEvents
    BY <1>1, EncoderAssumption DEF EncInv
  <2>2. Outcome(event)  BY <1>1, <2>1, EveryOutcome
  <2>3. ASSUME NEW e, Typed(e), Consistent(e), Accepted(event, e), Advances(event, e)
        PROVE  EncInv'
    <3>1. enc' = e /\ applied' = Append(applied, event) /\ refused' = refused
      BY <2>3 DEF Accepted
    <3>2. applied' \in Seq(Events)  BY <2>1, <3>1
    <3>3. Follow(applied', enc')  BY <2>1, <2>3, <3>1, FollowAppend
    <3>4. Typed(enc') /\ Consistent(enc')  BY <2>3, <3>1
    <3>5. Faultless'  BY <1>1, <3>1 DEF Faultless
    <3>. QED BY <3>2, <3>3, <3>4, <3>5 DEF EncInv, Reasoned
  <2>4. ASSUME NEW e, Refused(event, e),
               ~Allowed(View(enc, FALSE), event) \/ Unfit(View(enc, FALSE), event)
        PROVE  EncInv'
    <3>1. PICK r : r = [after |-> Len(applied), event |-> event]  OBVIOUS
    <3>2. r.after = Len(applied) /\ r.event = event  BY <3>1
    <3>3. applied' = applied /\ refused' = Some(r)
      BY <1>1, <2>4, <3>1 DEF Refused, Faultless
    <3>4. refused' # None /\ refused'[1] = r  BY <3>3, SomeFacts
    <3>5. SubSeq(applied, 1, Len(applied)) = applied /\ Len(applied) \in 0..Len(applied)
      BY <2>1
    <3>6. ASSUME InOrder(Append(applied, event))
          PROVE  Unencodable(Append(applied, event))
      <4>1. InOrder(applied) /\ Admits(applied, event)
        BY <2>1, <3>6, InOrderAppend
      <4>2. PICK signed \in BOOLEAN : Tracks(applied, View(enc, signed))
        BY <2>1, <4>1 DEF Follow
      <4>3. View(enc, signed) \in Views  BY <2>1, ViewType
      <4>4. Allowed(View(enc, signed), event)
        BY <4>1, <4>2, <4>3, TrackedAdmits
      <4>5. Unfit(View(enc, signed), event)  BY <2>4, <4>4, SignedView
      <4>. QED BY <2>1, <4>2, <4>3, <4>4, <4>5, UnfitReason
    <3>7. Reasoned'  BY <3>2, <3>3, <3>4, <3>5, <3>6 DEF Reasoned
    <3>8. ~Faultless'  BY <3>4 DEF Faultless
    <3>. QED BY <2>1, <3>3, <3>7, <3>8 DEF EncInv
  <2>. QED BY <2>2, <2>3, <2>4 DEF Outcome
<1>2. ASSUME NEW event \in Events, Apply(event), ~Faultless
      PROVE  EncInv'
  <2>1. applied \in Seq(Events) /\ refused # None  BY <1>2 DEF EncInv, Faultless
  <2>2. PICK n, last : n = refused[1].after /\ last = refused[1].event  OBVIOUS
  <2>3. /\ n \in 0..Len(applied)
        /\ \/ ~InOrder(Append(SubSeq(applied, 1, n), last))
           \/ Unencodable(Append(SubSeq(applied, 1, n), last))
    BY <1>2, <2>2 DEF EncInv, Reasoned
  <2>4. PICK e : Accepted(event, e) \/ Refused(event, e)  BY <1>2, OneAnswer
  <2>5. refused' = refused /\ (applied' = Append(applied, event) \/ applied' = applied)
    BY <2>1, <2>4 DEF Accepted, Refused
  <2>6. applied' \in Seq(Events)  BY <2>1, <2>5
  <2>7. n \in 0..Len(applied') /\ SubSeq(applied', 1, n) = SubSeq(applied, 1, n)
    BY <2>1, <2>3, <2>5, ReasonKept
  <2>8. Reasoned'  BY <2>2, <2>3, <2>5, <2>7 DEF Reasoned
  <2>9. ~Faultless'  BY <2>1, <2>5 DEF Faultless
  <2>. QED BY <2>6, <2>8, <2>9 DEF EncInv
<1>3. CASE UNCHANGED vars
  <2>1. enc' = enc /\ applied' = applied /\ refused' = refused  BY <1>3 DEF vars
  <2>. QED BY <2>1 DEF EncInv, Reasoned, Faultless
<1>. QED BY <1>1, <1>2, <1>3 DEF Next

LEMMA SpecEncInv == Spec => []EncInv
BY InitEncInv, StepEncInv, PTL DEF Spec

-----------------------------------------------------------------------------
(* The theorems *)

(* The gaps are those of the property. *)
LEMMA GapsApplied ==
  ASSUME NEW k
  PROVE  GapsAt(k) = Gaps(applied, k)
<1>1. BlockOf(k) = BlockAt(applied, k)  BY Zenon DEF BlockOf, BlockAt
<1>. QED BY <1>1, Zenon DEF GapsAt, Gaps, Cites

(* Whatever is applied and in whatever order: the encoder accepts a stream
   in grammar order with exact tool inputs, or it has let through a delta
   after the signature of its thinking block. *)
THEOREM EncoderAcceptsLittleElse == Spec => []AcceptsLittleElse
<1>1. EncInv => AcceptsLittleElse
  <2> SUFFICES ASSUME EncInv, Faultless, \A k \in 1..Len(applied) : ~Stray(k)
               PROVE  InOrder(applied) /\ ToolInputsExact(applied, TRUE)
    BY DEF AcceptsLittleElse
  <2>1. Follow(applied, enc)  BY DEF EncInv
  <2>2. ASSUME NEW n \in 1..Len(applied)
        PROVE  ~Wandering(applied, n)
    <3>1. ~Stray(n)  OBVIOUS
    <3>. QED BY <3>1, Zenon DEF Stray, Wandering
  <2>3. InOrder(applied)  BY <2>1, <2>2 DEF Follow
  <2>4. PICK signed \in BOOLEAN : Tracks(applied, View(enc, signed))
    BY <2>1, <2>3 DEF Follow
  <2>. QED BY <2>3, <2>4 DEF Tracks
<1>. QED BY <1>1, SpecEncInv, PTL

(* The first call that is refused breaks the grammar, or it is one of the
   few things that Responses cannot say; in particular no item left behind
   is ever the reason. *)
THEOREM EncoderRefusesForCause == Spec => []RefusesOnlyForCause
<1>1. EncInv => RefusesOnlyForCause
  BY DEF EncInv, Reasoned, RefusesOnlyForCause
<1>. QED BY <1>1, SpecEncInv, PTL

(* Up to the first refusal every gap has its loss, with the number of the
   event that brought it, and there is no other loss. *)
THEOREM EncoderTellsLosses == Spec => []LossesInOrderOfGaps
<1>1. EncInv => LossesInOrderOfGaps
  <2> SUFFICES ASSUME EncInv, Faultless
               PROVE  enc.losses = Concat([k \in 1..Len(applied) |-> GapsAt(k)])
    BY DEF LossesInOrderOfGaps
  <2>1. enc.losses = Concat(AllGaps(applied))  BY DEF EncInv, Follow
  <2>2. AllGaps(applied) = [k \in 1..Len(applied) |-> GapsAt(k)]
    BY GapsApplied DEF AllGaps
  <2>. QED BY <2>1, <2>2
<1>. QED BY <1>1, SpecEncInv, PTL

-----------------------------------------------------------------------------
(* What the stream says *)

(* The texts in the stream are texts; nothing else of it is typed. *)
Spoken(x) ==
  /\ x.kind \in PartAdded => x.part[1].text \in Text
  /\ x.kind \in TextDelta => x.text[1] \in Text
  /\ x.kind \in InputDeltas => x.text[1] \in Text

Readable(w) == \E S : w \in Seq(S) /\ \A x \in S : Spoken(x)

LEMMA WireSet ==
  ASSUME NEW w, Readable(w), NEW x, Spoken(x)
  PROVE  \E S : /\ w \in Seq(S) /\ x \in S /\ Append(w, x) \in Seq(S)
                /\ \A y \in S : Spoken(y)
<1>1. PICK R : w \in Seq(R) /\ \A y \in R : Spoken(y)  BY DEF Readable
<1>2. PICK S : S = R \union {x}  OBVIOUS
<1>3. w \in Seq(S) /\ x \in S /\ \A y \in S : Spoken(y)  BY <1>1, <1>2
<1>. QED BY <1>3

(* One event more. *)
LEMMA JoinOfStep ==
  ASSUME NEW S, NEW D, NEW F \in Sayings(S, D), NEW s \in Seq(S), NEW c \in S
  PROVE  /\ F[c] = <<>> => JoinOf(F, Append(s, c)) = JoinOf(F, s)
         /\ \A v : F[c] = <<v>> => JoinOf(F, Append(s, c)) = Append(JoinOf(F, s), v)
         /\ JoinOf(F, s) \in Seq(D)
<1>1. PICK j, k : j = JoinOf(F, s) /\ k = JoinOf(F, Append(s, c))  OBVIOUS
<1>2. k = j \o F[c] /\ j \in Seq(D)
  <2>1. JoinOf(F, Append(s, c)) = JoinOf(F, s) \o F[c] /\ JoinOf(F, s) \in Seq(D)
    BY JoinOfMore
  <2>. QED BY <1>1, <2>1
<1>3. j \o <<>> = j  BY <1>2
<1>4. ASSUME NEW v, F[c] = <<v>>
      PROVE  k = Append(j, v)
  <2>1. v \in D
    <3>1. F[c] \in Seq(D)  BY DEF Sayings
    <3>2. PICK t : t = F[c]  OBVIOUS
    <3>3. t \in Seq(D) /\ t = <<v>> /\ 1 \in 1..Len(t)  BY <1>4, <3>1, <3>2
    <3>4. t[1] \in D  BY <3>3
    <3>. QED BY <3>3, <3>4
  <2>. QED BY <1>2, <1>4, <2>1
<1>. QED BY <1>1, <1>2, <1>3, <1>4

LEMMA AnnouncedMore ==
  ASSUME NEW w, Readable(w), NEW x, Spoken(x)
  PROVE  /\ Readable(Append(w, x))
         /\ x.kind = "output_item.added" =>
              Announced(Append(w, x)) = Append(Announced(w), x)
         /\ x.kind # "output_item.added" => Announced(Append(w, x)) = Announced(w)
         /\ \E D : Announced(w) \in Seq(D)
<1>1. PICK S : /\ w \in Seq(S) /\ x \in S /\ Append(w, x) \in Seq(S)
               /\ \A y \in S : Spoken(y)
  BY WireSet
<1>2. PICK F : F = [y \in S |-> AnnouncedBy(y)]  OBVIOUS
<1>3. ASSUME NEW y \in S
      PROVE  AnnouncedBy(y) \in Seq(S)
  BY DEF AnnouncedBy
<1>4. F \in Sayings(S, S) /\ \A y \in S : F[y] = AnnouncedBy(y)
  BY <1>2, <1>3 DEF Sayings
<1>5. ASSUME NEW v \in Seq(S)
      PROVE  Announced(v) = JoinOf(F, v)
  <2>1. [n \in 1..Len(v) |-> AnnouncedBy(v[n])] = [n \in 1..Len(v) |-> F[v[n]]]
    BY <1>4
  <2>. QED BY <2>1, Zenon DEF Announced, JoinOf
<1>6. /\ F[x] = <<>> => JoinOf(F, Append(w, x)) = JoinOf(F, w)
      /\ F[x] = <<x>> => JoinOf(F, Append(w, x)) = Append(JoinOf(F, w), x)
      /\ JoinOf(F, w) \in Seq(S)
  BY <1>1, <1>4, JoinOfStep
<1>7. F[x] = AnnouncedBy(x) /\ Announced(w) = JoinOf(F, w)
      /\ Announced(Append(w, x)) = JoinOf(F, Append(w, x))
  BY <1>1, <1>4, <1>5
<1>8. /\ x.kind = "output_item.added" => AnnouncedBy(x) = <<x>>
      /\ x.kind # "output_item.added" => AnnouncedBy(x) = <<>>
  BY DEF AnnouncedBy
<1>9. Readable(Append(w, x))  BY <1>1 DEF Readable
<1>. QED BY <1>6, <1>7, <1>8, <1>9

LEMMA PartsMore ==
  ASSUME NEW w, Readable(w), NEW x, Spoken(x), NEW o
  PROVE  /\ x.kind \in PartAdded /\ x.output_index = o =>
              PartsBegun(Append(w, x), o) = Append(PartsBegun(w, o), x.content_index)
         /\ ~(x.kind \in PartAdded /\ x.output_index = o) =>
              PartsBegun(Append(w, x), o) = PartsBegun(w, o)
<1>1. PICK S : /\ w \in Seq(S) /\ x \in S /\ Append(w, x) \in Seq(S)
               /\ \A y \in S : Spoken(y)
  BY WireSet
<1>2. PICK F, D : F = [y \in S |-> PartBegunBy(y, o)] /\ D = {y.content_index : y \in S}
  OBVIOUS
<1>3. ASSUME NEW y \in S
      PROVE  PartBegunBy(y, o) \in Seq(D)
  <2>1. y.content_index \in D  BY <1>2
  <2>. QED BY <2>1 DEF PartBegunBy
<1>4. F \in Sayings(S, D) /\ \A y \in S : F[y] = PartBegunBy(y, o)
  BY <1>2, <1>3 DEF Sayings
<1>5. ASSUME NEW v \in Seq(S)
      PROVE  PartsBegun(v, o) = JoinOf(F, v)
  <2>1. [n \in 1..Len(v) |-> PartBegunBy(v[n], o)] = [n \in 1..Len(v) |-> F[v[n]]]
    BY <1>4
  <2>. QED BY <2>1, Zenon DEF PartsBegun, JoinOf
<1>6. PICK c : c = x.content_index  OBVIOUS
<1>7. /\ F[x] = <<>> => JoinOf(F, Append(w, x)) = JoinOf(F, w)
      /\ F[x] = <<c>> => JoinOf(F, Append(w, x)) = Append(JoinOf(F, w), c)
  BY <1>1, <1>4, JoinOfStep
<1>8. F[x] = PartBegunBy(x, o) /\ PartsBegun(w, o) = JoinOf(F, w)
      /\ PartsBegun(Append(w, x), o) = JoinOf(F, Append(w, x))
  BY <1>1, <1>4, <1>5
<1>9. /\ x.kind \in PartAdded /\ x.output_index = o => PartBegunBy(x, o) = <<c>>
      /\ ~(x.kind \in PartAdded /\ x.output_index = o) => PartBegunBy(x, o) = <<>>
  BY <1>6, Zenon DEF PartBegunBy
<1>. QED BY <1>6, <1>7, <1>8, <1>9

LEMMA EndsMore ==
  ASSUME NEW w, Readable(w), NEW x, Spoken(x), NEW o
  PROVE  /\ x.kind = "output_item.done" /\ x.output_index = o =>
              EndsReceived(Append(w, x), o) = Append(EndsReceived(w, o), x.item[1])
         /\ ~(x.kind = "output_item.done" /\ x.output_index = o) =>
              EndsReceived(Append(w, x), o) = EndsReceived(w, o)
<1>1. PICK S : /\ w \in Seq(S) /\ x \in S /\ Append(w, x) \in Seq(S)
               /\ \A y \in S : Spoken(y)
  BY WireSet
<1>2. PICK F, D : F = [y \in S |-> EndToldBy(y, o)] /\ D = {y.item[1] : y \in S}
  OBVIOUS
<1>3. ASSUME NEW y \in S
      PROVE  EndToldBy(y, o) \in Seq(D)
  <2>1. y.item[1] \in D  BY <1>2
  <2>. QED BY <2>1 DEF EndToldBy
<1>4. F \in Sayings(S, D) /\ \A y \in S : F[y] = EndToldBy(y, o)
  BY <1>2, <1>3 DEF Sayings
<1>5. ASSUME NEW v \in Seq(S)
      PROVE  EndsReceived(v, o) = JoinOf(F, v)
  <2>1. [n \in 1..Len(v) |-> EndToldBy(v[n], o)] = [n \in 1..Len(v) |-> F[v[n]]]
    BY <1>4
  <2>. QED BY <2>1, Zenon DEF EndsReceived, JoinOf
<1>6. PICK c : c = x.item[1]  OBVIOUS
<1>7. /\ F[x] = <<>> => JoinOf(F, Append(w, x)) = JoinOf(F, w)
      /\ F[x] = <<c>> => JoinOf(F, Append(w, x)) = Append(JoinOf(F, w), c)
  BY <1>1, <1>4, JoinOfStep
<1>8. F[x] = EndToldBy(x, o) /\ EndsReceived(w, o) = JoinOf(F, w)
      /\ EndsReceived(Append(w, x), o) = JoinOf(F, Append(w, x))
  BY <1>1, <1>4, <1>5
<1>9. /\ x.kind = "output_item.done" /\ x.output_index = o => EndToldBy(x, o) = <<c>>
      /\ ~(x.kind = "output_item.done" /\ x.output_index = o) => EndToldBy(x, o) = <<>>
  BY <1>6, Zenon DEF EndToldBy
<1>. QED BY <1>6, <1>7, <1>8, <1>9

LEMMA InputMore ==
  ASSUME NEW w, Readable(w), NEW x, Spoken(x), NEW o
  PROVE  /\ x.kind \in InputDeltas /\ x.output_index = o =>
              InputReceived(Append(w, x), o) = InputReceived(w, o) \o x.text[1]
         /\ ~(x.kind \in InputDeltas /\ x.output_index = o) =>
              InputReceived(Append(w, x), o) = InputReceived(w, o)
         /\ InputReceived(w, o) \in Text
<1>1. PICK S : /\ w \in Seq(S) /\ x \in S /\ Append(w, x) \in Seq(S)
               /\ \A y \in S : Spoken(y)
  BY WireSet
<1>2. PICK F : F = [y \in S |-> InputToldBy(y, o)]  OBVIOUS
<1>3. ASSUME NEW y \in S
      PROVE  InputToldBy(y, o) \in Seq(Tokens)
  <2>1. Spoken(y)  BY <1>1
  <2>. QED BY <2>1 DEF InputToldBy, Spoken, Text
<1>4. F \in Sayings(S, Tokens) /\ \A y \in S : F[y] = InputToldBy(y, o)
  BY <1>2, <1>3 DEF Sayings
<1>5. ASSUME NEW v \in Seq(S)
      PROVE  InputReceived(v, o) = JoinOf(F, v)
  <2>1. [n \in 1..Len(v) |-> InputToldBy(v[n], o)] = [n \in 1..Len(v) |-> F[v[n]]]
    BY <1>4
  <2>. QED BY <2>1, Zenon DEF InputReceived, JoinOf
<1>6. /\ F[x] = <<>> => JoinOf(F, Append(w, x)) = JoinOf(F, w)
      /\ JoinOf(F, Append(w, x)) = JoinOf(F, w) \o F[x]
      /\ JoinOf(F, w) \in Seq(Tokens)
  BY <1>1, <1>4, JoinOfStep, JoinOfMore
<1>7. F[x] = InputToldBy(x, o) /\ InputReceived(w, o) = JoinOf(F, w)
      /\ InputReceived(Append(w, x), o) = JoinOf(F, Append(w, x))
  BY <1>1, <1>4, <1>5
<1>8. /\ x.kind \in InputDeltas /\ x.output_index = o => InputToldBy(x, o) = x.text[1]
      /\ ~(x.kind \in InputDeltas /\ x.output_index = o) => InputToldBy(x, o) = <<>>
  BY Zenon DEF InputToldBy
<1>9. InputReceived(w, o) \in Text  BY <1>6, <1>7 DEF Text
<1>. QED BY <1>6, <1>7, <1>8, <1>9

(* x speaks of part c of item o. *)
Mentions(x, o, c) ==
  x.kind \in PartAdded \union TextDelta /\ x.output_index = o /\ x.content_index = c

Joined(a, b) == a \o b

LEMMA TextMore ==
  ASSUME NEW w, Readable(w), NEW x, Spoken(x), NEW o, NEW c
  PROVE  /\ TextReceived(Append(w, x), o, c) =
              Joined(TextReceived(w, o, c), TextToldBy(x, o, c))
         /\ ~Mentions(x, o, c) => TextReceived(Append(w, x), o, c) = TextReceived(w, o, c)
<1>1. PICK S : /\ w \in Seq(S) /\ x \in S /\ Append(w, x) \in Seq(S)
               /\ \A y \in S : Spoken(y)
  BY WireSet
<1>2. PICK F : F = [y \in S |-> TextToldBy(y, o, c)]  OBVIOUS
<1>3. ASSUME NEW y \in S
      PROVE  TextToldBy(y, o, c) \in Seq(Tokens)
  <2>1. Spoken(y)  BY <1>1
  <2>. QED BY <2>1 DEF TextToldBy, Spoken, Text
<1>4. F \in Sayings(S, Tokens) /\ \A y \in S : F[y] = TextToldBy(y, o, c)
  BY <1>2, <1>3 DEF Sayings
<1>5. ASSUME NEW v \in Seq(S)
      PROVE  TextReceived(v, o, c) = JoinOf(F, v)
  <2>1. [n \in 1..Len(v) |-> TextToldBy(v[n], o, c)] = [n \in 1..Len(v) |-> F[v[n]]]
    BY <1>4
  <2>. QED BY <2>1, Zenon DEF TextReceived, JoinOf
<1>6. /\ F[x] = <<>> => JoinOf(F, Append(w, x)) = JoinOf(F, w)
      /\ JoinOf(F, Append(w, x)) = JoinOf(F, w) \o F[x]
      /\ JoinOf(F, w) \in Seq(Tokens)
  BY <1>1, <1>4, JoinOfStep, JoinOfMore
<1>7. F[x] = TextToldBy(x, o, c) /\ TextReceived(w, o, c) = JoinOf(F, w)
      /\ TextReceived(Append(w, x), o, c) = JoinOf(F, Append(w, x))
  BY <1>1, <1>4, <1>5
<1>8. ~Mentions(x, o, c) => TextToldBy(x, o, c) = <<>>
  BY Zenon DEF TextToldBy, Mentions
<1>. QED BY <1>6, <1>7, <1>8 DEF Joined

-----------------------------------------------------------------------------
(* The stream as a ledger of items *)

(* All of an item but what may change while it is under way. *)
SameFace(i, j) ==
  /\ j.kind = i.kind /\ j.id = i.id /\ j.role = i.role /\ j.call_id = i.call_id
  /\ j.name = i.name /\ j.ns = i.ns /\ j.payload = i.payload

(* Item o was announced as this item, and the stream w spelled its parts
   and its input. *)
AnnouncedAs(w, o, item) ==
  /\ Announced(w)[o + 1].output_index = o
  /\ ItemShape(Announced(w)[o + 1].item[1])
  /\ SameFace(Announced(w)[o + 1].item[1], item)

SpelledAs(w, o, item) ==
  /\ ItemShape(item) /\ item.content \in Seq(Text)
  /\ PartsBegun(w, o) = [c \in 1..Len(item.content) |-> c - 1]
  /\ \A c \in Nat : TextReceived(w, o, c) =
                      IF c < Len(item.content) THEN item.content[c + 1] ELSE <<>>
  /\ item.input # None => item.input[1] = InputReceived(w, o)

Tells(w, o, item) == AnnouncedAs(w, o, item) /\ SpelledAs(w, o, item)

Untold(w, o) ==
  /\ PartsBegun(w, o) = <<>> /\ InputReceived(w, o) = <<>> /\ EndsReceived(w, o) = <<>>
  /\ \A c \in Nat : TextReceived(w, o, c) = <<>>

(* The items in done have ended, the Option open is under way. *)
Ledger(w, done, open) ==
  /\ Readable(w) /\ \E T : done \in Seq(T)
  /\ Len(Announced(w)) = Len(done) + (IF open = None THEN 0 ELSE 1)
  /\ \A o \in 0..(Len(done) - 1) :
       Tells(w, o, done[o + 1]) /\ EndsReceived(w, o) = <<done[o + 1]>>
  /\ open # None => Tells(w, Len(done), open[1]) /\ EndsReceived(w, Len(done)) = <<>>
  /\ \A o \in Nat : o >= Len(Announced(w)) => Untold(w, o)

(* x speaks of item o, after it was announced. *)
Concerns(x, o) ==
  /\ x.kind \in {"output_item.done"} \union PartAdded \union TextDelta \union InputDeltas
  /\ x.output_index = o

(* What x does not speak of stays as it is. *)
LEMMA Elsewhere ==
  ASSUME NEW w, Readable(w), NEW x, Spoken(x), NEW o \in Nat, ~Concerns(x, o)
  PROVE  /\ \A item : SpelledAs(w, o, item) => SpelledAs(Append(w, x), o, item)
         /\ EndsReceived(Append(w, x), o) = EndsReceived(w, o)
         /\ Untold(w, o) => Untold(Append(w, x), o)
<1>1. /\ ~(x.kind \in PartAdded /\ x.output_index = o)
      /\ ~(x.kind = "output_item.done" /\ x.output_index = o)
      /\ ~(x.kind \in InputDeltas /\ x.output_index = o)
      /\ \A c : ~Mentions(x, o, c)
  BY Zenon DEF Concerns, Mentions
<1>2. PartsBegun(Append(w, x), o) = PartsBegun(w, o)  BY <1>1, PartsMore
<1>3. EndsReceived(Append(w, x), o) = EndsReceived(w, o)  BY <1>1, EndsMore
<1>4. InputReceived(Append(w, x), o) = InputReceived(w, o)  BY <1>1, InputMore
<1>5. \A c : TextReceived(Append(w, x), o, c) = TextReceived(w, o, c)
  BY <1>1, TextMore
<1>. QED BY <1>2, <1>3, <1>4, <1>5 DEF SpelledAs, Untold

(* What was announced stays announced. *)
LEMMA StillAnnounced ==
  ASSUME NEW w, Readable(w), NEW x, Spoken(x), NEW o \in Nat, o < Len(Announced(w))
  PROVE  /\ Announced(Append(w, x))[o + 1] = Announced(w)[o + 1]
         /\ \A item : AnnouncedAs(w, o, item) => AnnouncedAs(Append(w, x), o, item)
<1>1. PICK D : Announced(w) \in Seq(D)  BY AnnouncedMore
<1>2. PICK a, b : a = Announced(w) /\ b = Announced(Append(w, x))  OBVIOUS
<1>3. b = Append(a, x) \/ b = a  BY <1>2, AnnouncedMore
<1>4. PICK E : E = D \union {x}  OBVIOUS
<1>5. a \in Seq(E) /\ x \in E  BY <1>1, <1>2, <1>4
<1>6. b[o + 1] = a[o + 1]  BY <1>2, <1>3, <1>5
<1>. QED BY <1>2, <1>6 DEF AnnouncedAs

(* Events that say nothing new. *)
Hushed(x) == x.kind # "output_item.added" /\ \A o : ~Concerns(x, o)

LEMMA LedgerHush ==
  ASSUME NEW w, NEW done, NEW open, Ledger(w, done, open), NEW x, Spoken(x), Hushed(x)
  PROVE  Ledger(Append(w, x), done, open)
<1>1. PICK v : v = Append(w, x)  OBVIOUS
<1>2. Readable(w) /\ \E T : done \in Seq(T)  BY DEF Ledger
<1>3. Readable(v) /\ Announced(v) = Announced(w) /\ \E D : Announced(w) \in Seq(D)
  BY <1>1, <1>2, AnnouncedMore DEF Hushed
<1>4. ASSUME NEW o \in Nat
      PROVE  /\ \A item : Tells(w, o, item) => Tells(v, o, item)
             /\ EndsReceived(v, o) = EndsReceived(w, o)
             /\ Untold(w, o) => Untold(v, o)
  <2>1. /\ \A item : SpelledAs(w, o, item) => SpelledAs(v, o, item)
        /\ EndsReceived(v, o) = EndsReceived(w, o)
        /\ Untold(w, o) => Untold(v, o)
    BY <1>1, <1>2, Elsewhere DEF Hushed
  <2>2. \A item : AnnouncedAs(w, o, item) => AnnouncedAs(v, o, item)
    BY <1>3 DEF AnnouncedAs
  <2>. QED BY <2>1, <2>2 DEF Tells
<1>5. Len(done) \in Nat  BY <1>2
<1>6. \A o \in 0..(Len(done) - 1) :
        Tells(v, o, done[o + 1]) /\ EndsReceived(v, o) = <<done[o + 1]>>
  BY <1>4, <1>5 DEF Ledger
<1>7. open # None => Tells(v, Len(done), open[1]) /\ EndsReceived(v, Len(done)) = <<>>
  BY <1>4, <1>5 DEF Ledger
<1>8. \A o \in Nat : o >= Len(Announced(v)) => Untold(v, o)
  BY <1>3, <1>4 DEF Ledger
<1>9. Len(Announced(v)) = Len(done) + (IF open = None THEN 0 ELSE 1)
  BY <1>3 DEF Ledger
<1>. QED BY <1>1, <1>2, <1>3, <1>6, <1>7, <1>8, <1>9 DEF Ledger

(* Events that speak of the item under way. *)
LEMMA LedgerSays ==
  ASSUME NEW w, NEW done, NEW i, Ledger(w, done, Some(i)), NEW x, Spoken(x),
         x.kind # "output_item.added", x.kind # "output_item.done",
         x.output_index = Len(done),
         NEW j, SameFace(i, j), SpelledAs(Append(w, x), Len(done), j)
  PROVE  Ledger(Append(w, x), done, Some(j))
<1>1. PICK v : v = Append(w, x)  OBVIOUS
<1>2. Readable(w) /\ (\E T : done \in Seq(T)) /\ Some(i) # None /\ Some(i)[1] = i
  BY SomeFacts DEF Ledger
<1>3. Readable(v) /\ Announced(v) = Announced(w)  BY <1>1, <1>2, AnnouncedMore
<1>4. ASSUME NEW o \in Nat, o # Len(done)
      PROVE  /\ \A item : Tells(w, o, item) => Tells(v, o, item)
             /\ EndsReceived(v, o) = EndsReceived(w, o)
             /\ Untold(w, o) => Untold(v, o)
  <2>1. /\ \A item : SpelledAs(w, o, item) => SpelledAs(v, o, item)
        /\ EndsReceived(v, o) = EndsReceived(w, o)
        /\ Untold(w, o) => Untold(v, o)
    BY <1>1, <1>2, <1>4, Elsewhere DEF Concerns
  <2>2. \A item : AnnouncedAs(w, o, item) => AnnouncedAs(v, o, item)
    BY <1>3 DEF AnnouncedAs
  <2>. QED BY <2>1, <2>2 DEF Tells
<1>5. Len(done) \in Nat  BY <1>2
<1>6. \A o \in 0..(Len(done) - 1) :
        Tells(v, o, done[o + 1]) /\ EndsReceived(v, o) = <<done[o + 1]>>
  BY <1>4, <1>5 DEF Ledger
<1>7. Tells(v, Len(done), j)
  <2>1. AnnouncedAs(w, Len(done), i)  BY <1>2 DEF Ledger, Tells
  <2>2. AnnouncedAs(v, Len(done), j)  BY <1>3, <2>1 DEF AnnouncedAs, SameFace
  <2>. QED BY <1>1, <2>2 DEF Tells
<1>8. EndsReceived(v, Len(done)) = <<>>
  <2>1. EndsReceived(w, Len(done)) = <<>>  BY <1>2 DEF Ledger
  <2>2. EndsReceived(v, Len(done)) = EndsReceived(w, Len(done))
    BY <1>1, <1>2, EndsMore
  <2>. QED BY <2>1, <2>2
<1>9. Len(Announced(w)) = Len(done) + 1  BY <1>2 DEF Ledger
<1>10. \A o \in Nat : o >= Len(Announced(v)) => Untold(v, o)
  BY <1>3, <1>4, <1>5, <1>9 DEF Ledger
<1>11. Some(j) # None /\ Some(j)[1] = j  BY SomeFacts
<1>. QED BY <1>1, <1>2, <1>3, <1>6, <1>7, <1>8, <1>9, <1>10, <1>11 DEF Ledger

(* A part is added. *)
LEMMA LedgerPart ==
  ASSUME NEW w, NEW done, NEW i, Ledger(w, done, Some(i)), NEW x, NEW t \in Text,
         x.kind \in PartAdded, x.output_index = Len(done),
         x.content_index = Len(i.content), x.part[1].text = t,
         NEW j, ItemShape(j), SameFace(i, j), j.content = Append(i.content, t),
         j.input = i.input
  PROVE  Spoken(x) /\ Ledger(Append(w, x), done, Some(j))
<1>1. PICK o, n, v : o = Len(done) /\ n = Len(i.content) /\ v = Append(w, x)
  OBVIOUS
<1>2. /\ x.kind \notin TextDelta /\ x.kind \notin InputDeltas
      /\ x.kind # "output_item.added" /\ x.kind # "output_item.done"
  BY DEF PartAdded, TextDelta, InputDeltas
<1>3. Spoken(x)  BY <1>2 DEF Spoken
<1>4. Readable(w) /\ o \in Nat  BY <1>1 DEF Ledger
<1>5. SpelledAs(w, o, i)
  <2>1. Some(i) # None /\ Some(i)[1] = i  BY SomeFacts
  <2>. QED BY <1>1, <2>1 DEF Ledger, Tells
<1>6. i.content \in Seq(Text) /\ n \in Nat  BY <1>1, <1>5 DEF SpelledAs
<1>7. /\ j.content \in Seq(Text) /\ Len(j.content) = n + 1 /\ j.content[n + 1] = t
      /\ \A k \in 1..n : j.content[k] = i.content[k]
  BY <1>1, <1>6
<1>8. PartsBegun(v, o) = [c \in 1..Len(j.content) |-> c - 1]
  <2>1. PartsBegun(v, o) = Append(PartsBegun(w, o), n)
    BY <1>1, <1>3, <1>4, PartsMore
  <2>2. PartsBegun(w, o) = [c \in 1..n |-> c - 1]  BY <1>1, <1>5 DEF SpelledAs
  <2>3. PICK f : f = [c \in 1..n |-> c - 1]  OBVIOUS
  <2>4. f \in [1..n -> Int]  BY <1>6, <2>3
  <2>5. f \in Seq(Int) /\ Len(f) = n  BY <1>6, <2>4
  <2>6. Append(f, n) = [c \in 1..(n + 1) |-> c - 1]
    <3>1. PICK g : g = Append(f, n)  OBVIOUS
    <3>2. g \in Seq(Int) /\ Len(g) = n + 1  BY <1>6, <2>5, <3>1
    <3>3. \A c \in 1..(n + 1) : g[c] = c - 1  BY <1>6, <2>3, <2>5, <3>1
    <3>4. g \in [1..(n + 1) -> Int]  BY <3>2
    <3>5. g = [c \in 1..(n + 1) |-> c - 1]  BY <3>3, <3>4
    <3>. QED BY <3>1, <3>5
  <2>. QED BY <1>7, <2>1, <2>2, <2>3, <2>6
<1>12. \A c : TextReceived(v, o, c) = Joined(TextReceived(w, o, c), TextToldBy(x, o, c))
  BY <1>1, <1>3, <1>4, TextMore
<1>9. ASSUME NEW c \in Nat
      PROVE  TextReceived(v, o, c) = IF c < Len(j.content) THEN j.content[c + 1] ELSE <<>>
  <2>1. TextReceived(w, o, c) = IF c < n THEN i.content[c + 1] ELSE <<>>
    BY <1>1, <1>5 DEF SpelledAs
  <2>2. CASE c = n
    <3>1. Mentions(x, o, c)  BY <1>1, <2>2 DEF Mentions
    <3>2. TextReceived(v, o, c) = TextReceived(w, o, c) \o t
      <4>1. TextReceived(v, o, c) = Joined(TextReceived(w, o, c), TextToldBy(x, o, c))
        BY <1>12, Zenon
      <4>2. TextToldBy(x, o, c) = t  BY <3>1 DEF TextToldBy, Mentions
      <4>. QED BY <4>1, <4>2 DEF Joined
    <3>3. TextReceived(w, o, c) = <<>>  BY <1>6, <2>1, <2>2
    <3>4. <<>> \o t = t  BY DEF Text
    <3>. QED BY <1>7, <2>2, <3>2, <3>3, <3>4
  <2>3. CASE c # n
    <3>1. ~Mentions(x, o, c)  BY <1>1, <2>3 DEF Mentions
    <3>2. TextReceived(v, o, c) = TextReceived(w, o, c)
      BY <1>1, <1>3, <1>4, <3>1, TextMore
    <3>. QED BY <1>6, <1>7, <2>1, <2>3, <3>2
  <2>. QED BY <2>2, <2>3
<1>10. InputReceived(v, o) = InputReceived(w, o)
  BY <1>1, <1>2, <1>3, <1>4, InputMore
<1>11. SpelledAs(v, o, j)  BY <1>5, <1>7, <1>8, <1>9, <1>10 DEF SpelledAs
<1>. QED BY <1>1, <1>2, <1>3, <1>11, LedgerSays

(* A part grows. *)
LEMMA LedgerText ==
  ASSUME NEW w, NEW done, NEW i, Ledger(w, done, Some(i)), NEW x, NEW t \in Text,
         x.kind \in TextDelta, x.output_index = Len(done), x.text[1] = t,
         x.content_index \in 0..(Len(i.content) - 1),
         NEW j, ItemShape(j), SameFace(i, j), j.input = i.input,
         j.content = [i.content EXCEPT ![x.content_index + 1] = @ \o t]
  PROVE  Spoken(x) /\ Ledger(Append(w, x), done, Some(j))
<1>1. PICK o, n, m, v : /\ o = Len(done) /\ n = Len(i.content) /\ m = x.content_index
                        /\ v = Append(w, x)
  OBVIOUS
<1>2. /\ x.kind \notin PartAdded /\ x.kind \notin InputDeltas
      /\ x.kind # "output_item.added" /\ x.kind # "output_item.done"
  BY DEF PartAdded, TextDelta, InputDeltas
<1>3. Spoken(x)  BY <1>2 DEF Spoken
<1>4. Readable(w) /\ o \in Nat  BY <1>1 DEF Ledger
<1>5. SpelledAs(w, o, i)
  <2>1. Some(i) # None /\ Some(i)[1] = i  BY SomeFacts
  <2>. QED BY <1>1, <2>1 DEF Ledger, Tells
<1>6. i.content \in Seq(Text) /\ n \in Nat /\ m \in 0..(n - 1)
  BY <1>1, <1>5 DEF SpelledAs
<1>7. i.content[m + 1] \in Text /\ i.content[m + 1] \o t \in Text
  <2>1. i.content[m + 1] \in Text  BY <1>1, <1>6
  <2>. QED BY <2>1 DEF Text
<1>8. /\ j.content \in Seq(Text) /\ Len(j.content) = n
      /\ j.content[m + 1] = i.content[m + 1] \o t
      /\ \A k \in 1..n : k # m + 1 => j.content[k] = i.content[k]
  <2>1. PICK u : u = i.content[m + 1] \o t  OBVIOUS
  <2>2. PICK f, q : f = i.content /\ q = j.content  OBVIOUS
  <2>3. q = [f EXCEPT ![m + 1] = u]  BY <1>1, <2>1, <2>2
  <2>4. f \in Seq(Text) /\ Len(f) = n /\ u \in Text /\ m + 1 \in 1..n /\ n \in Nat
    BY <1>1, <1>6, <1>7, <2>1, <2>2
  <2>5. /\ q \in Seq(Text) /\ Len(q) = n /\ q[m + 1] = u
        /\ \A k \in 1..n : k # m + 1 => q[k] = f[k]
    BY <2>3, <2>4
  <2>. QED BY <2>1, <2>2, <2>5
<1>9. PartsBegun(v, o) = [c \in 1..Len(j.content) |-> c - 1]
  <2>1. PartsBegun(v, o) = PartsBegun(w, o)
    BY <1>1, <1>2, <1>3, <1>4, PartsMore
  <2>. QED BY <1>1, <1>5, <1>8, <2>1 DEF SpelledAs
<1>12. \A c : TextReceived(v, o, c) = Joined(TextReceived(w, o, c), TextToldBy(x, o, c))
  BY <1>1, <1>3, <1>4, TextMore
<1>10. ASSUME NEW c \in Nat
       PROVE  TextReceived(v, o, c) = IF c < Len(j.content) THEN j.content[c + 1] ELSE <<>>
  <2>1. TextReceived(w, o, c) = IF c < n THEN i.content[c + 1] ELSE <<>>
    BY <1>1, <1>5 DEF SpelledAs
  <2>2. CASE c = m
    <3>1. Mentions(x, o, c)  BY <1>1, <2>2 DEF Mentions
    <3>2. TextReceived(v, o, c) = TextReceived(w, o, c) \o t
      <4>1. TextReceived(v, o, c) = Joined(TextReceived(w, o, c), TextToldBy(x, o, c))
        BY <1>12, Zenon
      <4>2. TextToldBy(x, o, c) = t  BY <1>2, <3>1 DEF TextToldBy, Mentions
      <4>. QED BY <4>1, <4>2 DEF Joined
    <3>3. TextReceived(w, o, c) = i.content[m + 1]  BY <1>6, <2>1, <2>2
    <3>4. TextReceived(v, o, c) = j.content[m + 1]  BY <1>8, <3>2, <3>3
    <3>5. c < Len(j.content)  BY <1>6, <1>8, <2>2
    <3>. QED BY <2>2, <3>4, <3>5
  <2>3. CASE c # m
    <3>1. ~Mentions(x, o, c)  BY <1>1, <2>3 DEF Mentions
    <3>2. TextReceived(v, o, c) = TextReceived(w, o, c)
      BY <1>1, <1>3, <1>4, <3>1, TextMore
    <3>3. CASE c < n
      <4>1. c + 1 \in 1..n /\ c + 1 # m + 1  BY <1>6, <2>3, <3>3
      <4>. QED BY <1>8, <2>1, <3>2, <3>3, <4>1
    <3>4. CASE ~(c < n)  BY <1>8, <2>1, <3>2, <3>4
    <3>. QED BY <3>3, <3>4
  <2>. QED BY <2>2, <2>3
<1>11. InputReceived(v, o) = InputReceived(w, o)
  BY <1>1, <1>2, <1>3, <1>4, InputMore
<1>13. SpelledAs(v, o, j)  BY <1>5, <1>8, <1>9, <1>10, <1>11 DEF SpelledAs
<1>. QED BY <1>1, <1>2, <1>3, <1>13, LedgerSays

(* An input grows. *)
LEMMA LedgerInput ==
  ASSUME NEW w, NEW done, NEW i, Ledger(w, done, Some(i)), NEW x, NEW t \in Text,
         x.kind \in InputDeltas, x.output_index = Len(done), x.text[1] = t,
         NEW s, i.input = Some(s),
         NEW j, ItemShape(j), SameFace(i, j), j.content = i.content, j.input = Some(s \o t)
  PROVE  Spoken(x) /\ Ledger(Append(w, x), done, Some(j))
<1>1. PICK o, v : o = Len(done) /\ v = Append(w, x)  OBVIOUS
<1>2. /\ x.kind \notin PartAdded /\ x.kind \notin TextDelta
      /\ x.kind # "output_item.added" /\ x.kind # "output_item.done"
  BY DEF PartAdded, TextDelta, InputDeltas
<1>3. Spoken(x)  BY <1>2 DEF Spoken
<1>4. Readable(w) /\ o \in Nat  BY <1>1 DEF Ledger
<1>5. SpelledAs(w, o, i)
  <2>1. Some(i) # None /\ Some(i)[1] = i  BY SomeFacts
  <2>. QED BY <1>1, <2>1 DEF Ledger, Tells
<1>6. PartsBegun(v, o) = PartsBegun(w, o)  BY <1>1, <1>2, <1>3, <1>4, PartsMore
<1>7. \A c : TextReceived(v, o, c) = TextReceived(w, o, c)
  <2>1. \A c : ~Mentions(x, o, c)  BY <1>2 DEF Mentions
  <2>. QED BY <1>1, <1>3, <1>4, <2>1, TextMore
<1>8. InputReceived(v, o) = InputReceived(w, o) \o t
  BY <1>1, <1>3, <1>4, InputMore
<1>9. InputReceived(w, o) = s  BY <1>5, SomeFacts DEF SpelledAs
<1>10. j.input[1] = s \o t  BY SomeFacts
<1>11. SpelledAs(v, o, j)  BY <1>5, <1>6, <1>7, <1>8, <1>9, <1>10 DEF SpelledAs
<1>. QED BY <1>1, <1>2, <1>3, <1>11, LedgerSays

(* What the stream does not tell may change. *)
LEMMA LedgerSame ==
  ASSUME NEW w, NEW done, NEW i, Ledger(w, done, Some(i)),
         NEW j, ItemShape(j), SameFace(i, j), j.content = i.content, j.input = i.input
  PROVE  Ledger(w, done, Some(j))
<1>1. Some(i) # None /\ Some(i)[1] = i /\ Some(j) # None /\ Some(j)[1] = j
  BY SomeFacts
<1>2. Tells(w, Len(done), i) /\ EndsReceived(w, Len(done)) = <<>>
  BY <1>1 DEF Ledger
<1>3. Tells(w, Len(done), j)
  BY <1>2 DEF Tells, AnnouncedAs, SpelledAs, SameFace
<1>4. Len(Announced(w)) = Len(done) + 1  BY <1>1 DEF Ledger
<1>. QED BY <1>1, <1>2, <1>3, <1>4 DEF Ledger

(* An item is announced. *)
LEMMA LedgerOpen ==
  ASSUME NEW w, NEW done, Ledger(w, done, None), NEW x, NEW item,
         x.kind = "output_item.added", x.output_index = Len(done), x.item = Some(item),
         ItemShape(item), item.content = <<>>, item.input # None => item.input = Some(<<>>)
  PROVE  Spoken(x) /\ Ledger(Append(w, x), done, Some(item))
<1>1. PICK o, v : o = Len(done) /\ v = Append(w, x)  OBVIOUS
<1>2. /\ x.kind \notin PartAdded /\ x.kind \notin TextDelta /\ x.kind \notin InputDeltas
      /\ x.kind # "output_item.done"
  BY DEF PartAdded, TextDelta, InputDeltas
<1>3. Spoken(x) /\ \A p : ~Concerns(x, p)  BY <1>2 DEF Spoken, Concerns
<1>4. Readable(w) /\ o \in Nat /\ \E T : done \in Seq(T)  BY <1>1 DEF Ledger
<1>5. PICK D : Announced(w) \in Seq(D)  BY <1>3, <1>4, AnnouncedMore
<1>6. Readable(v) /\ Announced(v) = Append(Announced(w), x)
  BY <1>1, <1>3, <1>4, AnnouncedMore
<1>7. Len(Announced(w)) = o  BY <1>1, <1>4 DEF Ledger
<1>8. Len(Announced(v)) = o + 1 /\ Announced(v)[o + 1] = x
  <2>1. PICK E, a : E = D \union {x} /\ a = Announced(w)  OBVIOUS
  <2>2. a \in Seq(E) /\ x \in E /\ Len(a) = o  BY <1>5, <1>7, <2>1
  <2>3. Len(Append(a, x)) = o + 1 /\ Append(a, x)[o + 1] = x  BY <2>2
  <2>. QED BY <1>6, <2>1, <2>3
<1>9. ASSUME NEW p \in Nat
      PROVE  /\ \A i : SpelledAs(w, p, i) => SpelledAs(v, p, i)
             /\ EndsReceived(v, p) = EndsReceived(w, p)
             /\ Untold(w, p) => Untold(v, p)
  BY <1>1, <1>3, <1>4, Elsewhere
<1>10. ASSUME NEW p \in 0..(o - 1)
       PROVE  Tells(v, p, done[p + 1]) /\ EndsReceived(v, p) = <<done[p + 1]>>
  <2>1. Tells(w, p, done[p + 1]) /\ EndsReceived(w, p) = <<done[p + 1]>>
    BY <1>1 DEF Ledger
  <2>2. p \in Nat /\ p < Len(Announced(w))  BY <1>4, <1>7
  <2>3. \A i : AnnouncedAs(w, p, i) => AnnouncedAs(v, p, i)
    BY <1>1, <1>3, <1>4, <2>2, StillAnnounced
  <2>. QED BY <1>9, <2>1, <2>2, <2>3 DEF Tells
<1>11. Untold(v, o)  BY <1>4, <1>7, <1>9 DEF Ledger
<1>12. Tells(v, o, item)
  <2>1. x.item[1] = item  BY SomeFacts
  <2>2. AnnouncedAs(v, o, item)  BY <1>1, <1>8, <2>1 DEF AnnouncedAs, SameFace
  <2>3. SpelledAs(v, o, item)
    <3>1. item.content \in Seq(Text) /\ Len(item.content) = 0  OBVIOUS
    <3>2. PartsBegun(v, o) = [c \in 1..Len(item.content) |-> c - 1]
      BY <1>11, <3>1 DEF Untold
    <3>3. \A c \in Nat : TextReceived(v, o, c) =
                           IF c < Len(item.content) THEN item.content[c + 1] ELSE <<>>
      BY <1>11, <3>1 DEF Untold
    <3>4. item.input # None => item.input[1] = InputReceived(v, o)
      BY <1>11, SomeFacts DEF Untold
    <3>. QED BY <3>1, <3>2, <3>3, <3>4 DEF SpelledAs
  <2>. QED BY <2>2, <2>3 DEF Tells
<1>13. \A p \in Nat : p >= Len(Announced(v)) => Untold(v, p)
  BY <1>4, <1>7, <1>8, <1>9 DEF Ledger
<1>14. EndsReceived(v, o) = <<>>  BY <1>11 DEF Untold
<1>15. Some(item) # None /\ Some(item)[1] = item  BY SomeFacts
<1>. QED BY <1>1, <1>3, <1>4, <1>6, <1>8, <1>10, <1>12, <1>13, <1>14, <1>15 DEF Ledger

(* The item under way ends. *)
LEMMA LedgerEnd ==
  ASSUME NEW w, NEW done, NEW i, Ledger(w, done, Some(i)), NEW x,
         x.kind = "output_item.done", x.output_index = Len(done), x.item = Some(i)
  PROVE  Spoken(x) /\ Ledger(Append(w, x), Append(done, i), None)
<1>1. PICK o, v, all : o = Len(done) /\ v = Append(w, x) /\ all = Append(done, i)
  OBVIOUS
<1>2. /\ x.kind \notin PartAdded /\ x.kind \notin TextDelta /\ x.kind \notin InputDeltas
      /\ x.kind # "output_item.added"
  BY DEF PartAdded, TextDelta, InputDeltas
<1>3. Spoken(x)  BY <1>2 DEF Spoken
<1>4. Readable(w) /\ o \in Nat /\ Some(i) # None /\ Some(i)[1] = i
  BY <1>1, SomeFacts DEF Ledger
<1>5. PICK T : done \in Seq(T)  BY DEF Ledger
<1>6. PICK E : E = T \union {i}  OBVIOUS
<1>7. /\ all \in Seq(E) /\ Len(all) = o + 1 /\ all[o + 1] = i
      /\ \A p \in 1..o : all[p] = done[p]
  <2>1. done \in Seq(E) /\ i \in E  BY <1>5, <1>6
  <2>. QED BY <1>1, <2>1
<1>8. Readable(v) /\ Announced(v) = Announced(w)
  BY <1>1, <1>2, <1>3, <1>4, AnnouncedMore
<1>9. Len(Announced(w)) = o + 1  BY <1>1, <1>4 DEF Ledger
<1>10. ASSUME NEW p \in Nat, p # o
       PROVE  /\ \A j : Tells(w, p, j) => Tells(v, p, j)
              /\ EndsReceived(v, p) = EndsReceived(w, p)
              /\ Untold(w, p) => Untold(v, p)
  <2>1. /\ \A j : SpelledAs(w, p, j) => SpelledAs(v, p, j)
        /\ EndsReceived(v, p) = EndsReceived(w, p)
        /\ Untold(w, p) => Untold(v, p)
    BY <1>1, <1>3, <1>4, <1>10, Elsewhere DEF Concerns
  <2>2. \A j : AnnouncedAs(w, p, j) => AnnouncedAs(v, p, j)
    BY <1>8 DEF AnnouncedAs
  <2>. QED BY <2>1, <2>2 DEF Tells
<1>11. Tells(v, o, i)
  <2>1. Tells(w, o, i)  BY <1>1, <1>4 DEF Ledger
  <2>2. PartsBegun(v, o) = PartsBegun(w, o)
    BY <1>1, <1>2, <1>3, <1>4, PartsMore
  <2>3. \A c : TextReceived(v, o, c) = TextReceived(w, o, c)
    <3>1. \A c : ~Mentions(x, o, c)  BY <1>2 DEF Mentions
    <3>. QED BY <1>1, <1>3, <1>4, <3>1, TextMore
  <2>4. InputReceived(v, o) = InputReceived(w, o)
    BY <1>1, <1>2, <1>3, <1>4, InputMore
  <2>. QED BY <1>8, <2>1, <2>2, <2>3, <2>4 DEF Tells, AnnouncedAs, SpelledAs
<1>12. EndsReceived(v, o) = <<i>>
  <2>1. EndsReceived(w, o) = <<>>  BY <1>1, <1>4 DEF Ledger
  <2>2. EndsReceived(v, o) = Append(EndsReceived(w, o), x.item[1])
    BY <1>1, <1>3, <1>4, EndsMore
  <2>. QED BY <1>4, <2>1, <2>2
<1>13. ASSUME NEW p \in 0..(Len(all) - 1)
       PROVE  Tells(v, p, all[p + 1]) /\ EndsReceived(v, p) = <<all[p + 1]>>
  <2>1. CASE p = o  BY <1>7, <1>11, <1>12, <2>1
  <2>2. CASE p # o
    <3>1. p \in 0..(o - 1) /\ p \in Nat /\ all[p + 1] = done[p + 1]
      BY <1>4, <1>7, <2>2
    <3>2. Tells(w, p, done[p + 1]) /\ EndsReceived(w, p) = <<done[p + 1]>>
      BY <1>1, <3>1 DEF Ledger
    <3>. QED BY <1>10, <2>2, <3>1, <3>2
  <2>. QED BY <2>1, <2>2
<1>14. \A p \in Nat : p >= Len(Announced(v)) => Untold(v, p)
  BY <1>4, <1>8, <1>9, <1>10 DEF Ledger
<1>15. Ledger(v, all, None)  BY <1>7, <1>8, <1>9, <1>13, <1>14 DEF Ledger
<1>. QED BY <1>1, <1>3, <1>15

-----------------------------------------------------------------------------
(* The ledger and the struct *)

PartOpen(e) == e.active_block # None /\ e.active_block[1].source.kind \in PartKinds
CallOpen(e) == e.active_block # None /\ e.active_block[1].source.kind \in ToolKinds

(* The parts and the input of the item under way, with those of the open
   block as far as they have been sent. *)
ContentTold(e) ==
  IF PartOpen(e)
  THEN [e.active_item[1].item.content EXCEPT ![e.active_block[1].content_index + 1] =
                                               e.active_block[1].text]
  ELSE e.active_item[1].item.content

InputSoFar(e) ==
  IF CallOpen(e) THEN Some(Concat(e.active_block[1].fragments))
  ELSE e.active_item[1].item.input

ToldAs(e, i) ==
  /\ ItemShape(i) /\ SameFace(e.active_item[1].item, i)
  /\ i.content = ContentTold(e) /\ i.input = InputSoFar(e)
  /\ e.active_item[1].item.content \in Seq(Text)

(* The stream has told the completed items and i, the one under way. *)
Owes(e, i) ==
  /\ Ledger(e.wire, e.completed, Some(i))
  /\ e.active_item # None /\ e.active_item[1].output_index = Len(e.completed)
  /\ e.next_output_index = Len(e.completed) + 1

PartFits(e) ==
  PartOpen(e) =>
    /\ e.active_item # None /\ e.active_block[1].text \in Text
    /\ e.active_block[1].content_index \in 0..(Len(e.active_item[1].item.content) - 1)

Tally(e) ==
  /\ e.active_item = None =>
       Ledger(e.wire, e.completed, None) /\ e.next_output_index = Len(e.completed)
  /\ e.active_item # None => \E i : Owes(e, i) /\ ToldAs(e, i)
  /\ PartFits(e)

(* The terminal event came last. *)
Final(e) ==
  /\ e.active_item = None
  /\ e.wire[Len(e.wire)].response[1].output = e.completed

Repeats(e) == Tally(e) /\ (e.delta => Final(e))

(* All that the ledger is about. *)
SameTold(d, e) ==
  /\ d.wire = e.wire /\ d.completed = e.completed /\ d.active_item = e.active_item
  /\ d.next_output_index = e.next_output_index

SameBlock(d, e) ==
  /\ d.active_block = None <=> e.active_block = None
  /\ d.active_block # None =>
       /\ d.active_block[1].source = e.active_block[1].source
       /\ d.active_block[1].content_index = e.active_block[1].content_index
       /\ d.active_block[1].text = e.active_block[1].text
       /\ d.active_block[1].fragments = e.active_block[1].fragments

LEMMA TallyRead ==
  ASSUME NEW e, Tally(e)
  PROVE  Readable(e.wire) /\ \E S : e.wire \in Seq(S)
BY DEF Tally, Owes, Ledger, Readable

LEMMA TallySame ==
  ASSUME NEW d, NEW e, Tally(e), SameTold(d, e), SameBlock(d, e)
  PROVE  Tally(d)
<1>1. (PartOpen(d) <=> PartOpen(e)) /\ (CallOpen(d) <=> CallOpen(e))
  BY DEF SameBlock, PartOpen, CallOpen
<1>2. ContentTold(d) = ContentTold(e) /\ InputSoFar(d) = InputSoFar(e)
  <2>1. ContentTold(d) = ContentTold(e)
    <3>1. CASE PartOpen(e)
      <4>1. d.active_block # None  BY <1>1, <3>1 DEF PartOpen
      <4>. QED BY <1>1, <3>1, <4>1 DEF ContentTold, SameTold, SameBlock
    <3>2. CASE ~PartOpen(e)  BY <1>1, <3>2 DEF ContentTold, SameTold
    <3>. QED BY <3>1, <3>2
  <2>2. InputSoFar(d) = InputSoFar(e)
    <3>1. CASE CallOpen(e)
      <4>1. d.active_block # None  BY <1>1, <3>1 DEF CallOpen
      <4>. QED BY <1>1, <3>1, <4>1 DEF InputSoFar, SameBlock
    <3>2. CASE ~CallOpen(e)  BY <1>1, <3>2 DEF InputSoFar, SameTold
    <3>. QED BY <3>1, <3>2
  <2>. QED BY <2>1, <2>2
<1>3. \A i : ToldAs(e, i) => ToldAs(d, i)  BY <1>2 DEF ToldAs, SameTold
<1>4. \A i : Owes(e, i) => Owes(d, i)  BY DEF Owes, SameTold
<1>5. PartFits(d)
  <2>1. SUFFICES ASSUME PartOpen(d)
                 PROVE  PartFits(d)
    BY DEF PartFits
  <2>2. PartOpen(e) /\ d.active_block # None  BY <1>1, <2>1 DEF PartOpen
  <2>. QED BY <2>2 DEF PartFits, Tally, SameTold, SameBlock
<1>. QED BY <1>3, <1>4, <1>5 DEF Tally, SameTold

(* Without a part or a call the item itself is what was told. *)
LEMMA ToldPlain ==
  ASSUME NEW e, ~PartOpen(e), ~CallOpen(e)
  PROVE  /\ ContentTold(e) = e.active_item[1].item.content
         /\ InputSoFar(e) = e.active_item[1].item.input /\ PartFits(e)
BY DEF ContentTold, InputSoFar, PartFits

LEMMA NoBlock ==
  ASSUME NEW e, e.active_block = None
  PROVE  ~PartOpen(e) /\ ~CallOpen(e)
BY DEF PartOpen, CallOpen

(* The item under way, taken apart. *)
LEMMA ActiveFacts ==
  ASSUME NEW e, Typed(e), e.active_item # None
  PROVE  /\ ItemShape(e.active_item[1].item) /\ e.active_item = <<e.active_item[1]>>
         /\ e.active_item[1] = [output_index |-> e.active_item[1].output_index,
                                item |-> e.active_item[1].item]
<1>1. PICK a : ActiveShape(a) /\ e.active_item = Some(a)  BY DEF Typed, ItemHeld
<1>2. e.active_item[1] = a /\ e.active_item = <<a>>  BY <1>1, SomeFacts DEF Some
<1>. QED BY <1>1, <1>2 DEF ActiveShape

LEMMA SendTold ==
  ASSUME NEW e, Typed(e), NEW events
  PROVE  /\ Send(e, events).wire = e.wire \o events
         /\ Send(e, events).completed = e.completed
         /\ Send(e, events).active_item = e.active_item
         /\ Send(e, events).active_block = e.active_block
         /\ Send(e, events).next_output_index = e.next_output_index
<1>1. PICK wire : wire = e.wire \o events  OBVIOUS
<1>2. PICK d : d = [e EXCEPT !.wire = wire]  OBVIOUS
<1>3. Send(e, events) = d  BY <1>1, <1>2 DEF Send, Typed, Shape
<1>4. /\ d.wire = wire /\ d.completed = e.completed /\ d.active_item = e.active_item
      /\ d.active_block = e.active_block /\ d.next_output_index = e.next_output_index
  BY <1>2 DEF Typed, Shape
<1>. QED BY <1>1, <1>3, <1>4

(* One event more. *)
LEMMA SendOne ==
  ASSUME NEW w, NEW x, \E S : w \in Seq(S)
  PROVE  w \o <<x>> = Append(w, x)
<1>1. PICK S : w \in Seq(S)  OBVIOUS
<1>2. PICK T : T = S \union {x}  OBVIOUS
<1>3. w \in Seq(T) /\ x \in T  BY <1>1, <1>2
<1>. QED BY <1>3

LEMMA TallyHush ==
  ASSUME NEW e, Typed(e), Tally(e), NEW x, Spoken(x), Hushed(x), NEW d,
         d.wire = Append(e.wire, x), d.completed = e.completed,
         d.active_item = e.active_item, d.next_output_index = e.next_output_index,
         d.active_block = e.active_block
  PROVE  Tally(d)
<1>1. /\ ContentTold(d) = ContentTold(e) /\ InputSoFar(d) = InputSoFar(e)
      /\ PartFits(d) <=> PartFits(e)
  BY DEF ContentTold, InputSoFar, PartFits, PartOpen, CallOpen
<1>2. \A i : ToldAs(e, i) => ToldAs(d, i)  BY <1>1 DEF ToldAs
<1>3. \A i : Owes(e, i) => Owes(d, i)  BY LedgerHush DEF Owes
<1>4. Ledger(e.wire, e.completed, None) => Ledger(d.wire, d.completed, None)
  BY LedgerHush
<1>. QED BY <1>1, <1>2, <1>3, <1>4 DEF Tally

(* An item is opened, ... *)
LEMMA OpenItemTold ==
  ASSUME NEW e, Typed(e), NEW item, NEW d, d = OpenItem(e, item)
  PROVE  /\ d.wire = e.wire \o <<WireItem("output_item.added", e.next_output_index, Some(item))>>
         /\ d.completed = e.completed /\ d.active_block = e.active_block
         /\ d.active_item # None /\ d.active_item[1].item = item
         /\ d.active_item[1].output_index = e.next_output_index
         /\ d.next_output_index = e.next_output_index + 1
<1>1. PICK a, index, next, wire :
        /\ a = [output_index |-> e.next_output_index, item |-> item]
        /\ index = e.next_output_index + 1
        /\ next = IF item.kind \in NumberedItems
                  THEN [e.next_item EXCEPT ![item.kind] = @ + 1] ELSE e.next_item
        /\ wire = e.wire \o <<WireItem("output_item.added", e.next_output_index, Some(item))>>
  OBVIOUS
<1>2. PICK c : c = [e EXCEPT !.active_item = Some(a), !.next_output_index = index,
                            !.next_item = next]
  OBVIOUS
<1>3. /\ Shape(c) /\ c.active_item = Some(a) /\ c.next_output_index = index
      /\ c.wire = e.wire /\ c.completed = e.completed /\ c.active_block = e.active_block
  BY <1>2 DEF Typed, Shape
<1>4. d = Send(c, <<WireItem("output_item.added", e.next_output_index, Some(item))>>)
  BY <1>1, <1>2, Zenon DEF OpenItem
<1>5. d = [c EXCEPT !.wire = wire]
  <2>1. d = [c EXCEPT !.wire = c.wire \o <<WireItem("output_item.added", e.next_output_index,
                                                     Some(item))>>]
    BY <1>4 DEF Send
  <2>. QED BY <1>1, <1>3, <2>1
<1>6. /\ d.wire = wire /\ d.active_item = Some(a) /\ d.next_output_index = index
      /\ d.completed = e.completed /\ d.active_block = e.active_block
  BY <1>3, <1>5 DEF Shape
<1>7. d.active_item # None /\ d.active_item[1] = a  BY <1>6, SomeFacts
<1>. QED BY <1>1, <1>6, <1>7

LEMMA TallyOpen ==
  ASSUME NEW e, Typed(e), Tally(e), e.active_item = None, e.active_block = None,
         NEW item, ItemShape(item), item.content = <<>>,
         item.input # None => item.input = Some(<<>>),
         NEW d, d = OpenItem(e, item)
  PROVE  Tally(d) /\ Owes(d, item)
<1>1. PICK x : x = WireItem("output_item.added", e.next_output_index, Some(item))
  OBVIOUS
<1>2. /\ d.wire = e.wire \o <<x>>
      /\ d.completed = e.completed /\ d.active_block = e.active_block
      /\ d.active_item # None /\ d.active_item[1].item = item
      /\ d.active_item[1].output_index = e.next_output_index
      /\ d.next_output_index = e.next_output_index + 1
  BY <1>1, OpenItemTold
<1>3. d.wire = Append(e.wire, x)  BY <1>2, SendOne, TallyRead
<1>4. /\ x.kind = "output_item.added" /\ x.output_index = e.next_output_index
      /\ x.item = Some(item)
  BY <1>1 DEF WireItem
<1>5. Ledger(e.wire, e.completed, None) /\ e.next_output_index = Len(e.completed)
  BY DEF Tally
<1>6. Ledger(Append(e.wire, x), e.completed, Some(item))
  BY <1>4, <1>5, LedgerOpen
<1>7. Owes(d, item)  BY <1>2, <1>3, <1>5, <1>6 DEF Owes
<1>8. ~PartOpen(d) /\ ~CallOpen(d)  BY <1>2, NoBlock
<1>9. ToldAs(d, item)
  <2>1. ContentTold(d) = item.content /\ InputSoFar(d) = item.input
    BY <1>2, <1>8, ToldPlain
  <2>2. item.content \in Seq(Text)  OBVIOUS
  <2>. QED BY <1>2, <2>1, <2>2 DEF ToldAs, SameFace
<1>10. PartFits(d)  BY <1>8, ToldPlain
<1>. QED BY <1>2, <1>7, <1>9, <1>10 DEF Tally

(* ... and closed. *)
LEMMA CloseItemTold ==
  ASSUME NEW e, Typed(e), NEW item, NEW d, d = CloseItem(e, item)
  PROVE  /\ d.wire = e.wire \o <<WireItem("output_item.done", e.active_item[1].output_index,
                                          Some(item))>>
         /\ d.completed = Append(e.completed, item) /\ d.active_block = e.active_block
         /\ d.active_item = None /\ d.next_output_index = e.next_output_index
<1>1. PICK completed, x : /\ completed = Append(e.completed, item)
                          /\ x = WireItem("output_item.done", e.active_item[1].output_index,
                                          Some(item))
  OBVIOUS
<1>2. PICK c : c = [e EXCEPT !.active_item = None, !.completed = completed]
  OBVIOUS
<1>3. /\ Shape(c) /\ c.active_item = None /\ c.completed = completed
      /\ c.wire = e.wire /\ c.active_block = e.active_block
      /\ c.next_output_index = e.next_output_index
  BY <1>2 DEF Typed, Shape
<1>4. d = Send(c, <<x>>)  BY <1>1, <1>2 DEF CloseItem, Typed, Shape
<1>5. PICK wire : wire = e.wire \o <<x>>  OBVIOUS
<1>6. d = [c EXCEPT !.wire = wire]
  <2>1. d = [c EXCEPT !.wire = c.wire \o <<x>>]  BY <1>4 DEF Send
  <2>. QED BY <1>3, <1>5, <2>1
<1>7. /\ d.wire = wire /\ d.active_item = None /\ d.completed = completed
      /\ d.active_block = e.active_block /\ d.next_output_index = e.next_output_index
  BY <1>3, <1>6 DEF Shape
<1>. QED BY <1>1, <1>5, <1>7

LEMMA TallyClose ==
  ASSUME NEW e, Typed(e), e.active_block = None, NEW i, Owes(e, i),
         NEW j, ItemShape(j), SameFace(i, j), j.content = i.content, j.input = i.input,
         NEW d, d = CloseItem(e, j)
  PROVE  Tally(d)
<1>1. PICK x : x = WireItem("output_item.done", e.active_item[1].output_index, Some(j))
  OBVIOUS
<1>2. /\ d.wire = e.wire \o <<x>>
      /\ d.completed = Append(e.completed, j) /\ d.active_block = e.active_block
      /\ d.active_item = None /\ d.next_output_index = e.next_output_index
  BY <1>1, CloseItemTold
<1>3. Ledger(e.wire, e.completed, Some(j))  BY LedgerSame DEF Owes
<1>4. d.wire = Append(e.wire, x)
  <2>1. \E S : e.wire \in Seq(S)  BY <1>3 DEF Ledger, Readable
  <2>. QED BY <1>2, <2>1, SendOne
<1>5. x.kind = "output_item.done" /\ x.output_index = Len(e.completed) /\ x.item = Some(j)
  BY <1>1 DEF WireItem, Owes
<1>6. Ledger(Append(e.wire, x), Append(e.completed, j), None)
  BY <1>3, <1>5, LedgerEnd
<1>7. Len(d.completed) = Len(e.completed) + 1
  <2>1. PICK T : e.completed \in Seq(T)  BY <1>3 DEF Ledger
  <2>2. PICK U : U = T \union {j}  OBVIOUS
  <2>3. e.completed \in Seq(U) /\ j \in U  BY <2>1, <2>2
  <2>. QED BY <1>2, <2>3
<1>8. PartFits(d)  BY <1>2, NoBlock, ToldPlain
<1>. QED BY <1>2, <1>4, <1>6, <1>7, <1>8 DEF Tally, Owes

(* An item that has its own text is what the stream told. *)
LEMMA OwesItself ==
  ASSUME NEW e, Typed(e), Tally(e), e.active_item # None, ~PartOpen(e), ~CallOpen(e)
  PROVE  Owes(e, e.active_item[1].item)
<1>1. PICK item : item = e.active_item[1].item  OBVIOUS
<1>2. PICK i : Owes(e, i) /\ ToldAs(e, i)  BY DEF Tally
<1>3. i.content = item.content /\ i.input = item.input /\ SameFace(item, i)
  BY <1>1, <1>2, ToldPlain DEF ToldAs
<1>4. ItemShape(item)  BY <1>1, ActiveFacts
<1>5. SameFace(i, item)  BY <1>3 DEF SameFace
<1>6. Ledger(e.wire, e.completed, Some(item))
  BY <1>2, <1>3, <1>4, <1>5, LedgerSame DEF Owes
<1>. QED BY <1>1, <1>2, <1>6 DEF Owes

LEMMA TallyCompleted ==
  ASSUME NEW e, Typed(e), Tally(e), e.active_item # None, e.active_block = None,
         NEW status
  PROVE  Tally(CloseItem(e, [e.active_item[1].item EXCEPT !.status = status]))
<1>1. PICK item, j : item = e.active_item[1].item /\ j = [item EXCEPT !.status = status]
  OBVIOUS
<1>2. ItemShape(item)  BY <1>1, ActiveFacts
<1>3. Owes(e, item)  BY <1>1, NoBlock, OwesItself
<1>4. ItemShape(j) /\ SameFace(item, j) /\ j.content = item.content /\ j.input = item.input
  BY <1>1, <1>2 DEF ItemShape, SameFace
<1>5. Tally(CloseItem(e, j))  BY <1>3, <1>4, TallyClose
<1>. QED BY <1>1, <1>5

LEMMA TallyRoom ==
  ASSUME NEW e, Typed(e), Tally(e), e.active_block = None, NEW kind
  PROVE  Tally(MakeRoom(e, kind)) /\ MakeRoom(e, kind).active_block = None
<1>1. MakeRoom(e, kind).active_block = None  BY MakeRoomFacts DEF SameBooks
<1>2. CASE MakeRoom(e, kind) = e  BY <1>1, <1>2
<1>3. CASE MakeRoom(e, kind) = Completed(e) /\ e.active_item # None
  <2>1. Tally(Completed(e))  BY <1>3, TallyCompleted DEF Completed
  <2>. QED BY <1>1, <1>3, <2>1
<1>. QED BY <1>2, <1>3 DEF MakeRoom

LEMMA TallyWith ==
  ASSUME NEW e, Typed(e), Tally(e), e.active_block = None,
         NEW kind, NEW of \in {"message", "reasoning"}
  PROVE  Tally(WithItem(e, kind, of)) /\ WithItem(e, kind, of).active_block = None
<1>1. PICK room, id, item : /\ room = MakeRoom(e, kind) /\ id = GeneratedId(e, of)
                            /\ item = [Item(of, id) EXCEPT !.status = "in_progress"]
  OBVIOUS
<1>2. Tally(room) /\ Typed(room) /\ room.active_block = None
  BY <1>1, TallyRoom, MakeRoomFacts
<1>3. CASE room.active_item # None
  <2>1. WithItem(e, kind, of) = room  BY <1>1, <1>3 DEF WithItem
  <2>. QED BY <1>2, <2>1
<1>4. CASE room.active_item = None
  <2>1. ItemShape(item) /\ item.content = <<>> /\ item.input = None
    <3>1. PICK empty, none, no : empty = "" /\ none = None /\ no = <<>>  OBVIOUS
    <3>2. Item(of, id) =
            [kind |-> of, id |-> id, role |-> "assistant", call_id |-> empty, name |-> no,
             ns |-> empty, status |-> empty, payload |-> "absent", input |-> none,
             cipher |-> no, content |-> no]
      BY <3>1, Zenon DEF Item
    <3>3. ItemShape(item) /\ item.content = no /\ item.input = none
      BY <1>1, <3>2 DEF ItemShape
    <3>. QED BY <3>1, <3>3
  <2>2. PICK d : d = OpenItem(room, item)  OBVIOUS
  <2>3. WithItem(e, kind, of) = d
    <3>1. WithItem(e, kind, of) =
            IF room.active_item # None THEN room
            ELSE OpenItem(room, [Item(of, GeneratedId(e, of)) EXCEPT !.status = "in_progress"])
      BY <1>1, Zenon DEF WithItem
    <3>. QED BY <1>1, <1>4, <2>2, <3>1
  <2>4. Tally(d)  BY <1>2, <1>4, <2>1, <2>2, TallyOpen
  <2>5. d.active_block = None
    <3>1. SameBooks(OpenItem(room, item), room)  BY <1>2, <2>1, OpenItemFacts
    <3>. QED BY <1>2, <2>2, <3>1 DEF SameBooks
  <2>. QED BY <2>3, <2>4, <2>5
<1>. QED BY <1>3, <1>4

-----------------------------------------------------------------------------
(* The calls *)

LEMMA CountedTold ==
  ASSUME Typed(enc)
  PROVE  SameTold(Counted, enc)
<1>1. PICK n : n = enc.event_ordinal + 1  OBVIOUS
<1>2. PICK d : d = [enc EXCEPT !.event_ordinal = n]  OBVIOUS
<1>3. Counted = d  BY <1>1, <1>2 DEF Counted, Typed, Shape
<1>. QED BY <1>2, <1>3 DEF Typed, Shape, SameTold

LEMMA BegunTold ==
  ASSUME Typed(enc)
  PROVE  SameTold(Begun, enc)
<1>1. PICK n, c : n = enc.next_block_index + 1 /\ c = Counted  OBVIOUS
<1>2. Typed(c) /\ c.next_block_index = enc.next_block_index /\ SameTold(c, enc)
  BY <1>1, CountedFacts, CountedTold
<1>3. PICK d : d = [c EXCEPT !.next_block_index = n]  OBVIOUS
<1>4. Begun = d  BY <1>1, <1>2, <1>3 DEF Begun, Typed, Shape
<1>5. SameTold(d, c)  BY <1>2, <1>3 DEF Typed, Shape, SameTold
<1>. QED BY <1>2, <1>4, <1>5 DEF SameTold

LEMMA ClosedTold ==
  ASSUME Typed(enc)
  PROVE  SameTold(Closed, enc)
<1>1. PICK c : c = Counted  OBVIOUS
<1>2. Typed(c) /\ SameTold(c, enc)  BY <1>1, CountedFacts, CountedTold
<1>3. PICK d : d = [c EXCEPT !.active_block = None]  OBVIOUS
<1>4. Closed = d  BY <1>1, <1>3 DEF Closed
<1>5. SameTold(d, c)  BY <1>2, <1>3 DEF Typed, Shape, SameTold
<1>. QED BY <1>2, <1>4, <1>5 DEF SameTold

LEMMA LoseTold ==
  ASSUME NEW e, Typed(e), NEW what
  PROVE  SameTold(Lose(e, what), e) /\ Lose(e, what).active_block = e.active_block
         /\ Lose(e, what).delta = e.delta
<1>1. PICK losses : losses = Append(e.losses, what)  OBVIOUS
<1>2. PICK d : d = [e EXCEPT !.losses = losses]  OBVIOUS
<1>3. Lose(e, what) = d  BY <1>1, <1>2 DEF Lose, Typed, Shape
<1>4. SameTold(d, e) /\ d.active_block = e.active_block /\ d.delta = e.delta
  BY <1>2 DEF Typed, Shape, SameTold
<1>. QED BY <1>3, <1>4

LEMMA OpenTold ==
  ASSUME NEW e, Typed(e), NEW event, NEW content_index, NEW d, d = Open(e, event, content_index)
  PROVE  /\ SameTold(d, e) /\ d.active_block # None /\ d.delta = e.delta
         /\ d.active_block[1].source = event.block
         /\ d.active_block[1].text = event.block.text
         /\ d.active_block[1].content_index = content_index
         /\ d.active_block[1].fragments = <<>>
<1>1. PICK none, cited : none = <<>> /\ cited = (event.block.citations # <<>>)
  OBVIOUS
<1>2. PICK b : b = [index |-> event.index, source |-> event.block,
                    content_index |-> content_index, text |-> event.block.text,
                    fragments |-> none, citation_loss_seen |-> cited]
  OBVIOUS
<1>3. d = [e EXCEPT !.active_block = Some(b)]  BY <1>1, <1>2, Zenon DEF Open
<1>4. SameTold(d, e) /\ d.active_block = Some(b) /\ d.delta = e.delta
  BY <1>3 DEF Typed, Shape, SameTold
<1>5. d.active_block # None /\ d.active_block[1] = b  BY <1>4, SomeFacts
<1>6. /\ b.source = event.block /\ b.text = event.block.text
      /\ b.content_index = content_index /\ b.fragments = none
  BY <1>2
<1>. QED BY <1>1, <1>4, <1>5, <1>6

(* What is told of an item that is set. *)
SetTold(d, e) ==
  /\ d.wire = e.wire /\ d.completed = e.completed
  /\ d.next_output_index = e.next_output_index /\ d.active_block = e.active_block
  /\ d.active_item # None /\ d.active_item[1].output_index = e.active_item[1].output_index
  /\ d.delta = e.delta

SetTo(d, e, j) == SetTold(d, e) /\ d.active_item[1].item = j

LEMMA ItemSetTold ==
  ASSUME NEW e, Typed(e), e.active_item # None, NEW x
  PROVE  /\ \A d : d = [e EXCEPT !.active_item[1].item.content = x] =>
              SetTo(d, e, [e.active_item[1].item EXCEPT !.content = x])
         /\ \A d : d = [e EXCEPT !.active_item[1].item.cipher = x] =>
              SetTo(d, e, [e.active_item[1].item EXCEPT !.cipher = x])
<1>1. PICK a, item : /\ a = e.active_item[1] /\ item = a.item
                     /\ e.active_item = <<a>> /\ ItemShape(item)
                     /\ a = [output_index |-> a.output_index, item |-> item]
  BY ActiveFacts
<1>2. ASSUME NEW i, NEW d, d = [e EXCEPT !.active_item = <<[output_index |-> a.output_index,
                                                            item |-> i]>>]
      PROVE  SetTold(d, e) /\ d.active_item[1].item = i
  <2>1. PICK b : b = [output_index |-> a.output_index, item |-> i]  OBVIOUS
  <2>2. b.item = i /\ b.output_index = a.output_index  BY <2>1
  <2>3. /\ d.wire = e.wire /\ d.completed = e.completed /\ d.delta = e.delta
        /\ d.next_output_index = e.next_output_index /\ d.active_block = e.active_block
        /\ d.active_item = Some(b)
    BY <1>2, <2>1 DEF Typed, Shape, Some
  <2>4. d.active_item # None /\ d.active_item[1] = b  BY <2>3, SomeFacts
  <2>. QED BY <1>1, <2>2, <2>3, <2>4 DEF SetTold
<1>3. ASSUME NEW d, d = [e EXCEPT !.active_item[1].item.content = x]
      PROVE  SetTold(d, e) /\ d.active_item[1].item = [item EXCEPT !.content = x]
  <2>1. PICK i : i = [item EXCEPT !.content = x]  OBVIOUS
  <2>2. [a EXCEPT !.item.content = x] = [output_index |-> a.output_index, item |-> i]
    BY <1>1, <2>1
  <2>3. [e.active_item EXCEPT ![1].item.content = x] =
          <<[output_index |-> a.output_index, item |-> i]>>
    BY <1>1, <2>2
  <2>4. d = [e EXCEPT !.active_item = [e.active_item EXCEPT ![1].item.content = x]]
    BY <1>3 DEF Typed, Shape
  <2>. QED BY <1>2, <2>1, <2>3, <2>4
<1>4. ASSUME NEW d, d = [e EXCEPT !.active_item[1].item.cipher = x]
      PROVE  SetTold(d, e) /\ d.active_item[1].item = [item EXCEPT !.cipher = x]
  <2>1. PICK i : i = [item EXCEPT !.cipher = x]  OBVIOUS
  <2>2. [a EXCEPT !.item.cipher = x] = [output_index |-> a.output_index, item |-> i]
    BY <1>1, <2>1
  <2>3. [e.active_item EXCEPT ![1].item.cipher = x] =
          <<[output_index |-> a.output_index, item |-> i]>>
    BY <1>1, <2>2
  <2>4. d = [e EXCEPT !.active_item = [e.active_item EXCEPT ![1].item.cipher = x]]
    BY <1>4 DEF Typed, Shape
  <2>. QED BY <1>2, <2>1, <2>3, <2>4
<1>. QED BY <1>1, <1>3, <1>4 DEF SetTo

(* A block that is neither a part nor a call, or none, does not matter. *)
LEMMA TallyLike ==
  ASSUME NEW e, Tally(e), ~PartOpen(e), ~CallOpen(e), NEW d, SameTold(d, e),
         ~PartOpen(d), ~CallOpen(d)
  PROVE  Tally(d)
<1>1. /\ ContentTold(d) = ContentTold(e) /\ InputSoFar(d) = InputSoFar(e) /\ PartFits(d)
  BY ToldPlain DEF SameTold
<1>2. \A i : ToldAs(e, i) => ToldAs(d, i)  BY <1>1 DEF ToldAs, SameTold
<1>3. \A i : Owes(e, i) => Owes(d, i)  BY DEF Owes, SameTold
<1>. QED BY <1>1, <1>2, <1>3 DEF Tally, SameTold

LEMMA PlainBlock ==
  ASSUME NEW e, e.active_block[1].source.kind \notin PartKinds \union ToolKinds
  PROVE  ~PartOpen(e) /\ ~CallOpen(e)
BY DEF PartOpen, CallOpen

(* Up to the first refusal the ledger is kept. *)
Keeps(event) ==
  \/ \E e : Accepted(event, e) /\ Repeats(e)
  \/ \E e : Refused(event, e)

(* What neither announces, tells nor ends anything. *)
LEMMA HushedKinds ==
  ASSUME NEW x, x.kind \notin {"output_item.added", "output_item.done"}
                                \union PartAdded \union TextDelta \union InputDeltas
  PROVE  Hushed(x) /\ Spoken(x)
BY DEF Hushed, Concerns, Spoken

LEMMA KeptTally ==
  ASSUME NEW event, NEW e, Accepted(event, e), Tally(e), ~e.delta
  PROVE  Keeps(event)
BY DEF Keeps, Repeats

LEMMA KeptRefused ==
  ASSUME NEW event, NEW e, Refused(event, e)
  PROVE  Keeps(event)
BY DEF Keeps

LEMMA KeepMessageStart ==
  ASSUME Typed(enc), Consistent(enc), Repeats(enc), NEW event, ApplyMessageStart(event)
  PROVE  Keeps(event)
<1>1. CASE enc.started  BY <1>1, KeptRefused DEF ApplyMessageStart
<1>2. CASE ~enc.started
  <2>1. PICK c, d, x, e : /\ c = Counted /\ d = [c EXCEPT !.started = TRUE]
                          /\ x = WireCreated(TRUE) /\ e = Send(d, <<x>>)
    OBVIOUS
  <2>2. Accepted(event, e)  BY <1>2, <2>1, Zenon DEF ApplyMessageStart
  <2>3. /\ Typed(c) /\ c.active_block = enc.active_block /\ c.delta = enc.delta
        /\ SameTold(c, enc)
    BY <2>1, CountedFacts, CountedTold
  <2>4. /\ Shape(d) /\ d.started = TRUE /\ d.delta = c.delta /\ d.done = c.done
        /\ d.next_block_index = c.next_block_index /\ d.event_ordinal = c.event_ordinal
        /\ d.active_block = c.active_block /\ d.losses = c.losses /\ SameTold(d, c)
    BY <2>1, <2>3 DEF Typed, Shape, SameTold
  <2>5. Typed(d)  BY <2>3, <2>4 DEF Typed, SameTold
  <2>6. /\ e.wire = d.wire \o <<x>> /\ e.completed = d.completed
        /\ e.active_item = d.active_item /\ e.active_block = d.active_block
        /\ e.next_output_index = d.next_output_index
    BY <2>1, <2>5, SendTold
  <2>7. SameBooks(e, d)  BY <2>1, <2>5, SendFacts
  <2>8. Tally(enc)  BY DEF Repeats
  <2>9. Hushed(x) /\ Spoken(x)
    <3>1. x.kind = "created"  BY <2>1 DEF WireCreated
    <3>. QED BY <3>1, HushedKinds DEF PartAdded, TextDelta, InputDeltas
  <2>10. e.wire = Append(enc.wire, x)
    <3>1. \E S : enc.wire \in Seq(S)  BY <2>8, TallyRead
    <3>. QED BY <2>3, <2>4, <2>6, <3>1, SendOne DEF SameTold
  <2>11. Tally(e)
    BY <2>3, <2>4, <2>6, <2>8, <2>9, <2>10, TallyHush DEF SameTold
  <2>12. ~e.delta  BY <1>2, <2>3, <2>4, <2>7 DEF SameBooks, Consistent
  <2>. QED BY <2>2, <2>11, <2>12, KeptTally
<1>. QED BY <1>1, <1>2

LEMMA KeepRedactedStart ==
  ASSUME Typed(enc), Consistent(enc), Repeats(enc), NEW event \in Events,
         ApplyRedactedStart(event)
  PROVE  Keeps(event)
<1>1. PICK kinds : kinds = {"redacted_thinking"}  OBVIOUS
<1>2. Starting(event, kinds)  BY <1>1 DEF ApplyRedactedStart
<1>3. /\ IsStart(event) /\ event \in IrEvents /\ event.block.kind \in kinds
      /\ enc.active_block = None /\ ~enc.delta
  BY <1>2, StartFacts
<1>4. PICK b, d, what, e : /\ b = Begun /\ d = Open(b, event, 0)
                           /\ what = <<"block", enc.event_ordinal>> /\ e = Lose(d, what)
  OBVIOUS
<1>5. Accepted(event, e)  BY <1>4, Zenon DEF ApplyRedactedStart
<1>6. /\ Typed(b) /\ b.active_block = enc.active_block /\ SameTold(b, enc)
      /\ b.delta = enc.delta
  BY <1>4, BegunFacts, BegunTold
<1>7. /\ Typed(d) /\ SameTold(d, b) /\ d.active_block # None /\ d.delta = b.delta
      /\ d.active_block[1].source = event.block
  BY <1>3, <1>4, <1>6, OpenFacts, OpenTold
<1>8. SameTold(e, d) /\ e.active_block = d.active_block /\ e.delta = d.delta
  BY <1>4, <1>7, LoseTold
<1>9. SameTold(e, enc)  BY <1>6, <1>7, <1>8 DEF SameTold
<1>10. e.active_block[1].source.kind \notin PartKinds \union ToolKinds
  BY <1>1, <1>3, <1>7, <1>8 DEF PartKinds, ToolKinds
<1>11. Tally(e)
  BY <1>3, <1>9, <1>10, PlainBlock, NoBlock, TallyLike DEF Repeats
<1>. QED BY <1>3, <1>5, <1>6, <1>7, <1>8, <1>11, KeptTally

LEMMA TallyBegun ==
  ASSUME Typed(enc), Tally(enc), enc.active_block = None
  PROVE  /\ Tally(Begun) /\ Typed(Begun) /\ Begun.active_block = None
         /\ Begun.delta = enc.delta
<1>1. PICK b : b = Begun  OBVIOUS
<1>2. /\ Typed(b) /\ b.active_block = None /\ SameTold(b, enc) /\ b.delta = enc.delta
  BY <1>1, BegunFacts, BegunTold
<1>3. Tally(b)  BY <1>2, NoBlock, TallyLike
<1>. QED BY <1>1, <1>2, <1>3

(* A field that the stream does not tell is set. *)
LEMMA TallySet ==
  ASSUME NEW e, Typed(e), Tally(e), e.active_item # None, e.active_block = None,
         NEW d, SetTold(d, e), NEW j, d.active_item[1].item = j, ItemShape(j),
         SameFace(e.active_item[1].item, j), j.content = e.active_item[1].item.content,
         j.input = e.active_item[1].item.input
  PROVE  Tally(d)
<1>1. PICK item : item = e.active_item[1].item  OBVIOUS
<1>2. Owes(e, item)  BY <1>1, NoBlock, OwesItself
<1>3. Ledger(e.wire, e.completed, Some(j))  BY <1>1, <1>2, LedgerSame DEF Owes
<1>4. Owes(d, j)  BY <1>2, <1>3 DEF Owes, SetTold
<1>5. j.content \in Seq(Text)
  <2>1. Some(j) # None /\ Some(j)[1] = j  BY SomeFacts
  <2>2. SpelledAs(e.wire, Len(e.completed), j)  BY <1>3, <2>1 DEF Ledger, Tells
  <2>. QED BY <2>2 DEF SpelledAs
<1>6. /\ ContentTold(d) = d.active_item[1].item.content
      /\ InputSoFar(d) = d.active_item[1].item.input /\ PartFits(d)
  <2>1. ~PartOpen(d) /\ ~CallOpen(d)  BY NoBlock DEF SetTold
  <2>. QED BY <2>1, ToldPlain
<1>7. ToldAs(d, j)  BY <1>5, <1>6 DEF ToldAs, SameFace
<1>8. d.active_item # None  BY DEF SetTold
<1>. QED BY <1>4, <1>6, <1>7, <1>8 DEF Tally

LEMMA KeepEncryptedStart ==
  ASSUME Typed(enc), Consistent(enc), Repeats(enc), NEW event \in Events,
         ApplyEncryptedStart(event)
  PROVE  Keeps(event)
<1>1. PICK kinds : kinds = {"encrypted_content"}  OBVIOUS
<1>2. Starting(event, kinds)  BY <1>1 DEF ApplyEncryptedStart
<1>3. /\ IsStart(event) /\ event \in IrEvents /\ event.block.kind \in kinds
      /\ enc.active_block = None /\ ~enc.delta
  BY <1>2, StartFacts
<1>4. PICK b, ready, text, filled, e :
        /\ b = Begun /\ ready = WithItem(b, "encrypted_content", "reasoning")
        /\ text = event.block.text
        /\ filled = [ready EXCEPT !.active_item[1].item.cipher = text]
        /\ e = Open(filled, event, 0)
  OBVIOUS
<1>5. Accepted(event, e)  BY <1>4, Zenon DEF ApplyEncryptedStart
<1>6. Typed(b) /\ Tally(b) /\ b.active_block = None /\ ~b.delta
  BY <1>3, <1>4, TallyBegun DEF Repeats
<1>7. /\ Typed(ready) /\ SameBooks(ready, b) /\ ready.active_item # None
      /\ Tally(ready) /\ ready.active_block = None
  <2>1. PICK of : of = "reasoning"  OBVIOUS
  <2>2. of \in {"message", "reasoning"} /\ ready = WithItem(b, "encrypted_content", of)
    BY <1>4, <2>1
  <2>. QED BY <1>6, <2>2, WithItemFacts, TallyWith
<1>8. PICK item, j : item = ready.active_item[1].item /\ j = [item EXCEPT !.cipher = text]
  OBVIOUS
<1>9. ItemShape(item)  BY <1>7, <1>8, ActiveFacts
<1>10. ItemShape(j) /\ SameFace(item, j) /\ j.content = item.content /\ j.input = item.input
  BY <1>8, <1>9 DEF ItemShape, SameFace
<1>11. SetTold(filled, ready) /\ filled.active_item[1].item = j /\ Typed(filled)
  <2>1. filled = [ready EXCEPT !.active_item[1].item.cipher = text]  BY <1>4
  <2>2. SetTo(filled, ready, [ready.active_item[1].item EXCEPT !.cipher = text])
    BY <1>7, <2>1, ItemSetTold, ZenonT(60)
  <2>3. Typed(filled)  BY <1>7, <2>1, ItemSetFacts, ZenonT(60)
  <2>. QED BY <1>8, <2>2, <2>3 DEF SetTo
<1>12. Tally(filled)  BY <1>7, <1>8, <1>10, <1>11, TallySet
<1>13. /\ SameTold(e, filled) /\ e.active_block # None /\ e.delta = filled.delta
       /\ e.active_block[1].source = event.block
  <2>1. e = Open(filled, event, 0) /\ Typed(filled)  BY <1>4, <1>11
  <2>. QED BY <2>1, OpenTold
<1>14. e.active_block[1].source.kind \notin PartKinds \union ToolKinds
  BY <1>1, <1>3, <1>13 DEF PartKinds, ToolKinds
<1>15. filled.active_block = None /\ ~e.delta
  BY <1>6, <1>7, <1>11, <1>13 DEF SetTold, SameBooks
<1>16. Tally(e)  BY <1>12, <1>13, <1>14, <1>15, PlainBlock, NoBlock, TallyLike
<1>. QED BY <1>5, <1>15, <1>16, KeptTally

(* A text or thinking block becomes a part. *)
LEMMA KeepPartStart ==
  ASSUME Typed(enc), Consistent(enc), Repeats(enc), NEW event \in Events,
         ApplyPartStart(event)
  PROVE  Keeps(event)
<1>1. Starting(event, PartKinds)  BY DEF ApplyPartStart
<1>2. /\ IsStart(event) /\ event \in IrEvents /\ event.block.kind \in PartKinds
      /\ enc.active_block = None /\ ~enc.delta /\ event.block.text \in Text
  <2>1. event.block \in Blocks  BY <1>1, StartFacts
  <2>2. event.block.text \in Text  BY <2>1 DEF Blocks
  <2>. QED BY <1>1, <2>2, StartFacts
<1>3. PICK b, kind, of, ready : /\ b = Begun /\ kind = event.block.kind
                                /\ of = IF kind = "text" THEN "message" ELSE "reasoning"
                                /\ ready = WithItem(b, kind, of)
  OBVIOUS
<1>4. PICK i, t, content, told, losses :
        /\ i = ready.active_item[1].item /\ t = event.block.text
        /\ content = Append(i.content, t)
        /\ told = StartLosses(event.block, enc.event_ordinal)
        /\ losses = ready.losses \o told
  OBVIOUS
<1>5. PICK part, filled : /\ part = [ready EXCEPT !.active_item[1].item.content = content]
                          /\ filled = [part EXCEPT !.losses = losses]
  OBVIOUS
<1>6. PICK c, opened, x, e :
        /\ c = Len(i.content) /\ opened = Open(filled, event, c)
        /\ x = WirePart(PartAddedOf(kind), ready.active_item[1].output_index,
                        i.id, c, Some(Part("output_text", t)))
        /\ e = Send(opened, <<x>>)
  OBVIOUS
<1>7. Typed(b) /\ Tally(b) /\ b.active_block = None /\ ~b.delta
  BY <1>2, <1>3, TallyBegun DEF Repeats
<1>8. /\ Typed(ready) /\ SameBooks(ready, b) /\ ready.active_item # None
      /\ Tally(ready) /\ ready.active_block = None
  <2>1. of \in {"message", "reasoning"}  BY <1>3
  <2>. QED BY <1>3, <1>7, <2>1, WithItemFacts, TallyWith
<1>9. PICK j : j = [i EXCEPT !.content = content]  OBVIOUS
<1>10. ItemShape(i) /\ Owes(ready, i)
  BY <1>4, <1>8, NoBlock, OwesItself, ActiveFacts
<1>11. ItemShape(j) /\ SameFace(i, j) /\ j.content = content /\ j.input = i.input
  BY <1>9, <1>10 DEF ItemShape, SameFace
<1>12. /\ Typed(part) /\ SetTold(part, ready) /\ part.active_item[1].item = j
  <2>1. part = [ready EXCEPT !.active_item[1].item.content = content]  BY <1>5
  <2>2. SetTo(part, ready, [ready.active_item[1].item EXCEPT !.content = content])
    BY <1>8, <2>1, ItemSetTold, ZenonT(60)
  <2>3. Typed(part)  BY <1>8, <2>1, ItemSetFacts, ZenonT(60)
  <2>. QED BY <1>4, <1>9, <2>2, <2>3 DEF SetTo
<1>13. losses \in Seq(LossesTold)
  <2>1. enc.event_ordinal \in Nat /\ ready.losses \in Seq(LossesTold)
    BY <1>8 DEF Typed
  <2>2. told \in Seq(LossesTold)
    BY <1>1, <1>4, <2>1, StartFacts, StartLossFacts
  <2>. QED BY <1>4, <2>1, <2>2
<1>14. /\ Typed(filled) /\ SameTold(filled, part) /\ filled.delta = part.delta
       /\ filled.active_block = part.active_block
  <2>1. /\ Shape(filled) /\ filled.losses = losses
        /\ filled.started = part.started /\ filled.delta = part.delta
        /\ filled.done = part.done /\ filled.next_block_index = part.next_block_index
        /\ filled.event_ordinal = part.event_ordinal
        /\ filled.active_block = part.active_block /\ SameTold(filled, part)
    <3>1. filled = [part EXCEPT !.losses = losses]  BY <1>5
    <3>. QED BY <1>12, <3>1 DEF Typed, Shape, SameTold
  <2>. QED BY <1>12, <1>13, <2>1 DEF Typed, SameTold
<1>15. /\ Typed(opened) /\ SameTold(opened, filled) /\ opened.delta = filled.delta
       /\ opened.active_block # None /\ opened.active_block[1].source = event.block
       /\ opened.active_block[1].text = t /\ opened.active_block[1].content_index = c
  <2>1. opened = Open(filled, event, c) /\ Typed(filled)  BY <1>6, <1>14
  <2>2. /\ SameTold(opened, filled) /\ opened.delta = filled.delta
        /\ opened.active_block # None /\ opened.active_block[1].source = event.block
        /\ opened.active_block[1].text = event.block.text
        /\ opened.active_block[1].content_index = c
    BY <2>1, OpenTold
  <2>3. Typed(opened)  BY <1>2, <2>1, OpenFacts
  <2>. QED BY <1>4, <2>2, <2>3
<1>16. /\ e.wire = opened.wire \o <<x>> /\ e.completed = opened.completed
       /\ e.active_item = opened.active_item /\ e.active_block = opened.active_block
       /\ e.next_output_index = opened.next_output_index /\ SameBooks(e, opened)
  <2>1. e = Send(opened, <<x>>)  BY <1>6
  <2>. QED BY <1>15, <2>1, SendTold, SendFacts
<1>17. Accepted(event, e)
  <2>1. filled = [ready EXCEPT !.active_item[1].item.content = Append(@, event.block.text),
                              !.losses = @ \o StartLosses(event.block, enc.event_ordinal)]
    BY <1>4, <1>5, <1>8 DEF Typed, Shape
  <2>2. Accepted(event,
          LET b_ == event.block
              ready_ == WithItem(Begun, b_.kind, IF b_.kind = "text" THEN "message" ELSE "reasoning")
              active == ready_.active_item[1]
              c_ == Len(active.item.content)
              filled_ == [ready_ EXCEPT !.active_item[1].item.content = Append(@, b_.text),
                                        !.losses = @ \o StartLosses(b_, enc.event_ordinal)]
          IN  Send(Open(filled_, event, c_),
                <<WirePart(PartAddedOf(b_.kind), active.output_index, active.item.id, c_,
                           Some(Part("output_text", b_.text)))>>))
    BY Zenon DEF ApplyPartStart
  <2>3. ready = WithItem(Begun, event.block.kind,
                         IF event.block.kind = "text" THEN "message" ELSE "reasoning")
    BY <1>3, Zenon
  <2>. QED BY <1>3, <1>4, <1>6, <2>1, <2>2, <2>3, ZenonT(60)
<1>18. /\ Ledger(ready.wire, ready.completed, Some(i)) /\ i.content \in Seq(Text)
       /\ ready.active_item[1].output_index = Len(ready.completed)
       /\ ready.next_output_index = Len(ready.completed) + 1
  <2>1. Some(i) # None /\ Some(i)[1] = i  BY SomeFacts
  <2>2. SpelledAs(ready.wire, Len(ready.completed), i)
    BY <1>10, <2>1 DEF Owes, Ledger, Tells
  <2>. QED BY <1>10, <2>2 DEF Owes, SpelledAs
<1>19. /\ x.kind \in PartAdded /\ x.output_index = Len(ready.completed)
       /\ x.content_index = c /\ x.part[1].text = t
  <2>1. PICK p, k : p = Part("output_text", t) /\ k = PartAddedOf(kind)  OBVIOUS
  <2>2. p.text = t  BY <2>1 DEF Part
  <2>3. k \in PartAdded  BY <2>1 DEF PartAddedOf, PartAdded
  <2>4. /\ x.kind = k /\ x.output_index = ready.active_item[1].output_index
        /\ x.content_index = c /\ x.part = Some(p)
    BY <1>6, <2>1 DEF WirePart
  <2>. QED BY <1>18, <2>2, <2>3, <2>4, SomeFacts
<1>20. Ledger(Append(ready.wire, x), ready.completed, Some(j))
  <2>1. t \in Text /\ x.content_index = Len(i.content) /\ j.content = Append(i.content, t)
    BY <1>2, <1>4, <1>6, <1>11, <1>19
  <2>. QED BY <1>11, <1>18, <1>19, <2>1, LedgerPart
<1>21. /\ e.wire = Append(ready.wire, x) /\ e.completed = ready.completed
       /\ e.next_output_index = ready.next_output_index
       /\ e.active_item # None /\ e.active_item[1].item = j
       /\ e.active_item[1].output_index = ready.active_item[1].output_index
       /\ ~e.delta
  <2>1. \E S : ready.wire \in Seq(S)  BY <1>8, TallyRead
  <2>2. ready.wire \o <<x>> = Append(ready.wire, x)  BY <2>1, SendOne
  <2>. QED BY <1>7, <1>8, <1>12, <1>14, <1>15, <1>16, <2>2 DEF SetTold, SameTold, SameBooks
<1>22. Owes(e, j)  BY <1>18, <1>20, <1>21 DEF Owes
<1>23. /\ e.active_block # None /\ e.active_block[1].source.kind \in PartKinds
       /\ e.active_block[1].text = t /\ e.active_block[1].content_index = c
  BY <1>2, <1>15, <1>16
<1>24. PartOpen(e) /\ ~CallOpen(e)
  BY <1>23 DEF PartOpen, CallOpen, PartKinds, ToolKinds
<1>25. /\ content \in Seq(Text) /\ Len(content) = c + 1 /\ c \in Nat
       /\ [content EXCEPT ![c + 1] = t] = content
  <2>1. PICK f : f = i.content  OBVIOUS
  <2>2. /\ f \in Seq(Text) /\ t \in Text /\ content = Append(f, t) /\ c = Len(f)
    BY <1>2, <1>4, <1>6, <1>18, <2>1
  <2>3. content \in Seq(Text) /\ Len(content) = c + 1 /\ c \in Nat /\ content[c + 1] = t
    BY <2>2
  <2>4. [content EXCEPT ![c + 1] = t] = content
    <3>1. content \in [1..(c + 1) -> Text]  BY <2>3
    <3>. QED BY <2>3, <3>1
  <2>. QED BY <2>3, <2>4
<1>26. ContentTold(e) = j.content /\ InputSoFar(e) = j.input
  <2>1. ContentTold(e) = [content EXCEPT ![c + 1] = t]
    BY <1>11, <1>21, <1>23, <1>24 DEF ContentTold
  <2>2. InputSoFar(e) = j.input  BY <1>21, <1>24 DEF InputSoFar
  <2>. QED BY <1>11, <1>25, <2>1, <2>2
<1>27. ToldAs(e, j)  BY <1>11, <1>21, <1>25, <1>26 DEF ToldAs, SameFace
<1>28. PartFits(e)  BY <1>2, <1>4, <1>11, <1>21, <1>23, <1>25 DEF PartFits
<1>29. Tally(e)  BY <1>21, <1>22, <1>27, <1>28 DEF Tally
<1>. QED BY <1>17, <1>21, <1>29, KeptTally

(* The items of calls, patches and searches begin empty. *)
LEMMA ItemForBegins ==
  ASSUME NEW e, NEW block
  PROVE  /\ ItemFor(e, block).content = <<>>
         /\ block.kind \in ToolKinds => ItemFor(e, block).input = Some(<<>>)
         /\ block.kind \notin ToolKinds => ItemFor(e, block).input = None
<1>1. PICK empty, none, no : empty = "" /\ none = None /\ no = <<>>  OBVIOUS
<1>2. ASSUME NEW kind, NEW id, NEW item, item = Item(kind, id)
      PROVE  ItemShape(item) /\ item.content = no /\ item.input = none
  <2>1. item =
          [kind |-> kind, id |-> id, role |-> "assistant", call_id |-> empty, name |-> no,
           ns |-> empty, status |-> empty, payload |-> "absent", input |-> none,
           cipher |-> no, content |-> no]
    BY <1>1, <1>2, Zenon DEF Item
  <2>. QED BY <2>1 DEF ItemShape
<1>3. CallItem(e, block).content = no /\ CallItem(e, block).input = Some(<<>>)
  <2>1. PICK kind, id : kind = BlockItems[block.kind] /\ id = GeneratedId(e, kind)
    BY Zenon
  <2>2. PICK item, call_id, name, ns, input, status :
          /\ item = Item(kind, id)
          /\ call_id = block.id /\ name = SplitName(block.name).name
          /\ ns = SplitName(block.name).ns /\ input = Some(<<>>)
          /\ status = IF kind = "function_call" THEN "in_progress" ELSE ""
    BY Zenon
  <2>3. CallItem(e, block) = [item EXCEPT !.call_id = call_id, !.name = name, !.ns = ns,
                                          !.input = input, !.status = status]
    BY <2>1, <2>2, Zenon DEF CallItem
  <2>4. ItemShape(item) /\ item.content = no  BY <1>2, <2>2
  <2>. QED BY <2>2, <2>3, <2>4 DEF ItemShape
<1>4. PatchItem(e, block).content = no /\ PatchItem(e, block).input = none
  <2>1. PICK kind, id : kind = BlockItems[block.kind] /\ id = GeneratedId(e, kind)
    BY Zenon
  <2>2. PICK item, call_id, payload, status :
          /\ item = Item(kind, id)
          /\ call_id = block.id /\ payload = PayloadOf(block)
          /\ status = IF kind = "apply_patch_call" THEN "in_progress" ELSE StatusOf(block)
    BY Zenon
  <2>3. PatchItem(e, block) = [item EXCEPT !.call_id = call_id, !.payload = payload,
                                           !.status = status]
    BY <2>1, <2>2, Zenon DEF PatchItem
  <2>4. ItemShape(item) /\ item.content = no /\ item.input = none  BY <1>2, <2>2
  <2>. QED BY <2>3, <2>4 DEF ItemShape
<1>5. SearchItem(block).content = no /\ SearchItem(block).input = none
  <2>1. PICK kind, id, item, payload, status :
          /\ kind = "web_search_call" /\ id = block.id /\ item = Item(kind, id)
          /\ payload = PayloadOf(block) /\ status = StatusOf(block)
    BY Zenon
  <2>2. SearchItem(block) = [item EXCEPT !.status = status, !.payload = payload]
    BY <2>1, Zenon DEF SearchItem
  <2>3. ItemShape(item) /\ item.content = no /\ item.input = none  BY <1>2, <2>1
  <2>. QED BY <2>2, <2>3 DEF ItemShape
<1>6. /\ block.kind \in ToolKinds => ItemFor(e, block) = CallItem(e, block)
      /\ block.kind \notin ToolKinds =>
           ItemFor(e, block) = PatchItem(e, block) \/ ItemFor(e, block) = SearchItem(block)
  <2>1. PICK call, patch, search, i :
          /\ call = CallItem(e, block) /\ patch = PatchItem(e, block)
          /\ search = SearchItem(block) /\ i = ItemFor(e, block)
    OBVIOUS
  <2>2. i = CASE block.kind \in ToolKinds -> call
              [] block.kind \in ApplyPatchKinds -> patch
              [] OTHER -> search
    BY <2>1, Zenon DEF ItemFor
  <2>3. block.kind \in ToolKinds => block.kind \notin ApplyPatchKinds
    BY DEF ToolKinds, ApplyPatchKinds
  <2>. QED BY <2>1, <2>2, <2>3
<1>. QED BY <1>1, <1>3, <1>4, <1>5, <1>6

(* A call, a patch or a search is an item of its own. *)
LEMMA KeepItemStart ==
  ASSUME Typed(enc), Consistent(enc), Repeats(enc), NEW event \in Events,
         ApplyItemStart(event)
  PROVE  Keeps(event)
<1>1. PICK kinds : kinds = DOMAIN BlockItems \union {"web_search_call"}  OBVIOUS
<1>2. Starting(event, kinds)  BY <1>1 DEF ApplyItemStart
<1>3. /\ IsStart(event) /\ event \in IrEvents /\ event.block.kind \in OwnItem
      /\ enc.active_block = None /\ ~enc.delta
  <2>1. event.block.kind \in kinds  BY <1>2, StartFacts
  <2>2. event.block.kind \in OwnItem
    BY <1>1, <2>1 DEF BlockItems, OwnItem, ToolKinds, ApplyPatchKinds
  <2>. QED BY <1>2, <2>2, StartFacts
<1>4. PICK b, room, item, d, e : /\ b = Begun /\ room = MakeRoom(b, event.block.kind)
                                 /\ item = ItemFor(enc, event.block)
                                 /\ d = OpenItem(room, item) /\ e = Open(d, event, 0)
  OBVIOUS
<1>5. Accepted(event, e)  BY <1>4, Zenon DEF ApplyItemStart
<1>6. Typed(b) /\ Tally(b) /\ b.active_block = None /\ ~b.delta
  BY <1>3, <1>4, TallyBegun DEF Repeats
<1>7. /\ Typed(room) /\ SameBooks(room, b) /\ Tally(room) /\ room.active_block = None
      /\ room.active_item = None
  <2>1. ~StaysOpen(b.active_item[1].item, event.block.kind)
    BY <1>3 DEF StaysOpen, OwnItem, ToolKinds, ApplyPatchKinds
  <2>. QED BY <1>4, <1>6, <2>1, MakeRoomFacts, TallyRoom
<1>8. /\ ItemShape(item) /\ item.content = <<>>
      /\ event.block.kind \in ToolKinds => item.input = Some(<<>>)
      /\ event.block.kind \notin ToolKinds => item.input = None
  BY <1>4, ItemForShape, ItemForBegins
<1>9. Tally(d) /\ Owes(d, item)  BY <1>4, <1>7, <1>8, TallyOpen
<1>10. Typed(d) /\ d.active_block = None /\ d.active_item[1].item = item /\ ~d.delta
       /\ d.active_item # None
  <2>1. /\ Typed(OpenItem(room, item)) /\ SameBooks(OpenItem(room, item), room)
        /\ OpenItem(room, item).active_item # None
        /\ OpenItem(room, item).active_item[1].item = item
    BY <1>7, <1>8, OpenItemFacts
  <2>. QED BY <1>4, <1>6, <1>7, <2>1 DEF SameBooks
<1>11. /\ SameTold(e, d) /\ e.active_block # None /\ ~e.delta
       /\ e.active_block[1].source = event.block
       /\ e.active_block[1].fragments = <<>>
  <2>1. e = Open(d, event, 0)  BY <1>4
  <2>. QED BY <1>10, <2>1, OpenTold
<1>12. CASE event.block.kind \notin ToolKinds
  <2>1. e.active_block[1].source.kind \notin PartKinds \union ToolKinds
    BY <1>3, <1>11, <1>12 DEF OwnItem, PartKinds, ToolKinds, ApplyPatchKinds
  <2>2. Tally(e)  BY <1>9, <1>10, <1>11, <2>1, PlainBlock, NoBlock, TallyLike
  <2>. QED BY <1>5, <1>11, <2>2, KeptTally
<1>13. CASE event.block.kind \in ToolKinds
  <2>1. ~PartOpen(e) /\ CallOpen(e)
    BY <1>11, <1>13 DEF PartOpen, CallOpen, PartKinds, ToolKinds
  <2>2. ContentTold(e) = item.content
    BY <1>10, <1>11, <2>1 DEF ContentTold, SameTold
  <2>3. InputSoFar(e) = item.input
    <3>1. Concat(<<>>) = <<>>  BY ConcatEmpty
    <3>. QED BY <1>8, <1>11, <1>13, <2>1, <3>1, Zenon DEF InputSoFar
  <2>4. item.content \in Seq(Text)  BY <1>8
  <2>5. ToldAs(e, item)
    BY <1>8, <1>10, <1>11, <2>2, <2>3, <2>4 DEF ToldAs, SameFace, SameTold
  <2>6. Owes(e, item)  BY <1>9, <1>11 DEF Owes, SameTold
  <2>7. Tally(e)
    BY <1>10, <1>11, <2>1, <2>5, <2>6 DEF Tally, PartFits, SameTold
  <2>. QED BY <1>5, <1>11, <2>7, KeptTally
<1>. QED BY <1>12, <1>13

LEMMA BlockCountedTold ==
  ASSUME Typed(enc), NEW b, BlockShape(b), NEW d, d = [Counted EXCEPT !.active_block = <<b>>]
  PROVE  /\ Typed(d) /\ SameTold(d, enc) /\ d.active_block # None /\ d.active_block[1] = b
         /\ d.delta = enc.delta
<1>1. PICK c : c = Counted  OBVIOUS
<1>2. Typed(c) /\ SameTold(c, enc) /\ c.delta = enc.delta
  BY <1>1, CountedFacts, CountedTold
<1>3. d = [c EXCEPT !.active_block = Some(b)]  BY <1>1 DEF Some
<1>4. SameTold(d, c) /\ d.active_block = Some(b) /\ d.delta = c.delta
  BY <1>2, <1>3 DEF Typed, Shape, SameTold
<1>5. Typed(d)  BY BlockCounted, ZenonT(60)
<1>. QED BY <1>2, <1>4, <1>5, SomeFacts DEF SameTold

(* A part grows as it is told. *)
LEMMA KeepTextDelta ==
  ASSUME Typed(enc), Consistent(enc), Repeats(enc), NEW event \in Events,
         ApplyTextDelta(event)
  PROVE  Keeps(event)
<1>1. PICK types : types = {"text_delta", "thinking_delta"}  OBVIOUS
<1>2. Continuing(event, types)  BY <1>1 DEF ApplyTextDelta
<1>3. /\ IsDelta(event) /\ enc.active_block # None /\ event.delta.type \in types
      /\ TakesDelta(enc.active_block[1].source.kind, event.delta.type)
      /\ BlockShape(enc.active_block[1]) /\ enc.active_block = <<enc.active_block[1]>>
      /\ ~enc.delta /\ event.delta \in Deltas
  BY <1>2, ContinuingFacts
<1>4. PICK a, t, n, text, b : /\ a = enc.active_block[1] /\ t = event.delta.text
                              /\ n = a.content_index
                              /\ text = a.text \o t /\ b = [a EXCEPT !.text = text]
  OBVIOUS
<1>5. /\ BlockShape(b) /\ b.source = a.source /\ b.text = text
      /\ b.content_index = n /\ b.fragments = a.fragments
  BY <1>3, <1>4 DEF BlockShape
<1>6. PICK x, d, e :
        /\ x = WireText(IF event.delta.type = "text_delta" THEN "output_text.delta"
                        ELSE "reasoning_summary_text.delta", ActiveIndex, ActiveId, n, Some(t))
        /\ d = [Counted EXCEPT !.active_block = <<b>>]
        /\ e = Send(d, <<x>>)
  OBVIOUS
<1>7. d = [Counted EXCEPT !.active_block[1].text = @ \o event.delta.text]
  <2>1. PICK c : c = Counted  OBVIOUS
  <2>2. Typed(c) /\ c.active_block = <<a>>  BY <1>3, <1>4, <2>1, CountedFacts
  <2>3. [<<a>> EXCEPT ![1].text = @ \o event.delta.text] = <<b>>
    <3>1. [<<a>> EXCEPT ![1].text = text] = <<[a EXCEPT !.text = text]>>
      OBVIOUS
    <3>2. a.text \o event.delta.text = text  BY <1>4
    <3>. QED BY <1>4, <3>1, <3>2
  <2>4. [c EXCEPT !.active_block[1].text = @ \o event.delta.text] = [c EXCEPT !.active_block = <<b>>]
    BY <2>2, <2>3 DEF Typed, Shape
  <2>. QED BY <1>6, <2>1, <2>4
<1>8. Accepted(event, e)  BY <1>4, <1>6, <1>7, Zenon DEF ApplyTextDelta
<1>9. /\ Typed(d) /\ SameTold(d, enc) /\ d.active_block # None /\ d.active_block[1] = b
      /\ d.delta = enc.delta
  <2>1. d = [Counted EXCEPT !.active_block = <<b>>]  BY <1>6
  <2>. QED BY <1>5, <2>1, BlockCountedTold
<1>10. /\ e.wire = d.wire \o <<x>> /\ e.completed = d.completed
       /\ e.active_item = d.active_item /\ e.active_block = d.active_block
       /\ e.next_output_index = d.next_output_index /\ SameBooks(e, d)
  <2>1. e = Send(d, <<x>>)  BY <1>6
  <2>. QED BY <1>9, <2>1, SendTold, SendFacts
<1>11. a.source.kind \in PartKinds /\ a.source.kind \notin ToolKinds
  BY <1>1, <1>3, <1>4 DEF TakesDelta, PartKinds, ToolKinds
<1>12. PartOpen(enc) /\ ~CallOpen(enc) /\ PartOpen(e) /\ ~CallOpen(e)
  BY <1>3, <1>4, <1>5, <1>9, <1>10, <1>11 DEF PartOpen, CallOpen
<1>13. PICK item : item = enc.active_item[1].item  OBVIOUS
<1>14. /\ Tally(enc) /\ enc.active_item # None /\ a.text \in Text
       /\ n \in 0..(Len(item.content) - 1)
  BY <1>4, <1>12, <1>13 DEF Repeats, Tally, PartFits
<1>15. PICK i : Owes(enc, i) /\ ToldAs(enc, i)  BY <1>14 DEF Tally
<1>16. /\ ItemShape(i) /\ SameFace(item, i) /\ i.input = InputSoFar(enc)
       /\ item.content \in Seq(Text) /\ i.content = [item.content EXCEPT ![n + 1] = a.text]
  BY <1>4, <1>12, <1>13, <1>15 DEF ToldAs, ContentTold
<1>17. PICK content, j : /\ content = [item.content EXCEPT ![n + 1] = text]
                         /\ j = [i EXCEPT !.content = content]
  OBVIOUS
<1>18. t \in Text /\ text \in Text
  <2>1. t \in Text  BY <1>3, <1>4 DEF Deltas
  <2>. QED BY <1>4, <1>14, <2>1 DEF Text
<1>19. /\ Len(i.content) = Len(item.content)
       /\ content = [i.content EXCEPT ![n + 1] = @ \o t]
  <2>1. PICK f, g, k : f = item.content /\ g = i.content /\ k = n + 1  OBVIOUS
  <2>2. f \in Seq(Text) /\ k \in 1..Len(f) /\ g = [f EXCEPT ![k] = a.text] /\ a.text \in Text
    BY <1>14, <1>16, <2>1
  <2>3. g \in Seq(Text) /\ Len(g) = Len(f) /\ g[k] = a.text  BY <2>2
  <2>4. [g EXCEPT ![k] = text] = [f EXCEPT ![k] = text]  BY <2>2
  <2>5. g[k] \o t = text  BY <1>4, <2>3
  <2>6. [g EXCEPT ![k] = g[k] \o t] = [f EXCEPT ![k] = text]  BY <2>4, <2>5
  <2>. QED BY <1>17, <2>1, <2>3, <2>6
<1>20. ItemShape(j) /\ SameFace(i, j) /\ j.content = content /\ j.input = i.input
  BY <1>16, <1>17 DEF ItemShape, SameFace
<1>21. /\ x.kind \in TextDelta /\ x.output_index = Len(enc.completed) /\ x.text[1] = t
       /\ x.content_index = n
  <2>1. PICK k : k = IF event.delta.type = "text_delta" THEN "output_text.delta"
                     ELSE "reasoning_summary_text.delta"
    OBVIOUS
  <2>2. k \in TextDelta  BY <2>1 DEF TextDelta
  <2>3. /\ x.kind = k /\ x.output_index = ActiveIndex /\ x.content_index = n
        /\ x.text = Some(t)
    BY <1>6, <2>1 DEF WireText
  <2>4. ActiveIndex = Len(enc.completed)  BY <1>15 DEF ActiveIndex, Owes
  <2>. QED BY <2>2, <2>3, <2>4, SomeFacts
<1>22. Ledger(Append(enc.wire, x), enc.completed, Some(j))
  <2>1. /\ x.content_index \in 0..(Len(i.content) - 1)
        /\ j.content = [i.content EXCEPT ![x.content_index + 1] = @ \o t]
    BY <1>14, <1>19, <1>20, <1>21
  <2>2. Ledger(enc.wire, enc.completed, Some(i))  BY <1>15 DEF Owes
  <2>. QED BY <1>18, <1>20, <1>21, <2>1, <2>2, LedgerText
<1>23. /\ e.wire = Append(enc.wire, x) /\ e.completed = enc.completed
       /\ e.next_output_index = enc.next_output_index /\ e.active_item = enc.active_item
       /\ e.active_block # None /\ e.active_block[1] = b /\ ~e.delta
  <2>1. \E S : enc.wire \in Seq(S)  BY <1>14, TallyRead
  <2>2. enc.wire \o <<x>> = Append(enc.wire, x)  BY <2>1, SendOne
  <2>. QED BY <1>3, <1>9, <1>10, <2>2 DEF SameTold, SameBooks
<1>24. Owes(e, j)  BY <1>15, <1>22, <1>23 DEF Owes
<1>25. ToldAs(e, j)
  <2>1. ContentTold(e) = content
    BY <1>5, <1>12, <1>13, <1>17, <1>23 DEF ContentTold
  <2>2. InputSoFar(e) = InputSoFar(enc)  BY <1>12, <1>23 DEF InputSoFar
  <2>3. SameFace(item, j)  BY <1>16, <1>20 DEF SameFace
  <2>. QED BY <1>13, <1>16, <1>20, <1>23, <2>1, <2>2, <2>3 DEF ToldAs
<1>26. PartFits(e)  BY <1>5, <1>13, <1>14, <1>18, <1>23 DEF PartFits
<1>27. Tally(e)  BY <1>14, <1>23, <1>24, <1>25, <1>26 DEF Tally
<1>. QED BY <1>8, <1>23, <1>27, KeptTally

LEMMA KeepCitationDelta ==
  ASSUME Typed(enc), Consistent(enc), Repeats(enc), NEW event \in Events,
         ApplyCitationDelta(event)
  PROVE  Keeps(event)
<1>1. PICK types : types = {"citation_delta"}  OBVIOUS
<1>2. Continuing(event, types)  BY <1>1 DEF ApplyCitationDelta
<1>3. /\ enc.active_block # None /\ ~enc.delta
      /\ BlockShape(enc.active_block[1]) /\ enc.active_block = <<enc.active_block[1]>>
  BY <1>2, ContinuingFacts
<1>4. Tally(enc)  BY DEF Repeats
<1>5. CASE enc.active_block[1].citation_loss_seen
  <2>1. PICK e : e = Counted  OBVIOUS
  <2>2. Accepted(event, e)  BY <1>5, <2>1 DEF ApplyCitationDelta
  <2>3. SameTold(e, enc) /\ e.active_block = enc.active_block /\ e.delta = enc.delta
    BY <2>1, CountedFacts, CountedTold
  <2>4. Tally(e)  BY <1>4, <2>3, TallySame DEF SameBlock
  <2>. QED BY <1>3, <2>2, <2>3, <2>4, KeptTally
<1>6. CASE ~enc.active_block[1].citation_loss_seen
  <2>1. PICK a, seen, b : /\ a = enc.active_block[1] /\ seen = TRUE
                          /\ b = [a EXCEPT !.citation_loss_seen = seen]
    OBVIOUS
  <2>2. /\ BlockShape(b) /\ b.source = a.source /\ b.content_index = a.content_index
        /\ b.text = a.text /\ b.fragments = a.fragments
    BY <1>3, <2>1 DEF BlockShape
  <2>3. PICK d, what, e : /\ d = [Counted EXCEPT !.active_block = <<b>>]
                          /\ what = <<"citations", enc.event_ordinal>>
                          /\ e = Lose(d, what)
    OBVIOUS
  <2>4. d = [Counted EXCEPT !.active_block[1].citation_loss_seen = TRUE]
    <3>1. PICK c : c = Counted  OBVIOUS
    <3>2. Typed(c) /\ c.active_block = <<a>>  BY <1>3, <2>1, <3>1, CountedFacts
    <3>3. [<<a>> EXCEPT ![1].citation_loss_seen = TRUE] = <<b>>
      <4>1. [<<a>> EXCEPT ![1].citation_loss_seen = seen] =
              <<[a EXCEPT !.citation_loss_seen = seen]>>
        OBVIOUS
      <4>. QED BY <2>1, <4>1, Zenon
    <3>4. [c EXCEPT !.active_block[1].citation_loss_seen = TRUE] =
            [c EXCEPT !.active_block = <<b>>]
      BY <3>2, <3>3 DEF Typed, Shape
    <3>. QED BY <2>3, <3>1, <3>4
  <2>5. Accepted(event, e)  BY <1>6, <2>3, <2>4, Zenon DEF ApplyCitationDelta
  <2>6. /\ Typed(d) /\ SameTold(d, enc) /\ d.active_block # None /\ d.active_block[1] = b
        /\ d.delta = enc.delta
    <3>1. d = [Counted EXCEPT !.active_block = <<b>>]  BY <2>3
    <3>. QED BY <2>2, <3>1, BlockCountedTold
  <2>7. SameTold(e, d) /\ e.active_block = d.active_block /\ e.delta = d.delta
    <3>1. e = Lose(d, what)  BY <2>3
    <3>. QED BY <2>6, <3>1, LoseTold
  <2>8. SameTold(e, enc) /\ SameBlock(e, enc) /\ ~e.delta
    BY <1>3, <2>1, <2>2, <2>6, <2>7 DEF SameTold, SameBlock
  <2>9. Tally(e)  BY <1>4, <2>8, TallySame
  <2>. QED BY <2>5, <2>8, <2>9, KeptTally
<1>. QED BY <1>5, <1>6

LEMMA KeepSignatureDelta ==
  ASSUME Typed(enc), Consistent(enc), Repeats(enc), NEW event \in Events,
         ApplySignatureDelta(event)
  PROVE  Keeps(event)
<1>1. PICK types : types = {"signature_delta"}  OBVIOUS
<1>2. Continuing(event, types)  BY <1>1 DEF ApplySignatureDelta
<1>3. ~enc.delta  BY <1>2, ContinuingFacts
<1>4. PICK d, what, e : /\ d = Counted /\ what = <<"signature", enc.event_ordinal>>
                        /\ e = Lose(d, what)
  OBVIOUS
<1>5. Accepted(event, e)  BY <1>4, Zenon DEF ApplySignatureDelta
<1>6. /\ Typed(d) /\ SameTold(d, enc) /\ d.active_block = enc.active_block
      /\ d.delta = enc.delta
  BY <1>4, CountedFacts, CountedTold
<1>7. SameTold(e, d) /\ e.active_block = d.active_block /\ e.delta = d.delta
  BY <1>4, <1>6, LoseTold
<1>8. SameTold(e, enc) /\ SameBlock(e, enc) /\ ~e.delta
  BY <1>3, <1>6, <1>7 DEF SameTold, SameBlock
<1>9. Tally(e)  BY <1>8, TallySame DEF Repeats
<1>. QED BY <1>5, <1>8, <1>9, KeptTally

(* An event with a piece of the input of the call under way. *)
LEMMA SentInputTold ==
  ASSUME NEW t
  PROVE  /\ SentInput(t).kind \in InputDeltas /\ SentInput(t).output_index = ActiveIndex
         /\ SentInput(t).text[1] = t
<1>1. PICK k, x : k = InputDeltaKind(enc.active_block[1].source) /\ x = SentInput(t)
  OBVIOUS
<1>2. k \in InputDeltas  BY <1>1 DEF InputDeltaKind, InputDeltas
<1>3. x.kind = k /\ x.output_index = ActiveIndex /\ x.text = Some(t)
  BY <1>1 DEF SentInput, WireInput
<1>. QED BY <1>1, <1>2, <1>3, SomeFacts

(* The input of a call grows as it is told. *)
LEMMA KeepInputDelta ==
  ASSUME Typed(enc), Consistent(enc), Repeats(enc), NEW event \in Events,
         ApplyInputDelta(event)
  PROVE  Keeps(event)
<1>1. PICK types : types = {"input_json_delta", "custom_tool_input_delta"}
  OBVIOUS
<1>2. Continuing(event, types)  BY <1>1 DEF ApplyInputDelta
<1>3. /\ enc.active_block # None /\ event.delta.type \in types
      /\ TakesDelta(enc.active_block[1].source.kind, event.delta.type)
      /\ enc.active_block[1].source.kind # "redacted_thinking"
      /\ BlockShape(enc.active_block[1]) /\ enc.active_block = <<enc.active_block[1]>>
      /\ ~enc.delta /\ event.delta \in Deltas
  BY <1>2, ContinuingFacts
<1>4. PICK a, t, fragments, b : /\ a = enc.active_block[1] /\ t = event.delta.text
                                /\ fragments = Append(a.fragments, t)
                                /\ b = [a EXCEPT !.fragments = fragments]
  OBVIOUS
<1>5. t \in Text /\ a.fragments \in Seq(Text) /\ fragments \in Seq(Text)
  <2>1. t \in Text  BY <1>3, <1>4 DEF Deltas
  <2>. QED BY <1>3, <1>4, <2>1 DEF BlockShape
<1>6. BlockShape(b) /\ b.source = a.source /\ b.fragments = fragments
  BY <1>3, <1>4, <1>5 DEF BlockShape
<1>7. PICK x, d, e : /\ x = SentInput(t) /\ d = [Counted EXCEPT !.active_block = <<b>>]
                     /\ e = Send(d, <<x>>)
  OBVIOUS
<1>8. d = [Counted EXCEPT !.active_block[1].fragments = Append(@, event.delta.text)]
  <2>1. PICK c : c = Counted  OBVIOUS
  <2>2. Typed(c) /\ c.active_block = <<a>>  BY <1>3, <1>4, <2>1, CountedFacts
  <2>3. [<<a>> EXCEPT ![1].fragments = Append(@, event.delta.text)] = <<b>>
    <3>1. [<<a>> EXCEPT ![1].fragments = fragments] = <<[a EXCEPT !.fragments = fragments]>>
      OBVIOUS
    <3>2. Append(a.fragments, event.delta.text) = fragments  BY <1>4
    <3>. QED BY <1>4, <3>1, <3>2
  <2>4. [c EXCEPT !.active_block[1].fragments = Append(@, event.delta.text)] =
          [c EXCEPT !.active_block = <<b>>]
    BY <2>2, <2>3 DEF Typed, Shape
  <2>. QED BY <1>7, <2>1, <2>4
<1>9. Accepted(event, e)  BY <1>4, <1>7, <1>8, Zenon DEF ApplyInputDelta
<1>10. /\ Typed(d) /\ SameTold(d, enc) /\ d.active_block # None /\ d.active_block[1] = b
       /\ d.delta = enc.delta
  <2>1. d = [Counted EXCEPT !.active_block = <<b>>]  BY <1>7
  <2>. QED BY <1>6, <2>1, BlockCountedTold
<1>11. /\ e.wire = d.wire \o <<x>> /\ e.completed = d.completed
       /\ e.active_item = d.active_item /\ e.active_block = d.active_block
       /\ e.next_output_index = d.next_output_index /\ SameBooks(e, d)
  <2>1. e = Send(d, <<x>>)  BY <1>7
  <2>. QED BY <1>10, <2>1, SendTold, SendFacts
<1>12. a.source.kind \in ToolKinds /\ a.source.kind \notin PartKinds
  BY <1>1, <1>3, <1>4 DEF TakesDelta, PartKinds, ToolKinds
<1>13. ~PartOpen(enc) /\ CallOpen(enc) /\ ~PartOpen(e) /\ CallOpen(e)
  BY <1>3, <1>4, <1>6, <1>10, <1>11, <1>12 DEF PartOpen, CallOpen
<1>14. Tally(enc) /\ enc.active_item # None  BY <1>3 DEF Repeats, Consistent
<1>15. PICK i, s : Owes(enc, i) /\ ToldAs(enc, i) /\ s = Concat(a.fragments)
  BY <1>14 DEF Tally
<1>16. /\ ItemShape(i) /\ i.input = Some(s) /\ i.content = ContentTold(enc)
       /\ SameFace(enc.active_item[1].item, i) /\ enc.active_item[1].item.content \in Seq(Text)
  BY <1>4, <1>13, <1>15 DEF ToldAs, InputSoFar
<1>17. PICK input, j : input = Some(s \o t) /\ j = [i EXCEPT !.input = input]
  OBVIOUS
<1>18. ItemShape(j) /\ SameFace(i, j) /\ j.content = i.content /\ j.input = input
  BY <1>16, <1>17 DEF ItemShape, SameFace
<1>19. /\ x.kind \in InputDeltas /\ x.output_index = Len(enc.completed) /\ x.text[1] = t
  <2>1. ActiveIndex = Len(enc.completed)  BY <1>15 DEF ActiveIndex, Owes
  <2>. QED BY <1>7, <2>1, SentInputTold
<1>20. Ledger(Append(enc.wire, x), enc.completed, Some(j))
  <2>1. Ledger(enc.wire, enc.completed, Some(i))  BY <1>15 DEF Owes
  <2>2. j.input = Some(s \o t)  BY <1>17, <1>18
  <2>. QED BY <1>5, <1>16, <1>18, <1>19, <2>1, <2>2, LedgerInput
<1>21. /\ e.wire = Append(enc.wire, x) /\ e.completed = enc.completed
       /\ e.next_output_index = enc.next_output_index /\ e.active_item = enc.active_item
       /\ e.active_block # None /\ e.active_block[1] = b /\ ~e.delta
  <2>1. \E S : enc.wire \in Seq(S)  BY <1>14, TallyRead
  <2>2. enc.wire \o <<x>> = Append(enc.wire, x)  BY <2>1, SendOne
  <2>. QED BY <1>3, <1>10, <1>11, <2>2 DEF SameTold, SameBooks
<1>22. Owes(e, j)  BY <1>15, <1>20, <1>21 DEF Owes
<1>23. Concat(fragments) = s \o t
  <2>1. a.fragments \in Seq(Seq(Tokens)) /\ t \in Seq(Tokens)  BY <1>5 DEF Text
  <2>. QED BY <1>4, <1>15, <2>1, ConcatAppend
<1>24. ToldAs(e, j)
  <2>1. ContentTold(e) = ContentTold(enc)  BY <1>13, <1>21 DEF ContentTold
  <2>2. InputSoFar(e) = input
    BY <1>6, <1>13, <1>17, <1>21, <1>23 DEF InputSoFar
  <2>3. SameFace(enc.active_item[1].item, j)  BY <1>16, <1>18 DEF SameFace
  <2>. QED BY <1>16, <1>18, <1>21, <2>1, <2>2, <2>3 DEF ToldAs
<1>25. PartFits(e)  BY <1>13 DEF PartFits
<1>26. Tally(e)  BY <1>14, <1>21, <1>22, <1>24, <1>25 DEF Tally
<1>. QED BY <1>9, <1>21, <1>26, KeptTally

(* One or two events that say nothing new. *)
LEMMA SendTwo ==
  ASSUME NEW w, NEW x, NEW y, \E S : w \in Seq(S)
  PROVE  w \o <<x, y>> = Append(Append(w, x), y) /\ \E S : Append(w, x) \in Seq(S)
<1>1. PICK S : w \in Seq(S)  OBVIOUS
<1>2. PICK T : T = S \union {x, y}  OBVIOUS
<1>3. w \in Seq(T) /\ x \in T /\ y \in T  BY <1>1, <1>2
<1>. QED BY <1>3

LEMMA SendPair ==
  ASSUME NEW x, NEW y
  PROVE  Append(<<x>>, y) = <<x, y>>
<1>1. PICK T : T = {x, y}  OBVIOUS
<1>2. PICK f : f = <<x>>  OBVIOUS
<1>3. x \in T /\ y \in T  BY <1>1
<1>4. f \in Seq(T) /\ Len(f) = 1  BY <1>2, <1>3
<1>5. f[1] = x  BY <1>2
<1>6. Append(f, y) = <<x, y>>
  <2>1. PICK g : g = Append(f, y)  OBVIOUS
  <2>2. g \in Seq(T) /\ Len(g) = Len(f) + 1  BY <1>3, <1>4, <2>1, AppendFacts
  <2>3. Len(g) = 2  BY <1>4, <2>2
  <2>4. g[1] = x  BY <1>3, <1>4, <1>5, <2>1
  <2>5. g[2] = y
    <3>1. g[Len(f) + 1] = y  BY <1>3, <1>4, <2>1, AppendFacts
    <3>. QED BY <1>4, <3>1
  <2>6. g = [k \in 1..2 |-> g[k]]
    <3>1. g = [k \in 1..Len(g) |-> g[k]]  BY <2>2
    <3>. QED BY <2>3, <3>1, Zenon
  <2>7. g = <<x, y>>  BY <2>4, <2>5, <2>6
  <2>. QED BY <2>1, <2>7
<1>. QED BY <1>2, <1>6

LEMMA TallyQuiet ==
  ASSUME NEW e, Typed(e), Tally(e), NEW x, Hushed(x), Spoken(x)
  PROVE  Tally(Send(e, <<x>>)) /\ \A y : Hushed(y) /\ Spoken(y) => Tally(Send(e, <<x, y>>))
<1>1. \E S : e.wire \in Seq(S)  BY TallyRead
<1>2. PICK d : d = Send(e, <<x>>)  OBVIOUS
<1>3. /\ d.wire = Append(e.wire, x) /\ d.completed = e.completed /\ Typed(d)
      /\ d.active_item = e.active_item /\ d.active_block = e.active_block
      /\ d.next_output_index = e.next_output_index
  <2>1. e.wire \o <<x>> = Append(e.wire, x)  BY <1>1, SendOne
  <2>. QED BY <1>2, <2>1, SendTold, SendFacts
<1>4. Tally(d)  BY <1>3, TallyHush
<1>5. ASSUME NEW y, Hushed(y), Spoken(y)
      PROVE  Tally(Send(e, <<x, y>>))
  <2>1. PICK c : c = Send(e, <<x, y>>)  OBVIOUS
  <2>2. e.wire \o <<x, y>> = Append(Append(e.wire, x), y)  BY <1>1, SendTwo
  <2>3. /\ c.wire = e.wire \o <<x, y>> /\ c.completed = e.completed
        /\ c.active_item = e.active_item /\ c.active_block = e.active_block
        /\ c.next_output_index = e.next_output_index
    BY <2>1, SendTold
  <2>4. c.wire = Append(d.wire, y)  BY <1>3, <2>2, <2>3
  <2>5. Tally(c)  BY <1>3, <1>4, <1>5, <2>3, <2>4, TallyHush
  <2>. QED BY <2>1, <2>5
<1>. QED BY <1>2, <1>4, <1>5

LEMMA KeepSilentStop ==
  ASSUME Typed(enc), Consistent(enc), Repeats(enc), NEW event \in Events,
         ApplySilentStop(event)
  PROVE  Keeps(event)
<1>1. PICK kinds, e : kinds = {"redacted_thinking", "encrypted_content"} /\ e = Closed
  OBVIOUS
<1>2. Stopping(event, kinds) /\ Accepted(event, e)  BY <1>1 DEF ApplySilentStop
<1>3. enc.active_block[1].source.kind \in kinds /\ ~enc.delta
  BY <1>2, StoppingFacts
<1>4. enc.active_block[1].source.kind \notin PartKinds \union ToolKinds
  BY <1>1, <1>3 DEF PartKinds, ToolKinds
<1>5. SameTold(e, enc) /\ e.active_block = None /\ e.delta = enc.delta
  BY <1>1, ClosedFacts, ClosedTold
<1>6. Tally(e)  BY <1>4, <1>5, PlainBlock, NoBlock, TallyLike DEF Repeats
<1>. QED BY <1>2, <1>3, <1>5, <1>6, KeptTally

(* A part keeps its text. *)
LEMMA KeepPartStop ==
  ASSUME Typed(enc), Consistent(enc), Repeats(enc), NEW event \in Events,
         ApplyPartStop(event)
  PROVE  Keeps(event)
<1>1. Stopping(event, PartKinds)  BY DEF ApplyPartStop
<1>2. enc.active_block # None /\ enc.active_block[1].source.kind \in PartKinds /\ ~enc.delta
  BY <1>1, StoppingFacts
<1>3. PartOpen(enc) /\ ~CallOpen(enc)
  BY <1>2 DEF PartOpen, CallOpen, PartKinds, ToolKinds
<1>4. PICK c, block, text, n, item :
        /\ c = Closed /\ block = enc.active_block[1] /\ text = PartText(block)
        /\ n = block.content_index + 1 /\ item = enc.active_item[1].item
  OBVIOUS
<1>5. text = block.text  BY <1>4 DEF PartText
<1>6. /\ Typed(c) /\ SameTold(c, enc) /\ c.active_block = None /\ c.delta = enc.delta
  BY <1>4, ClosedFacts, ClosedTold
<1>7. Tally(enc) /\ enc.active_item # None  BY <1>3 DEF Repeats, Tally, PartFits
<1>8. PICK content : content = [c.active_item[1].item.content EXCEPT ![n] = text]
  OBVIOUS
<1>9. content = [item.content EXCEPT ![n] = text]
  BY <1>4, <1>6, <1>8 DEF SameTold
<1>10. PICK i : Owes(enc, i) /\ ToldAs(enc, i)  BY <1>7 DEF Tally
<1>11. /\ ItemShape(i) /\ SameFace(item, i) /\ i.content = content /\ i.input = item.input
  BY <1>3, <1>4, <1>5, <1>9, <1>10 DEF ToldAs, ContentTold, InputSoFar
<1>12. PICK j : j = [item EXCEPT !.content = content]  OBVIOUS
<1>13. ItemShape(item)  BY <1>4, <1>7, ActiveFacts
<1>14. /\ ItemShape(j) /\ SameFace(i, j) /\ j.content = i.content /\ j.input = i.input
  BY <1>11, <1>12, <1>13 DEF ItemShape, SameFace
<1>15. Ledger(enc.wire, enc.completed, Some(j))
  BY <1>10, <1>14, LedgerSame DEF Owes
<1>16. PICK kept : kept = [c EXCEPT !.active_item[1].item.content = content]
  OBVIOUS
<1>17. SetTold(kept, c) /\ kept.active_item[1].item = j /\ Typed(kept)
  <2>1. Typed(c) /\ c.active_item # None /\ c.active_item[1].item = item
    BY <1>4, <1>6, <1>7 DEF SameTold
  <2>2. SetTo(kept, c, [c.active_item[1].item EXCEPT !.content = content])
    BY <1>16, <2>1, ItemSetTold, ZenonT(60)
  <2>3. Typed(kept)  BY <1>16, <2>1, ItemSetFacts, ZenonT(60)
  <2>. QED BY <1>12, <2>1, <2>2, <2>3 DEF SetTo
<1>18. Owes(kept, j)  BY <1>6, <1>10, <1>15, <1>17 DEF Owes, SetTold, SameTold
<1>19. j.content \in Seq(Text)
  <2>1. Some(j) # None /\ Some(j)[1] = j  BY SomeFacts
  <2>2. SpelledAs(enc.wire, Len(enc.completed), j)
    BY <1>15, <2>1 DEF Ledger, Tells
  <2>. QED BY <2>2 DEF SpelledAs
<1>20. Tally(kept) /\ ~kept.delta
  <2>1. kept.active_block = None /\ kept.active_item # None /\ ~kept.delta
    BY <1>2, <1>6, <1>17 DEF SetTold
  <2>2. ~PartOpen(kept) /\ ~CallOpen(kept)  BY <2>1, NoBlock
  <2>3. ToldAs(kept, j) /\ PartFits(kept)
    BY <1>14, <1>17, <1>19, <2>2, ToldPlain DEF ToldAs, SameFace
  <2>. QED BY <1>18, <2>1, <2>3 DEF Tally
<1>21. PICK done, said :
         /\ done = WirePart(PartDoneOf(block.source.kind), ActiveIndex, ActiveId,
                            block.content_index, Some(Part("output_text", text)))
         /\ said = WireText("output_text.done", ActiveIndex, ActiveId, block.content_index,
                            Some(text))
  OBVIOUS
<1>22. Hushed(done) /\ Spoken(done)
  <2>1. PICK k : k = PartDoneOf(block.source.kind)  OBVIOUS
  <2>2. k \in PartDone  BY <2>1 DEF PartDoneOf, PartDone
  <2>3. done.kind = k  BY <1>21, <2>1 DEF WirePart
  <2>. QED BY <2>2, <2>3, HushedKinds DEF PartDone, PartAdded, TextDelta, InputDeltas
<1>23. Hushed(said) /\ Spoken(said)
  <2>1. said.kind = "output_text.done"  BY <1>21 DEF WireText
  <2>. QED BY <2>1, HushedKinds DEF PartAdded, TextDelta, InputDeltas
<1>24. PICK one, two : one = Send(kept, <<done>>) /\ two = Send(kept, <<said, done>>)
  OBVIOUS
<1>25. Tally(one) /\ Tally(two) /\ ~one.delta /\ ~two.delta
  <2>1. Tally(one) /\ Tally(two)
    BY <1>17, <1>20, <1>22, <1>23, <1>24, TallyQuiet
  <2>2. SameBooks(one, kept) /\ SameBooks(two, kept)  BY <1>17, <1>24, SendFacts
  <2>. QED BY <1>20, <2>1, <2>2 DEF SameBooks
<1>26. Accepted(event, one) \/ Accepted(event, two)
  <2>1. kept = [Closed EXCEPT !.active_item[1].item.content[enc.active_block[1].content_index + 1] =
                                PartText(enc.active_block[1])]
    BY <1>4, <1>8, <1>16
  <2>2. Accepted(event, Send(kept,
          IF block.source.kind = "thinking" THEN <<done>> ELSE <<said, done>>))
    BY <1>4, <1>21, <2>1, Zenon DEF ApplyPartStop
  <2>. QED BY <1>24, <2>2
<1>. QED BY <1>25, <1>26, KeptTally

(* A call ends with its input, which is the one that was told. *)
LEMMA KeepCallStop ==
  ASSUME Typed(enc), Consistent(enc), Repeats(enc), NEW event \in Events,
         ApplyCallStop(event)
  PROVE  Keeps(event)
<1>1. Stopping(event, ToolKinds) /\ InputFits(enc.active_block[1])
  BY DEF ApplyCallStop
<1>2. /\ enc.active_block # None /\ enc.active_block[1].source.kind \in ToolKinds
      /\ ~enc.delta /\ BlockShape(enc.active_block[1])
  BY <1>1, StoppingFacts
<1>3. ~PartOpen(enc) /\ CallOpen(enc)
  BY <1>2 DEF PartOpen, CallOpen, PartKinds, ToolKinds
<1>4. PICK c, block, text, under :
        /\ c = Closed /\ block = enc.active_block[1] /\ text = block.source.text
        /\ under = enc.active_item[1].item
  OBVIOUS
<1>5. text \in Text /\ block.fragments \in Seq(Text)
  BY <1>2, <1>4 DEF BlockShape, Blocks
<1>6. PICK input, status : /\ input = Some(text)
                           /\ status = IF block.source.kind = "tool_use" THEN "completed"
                                       ELSE under.status
  OBVIOUS
<1>7. PICK item : item = [under EXCEPT !.input = input, !.status = status]
  OBVIOUS
<1>8. PICK x, y, held : /\ x = SentInput(text) /\ y = InputDone(item)
                        /\ held = IF block.fragments = <<>> THEN <<x>> ELSE <<>>
  OBVIOUS
<1>9. PICK d, e : d = Send(c, Append(held, y)) /\ e = CloseItem(d, item)
  OBVIOUS
<1>10. Tally(enc) /\ enc.active_item # None
  <2>1. enc.active_block[1].source.kind # "redacted_thinking"
    BY <1>2 DEF ToolKinds
  <2>. QED BY <1>2, <2>1 DEF Repeats, Consistent
<1>11. ItemShape(under)  BY <1>4, <1>10, ActiveFacts
<1>12. ItemShape(item) /\ SameFace(under, item) /\ item.content = under.content
       /\ item.input = input
  BY <1>7, <1>11 DEF ItemShape, SameFace
<1>13. Accepted(event, e)
  <2>1. item = [enc.active_item[1].item EXCEPT
                  !.input = Some(enc.active_block[1].source.text),
                  !.status = IF enc.active_block[1].source.kind = "tool_use"
                             THEN "completed" ELSE @]
    BY <1>4, <1>6, <1>7, <1>11 DEF ItemShape
  <2>2. Accepted(event,
          LET block_ == enc.active_block[1]
              held_ == IF block_.fragments = <<>> THEN <<SentInput(block_.source.text)>> ELSE <<>>
              item_ == [enc.active_item[1].item EXCEPT
                          !.input = Some(block_.source.text),
                          !.status = IF block_.source.kind = "tool_use" THEN "completed" ELSE @]
          IN  CloseItem(Send(Closed, Append(held_, InputDone(item_))), item_))
    BY Zenon DEF ApplyCallStop
  <2>. QED BY <1>4, <1>8, <1>9, <2>1, <2>2, ZenonT(60)
<1>14. PICK i, s : Owes(enc, i) /\ ToldAs(enc, i) /\ s = Concat(block.fragments)
  BY <1>10 DEF Tally
<1>15. /\ ItemShape(i) /\ i.input = Some(s) /\ i.content = under.content
       /\ SameFace(under, i)
  BY <1>3, <1>4, <1>14 DEF ToldAs, ContentTold, InputSoFar
<1>16. Typed(c) /\ SameTold(c, enc) /\ c.active_block = None /\ c.delta = enc.delta
  BY <1>4, ClosedFacts, ClosedTold
<1>17. /\ d.wire = c.wire \o Append(held, y) /\ d.completed = c.completed
       /\ d.active_item = c.active_item /\ d.active_block = c.active_block
       /\ d.next_output_index = c.next_output_index /\ Typed(d) /\ SameBooks(d, c)
  BY <1>9, <1>16, SendTold, SendFacts
<1>18. Hushed(y) /\ Spoken(y)
  <2>1. y.kind \in {"function_call_arguments.done", "custom_tool_call_input.done"}
    BY <1>8 DEF InputDone, WireArgumentsDone, WireInput
  <2>. QED BY <2>1, HushedKinds DEF PartAdded, TextDelta, InputDeltas
<1>19. \E S : enc.wire \in Seq(S)  BY <1>10, TallyRead
<1>20. Ledger(enc.wire, enc.completed, Some(i))  BY <1>14 DEF Owes
<1>21. \E j : /\ ItemShape(j) /\ SameFace(under, j) /\ j.content = under.content
              /\ j.input = input /\ Ledger(d.wire, d.completed, Some(j))
  <2>1. CASE block.fragments # <<>>
    <3>1. s = text  BY <1>1, <1>4, <1>14, <2>1 DEF InputFits, SentFragments
    <3>2. d.wire = Append(enc.wire, y)
      <4>1. enc.wire \o <<y>> = Append(enc.wire, y)  BY <1>19, SendOne
      <4>2. Append(held, y) = <<y>>  BY <1>8, <2>1
      <4>. QED BY <1>16, <1>17, <4>1, <4>2 DEF SameTold
    <3>3. Ledger(d.wire, d.completed, Some(i))
      BY <1>16, <1>17, <1>18, <1>20, <3>2, LedgerHush DEF SameTold
    <3>. QED BY <1>6, <1>15, <3>1, <3>3
  <2>2. CASE block.fragments = <<>>
    <3>1. s = <<>>  BY <1>14, <2>2, ConcatEmpty
    <3>2. PICK grown, j : grown = Some(s \o text) /\ j = [i EXCEPT !.input = grown]
      OBVIOUS
    <3>3. ItemShape(j) /\ SameFace(i, j) /\ j.content = i.content /\ j.input = grown
      BY <1>15, <3>2 DEF ItemShape, SameFace
    <3>4. grown = input
      <4>1. s \o text = text  BY <1>5, <3>1 DEF Text
      <4>. QED BY <1>6, <3>2, <4>1
    <3>5. /\ x.kind \in InputDeltas /\ x.output_index = Len(enc.completed) /\ x.text[1] = text
      <4>1. ActiveIndex = Len(enc.completed)  BY <1>14 DEF ActiveIndex, Owes
      <4>. QED BY <1>8, <4>1, SentInputTold
    <3>6. Ledger(Append(enc.wire, x), enc.completed, Some(j))
      <4>1. j.input = Some(s \o text)  BY <3>2, <3>3
      <4>. QED BY <1>5, <1>15, <1>20, <3>3, <3>5, <4>1, LedgerInput
    <3>7. Ledger(Append(Append(enc.wire, x), y), enc.completed, Some(j))
      BY <1>18, <3>6, LedgerHush
    <3>8. d.wire = Append(Append(enc.wire, x), y)
      <4>1. enc.wire \o <<x, y>> = Append(Append(enc.wire, x), y)
        BY <1>19, SendTwo
      <4>2. Append(held, y) = <<x, y>>
        <5>1. held = <<x>>  BY <1>8, <2>2
        <5>. QED BY <5>1, SendPair
      <4>. QED BY <1>16, <1>17, <4>1, <4>2 DEF SameTold
    <3>9. SameFace(under, j) /\ j.content = under.content
      BY <1>15, <3>3 DEF SameFace
    <3>. QED BY <1>16, <1>17, <3>3, <3>4, <3>7, <3>8, <3>9 DEF SameTold
  <2>. QED BY <2>1, <2>2
<1>22. PICK j : /\ ItemShape(j) /\ SameFace(under, j) /\ j.content = under.content
                /\ j.input = input /\ Ledger(d.wire, d.completed, Some(j))
  BY <1>21
<1>23. Owes(d, j) /\ d.active_block = None
  BY <1>14, <1>16, <1>17, <1>22 DEF Owes, SameTold
<1>24. SameFace(j, item) /\ item.content = j.content /\ item.input = j.input
  BY <1>12, <1>22 DEF SameFace
<1>25. Tally(e)  BY <1>9, <1>12, <1>17, <1>23, <1>24, TallyClose
<1>26. ~e.delta
  <2>1. SameBooks(e, d)  BY <1>9, <1>17, CloseItemFacts
  <2>. QED BY <1>2, <1>16, <1>17, <2>1 DEF SameBooks
<1>. QED BY <1>13, <1>25, <1>26, KeptTally

LEMMA KeepItemStop ==
  ASSUME Typed(enc), Consistent(enc), Repeats(enc), NEW event \in Events,
         ApplyItemStop(event)
  PROVE  Keeps(event)
<1>1. PICK kinds : kinds = ApplyPatchKinds \union {"web_search_call"}  OBVIOUS
<1>2. Stopping(event, kinds)  BY <1>1 DEF ApplyItemStop
<1>3. /\ enc.active_block # None /\ enc.active_block[1].source.kind \in kinds /\ ~enc.delta
  BY <1>2, StoppingFacts
<1>4. /\ enc.active_block[1].source.kind \notin PartKinds \union ToolKinds
      /\ enc.active_block[1].source.kind # "redacted_thinking"
  BY <1>1, <1>3 DEF PartKinds, ToolKinds, ApplyPatchKinds
<1>5. PICK c, status, e :
        /\ c = Closed /\ status = StatusOf(enc.active_block[1].source)
        /\ e = CloseItem(c, [c.active_item[1].item EXCEPT !.status = status])
  OBVIOUS
<1>6. Typed(c) /\ SameTold(c, enc) /\ c.active_block = None /\ c.delta = enc.delta
  BY <1>5, ClosedFacts, ClosedTold
<1>7. Accepted(event, e)
  <2>1. c.active_item = enc.active_item  BY <1>6 DEF SameTold
  <2>. QED BY <1>5, <2>1, Zenon DEF ApplyItemStop
<1>8. Tally(c)  BY <1>4, <1>6, PlainBlock, NoBlock, TallyLike DEF Repeats
<1>9. c.active_item # None  BY <1>3, <1>4, <1>6 DEF Consistent, SameTold
<1>10. Tally(e)  BY <1>5, <1>6, <1>8, <1>9, TallyCompleted
<1>11. ~e.delta
  <2>1. SameBooks(e, c)  BY <1>5, <1>6, CloseItemFacts
  <2>. QED BY <1>3, <1>6, <2>1 DEF SameBooks
<1>. QED BY <1>7, <1>10, <1>11, KeptTally

(* The item under way ends with the message. *)
LEMMA TallyItemClosed ==
  ASSUME NEW e, Typed(e), Tally(e), e.active_block = None
  PROVE  Tally(ItemClosed(e))
<1>1. CASE e.active_item = None  BY <1>1 DEF ItemClosed
<1>2. CASE e.active_item # None
  <2>1. ItemClosed(e) = Completed(e)  BY <1>2 DEF ItemClosed
  <2>2. Tally(Completed(e))  BY <1>2, TallyCompleted DEF Completed
  <2>. QED BY <2>1, <2>2
<1>. QED BY <1>1, <1>2

LEMMA FinalOutput ==
  ASSUME NEW event, NEW output
  PROVE  /\ FinalResponse(event, output).output = output
         /\ FinalResponse(event, output).status \in Terminals
<1>1. ASSUME NEW status, NEW error, NEW reason, NEW usage, NEW r,
             r = Response(status, error, reason, output, usage)
      PROVE  r.output = output /\ r.status = status
  BY <1>1 DEF Response
<1>2. PICK usage, empty, none, i, f, c :
        /\ usage = Some(event.usage) /\ empty = "" /\ none = "none"
        /\ i = "incomplete" /\ f = "failed" /\ c = "completed"
  OBVIOUS
<1>3. PICK ri, rf, rc, r :
        /\ ri = Response(i, none, "max_output_tokens", output, usage)
        /\ rf = Response(f, "refusal", empty, output, usage)
        /\ rc = Response(c, none, empty, output, usage)
        /\ r = FinalResponse(event, output)
  OBVIOUS
<1>4. r = CASE event.stop_reason = "max_tokens" -> ri
            [] event.stop_reason = "refusal" -> rf
            [] OTHER -> rc
  BY <1>2, <1>3, Zenon DEF FinalResponse
<1>5. r = ri \/ r = rf \/ r = rc  BY <1>4
<1>6. /\ ri.output = output /\ ri.status = i /\ rf.output = output /\ rf.status = f
      /\ rc.output = output /\ rc.status = c
  BY <1>1, <1>3
<1>7. i \in Terminals /\ f \in Terminals /\ c \in Terminals
  BY <1>2 DEF Terminals
<1>. QED BY <1>3, <1>5, <1>6, <1>7

LEMMA LastSent ==
  ASSUME NEW w, NEW x, \E S : w \in Seq(S)
  PROVE  Append(w, x)[Len(Append(w, x))] = x
<1>1. PICK S : w \in Seq(S)  OBVIOUS
<1>2. PICK T : T = S \union {x}  OBVIOUS
<1>3. w \in Seq(T) /\ x \in T  BY <1>1, <1>2
<1>. QED BY <1>3

(* The terminal event brings the items that were told. *)
LEMMA KeepTerminal ==
  ASSUME Typed(enc), Consistent(enc), Repeats(enc), NEW event, ApplyTerminal(event)
  PROVE  Keeps(event)
<1>1. ~TerminalOutOfOrder(enc)  BY DEF ApplyTerminal
<1>2. enc.active_block = None  BY <1>1 DEF TerminalOutOfOrder
<1>3. PICK c, d, what, closed : /\ c = Counted /\ d = ItemClosed(c)
                                /\ what = <<"stop_sequence", -1>>
                                /\ closed = [d EXCEPT !.delta = TRUE]
  OBVIOUS
<1>4. PICK r, x, sent, e :
        /\ r = FinalResponse(event, closed.completed)
        /\ x = WireTerminal(r.status, Some(r)) /\ sent = Send(closed, <<x>>)
        /\ e = IF event.stop_reason = "stop_sequence" THEN Lose(sent, what) ELSE sent
  OBVIOUS
<1>5. Accepted(event, e)  BY <1>3, <1>4, Zenon DEF ApplyTerminal
<1>6. Typed(c) /\ SameTold(c, enc) /\ c.active_block = None
  BY <1>2, <1>3, CountedFacts, CountedTold
<1>7. Tally(c)  BY <1>2, <1>6, NoBlock, TallyLike DEF Repeats
<1>8. Typed(d) /\ Tally(d) /\ d.active_item = None /\ d.active_block = None
  BY <1>3, <1>6, <1>7, ItemClosedFacts, TallyItemClosed DEF SameBooks
<1>9. Typed(closed) /\ SameTold(closed, d) /\ closed.active_block = None /\ closed.delta = TRUE
  <2>1. /\ Shape(closed) /\ closed.delta = TRUE /\ SameTold(closed, d)
        /\ closed.event_ordinal = d.event_ordinal /\ closed.started = d.started
        /\ closed.done = d.done /\ closed.next_block_index = d.next_block_index
        /\ closed.active_block = d.active_block /\ closed.losses = d.losses
    BY <1>3, <1>8 DEF Typed, Shape, SameTold
  <2>. QED BY <1>8, <2>1 DEF Typed, SameTold
<1>10. Tally(closed)  BY <1>8, <1>9, NoBlock, TallyLike
<1>11. r.output = closed.completed /\ r.status \in Terminals
  BY <1>4, FinalOutput
<1>12. Hushed(x) /\ Spoken(x) /\ x.response[1] = r
  <2>1. PICK k : k = r.status  OBVIOUS
  <2>2. x.kind = k /\ x.response = Some(r)  BY <1>4, <2>1 DEF WireTerminal
  <2>3. k \in Terminals  BY <1>11, <2>1
  <2>. QED BY <2>2, <2>3, HushedKinds, SomeFacts DEF Terminals, PartAdded, TextDelta, InputDeltas
<1>13. Tally(sent)  BY <1>4, <1>9, <1>10, <1>12, TallyQuiet
<1>14. /\ sent.wire = closed.wire \o <<x>> /\ sent.completed = closed.completed
       /\ sent.active_item = closed.active_item /\ sent.active_block = closed.active_block
       /\ Typed(sent)
  BY <1>4, <1>9, SendTold, SendFacts
<1>15. Final(sent)
  <2>1. \E S : closed.wire \in Seq(S)  BY <1>10, TallyRead
  <2>2. sent.wire = Append(closed.wire, x)  BY <1>14, <2>1, SendOne
  <2>3. sent.wire[Len(sent.wire)] = x  BY <2>1, <2>2, LastSent
  <2>. QED BY <1>8, <1>9, <1>11, <1>12, <1>14, <2>3 DEF Final, SameTold
<1>16. CASE event.stop_reason # "stop_sequence"
  <2>1. e = sent  BY <1>4, <1>16
  <2>. QED BY <1>5, <1>13, <1>15, <2>1 DEF Keeps, Repeats
<1>17. CASE event.stop_reason = "stop_sequence"
  <2>1. e = Lose(sent, what)  BY <1>4, <1>17
  <2>2. SameTold(e, sent) /\ e.active_block = sent.active_block
    BY <1>14, <2>1, LoseTold
  <2>3. Tally(e)  BY <1>9, <1>13, <1>14, <2>2, NoBlock, TallyLike
  <2>4. Final(e)  BY <1>15, <2>2 DEF Final, SameTold
  <2>. QED BY <1>5, <2>3, <2>4 DEF Keeps, Repeats
<1>. QED BY <1>16, <1>17

LEMMA KeepMessageDone ==
  ASSUME Typed(enc), Consistent(enc), Repeats(enc), NEW event, ApplyMessageDone(event)
  PROVE  Keeps(event)
<1>1. CASE ~enc.delta  BY <1>1, KeptRefused DEF ApplyMessageDone
<1>2. CASE enc.delta
  <2>1. PICK c, e : c = Counted /\ e = [c EXCEPT !.done = TRUE]  OBVIOUS
  <2>2. Accepted(event, e)  BY <1>2, <2>1, Zenon DEF ApplyMessageDone
  <2>3. Typed(c) /\ SameTold(c, enc) /\ c.active_block = enc.active_block
    BY <2>1, CountedFacts, CountedTold
  <2>4. SameTold(e, c) /\ e.active_block = c.active_block
    BY <2>1, <2>3 DEF Typed, Shape, SameTold
  <2>5. SameTold(e, enc) /\ SameBlock(e, enc)
    BY <2>3, <2>4 DEF SameTold, SameBlock
  <2>6. Tally(e)  BY <2>5, TallySame DEF Repeats
  <2>7. Final(e)  BY <1>2, <2>5 DEF Repeats, Final, SameTold
  <2>. QED BY <2>2, <2>6, <2>7 DEF Keeps, Repeats
<1>. QED BY <1>1, <1>2

(* Every call keeps the ledger or is refused. *)
LEMMA EveryKept ==
  ASSUME Typed(enc), Consistent(enc), Repeats(enc), NEW event \in Events, Apply(event)
  PROVE  Keeps(event)
<1>1. CASE ApplyBlockStart(event)
  <2>1. CASE ApplyStartOutOfOrder(event) \/ ApplyStartInvalid(event)
    BY <2>1, KeptRefused DEF ApplyStartOutOfOrder, ApplyStartInvalid
  <2>. QED
    BY <1>1, <2>1, KeepPartStart, KeepRedactedStart, KeepEncryptedStart, KeepItemStart
    DEF ApplyBlockStart
<1>2. CASE ApplyBlockDelta(event)
  <2>1. CASE ApplyDeltaRefused(event)
    BY <2>1, KeptRefused DEF ApplyDeltaRefused
  <2>. QED
    BY <1>2, <2>1, KeepTextDelta, KeepCitationDelta, KeepSignatureDelta, KeepInputDelta
    DEF ApplyBlockDelta
<1>3. CASE ApplyBlockStop(event)
  <2>1. CASE ApplyStopRefused(event) \/ ApplyInputMismatch(event)
    BY <2>1, KeptRefused DEF ApplyStopRefused, ApplyInputMismatch
  <2>. QED
    BY <1>3, <2>1, KeepSilentStop, KeepPartStop, KeepCallStop, KeepItemStop
    DEF ApplyBlockStop
<1>4. CASE ApplyAfterEnd(event) \/ ApplyTerminalOutOfOrder(event) \/ ApplyTerminalRefused(event)
  BY <1>4, KeptRefused DEF ApplyAfterEnd, ApplyTerminalOutOfOrder, ApplyTerminalRefused
<1>. QED BY <1>1, <1>2, <1>3, <1>4, KeepMessageStart, KeepTerminal, KeepMessageDone DEF Apply

-----------------------------------------------------------------------------
(* The stream and its end *)

(* Up to the first refusal the ledger of the stream is that of the struct. *)
RepeatInv == EncInv /\ (Faultless => Repeats(enc))

(* At first nothing was told. *)
LEMMA NothingTold == Ledger(<<>>, <<>>, None)
<1>1. PICK w : w = <<>>  OBVIOUS
<1>2. PICK S : S = {}  OBVIOUS
<1>3. w \in Seq(S) /\ Len(w) = 0  BY <1>1, <1>2
<1>4. Readable(w)
  <2>1. \A x \in S : Spoken(x)  BY <1>2
  <2>. QED BY <1>3, <2>1 DEF Readable
<1>5. Announced(w) = <<>>
  <2>1. [n \in 1..Len(w) |-> AnnouncedBy(w[n])] = <<>>  BY <1>3
  <2>. QED BY <2>1, ConcatEmpty DEF Announced
<1>6. ASSUME NEW o \in Nat
      PROVE  Untold(w, o)
  <2>1. PartsBegun(w, o) = <<>>
    <3>1. [n \in 1..Len(w) |-> PartBegunBy(w[n], o)] = <<>>  BY <1>3
    <3>. QED BY <3>1, ConcatEmpty DEF PartsBegun
  <2>2. InputReceived(w, o) = <<>>
    <3>1. [n \in 1..Len(w) |-> InputToldBy(w[n], o)] = <<>>  BY <1>3
    <3>. QED BY <3>1, ConcatEmpty DEF InputReceived
  <2>3. EndsReceived(w, o) = <<>>
    <3>1. [n \in 1..Len(w) |-> EndToldBy(w[n], o)] = <<>>  BY <1>3
    <3>. QED BY <3>1, ConcatEmpty DEF EndsReceived
  <2>4. ASSUME NEW c \in Nat
        PROVE  TextReceived(w, o, c) = <<>>
    <3>1. [n \in 1..Len(w) |-> TextToldBy(w[n], o, c)] = <<>>  BY <1>3
    <3>. QED BY <3>1, ConcatEmpty DEF TextReceived
  <2>. QED BY <2>1, <2>2, <2>3, <2>4, Zenon DEF Untold
<1>7. Ledger(w, w, None)
  <2>1. Len(Announced(w)) = Len(w) + (IF None = None THEN 0 ELSE 1)
    <3>1. Announced(w) = w  BY <1>1, <1>5, Zenon
    <3>. QED BY <1>3, <3>1
  <2>2. \A o \in 0..(Len(w) - 1) : Tells(w, o, w[o + 1]) /\ EndsReceived(w, o) = <<w[o + 1]>>
    BY <1>3
  <2>3. \A o \in Nat : o >= Len(Announced(w)) => Untold(w, o)  BY <1>6, Zenon
  <2>4. \E T : w \in Seq(T)  BY <1>3
  <2>. QED BY <1>4, <2>1, <2>2, <2>3, <2>4, Zenon DEF Ledger
<1>. QED BY <1>1, <1>7, Zenon

LEMMA InitRepeatInv == Init => RepeatInv
<1> SUFFICES ASSUME Init
             PROVE  RepeatInv
  OBVIOUS
<1>1. PICK none, items : none = <<>> /\ items = [kind \in NumberedItems |-> 0]
  OBVIOUS
<1>2. enc = [started |-> FALSE, delta |-> FALSE, done |-> FALSE, next_block_index |-> 0,
             next_output_index |-> 0, next_item |-> items, active_item |-> None,
             active_block |-> None, completed |-> none, event_ordinal |-> 0,
             wire |-> none, losses |-> none]
  BY <1>1, Zenon DEF Init, NewEncoder
<1>3. /\ ~enc.delta /\ enc.next_output_index = 0 /\ enc.active_item = None
      /\ enc.active_block = None /\ enc.completed = none /\ enc.wire = none
  BY <1>2
<1>4. Ledger(enc.wire, enc.completed, None)  BY <1>1, <1>3, NothingTold
<1>5. Len(enc.completed) = 0  BY <1>1, <1>3
<1>6. PartFits(enc)  BY <1>3 DEF PartFits, PartOpen
<1>7. Repeats(enc)  BY <1>3, <1>4, <1>5, <1>6 DEF Repeats, Tally
<1>. QED BY <1>7, InitEncInv DEF RepeatInv

(* Each call keeps the invariant. *)
LEMMA StepRepeatInv == RepeatInv /\ [Next]_vars => RepeatInv'
<1> SUFFICES ASSUME RepeatInv, [Next]_vars
             PROVE  RepeatInv'
  OBVIOUS
<1>1. EncInv /\ EncInv'  BY StepEncInv DEF RepeatInv
<1>2. ASSUME NEW event \in Events, Apply(event), Faultless
      PROVE  Faultless' => Repeats(enc)'
  <2>1. Typed(enc) /\ Consistent(enc) /\ Repeats(enc)
    BY <1>1, <1>2 DEF EncInv, RepeatInv
  <2>2. Keeps(event)  BY <1>2, <2>1, EveryKept
  <2>3. ASSUME NEW e, Accepted(event, e), Repeats(e)
        PROVE  Repeats(enc)'
    <3>1. enc' = e  BY <2>3 DEF Accepted
    <3>. QED BY <2>3, <3>1
  <2>4. ASSUME NEW e, Refused(event, e)
        PROVE  ~Faultless'
    <3>1. PICK r : r = [after |-> Len(applied), event |-> event]  OBVIOUS
    <3>2. refused' = Some(r)  BY <1>2, <2>4, <3>1 DEF Refused, Faultless
    <3>. QED BY <3>2, SomeFacts DEF Faultless
  <2>. QED BY <2>2, <2>3, <2>4 DEF Keeps
<1>3. ASSUME NEW event \in Events, Apply(event), ~Faultless
      PROVE  ~Faultless'
  <2>1. PICK e : Accepted(event, e) \/ Refused(event, e)  BY <1>3, OneAnswer
  <2>2. refused' = refused  BY <1>3, <2>1 DEF Accepted, Refused, Faultless
  <2>. QED BY <1>3, <2>2 DEF Faultless
<1>4. CASE UNCHANGED vars
  <2>1. enc' = enc /\ refused' = refused  BY <1>4 DEF vars
  <2>2. Faultless' => Repeats(enc)'  BY <2>1 DEF RepeatInv, Faultless
  <2>. QED BY <1>1, <2>2 DEF RepeatInv
<1>. QED BY <1>1, <1>2, <1>3, <1>4 DEF Next, RepeatInv

LEMMA SpecRepeatInv == Spec => []RepeatInv
BY InitRepeatInv, StepRepeatInv, PTL DEF Spec

(* An item with the face of its announcement differs from it in nothing
   but what changes while it is under way. *)
LEMMA OneFace ==
  ASSUME NEW start, NEW item, ItemShape(start), ItemShape(item), SameFace(start, item)
  PROVE  item = [start EXCEPT !.status = item.status, !.cipher = item.cipher,
                              !.content = item.content, !.input = item.input]
<1>1. PICK status, cipher, content, input :
        status = item.status /\ cipher = item.cipher /\ content = item.content
          /\ input = item.input
  OBVIOUS
<1>2. PICK j : j = [start EXCEPT !.status = status, !.cipher = cipher,
                                 !.content = content, !.input = input]
  OBVIOUS
<1>3. /\ ItemShape(j) /\ j.status = status /\ j.cipher = cipher
      /\ j.content = content /\ j.input = input
      /\ SameFace(start, j)
  BY <1>2 DEF ItemShape, SameFace
<1>4. j = item  BY <1>1, <1>3 DEF ItemShape, SameFace
<1>. QED BY <1>1, <1>2, <1>4, Zenon

(* An item that was told and ended is one that the terminal event repeats. *)
LEMMA ToldIsRepeated ==
  ASSUME NEW w, NEW o \in Nat, NEW item, Tells(w, o, item), EndsReceived(w, o) = <<item>>
  PROVE  Repeated(w, o, item)
<1>1. PICK start : start = Announced(w)[o + 1].item[1]  OBVIOUS
<1>2. /\ Announced(w)[o + 1].output_index = o
      /\ ItemShape(start) /\ SameFace(start, item) /\ ItemShape(item)
  BY <1>1, Zenon DEF Tells, AnnouncedAs, SpelledAs
<1>3. item = [start EXCEPT !.status = item.status, !.cipher = item.cipher,
                           !.content = item.content, !.input = item.input]
  BY <1>2, OneFace
<1>4. ASSUME NEW c \in 1..Len(item.content)
      PROVE  item.content[c] = TextReceived(w, o, c - 1)
  <2>1. item.content \in Seq(Text)  BY DEF Tells, SpelledAs
  <2>2. c - 1 \in Nat /\ c - 1 < Len(item.content) /\ (c - 1) + 1 = c  BY <2>1
  <2>3. PICK d \in Nat : d = c - 1  BY <2>2
  <2>4. TextReceived(w, o, d) = IF d < Len(item.content) THEN item.content[d + 1] ELSE <<>>
    BY Zenon DEF Tells, SpelledAs
  <2>. QED BY <2>2, <2>3, <2>4
<1>5. PartsBegun(w, o) = [c \in 1..Len(item.content) |-> c - 1]
  BY Zenon DEF Tells, SpelledAs
<1>6. item.input # None => item.input[1] = InputReceived(w, o)
  BY Zenon DEF Tells, SpelledAs
<1>. QED BY <1>1, <1>2, <1>3, <1>4, <1>5, <1>6, Zenon DEF Repeated

(* Up to the first refusal, the terminal event carries every item that was
   announced, in order, and each of them as the stream told it: the same
   kind, id and name, each part with the text and each call with the input
   that the deltas spelled, and the item that its one end brought. *)
THEOREM TerminalRepeats == Spec => []TerminalRepeatsStream
<1>1. RepeatInv => TerminalRepeatsStream
  <2> SUFFICES ASSUME RepeatInv, Faultless, enc.delta
               PROVE  LET output == enc.wire[Len(enc.wire)].response[1].output
                      IN  /\ Len(output) = Len(Announced(enc.wire))
                          /\ \A o \in 0..(Len(output) - 1) :
                               Repeated(enc.wire, o, output[o + 1])
    BY DEF TerminalRepeatsStream
  <2>1. PICK output : output = enc.wire[Len(enc.wire)].response[1].output
    OBVIOUS
  <2>2. Tally(enc) /\ enc.active_item = None /\ output = enc.completed
    BY <2>1 DEF RepeatInv, Repeats, Final
  <2>3. Ledger(enc.wire, output, None)  BY <2>2 DEF Tally
  <2>4. Len(output) \in Nat  BY <2>3 DEF Ledger
  <2>5. Len(output) = Len(Announced(enc.wire))  BY <2>3, <2>4 DEF Ledger
  <2>6. ASSUME NEW o \in 0..(Len(output) - 1)
        PROVE  Repeated(enc.wire, o, output[o + 1])
    <3>1. o \in Nat  OBVIOUS
    <3>2. Tells(enc.wire, o, output[o + 1])
            /\ EndsReceived(enc.wire, o) = <<output[o + 1]>>
      BY <2>3, Zenon DEF Ledger
    <3>. QED BY <3>1, <3>2, ToldIsRepeated
  <2>. QED BY <2>1, <2>5, <2>6, Zenon
<1>. QED BY <1>1, SpecRepeatInv, PTL
=============================================================================
