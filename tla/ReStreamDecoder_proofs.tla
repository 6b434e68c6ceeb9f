----------------------- MODULE ReStreamDecoder_proofs ------------------------
(***************************************************************************)
(* Theorems about ReStreamDecoder, for every set of provider events.       *)
(***************************************************************************)
EXTENDS ReStreamDecoder, IrStream_proofs, TLAPS, FiniteSetTheorems

-----------------------------------------------------------------------------
(* Types *)

(* The parts of the type invariant that relate fields of the decoder. *)
Books(d) ==
  /\ d.flushed => d.terminated
  /\ d.terminated \/ d.item_open => d.started
  /\ d.terminated => ~d.item_open
  /\ d.item_open => d.output_index = d.next_output_index - 1
  /\ ~d.item_open => /\ ~InSkipped(d) /\ ~d.block_open
                     /\ d.function_call = None /\ d.apply_patch = None
  /\ d.skipped_item => /\ d.function_call = None /\ d.apply_patch = None
                       /\ ~d.block_open
  /\ d.function_call # None => /\ d.item_type \in CallItems
                               /\ d.function_call[1].custom <=>
                                    d.item_type = "custom_tool_call"
  /\ d.apply_patch # None => d.item_type \in PatchItems /\ ~PartOpen(d)
  /\ PartOpen(d) => d.content_index = d.next_content_index - 1
  /\ d.block_open => ~d.skipped_part /\ d.block_index < d.next_block_index

Sound(d) == d \in Decoders /\ Books(d)

(* TypeOK says that the decoder is sound. *)
LEMMA TypeOKIsSound == TypeOK <=> Sound(dec) /\ failed \in BOOLEAN
BY DEF TypeOK, Sound, Books

(* The fields that the parts relate. *)
SameBooks(o, d) ==
  /\ o.flushed = d.flushed /\ o.terminated = d.terminated /\ o.started = d.started
  /\ o.item_open = d.item_open /\ o.item_type = d.item_type
  /\ o.output_index = d.output_index /\ o.next_output_index = d.next_output_index
  /\ o.skipped_item = d.skipped_item /\ o.skipped_part = d.skipped_part
  /\ o.block_open = d.block_open
  /\ o.function_call = d.function_call /\ o.apply_patch = d.apply_patch
  /\ o.content_index = d.content_index /\ o.next_content_index = d.next_content_index
  /\ o.block_index = d.block_index

(* A change of the other fields leaves the decoder sound. *)
LEMMA BooksKept ==
  ASSUME NEW d, Sound(d), NEW o \in Decoders, SameBooks(o, d),
         o.next_block_index >= d.next_block_index
  PROVE  Sound(o)
<1>1. o.block_open => o.block_index < o.next_block_index
  BY DEF Sound, Books, SameBooks, Decoders
<1>. QED BY <1>1 DEF Sound, Books, SameBooks, InSkipped, PartOpen

(* What the provider sends has the form of the wire. *)
LEMMA WireTypes ==
  ASSUME NEW e \in Events
  PROVE  /\ e.kind \in {"output_item.added", "output_item.done"} =>
              e.output_index \in Int /\ e.item \in Option(NativeItems)
         /\ e.kind \in PartAdded \union PartDone =>
              /\ e.output_index \in Int /\ e.content_index \in Int
              /\ e.part \in Option(NativeParts)
         /\ e.kind \in TextDelta \union TextDone =>
              e.content_index \in Int /\ e.text \in Option(Text)
         /\ e.kind \in InputEvents \ {"function_call_arguments.done"} =>
              e.text \in Option(Text)
         /\ e.kind = "function_call_arguments.done" => e.text \in Text
         /\ e.kind \in Terminals => e.response \in Option(Responses)
BY DecoderAssumption DEF WireEvents, KnownEvents, PartAdded, PartDone, TextDelta, TextDone,
                         InputEvents, Terminals

(* The value of an Option, and an Option with a value. *)
LEMMA SomeTypes ==
  /\ \A S : \A o \in Option(S) : o # None => o[1] \in S
  /\ \A S : \A v \in S : Some(v) \in Option(S) /\ Some(v) # None /\ Some(v)[1] = v
  /\ \A S : None \in Option(S)
<1>1. ASSUME NEW S, NEW v \in S
      PROVE  Some(v) \in Option(S) /\ Some(v) # None /\ Some(v)[1] = v
  <2>1. PICK o : o = <<v>>  OBVIOUS
  <2>2. o \in Seq(S) /\ Len(o) <= 1 /\ o # <<>> /\ o[1] = v  BY <2>1
  <2>. QED BY <2>1, <2>2 DEF Option, None, Some
<1>2. ASSUME NEW S, NEW o \in Option(S), o # None
      PROVE  o[1] \in S
  BY <1>2 DEF Option, None
<1>3. \A S : None \in Option(S)  BY DEF Option, None
<1>. QED BY <1>1, <1>2, <1>3

(* A successful call that hands over events leaves a sound decoder. *)
LEMMA YieldsSound ==
  ASSUME TypeOK, NEW e, NEW d, Sound(d), NEW events \in Seq(IrEvents), Yields(e, d, events)
  PROVE  TypeOK'
<1>1. PICK o : o = [d EXCEPT !.events = @ \o events]  OBVIOUS
<1>2. d \in Decoders /\ d.events \o events \in Seq(IrEvents)
  BY DEF Sound, Decoders
<1>3. o \in Decoders /\ SameBooks(o, d) /\ o.next_block_index = d.next_block_index
  BY <1>1, <1>2 DEF Decoders, SameBooks
<1>4. d.next_block_index \in Nat  BY <1>2 DEF Decoders
<1>5. Sound(o)  BY <1>3, <1>4, BooksKept
<1>6. dec' = o /\ failed' = failed  BY <1>1 DEF Yields
<1>7. Sound(dec)' /\ (failed \in BOOLEAN)'  BY <1>5, <1>6, TypeOKIsSound
<1>. QED BY <1>7 DEF TypeOK, Sound, Books

(* So does a call that fails. *)
LEMMA RejectsSound ==
  ASSUME NEW d, Sound(d), Rejects(d)
  PROVE  TypeOK'
BY DEF Rejects, Sound, Books, TypeOK

(* Recording losses changes nothing else. *)
LEMMA LoseSound ==
  ASSUME NEW d, Sound(d), NEW losses \in Seq(Losses)
  PROVE  Sound(Lose(d, losses))
<1>1. PICK o : o = [d EXCEPT !.losses = @ \o losses]  OBVIOUS
<1>2. d \in Decoders /\ d.losses \o losses \in Seq(Losses) /\ d.next_block_index \in Nat
  BY DEF Sound, Decoders
<1>3. o \in Decoders /\ SameBooks(o, d) /\ o.next_block_index = d.next_block_index
  BY <1>1, <1>2 DEF Decoders, SameBooks
<1>4. Sound(o)  BY <1>2, <1>3, BooksKept
<1>. QED BY <1>1, <1>4 DEF Lose

(* Opening an item leaves it empty: nothing in it is open or skipped yet. *)
LEMMA OpenItemSound ==
  ASSUME NEW d, Sound(d), ~d.terminated, NEW e, e.item \in Option(NativeItems),
         ~AddRejected(d, e)
  PROVE  /\ Sound(OpenItem(d, e))
         /\ OpenItem(d, e).item_open /\ OpenItem(d, e).item_type = e.item[1].kind
         /\ OpenItem(d, e).function_call = None /\ OpenItem(d, e).apply_patch = None
         /\ ~PartOpen(OpenItem(d, e))
<1>0. PICK empty : empty = ""  OBVIOUS
<1>1. PICK i, n, none, zero, kind, id :
        /\ i = d.next_output_index /\ n = i + 1 /\ none = None /\ zero = 0
        /\ kind = e.item[1].kind /\ id = e.item[1].id
  OBVIOUS
<1>2. /\ d \in Decoders /\ i \in Nat /\ e.output_index = i /\ d.started /\ ~d.item_open
      /\ ~d.skipped_item /\ ~d.skipped_part /\ ~d.block_open
      /\ d.function_call = None /\ d.apply_patch = None /\ ~d.flushed
  BY <1>1 DEF Sound, Books, AddRejected, Decoders, InSkipped
<1>3. n \in Nat /\ i = n - 1 /\ zero \in Nat  BY <1>1, <1>2
<1>4. kind \in Tokens /\ id \in Tokens /\ empty \in Tokens
  <2>1. e.item[1] \in NativeItems  BY SomeTypes DEF AddRejected
  <2>. QED
    <3>1. empty \in Tokens  BY <1>0, NoToken, Zenon
    <3>. QED BY <1>1, <2>1, <3>1 DEF NativeItems
<1>5. none \in Option(Calls)  BY <1>1, SomeTypes
<1>6. PICK o : o = [d EXCEPT !.next_output_index = n, !.item_open = TRUE,
                             !.item_type = kind, !.item_id = id,
                             !.output_index = i, !.skipped_call_id = empty,
                             !.next_content_index = zero, !.function_call = none]
  OBVIOUS
<1>7. o = OpenItem(d, e)  BY <1>0, <1>1, <1>2, <1>6, Zenon DEF OpenItem
<1>8. o \in Decoders  BY <1>2, <1>3, <1>4, <1>5, <1>6 DEF Decoders
<1>9. /\ o.flushed = d.flushed /\ o.terminated = d.terminated /\ o.started = d.started
      /\ o.item_open /\ o.item_type = kind /\ o.output_index = i /\ o.next_output_index = n
      /\ o.skipped_item = d.skipped_item /\ o.skipped_part = d.skipped_part
      /\ o.block_open = d.block_open /\ o.function_call = none
      /\ o.apply_patch = d.apply_patch
  BY <1>2, <1>6 DEF Decoders
<1>10. Sound(o)
  BY <1>1, <1>2, <1>3, <1>8, <1>9 DEF Sound, Books, InSkipped, PartOpen
<1>. QED BY <1>1, <1>2, <1>7, <1>9, <1>10 DEF PartOpen

(* An item the IR does not know is skipped. *)
LEMMA SkipItemSound ==
  ASSUME NEW d, Sound(d), d.item_open, d.function_call = None, d.apply_patch = None,
         ~PartOpen(d), NEW id \in Tokens
  PROVE  /\ Sound([d EXCEPT !.skipped_item = TRUE])
         /\ Sound([[d EXCEPT !.skipped_item = TRUE] EXCEPT !.skipped_call_id = id])
<1>1. PICK o, p : o = [d EXCEPT !.skipped_item = TRUE] /\ p = [o EXCEPT !.skipped_call_id = id]
  OBVIOUS
<1>2. o \in Decoders /\ p \in Decoders  BY <1>1 DEF Sound, Decoders
<1>3. Sound(o)  BY <1>1, <1>2 DEF Sound, Books, Decoders, InSkipped, PartOpen
<1>4. SameBooks(p, o) /\ p.next_block_index = o.next_block_index /\ o.next_block_index \in Nat
  BY <1>1, <1>2, ZenonT(60) DEF Decoders, SameBooks
<1>5. Sound(p)  BY <1>2, <1>3, <1>4, BooksKept
<1>. QED BY <1>1, <1>3, <1>5

(* A call or a patch belongs to an item of its kind. *)
LEMMA HoldSound ==
  ASSUME NEW d, Sound(d), d.item_open, ~d.skipped_item, ~PartOpen(d),
         NEW call \in Option(Calls), NEW patch \in Option(Tokens),
         call # None => /\ d.item_type \in CallItems
                        /\ call[1].custom <=> d.item_type = "custom_tool_call",
         patch # None => d.item_type \in PatchItems
  PROVE  Sound([d EXCEPT !.function_call = call, !.apply_patch = patch])
<1>1. PICK o : o = [d EXCEPT !.function_call = call, !.apply_patch = patch]
  OBVIOUS
<1>2. o \in Decoders  BY <1>1 DEF Sound, Decoders
<1>3. /\ o.flushed = d.flushed /\ o.terminated = d.terminated /\ o.started = d.started
      /\ o.item_open = d.item_open /\ o.item_type = d.item_type
      /\ o.output_index = d.output_index /\ o.next_output_index = d.next_output_index
      /\ o.skipped_item = d.skipped_item /\ o.skipped_part = d.skipped_part
      /\ o.block_open = d.block_open /\ o.function_call = call /\ o.apply_patch = patch
  BY <1>1 DEF Sound, Decoders
<1>4. Sound(o)  BY <1>2, <1>3 DEF Sound, Books, InSkipped, PartOpen
<1>. QED BY <1>1, <1>4

(* A part takes the next content index. *)
LEMMA NextPartSound ==
  ASSUME NEW d, Sound(d), ~PartOpen(d), NEW e, e.content_index = d.next_content_index
  PROVE  /\ Sound(NextPart(d, e)) /\ ~PartOpen(NextPart(d, e))
         /\ NextPart(d, e).content_index = NextPart(d, e).next_content_index - 1
         /\ NextPart(d, e).item_open = d.item_open
         /\ NextPart(d, e).skipped_item = d.skipped_item
         /\ NextPart(d, e).apply_patch = d.apply_patch
         /\ NextPart(d, e).next_block_index = d.next_block_index
<1>1. PICK c, n : c = e.content_index /\ n = d.next_content_index + 1  OBVIOUS
<1>2. d \in Decoders /\ c \in Nat /\ n \in Nat /\ c = n - 1
  BY <1>1 DEF Sound, Decoders
<1>3. PICK o : o = [d EXCEPT !.next_content_index = n, !.content_index = c]
  OBVIOUS
<1>4. o = NextPart(d, e)  BY <1>1, <1>3 DEF NextPart
<1>5. o \in Decoders  BY <1>2, <1>3 DEF Decoders
<1>6. /\ o.flushed = d.flushed /\ o.terminated = d.terminated /\ o.started = d.started
      /\ o.item_open = d.item_open /\ o.item_type = d.item_type
      /\ o.output_index = d.output_index /\ o.next_output_index = d.next_output_index
      /\ o.skipped_item = d.skipped_item /\ o.skipped_part = d.skipped_part
      /\ o.block_open = d.block_open /\ o.next_block_index = d.next_block_index
      /\ o.function_call = d.function_call /\ o.apply_patch = d.apply_patch
      /\ o.content_index = c /\ o.next_content_index = n
  BY <1>2, <1>3 DEF Decoders
<1>7. Sound(o)  BY <1>5, <1>6 DEF Sound, Books, InSkipped, PartOpen
<1>. QED BY <1>2, <1>4, <1>6, <1>7 DEF PartOpen

(* The part is skipped or becomes a block. *)
LEMMA PartSound ==
  ASSUME NEW d, Sound(d), d.item_open, ~PartOpen(d), d.apply_patch = None,
         d.content_index = d.next_content_index - 1
  PROVE  /\ Sound([d EXCEPT !.skipped_part = TRUE])
         /\ ~d.skipped_item =>
              Sound([d EXCEPT !.block_open = TRUE, !.text_done = FALSE,
                              !.block_index = d.next_block_index,
                              !.next_block_index = @ + 1])
<1>1. PICK b, m : b = d.next_block_index /\ m = b + 1  OBVIOUS
<1>2. d \in Decoders /\ b \in Nat /\ m \in Nat /\ b < m
  BY <1>1 DEF Sound, Decoders
<1>3. PICK p, q :
        /\ p = [d EXCEPT !.skipped_part = TRUE]
        /\ q = [d EXCEPT !.block_open = TRUE, !.text_done = FALSE,
                         !.block_index = b, !.next_block_index = m]
  OBVIOUS
<1>4. p \in Decoders /\ q \in Decoders  BY <1>2, <1>3 DEF Decoders
<1> DEFINE
  Same(r) ==
    /\ r.flushed = d.flushed /\ r.terminated = d.terminated /\ r.started = d.started
    /\ r.item_open = d.item_open /\ r.item_type = d.item_type
    /\ r.output_index = d.output_index /\ r.next_output_index = d.next_output_index
    /\ r.skipped_item = d.skipped_item /\ r.function_call = d.function_call
    /\ r.apply_patch = d.apply_patch
    /\ r.content_index = d.content_index /\ r.next_content_index = d.next_content_index
<1>5. Same(p) /\ Same(q)
  <2>1. Same(p)  BY <1>2, <1>3 DEF Decoders
  <2>2. Same(q)  BY <1>2, <1>3 DEF Decoders
  <2>. QED BY <2>1, <2>2
<1>6. /\ p.block_open = d.block_open
      /\ q.skipped_part = d.skipped_part /\ q.block_index = b /\ q.next_block_index = m
  BY <1>2, <1>3 DEF Decoders
<1>7. Sound(p)  BY <1>4, <1>5, <1>6 DEF Sound, Books, InSkipped, PartOpen
<1>8. ~d.skipped_item => Sound(q)
  BY <1>2, <1>4, <1>5, <1>6 DEF Sound, Books, InSkipped, PartOpen
<1>. QED BY <1>1, <1>3, <1>7, <1>8

(* A part ends; its text may have ended before. *)
LEMMA PartEndSound ==
  ASSUME NEW d, Sound(d)
  PROVE  /\ Sound([d EXCEPT !.skipped_part = FALSE])
         /\ Sound([d EXCEPT !.block_open = FALSE])
         /\ Sound([d EXCEPT !.text_done = TRUE])
<1>1. PICK o, p, q : /\ o = [d EXCEPT !.skipped_part = FALSE]
                     /\ p = [d EXCEPT !.block_open = FALSE]
                     /\ q = [d EXCEPT !.text_done = TRUE]
  OBVIOUS
<1>2. o \in Decoders /\ p \in Decoders /\ q \in Decoders
  BY <1>1 DEF Sound, Decoders
<1>3. \A r \in {o, p} :
        /\ r.flushed = d.flushed /\ r.terminated = d.terminated /\ r.started = d.started
        /\ r.item_open = d.item_open /\ r.item_type = d.item_type
        /\ r.output_index = d.output_index /\ r.next_output_index = d.next_output_index
        /\ r.skipped_item = d.skipped_item /\ r.function_call = d.function_call
        /\ r.apply_patch = d.apply_patch
        /\ r.content_index = d.content_index /\ r.next_content_index = d.next_content_index
        /\ r.block_index = d.block_index /\ r.next_block_index = d.next_block_index
  BY <1>1 DEF Sound, Decoders
<1>4. /\ o.block_open = d.block_open /\ ~o.skipped_part
      /\ ~p.block_open /\ p.skipped_part = d.skipped_part
  BY <1>1 DEF Sound, Decoders
<1>5. Sound(o)  BY <1>2, <1>3, <1>4 DEF Sound, Books, InSkipped, PartOpen
<1>6. Sound(p)  BY <1>2, <1>3, <1>4 DEF Sound, Books, InSkipped, PartOpen
<1>7. /\ SameBooks(q, d) /\ q.next_block_index = d.next_block_index
      /\ d.next_block_index \in Nat
  BY <1>1 DEF Sound, Decoders, SameBooks
<1>8. Sound(q)  BY <1>2, <1>7, BooksKept
<1>. QED BY <1>1, <1>5, <1>6, <1>8

(* The call and the patch are given up; indexes may be given out. *)
LEMMA TakenSound ==
  ASSUME NEW d, Sound(d), NEW n \in Nat, n >= d.next_block_index
  PROVE  /\ Sound([d EXCEPT !.next_block_index = n])
         /\ Sound([d EXCEPT !.apply_patch = None])
         /\ Sound([d EXCEPT !.function_call = None, !.next_block_index = n])
<1>1. PICK none : none = None  OBVIOUS
<1>2. none \in Option(Calls) /\ none \in Option(Tokens)  BY <1>1, SomeTypes
<1>3. PICK o, p, q : /\ o = [d EXCEPT !.next_block_index = n]
                     /\ p = [d EXCEPT !.apply_patch = none]
                     /\ q = [d EXCEPT !.function_call = none, !.next_block_index = n]
  OBVIOUS
<1>4. o \in Decoders /\ p \in Decoders /\ q \in Decoders
  BY <1>2, <1>3 DEF Sound, Decoders
<1>5. SameBooks(o, d) /\ o.next_block_index = n
  BY <1>3 DEF Sound, Decoders, SameBooks
<1>6. Sound(o)  BY <1>4, <1>5, BooksKept
<1>7. Sound(p)
  BY <1>1, <1>3, <1>4, ZenonT(60) DEF Sound, Books, Decoders, InSkipped, PartOpen
<1>8. d.next_block_index \in Nat /\ (d.block_open => d.block_index \in Nat)
  BY DEF Sound, Decoders
<1>9. /\ q.flushed = d.flushed /\ q.terminated = d.terminated /\ q.started = d.started
      /\ q.item_open = d.item_open /\ q.item_type = d.item_type
      /\ q.output_index = d.output_index /\ q.next_output_index = d.next_output_index
      /\ q.skipped_item = d.skipped_item /\ q.skipped_part = d.skipped_part
      /\ q.block_open = d.block_open /\ q.function_call = none
      /\ q.apply_patch = d.apply_patch
      /\ q.content_index = d.content_index /\ q.next_content_index = d.next_content_index
      /\ q.block_index = d.block_index /\ q.next_block_index = n
  BY <1>3 DEF Sound, Decoders
<1>10. Sound(q)  BY <1>1, <1>4, <1>8, <1>9 DEF Sound, Books, InSkipped, PartOpen
<1>. QED BY <1>1, <1>3, <1>6, <1>7, <1>10

(* What is remembered of a patch item and of a custom call. *)
LEMMA ItemSavedSound ==
  ASSUME NEW d, Sound(d), NEW items \in Seq(NativeItems), NEW used \in BOOLEAN,
         NEW n \in Nat, n >= d.next_block_index
  PROVE  Sound([d EXCEPT !.completed_items = items, !.next_block_index = n,
                         !.tool_use_seen = used])
<1>1. PICK o : o = [d EXCEPT !.completed_items = items, !.next_block_index = n,
                             !.tool_use_seen = used]
  OBVIOUS
<1>2. o \in Decoders /\ SameBooks(o, d) /\ o.next_block_index = n
  BY <1>1 DEF Sound, Decoders, SameBooks
<1>3. Sound(o)  BY <1>2, BooksKept
<1>. QED BY <1>1, <1>3

LEMMA CallSavedSound ==
  ASSUME NEW d, Sound(d), NEW calls \in Seq(SavedCalls), NEW used \in BOOLEAN
  PROVE  Sound([d EXCEPT !.tool_use_seen = used, !.completed_custom_calls = calls])
<1>1. PICK o : o = [d EXCEPT !.tool_use_seen = used, !.completed_custom_calls = calls]
  OBVIOUS
<1>2. /\ o \in Decoders /\ SameBooks(o, d) /\ o.next_block_index = d.next_block_index
      /\ d.next_block_index \in Nat
  BY <1>1 DEF Sound, Decoders, SameBooks
<1>3. Sound(o)  BY <1>2, BooksKept
<1>. QED BY <1>1, <1>3

(* An item without an open part or a patch is closed. *)
LEMMA CloseSound ==
  ASSUME NEW d, Sound(d), ~PartOpen(d), d.apply_patch = None
  PROVE  Sound(CloseItem(d))
<1>0. PICK empty : empty = ""  OBVIOUS
<1>1. PICK none : none = None  OBVIOUS
<1>2. none \in Option(Calls)  BY <1>1, SomeTypes
<1>3. empty \in Tokens  BY <1>0, NoToken, Zenon
<1>4. PICK o : o = [d EXCEPT !.item_open = FALSE, !.item_type = empty, !.item_id = empty,
                             !.skipped_call_id = empty, !.skipped_item = FALSE,
                             !.function_call = none]
  OBVIOUS
<1>5. o = CloseItem(d)  BY <1>0, <1>1, <1>4, Zenon DEF CloseItem
<1>6. o \in Decoders  BY <1>2, <1>3, <1>4 DEF Sound, Decoders
<1>7. /\ o.flushed = d.flushed /\ o.terminated = d.terminated /\ o.started = d.started
      /\ ~o.item_open /\ ~o.skipped_item /\ o.skipped_part = d.skipped_part
      /\ o.block_open = d.block_open /\ o.function_call = none
      /\ o.apply_patch = d.apply_patch
  BY <1>4 DEF Sound, Decoders
<1>8. Sound(o)  BY <1>1, <1>6, <1>7 DEF Sound, Books, InSkipped, PartOpen
<1>. QED BY <1>5, <1>8

(* The message starts, ends, and its end is confirmed. *)
LEMMA PhaseSound ==
  ASSUME NEW d, Sound(d)
  PROVE  /\ Sound([d EXCEPT !.started = TRUE])
         /\ d.started /\ ~d.item_open => Sound([d EXCEPT !.terminated = TRUE])
         /\ d.terminated => Sound([d EXCEPT !.flushed = TRUE])
<1>1. PICK o, p, q : /\ o = [d EXCEPT !.started = TRUE] /\ p = [d EXCEPT !.terminated = TRUE]
                     /\ q = [d EXCEPT !.flushed = TRUE]
  OBVIOUS
<1>2. o \in Decoders /\ p \in Decoders /\ q \in Decoders
  BY <1>1 DEF Sound, Decoders
<1>3. Sound(o)  BY <1>1, <1>2 DEF Sound, Books, Decoders, InSkipped, PartOpen
<1>4. d.started /\ ~d.item_open => Sound(p)
  BY <1>1, <1>2 DEF Sound, Books, Decoders, InSkipped, PartOpen
<1>5. d.terminated => Sound(q)
  BY <1>1, <1>2 DEF Sound, Books, Decoders, InSkipped, PartOpen
<1>. QED BY <1>1, <1>3, <1>4, <1>5

-----------------------------------------------------------------------------
(* The events that are handed over *)

(* An item and a text, taken out of their Option. *)
LEMMA ItemFields ==
  ASSUME NEW item \in NativeItems
  PROVE  /\ item.kind \in Tokens /\ item.id \in Tokens /\ item.call_id \in Tokens
         /\ item.name \in Text /\ item.ns \in Tokens /\ item.status \in Tokens
         /\ item.payload \in Tokens /\ item.input \in Option(Text) /\ item.cipher \in Text
BY DEF NativeItems

LEMMA GivenText ==
  ASSUME NEW o \in Option(Text)
  PROVE  TextGiven(o) \in Text
BY SomeTypes, NoToken DEF TextGiven

(* A block without id and name, and one with an id. *)
LEMMA PlainBlock ==
  ASSUME NEW kind \in StreamedKinds, NEW text \in Text
  PROVE  /\ Block(kind, "", <<>>, text) \in Blocks
         /\ \A id \in Tokens : Block(kind, id, <<>>, text) \in Blocks
<1>1. \A id \in Tokens : Block(kind, id, <<>>, text) \in Blocks
  BY NoToken, BlockTypes
<1>. QED BY <1>1, NoToken, Zenon

(* The qualified name is a text. *)
LEMMA NameType ==
  ASSUME NEW name \in Text, NEW ns \in Tokens
  PROVE  QualifiedName(name, ns) \in Text
<1>1. <<ns>> \in Seq(Tokens) /\ name \in Seq(Tokens)  BY DEF Text
<1>2. <<ns>> \o name \in Seq(Tokens)  BY <1>1
<1>3. <<ns>> \o name \in Text /\ name \in Text  BY <1>2 DEF Text
<1>4. QualifiedName(name, ns) \in {name, <<ns>> \o name}
  BY Zenon DEF QualifiedName
<1>. QED BY <1>3, <1>4

(* A call as it is kept while its input comes in. *)
LEMMA CallTypes ==
  ASSUME NEW item \in NativeItems
  PROVE  Call(item) \in Calls /\ (Call(item).custom <=> item.kind = "custom_tool_call")
<1>1. PICK name, fragments, none, custom :
        /\ name = QualifiedName(item.name, item.ns) /\ none = None
        /\ fragments = (IF item.kind = "function_call" THEN item.input ELSE <<>>)
        /\ custom = (item.kind = "custom_tool_call")
  OBVIOUS
<1>2. name \in Text /\ item.call_id \in Tokens /\ item.input \in Option(Text)
  BY <1>1, ItemFields, NameType
<1>3. fragments \in Seq(Text) /\ none \in Option(Text) /\ custom \in BOOLEAN
  BY <1>1, <1>2, SomeTypes DEF Option
<1>4. PICK call : call = [call_id |-> item.call_id, name |-> name, fragments |-> fragments,
                          arguments_done |-> FALSE, custom |-> custom, snapshot |-> none]
  OBVIOUS
<1>5. call = Call(item)  BY <1>1, <1>4 DEF Call
<1>6. call \in Calls /\ call.custom = custom  BY <1>2, <1>3, <1>4 DEF Calls
<1>. QED BY <1>1, <1>5, <1>6

(* What an input event makes of it. *)
LEMMA TakeInputTypes ==
  ASSUME NEW call \in Calls, NEW e \in Events, e.kind \in InputEvents,
         call.custom <=> e.kind \notin FunctionInput
  PROVE  TakeInput(call, e) \in Calls /\ TakeInput(call, e).custom = call.custom
<1>1. CASE e.kind \in InputDeltas
  <2>1. PICK fragments : fragments = Append(call.fragments, TextGiven(e.text))
    OBVIOUS
  <2>2. TextGiven(e.text) \in Text
    BY <1>1, WireTypes, GivenText DEF InputDeltas, InputEvents
  <2>3. fragments \in Seq(Text)  BY <2>1, <2>2 DEF Calls
  <2>4. PICK c : c = [call EXCEPT !.fragments = fragments]  OBVIOUS
  <2>5. c \in Calls /\ c.custom = call.custom  BY <2>3, <2>4 DEF Calls
  <2>6. c = TakeInput(call, e)  BY <1>1, <2>1, <2>4 DEF TakeInput
  <2>. QED BY <2>5, <2>6
<1>2. CASE e.kind \notin InputDeltas
  <2>1. PICK snapshot : snapshot = (IF call.custom THEN e.text ELSE call.snapshot)
    OBVIOUS
  <2>2. snapshot \in Option(Text)
    <3>1. call.custom => e.text \in Option(Text)  BY WireTypes DEF FunctionInput
    <3>. QED BY <2>1, <3>1 DEF Calls
  <2>3. PICK c : c = [call EXCEPT !.arguments_done = TRUE, !.snapshot = snapshot]
    OBVIOUS
  <2>4. c \in Calls /\ c.custom = call.custom  BY <2>2, <2>3 DEF Calls
  <2>5. c = TakeInput(call, e)  BY <1>2, <2>1, <2>3 DEF TakeInput
  <2>. QED BY <2>4, <2>5
<1>. QED BY <1>1, <1>2

(* The block of a part and what continues it. *)
LEMMA PartTypes ==
  ASSUME NEW e \in Events
  PROVE  /\ e.kind \in PartAdded /\ e.part # None =>
              /\ PartBlock(e) \in Blocks
              /\ PartBlock(e).kind \in {"text", "thinking"}
         /\ e.kind \in TextDelta =>
              /\ DeltaOf(e) \in Deltas
              /\ DeltaOf(e).type \in {"text_delta", "thinking_delta"}
<1>1. ASSUME e.kind \in PartAdded, e.part # None
      PROVE  PartBlock(e) \in Blocks /\ PartBlock(e).kind \in {"text", "thinking"}
  <2>1. e.part[1].text \in Text  BY <1>1, WireTypes, SomeTypes DEF NativeParts
  <2>2. PICK b, c : b = Block("text", "", <<>>, e.part[1].text) /\ c = ThinkingBlock
    OBVIOUS
  <2>3. b \in Blocks /\ c \in Blocks
    BY <2>1, <2>2, NoToken, PlainBlock DEF StreamedKinds, ThinkingBlock
  <2>4. b.kind = "text" /\ c.kind = "thinking"
    BY <2>2, Zenon DEF Block, ThinkingBlock
  <2>5. PartBlock(e) \in {b, c}  BY <2>2, Zenon DEF PartBlock
  <2>. QED BY <2>3, <2>4, <2>5
<1>2. ASSUME e.kind \in TextDelta
      PROVE  DeltaOf(e) \in Deltas /\ DeltaOf(e).type \in {"text_delta", "thinking_delta"}
  <2>1. PICK text : text = TextGiven(e.text)  OBVIOUS
  <2>2. text \in Text  BY <1>2, <2>1, WireTypes, GivenText
  <2>. QED BY <2>1, <2>2 DEF DeltaOf, Delta, Deltas, DeltaTypes
<1>. QED BY <1>1, <1>2

(* The block of an item that is neither a call nor a patch. *)
LEMMA ItemBlockTypes ==
  ASSUME NEW item \in NativeItems
  PROVE  /\ ItemBlock(item) \in Option(Blocks)
         /\ Len(ItemBlock(item)) = IF ItemBlock(item) = None THEN 0 ELSE 1
         /\ ItemBlock(item) # None =>
              ItemBlock(item)[1].kind \in {"encrypted_content", "web_search_call"}
<1>1. PICK b, c : /\ b = Block("encrypted_content", "", <<>>, item.cipher)
                  /\ c = Block("web_search_call", item.id, <<>>, <<item.status, item.payload>>)
  OBVIOUS
<1>2. b \in Blocks /\ c \in Blocks
  <2>1. item.id \in Tokens /\ item.cipher \in Text  BY ItemFields
  <2>2. <<item.status, item.payload>> \in Text  BY ItemFields DEF Text
  <2>. QED BY <1>1, <2>1, <2>2, PlainBlock DEF StreamedKinds, AtomicKinds
<1>3. b.kind = "encrypted_content" /\ c.kind = "web_search_call"
  BY <1>1, Zenon DEF Block
<1>4. ItemBlock(item) \in {Some(b), Some(c), None}  BY <1>1, Zenon DEF ItemBlock
<1>5. /\ Some(b) \in Option(Blocks) /\ Some(b)[1] = b /\ Len(Some(b)) = 1 /\ Some(b) # None
      /\ Some(c) \in Option(Blocks) /\ Some(c)[1] = c /\ Len(Some(c)) = 1 /\ Some(c) # None
      /\ None \in Option(Blocks) /\ Len(None) = 0
  BY <1>2, SomeTypes DEF Some, None
<1>. QED BY <1>3, <1>4, <1>5

(* The block of a patch. *)
LEMMA PatchBlockTypes ==
  ASSUME NEW item \in NativeItems
  PROVE  /\ PatchBlock(item) \in Blocks /\ PatchBlock(item).kind \in ApplyPatchKinds
         /\ PatchBlock(item).id = item.call_id
<1>1. PICK kind, text, none :
        /\ kind = (IF item.kind = "apply_patch_call" THEN "apply_patch_tool_use"
                   ELSE "apply_patch_tool_result")
        /\ text = <<item.status, item.payload>> /\ none = <<>>
  OBVIOUS
<1>2. text \in Text /\ item.call_id \in Tokens  BY <1>1, ItemFields DEF Text
<1>3. kind \in ApplyPatchKinds /\ kind \in StreamedKinds
  BY <1>1 DEF ApplyPatchKinds, StreamedKinds, AtomicKinds
<1>4. PICK b : b = Block(kind, item.call_id, none, text)  OBVIOUS
<1>5. b \in Blocks  BY <1>1, <1>2, <1>3, <1>4, PlainBlock
<1>6. b.kind = kind /\ b.id = item.call_id  BY <1>4 DEF Block
<1>7. b = PatchBlock(item)  BY <1>1, <1>4 DEF PatchBlock
<1>. QED BY <1>3, <1>5, <1>6, <1>7

(* A unit is a block unit of the grammar. *)
LEMMA UnitIsBlock ==
  ASSUME NEW i, NEW b, NEW ds
  PROVE  Unit(i, b, ds) = BlockUnit(i, b, ds)
BY DEF Unit, BlockUnit

(* A call, whole: under the name its item gave, its fragments in order or,
   when there are none, the final input. *)
LEMMA CallUnitShape ==
  ASSUME NEW i, NEW call \in Calls, NEW item \in NativeItems, item.input # None
  PROVE  \E b \in Blocks, type \in DeltaTypes, texts \in Seq(Text) :
           /\ CallUnit(i, call, item) = BlockUnit(i, b, DeltasOf(type, texts))
           /\ texts = (IF call.fragments = <<>> THEN item.input ELSE call.fragments)
           /\ texts # <<>>
           /\ b.kind = (IF call.custom THEN "custom_tool_use" ELSE "tool_use")
           /\ b.id = call.call_id /\ b.name = call.name /\ b.text = item.input[1]
           /\ type = (IF call.custom THEN "custom_tool_input_delta" ELSE "input_json_delta")
<1>1. PICK type, texts, kind, text :
        /\ type = (IF call.custom THEN "custom_tool_input_delta" ELSE "input_json_delta")
        /\ texts = (IF call.fragments = <<>> THEN item.input ELSE call.fragments)
        /\ kind = (IF call.custom THEN "custom_tool_use" ELSE "tool_use")
        /\ text = item.input[1]
  OBVIOUS
<1>2. item.input \in Seq(Text) /\ text \in Text /\ call.fragments \in Seq(Text)
      /\ call.call_id \in Tokens /\ call.name \in Text
  BY <1>1, ItemFields, SomeTypes DEF Calls, Option
<1>3. texts \in Seq(Text) /\ texts # <<>> /\ type \in DeltaTypes /\ kind \in StreamedKinds
  BY <1>1, <1>2 DEF None, DeltaTypes, StreamedKinds, ToolKinds
<1>4. PICK b : b = Block(kind, call.call_id, call.name, text)  OBVIOUS
<1>5. b \in Blocks  BY <1>2, <1>3, <1>4, NoToken, BlockTypes
<1>6. b.kind = kind /\ b.id = call.call_id /\ b.name = call.name /\ b.text = text
  BY <1>4 DEF Block
<1>7. CallUnit(i, call, item) = BlockUnit(i, b, DeltasOf(type, texts))
  BY <1>1, <1>4, UnitIsBlock, Zenon DEF CallUnit, DeltasOf
<1>. QED BY <1>1, <1>3, <1>5, <1>6, <1>7

LEMMA CallUnitType ==
  ASSUME NEW i \in Nat, NEW call \in Calls, NEW item \in NativeItems, item.input # None
  PROVE  CallUnit(i, call, item) \in Seq(IrEvents)
<1>1. PICK b \in Blocks, type \in DeltaTypes, texts \in Seq(Text) :
        CallUnit(i, call, item) = BlockUnit(i, b, DeltasOf(type, texts))
  BY CallUnitShape
<1>. QED BY <1>1, DeltasType, UnitType

-----------------------------------------------------------------------------
(* Every call of feed keeps the types *)

LEMMA CreatedTypeOK ==
  ASSUME TypeOK, NEW e, FeedCreated(e)
  PROVE  TypeOK'
<1>1. Sound(dec)  BY TypeOKIsSound
<1>2. CASE Rejects(dec)  BY <1>1, <1>2, RejectsSound
<1>3. CASE ~Rejects(dec)
  <2>1. PICK d, events : d = [dec EXCEPT !.started = TRUE] /\ events = <<MessageStart>>
    OBVIOUS
  <2>2. Yields(e, d, events)  BY <1>3, <2>1 DEF FeedCreated
  <2>3. Sound(d) /\ events \in Seq(IrEvents)
    <3>1. Sound(d)  BY <1>1, <2>1, PhaseSound
    <3>2. MessageStart \in IrEvents  BY EventTypes
    <3>. QED BY <2>1, <3>1, <3>2
  <2>. QED BY <2>2, <2>3, YieldsSound
<1>. QED BY <1>2, <1>3

LEMMA ItemAddedTypeOK ==
  ASSUME TypeOK, NEW e \in Events, FeedItemAdded(e)
  PROVE  TypeOK'
<1>1. Sound(dec)  BY TypeOKIsSound
<1>2. CASE FeedAddRejected(e)  BY <1>1, <1>2, RejectsSound DEF FeedAddRejected
<1>3. ASSUME Adding(e)
      PROVE  /\ Sound(OpenItem(dec, e))
             /\ OpenItem(dec, e).item_open /\ OpenItem(dec, e).item_type = e.item[1].kind
             /\ OpenItem(dec, e).function_call = None /\ OpenItem(dec, e).apply_patch = None
             /\ ~PartOpen(OpenItem(dec, e))
             /\ e.item[1] \in NativeItems /\ e.output_index \in Int
  <2>1. e.kind = "output_item.added" /\ ~Ended /\ ~AddRejected(dec, e)
    BY <1>3 DEF Adding, Receives
  <2>2. e.item \in Option(NativeItems) /\ e.output_index \in Int
    BY <2>1, WireTypes
  <2>3. e.item[1] \in NativeItems  BY <2>1, <2>2, SomeTypes DEF AddRejected
  <2>. QED BY <1>1, <2>1, <2>2, <2>3, OpenItemSound DEF Ended
<1>4. PICK o, item : o = OpenItem(dec, e) /\ item = e.item[1]  OBVIOUS
<1>5. CASE FeedAddInvalid(e)  BY <1>3, <1>5, RejectsSound DEF FeedAddInvalid
<1>6. \A kind \in {"item", "cipher"} : <<kind, e.output_index>> \in Losses \/ ~Adding(e)
  BY <1>3 DEF Losses
<1>7. CASE FeedAddSkipped(e)
  <2>1. Adding(e)  BY <1>7 DEF FeedAddSkipped
  <2>2. /\ Sound(o) /\ o.item_open /\ o.function_call = None /\ o.apply_patch = None
        /\ ~PartOpen(o) /\ item.call_id \in Tokens
    BY <1>3, <1>4, <2>1, ItemFields
  <2>3. PICK p, q, losses, none :
          /\ p = [o EXCEPT !.skipped_item = TRUE]
          /\ q = [p EXCEPT !.skipped_call_id = item.call_id]
          /\ losses = <<<<"item", e.output_index>>>> /\ none = <<>>
    OBVIOUS
  <2>4. Sound(p) /\ Sound(q)  BY <2>2, <2>3, SkipItemSound
  <2>5. losses \in Seq(Losses) /\ none \in Seq(IrEvents)  BY <1>6, <2>1, <2>3
  <2>6. \E k \in {p, q} : Yields(e, Lose(k, losses), none)
    BY <1>4, <1>7, <2>3, Zenon DEF FeedAddSkipped
  <2>. QED BY <2>4, <2>5, <2>6, LoseSound, YieldsSound
<1>8. CASE FeedAddKnown(e)
  <2>1. Adding(e) /\ IsKnown(item)  BY <1>4, <1>8 DEF FeedAddKnown
  <2>2. /\ Sound(o) /\ o.item_open /\ o.function_call = None /\ o.apply_patch = None
        /\ ~PartOpen(o) /\ o.item_type = item.kind /\ item \in NativeItems
    BY <1>3, <1>4, <2>1
  <2>3. PICK call, patch, losses, none :
          /\ call = (IF item.kind \in CallItems THEN Some(Call(item)) ELSE o.function_call)
          /\ patch = (IF item.kind \in PatchItems THEN Some(item.call_id) ELSE o.apply_patch)
          /\ losses = (IF item.kind = "reasoning" /\ item.cipher # <<>>
                       THEN <<<<"cipher", e.output_index>>>> ELSE <<>>)
          /\ none = <<>>
    OBVIOUS
  <2>4. /\ call \in Option(Calls)
        /\ call # None => /\ o.item_type \in CallItems
                          /\ call[1].custom <=> o.item_type = "custom_tool_call"
    <3>1. Call(item) \in Calls /\ (Call(item).custom <=> item.kind = "custom_tool_call")
      BY <2>2, CallTypes
    <3>2. PICK c : c = Call(item)  OBVIOUS
    <3>3. /\ Some(c) \in Option(Calls) /\ Some(c) # None /\ Some(c)[1] = c
          /\ None \in Option(Calls)
      BY <3>1, <3>2, SomeTypes
    <3>. QED BY <2>2, <2>3, <3>1, <3>2, <3>3
  <2>5. patch \in Option(Tokens) /\ (patch # None => o.item_type \in PatchItems)
    <3>1. item.call_id \in Tokens  BY <2>2, ItemFields
    <3>. QED BY <2>2, <2>3, <3>1, SomeTypes
  <2>6. ~o.skipped_item
    <3>1. ~dec.skipped_item /\ o.skipped_item = dec.skipped_item
      BY <1>1, <1>4, <2>1
      DEF Adding, AddRejected, Sound, Books, InSkipped, OpenItem, Decoders
    <3>. QED BY <3>1
  <2>7. PICK d : d = [o EXCEPT !.function_call = call, !.apply_patch = patch]
    OBVIOUS
  <2>8. Sound(d)  BY <2>2, <2>4, <2>5, <2>6, <2>7, HoldSound
  <2>9. losses \in Seq(Losses) /\ none \in Seq(IrEvents)  BY <1>6, <2>1, <2>3
  <2>10. Yields(e, Lose(d, losses), none)
    BY <1>4, <1>8, <2>3, <2>7, Zenon DEF FeedAddKnown
  <2>. QED BY <2>8, <2>9, <2>10, LoseSound, YieldsSound
<1>. QED BY <1>2, <1>5, <1>7, <1>8 DEF FeedItemAdded

LEMMA PartTypeOK ==
  ASSUME TypeOK, NEW e \in Events, FeedPart(e)
  PROVE  TypeOK'
<1>1. Sound(dec) /\ dec \in Decoders /\ dec.block_index \in Nat /\ dec.next_block_index \in Nat
  BY TypeOKIsSound DEF Sound, Decoders
<1>2. PICK none : none = <<>>  OBVIOUS
<1>3. none \in Seq(IrEvents) /\ \A x \in IrEvents : <<x>> \in Seq(IrEvents)
  BY <1>2
<1>4. CASE FeedPartRejected(e)  BY <1>1, <1>4, RejectsSound DEF FeedPartRejected
<1>5. PICK o : o = NextPart(dec, e)  OBVIOUS
<1>6. ASSUME StartingPart(e)
      PROVE  /\ Sound(o) /\ ~PartOpen(o) /\ o.content_index = o.next_content_index - 1
             /\ o.item_open /\ o.apply_patch = None
             /\ o.skipped_item = dec.skipped_item /\ o.next_block_index = dec.next_block_index
             /\ e.kind \in PartAdded
  <2>1. /\ e.kind \in PartAdded /\ ~PartOpen(dec) /\ dec.item_open /\ dec.apply_patch = None
        /\ e.content_index = dec.next_content_index
    BY <1>6 DEF StartingPart, Receives, PatchForbids, PartStartRejected, Active
  <2>. QED BY <1>1, <1>5, <2>1, NextPartSound
<1>7. CASE FeedPartMissing(e)
  BY <1>5, <1>6, <1>7, RejectsSound DEF FeedPartMissing
<1>8. CASE FeedSkippedPart(e)
  <2>1. StartingPart(e)  BY <1>8 DEF FeedSkippedPart
  <2>2. PICK d, losses : /\ d = [o EXCEPT !.skipped_part = TRUE]
                         /\ losses = (IF dec.skipped_item THEN <<>>
                                      ELSE <<<<"part", e.output_index, e.content_index>>>>)
    OBVIOUS
  <2>3. Sound(d)  BY <1>6, <2>1, <2>2, PartSound
  <2>4. losses \in Seq(Losses)
    <3>1. e.output_index \in Int /\ e.content_index \in Int
      BY <1>6, <2>1, WireTypes
    <3>2. <<"part", e.output_index, e.content_index>> \in Losses
      BY <3>1 DEF Losses
    <3>. QED BY <2>2, <3>2
  <2>5. Yields(e, Lose(d, losses), none)
    BY <1>2, <1>5, <1>8, <2>2, Zenon DEF FeedSkippedPart
  <2>. QED BY <1>3, <2>3, <2>4, <2>5, LoseSound, YieldsSound
<1>9. CASE FeedPartStart(e)
  <2>1. StartingPart(e) /\ ~dec.skipped_item /\ e.part # None
    BY <1>9 DEF FeedPartStart, PartMissing
  <2>2. PICK d, x : /\ d = [o EXCEPT !.block_open = TRUE, !.text_done = FALSE,
                                     !.block_index = o.next_block_index,
                                     !.next_block_index = @ + 1]
                    /\ x = BlockStart(dec.next_block_index, PartBlock(e))
    OBVIOUS
  <2>3. Sound(d)  BY <1>6, <2>1, <2>2, PartSound
  <2>4. x \in IrEvents
    <3>1. PartBlock(e) \in Blocks  BY <1>6, <2>1, PartTypes
    <3>. QED BY <1>1, <2>2, <3>1, EventTypes
  <2>5. Yields(e, d, <<x>>)
    <3>1. o.next_block_index = dec.next_block_index  BY <1>6, <2>1
    <3>. QED BY <1>5, <1>9, <2>2, <3>1 DEF FeedPartStart
  <2>. QED BY <1>3, <2>3, <2>4, <2>5, YieldsSound
<1>10. CASE FeedTextRejected(e)
  BY <1>1, <1>10, RejectsSound DEF FeedTextRejected
<1>11. CASE FeedSkippedText(e)
  BY <1>1, <1>2, <1>3, <1>11, YieldsSound DEF FeedSkippedText
<1>12. CASE FeedTextDelta(e)
  <2>1. PICK x : x = BlockDelta(dec.block_index, DeltaOf(e))  OBVIOUS
  <2>2. Yields(e, dec, <<x>>) /\ e.kind \in TextDelta
    BY <1>12, <2>1 DEF FeedTextDelta, Receives
  <2>3. x \in IrEvents  BY <1>1, <2>1, <2>2, PartTypes, EventTypes
  <2>. QED BY <1>1, <1>3, <2>2, <2>3, YieldsSound
<1>13. CASE FeedTextDone(e)
  <2>1. PICK d : d = [dec EXCEPT !.text_done = TRUE]  OBVIOUS
  <2>2. Yields(e, d, none)  BY <1>2, <1>13, <2>1 DEF FeedTextDone
  <2>. QED BY <1>1, <1>3, <2>1, <2>2, PartEndSound, YieldsSound
<1>14. CASE FeedPartDone(e)
  <2>1. CASE Rejects(dec)  BY <1>1, <2>1, RejectsSound
  <2>2. CASE ~Rejects(dec)
    <3>1. PICK d, p, x : /\ d = [dec EXCEPT !.skipped_part = FALSE]
                         /\ p = [dec EXCEPT !.block_open = FALSE]
                         /\ x = BlockStop(dec.block_index)
      OBVIOUS
    <3>2. Yields(e, d, none) \/ Yields(e, p, <<x>>)
      BY <1>2, <1>14, <2>2, <3>1 DEF FeedPartDone
    <3>3. Sound(d) /\ Sound(p)  BY <1>1, <3>1, PartEndSound
    <3>4. <<x>> \in Seq(IrEvents)  BY <1>1, <1>3, <3>1, EventTypes
    <3>. QED BY <1>3, <3>2, <3>3, <3>4, YieldsSound
  <2>. QED BY <2>1, <2>2
<1>. QED BY <1>4, <1>7, <1>8, <1>9, <1>10, <1>11, <1>12, <1>13, <1>14 DEF FeedPart

LEMMA InputTypeOK ==
  ASSUME TypeOK, NEW e \in Events, FeedInput(e)
  PROVE  TypeOK'
<1>1. Sound(dec) /\ dec \in Decoders  BY TypeOKIsSound DEF Sound
<1>2. PICK none : none = <<>>  OBVIOUS
<1>3. none \in Seq(IrEvents)  BY <1>2
<1>4. CASE Rejects(dec)  BY <1>1, <1>4, RejectsSound
<1>5. CASE Yields(e, dec, <<>>)  BY <1>1, <1>2, <1>3, <1>5, YieldsSound
<1>6. CASE ~Rejects(dec) /\ ~Yields(e, dec, <<>>)
  <2>1. PICK call, option : call = dec.function_call[1] /\ option = Some(TakeInput(call, e))
    OBVIOUS
  <2>2. PICK d : d = [dec EXCEPT !.function_call = option]  OBVIOUS
  <2>3. Yields(e, d, none)  BY <1>2, <1>6, <2>1, <2>2 DEF FeedInput
  <2>4. /\ dec.item_open /\ dec.function_call # None
        /\ call.custom <=> e.kind \notin FunctionInput
        /\ e.kind \in InputEvents
    BY <1>6, <2>1 DEF FeedInput, InputAccepted, Active, Receives
  <2>5. call \in Calls /\ (call.custom <=> dec.item_type = "custom_tool_call")
    <3>1. dec.function_call \in Option(Calls)  BY <1>1 DEF Decoders
    <3>. QED BY <1>1, <2>1, <2>4, <3>1, SomeTypes DEF Sound, Books
  <2>6. TakeInput(call, e) \in Calls /\ TakeInput(call, e).custom = call.custom
    BY <2>4, <2>5, TakeInputTypes
  <2>7. /\ option \in Option(Calls) /\ option # None
        /\ option[1].custom <=> dec.item_type = "custom_tool_call"
    <3>1. PICK t : t = TakeInput(call, e)  OBVIOUS
    <3>2. Some(t) \in Option(Calls) /\ Some(t) # None /\ Some(t)[1] = t
      BY <2>6, <3>1, SomeTypes
    <3>. QED BY <2>1, <2>5, <2>6, <3>1, <3>2
  <2>8. d \in Decoders  BY <1>1, <2>2, <2>7 DEF Decoders
  <2>9. /\ d.flushed = dec.flushed /\ d.terminated = dec.terminated /\ d.started = dec.started
        /\ d.item_open = dec.item_open /\ d.item_type = dec.item_type
        /\ d.output_index = dec.output_index /\ d.next_output_index = dec.next_output_index
        /\ d.skipped_item = dec.skipped_item /\ d.skipped_part = dec.skipped_part
        /\ d.block_open = dec.block_open /\ d.function_call = option
        /\ d.apply_patch = dec.apply_patch
        /\ d.content_index = dec.content_index
        /\ d.next_content_index = dec.next_content_index
        /\ d.block_index = dec.block_index /\ d.next_block_index = dec.next_block_index
    BY <1>1, <2>2 DEF Decoders
  <2>10. Sound(d)
    BY <1>1, <2>4, <2>7, <2>8, <2>9 DEF Sound, Books, InSkipped, PartOpen
  <2>. QED BY <1>3, <2>3, <2>10, YieldsSound
<1>. QED BY <1>4, <1>5, <1>6

(* Losing the index of the block that was counted loses no type. *)
LEMMA CountedSound ==
  ASSUME NEW d, Sound(d), NEW e, e.output_index \in Int, e.item[1] \in NativeItems
  PROVE  Sound(CountedBlock(d, e))
<1>1. PICK n, losses, o :
        /\ n = d.next_block_index + Len(ItemBlock(e.item[1]))
        /\ losses = (IF e.item[1].kind = "web_search_call" /\ e.item[1].payload = "lossy"
                     THEN <<<<"action", e.output_index>>>> ELSE <<>>)
        /\ o = [d EXCEPT !.next_block_index = n]
  OBVIOUS
<1>2. d.next_block_index \in Nat  BY DEF Sound, Decoders
<1>3. Len(ItemBlock(e.item[1])) \in {0, 1}  BY ItemBlockTypes
<1>4. n \in Nat /\ n >= d.next_block_index  BY <1>1, <1>2, <1>3
<1>5. Sound(o)  BY <1>1, <1>4, TakenSound
<1>6. losses \in Seq(Losses)
  <2>1. <<"action", e.output_index>> \in Losses  BY DEF Losses
  <2>. QED BY <1>1, <2>1
<1>7. CountedBlock(d, e) = Lose(o, losses)  BY <1>1 DEF CountedBlock
<1>. QED BY <1>5, <1>6, <1>7, LoseSound

(* The losses of a patch. *)
LEMMA PatchLossesType ==
  ASSUME NEW e, e.output_index \in Int
  PROVE  PatchLosses(e) \in Seq(Losses)
<1>1. PICK a, b : a = <<<<"status", e.output_index>>>> /\ b = <<<<"operation", e.output_index>>>>
  OBVIOUS
<1>2. /\ <<"status", e.output_index>> \in Losses
      /\ <<"operation", e.output_index>> \in Losses
  BY DEF Losses
<1>3. a \in Seq(Losses) /\ b \in Seq(Losses) /\ <<>> \in Seq(Losses)
  BY <1>1, <1>2
<1>4. \A x, y \in {a, b, <<>>} : x \o y \in Seq(Losses)
  <2>1. \A x, y \in Seq(Losses) : x \o y \in Seq(Losses)  OBVIOUS
  <2>. QED BY <1>3, <2>1
<1>. QED BY <1>1, <1>4 DEF PatchLosses

LEMMA ItemDoneTypeOK ==
  ASSUME TypeOK, NEW e \in Events, FeedItemDone(e)
  PROVE  TypeOK'
<1>1. Sound(dec) /\ dec \in Decoders /\ dec.next_block_index \in Nat
      /\ dec.tool_use_seen \in BOOLEAN
  BY TypeOKIsSound DEF Sound, Decoders
<1>2. PICK none, item, i, n : /\ none = <<>> /\ item = e.item[1]
                              /\ i = dec.next_block_index /\ n = i + 1
  OBVIOUS
<1>3. none \in Seq(IrEvents) /\ i \in Nat /\ n \in Nat /\ n >= i  BY <1>1, <1>2
<1>4. CASE FeedDoneRejected(e)  BY <1>1, <1>4, RejectsSound DEF FeedDoneRejected
<1>5. ASSUME Finishing(e)
      PROVE  item \in NativeItems /\ e.output_index \in Int /\ Sound(CountedBlock(dec, e))
  <2>1. e.kind = "output_item.done" /\ e.item # None
    BY <1>5 DEF Finishing, Receives, DoneRejected, DoneMatches
  <2>2. e.item \in Option(NativeItems) /\ e.output_index \in Int
    BY <2>1, WireTypes
  <2>3. e.item[1] \in NativeItems  BY <2>1, <2>2, SomeTypes
  <2>. QED BY <1>1, <1>2, <2>2, <2>3, CountedSound
<1>6. CASE FeedDonePartOpen(e)  BY <1>5, <1>6, RejectsSound DEF FeedDonePartOpen
<1>7. Sound(PatchTaken)  BY <1>1, <1>2, <1>3, TakenSound DEF PatchTaken
<1>8. CASE FeedPatchMismatch(e)
  BY <1>7, <1>8, RejectsSound DEF FeedPatchMismatch
<1>9. Finishing(e) => Sound(Lose(PatchTaken, PatchLosses(e)))
  BY <1>5, <1>7, PatchLossesType, LoseSound
<1>10. CASE FeedPatchInvalid(e)
  BY <1>9, <1>10, RejectsSound DEF FeedPatchInvalid
<1>11. CASE FeedPatchDone(e)
  <2>1. PICK l, items, m, used, events :
          /\ l = Lose(PatchTaken, PatchLosses(e))
          /\ items = Append(l.completed_items, item)
          /\ m = (IF PatchLosses(e) = <<>> THEN l.next_block_index + 1 ELSE l.next_block_index)
          /\ used = (l.tool_use_seen \/ (PatchLosses(e) = <<>> /\ item.kind = "apply_patch_call"))
          /\ events = (IF PatchLosses(e) = <<>>
                       THEN Unit(dec.next_block_index, PatchBlock(item), <<>>) ELSE <<>>)
    OBVIOUS
  <2>2. Finishing(e) /\ ~PartOpen(dec)  BY <1>11 DEF FeedPatchDone
  <2>3. Sound(l) /\ item \in NativeItems  BY <1>5, <1>9, <2>1, <2>2
  <2>4. ~PartOpen(l) /\ l.apply_patch = None
    BY <1>1, <2>1, <2>2 DEF Lose, PatchTaken, PartOpen, Decoders
  <2>5. items \in Seq(NativeItems) /\ m \in Nat /\ m >= l.next_block_index
        /\ used \in BOOLEAN
    <3>1. /\ l.completed_items \in Seq(NativeItems) /\ l.next_block_index \in Nat
          /\ l.tool_use_seen \in BOOLEAN
      BY <2>3 DEF Sound, Decoders
    <3>. QED BY <2>1, <2>3, <3>1
  <2>6. PICK taken : taken = [l EXCEPT !.completed_items = items, !.next_block_index = m,
                                       !.tool_use_seen = used]
    OBVIOUS
  <2>7. Sound(taken)  BY <2>3, <2>5, <2>6, ItemSavedSound
  <2>8. ~PartOpen(taken) /\ taken.apply_patch = None
    BY <2>3, <2>4, <2>6 DEF PartOpen, Sound, Decoders
  <2>9. Sound(CloseItem(taken))  BY <2>7, <2>8, CloseSound
  <2>10. events \in Seq(IrEvents)
    <3>1. PatchBlock(item) \in Blocks /\ <<>> \in Seq(Deltas)
      BY <2>3, PatchBlockTypes
    <3>2. BlockUnit(dec.next_block_index, PatchBlock(item), <<>>) \in Seq(IrEvents)
      BY <1>1, <3>1, UnitType
    <3>. QED BY <1>3, <1>2, <2>1, <3>2, UnitIsBlock
  <2>11. Yields(e, CloseItem(taken), events)
    BY <1>2, <1>11, <2>1, <2>6 DEF FeedPatchDone
  <2>. QED BY <2>9, <2>10, <2>11, YieldsSound
<1>12. PICK t : t = [dec EXCEPT !.function_call = None, !.next_block_index = n]
  OBVIOUS
<1>13. t = CallTaken  BY <1>2, <1>12 DEF CallTaken
<1>14. Sound(t)  BY <1>1, <1>2, <1>3, <1>12, TakenSound
<1>15. CASE FeedCallMismatch(e)
  BY <1>13, <1>14, <1>15, RejectsSound DEF FeedCallMismatch
<1>16. CASE FeedCallDone(e)
  <2>1. PICK call, saved, calls :
          /\ call = dec.function_call[1]
          /\ saved = [call_id |-> call.call_id, name |-> call.name, input |-> item.input]
          /\ calls = (IF call.custom THEN Append(t.completed_custom_calls, saved)
                      ELSE t.completed_custom_calls)
    OBVIOUS
  <2>2. /\ Finishing(e) /\ ~PartOpen(dec) /\ dec.function_call # None
        /\ CallAgrees(call, item)
    BY <1>2, <1>16, <2>1 DEF FeedCallDone
  <2>3. item \in NativeItems /\ call \in Calls /\ item.input # None
    <3>1. dec.function_call \in Option(Calls)  BY <1>1 DEF Decoders
    <3>. QED BY <1>5, <2>1, <2>2, <3>1, SomeTypes DEF CallAgrees
  <2>4. calls \in Seq(SavedCalls)
    <3>1. saved \in SavedCalls  BY <2>1, <2>3, ItemFields DEF SavedCalls, Calls
    <3>2. t.completed_custom_calls \in Seq(SavedCalls)
      BY <1>14 DEF Sound, Decoders
    <3>. QED BY <2>1, <3>1, <3>2
  <2>5. PICK taken : taken = [t EXCEPT !.tool_use_seen = TRUE, !.completed_custom_calls = calls]
    OBVIOUS
  <2>6. Sound(taken)  BY <1>14, <2>4, <2>5, CallSavedSound
  <2>7. dec.apply_patch = None
    <3>1. CallItems \cap PatchItems = {}  BY DEF CallItems, PatchItems
    <3>. QED BY <1>1, <2>2, <3>1 DEF Sound, Books
  <2>8. ~PartOpen(taken) /\ taken.apply_patch = None
    <3>1. ~PartOpen(t) /\ t.apply_patch = None
      BY <1>1, <1>12, <2>2, <2>7 DEF PartOpen, Decoders
    <3>. QED BY <1>14, <2>5, <3>1 DEF PartOpen, Sound, Decoders
  <2>9. Sound(CloseItem(taken))  BY <2>6, <2>8, CloseSound
  <2>10. CallUnit(dec.next_block_index, call, item) \in Seq(IrEvents)
    BY <1>1, <2>3, CallUnitType
  <2>11. Yields(e, CloseItem(taken), CallUnit(dec.next_block_index, call, item))
    BY <1>2, <1>13, <1>16, <2>1, <2>5 DEF FeedCallDone
  <2>. QED BY <2>9, <2>10, <2>11, YieldsSound
<1>17. CASE FeedOtherDone(e)
  <2>1. PICK block, c, events :
          /\ block = ItemBlock(item) /\ c = CountedBlock(dec, e)
          /\ events = (IF block = None THEN <<>> ELSE Unit(dec.next_block_index, block[1], <<>>))
    OBVIOUS
  <2>2. Finishing(e) /\ ~PartOpen(dec) /\ dec.apply_patch = None
    BY <1>17 DEF FeedOtherDone
  <2>3. Sound(c) /\ item \in NativeItems  BY <1>5, <2>1, <2>2
  <2>4. ~PartOpen(c) /\ c.apply_patch = None
    BY <1>1, <2>1, <2>2 DEF CountedBlock, Lose, PartOpen, Decoders
  <2>5. Sound(CloseItem(c))  BY <2>3, <2>4, CloseSound
  <2>6. events \in Seq(IrEvents)
    <3>1. block # None => block[1] \in Blocks
      BY <2>1, <2>3, ItemBlockTypes, SomeTypes
    <3>2. <<>> \in Seq(Deltas)  OBVIOUS
    <3>3. block # None => BlockUnit(dec.next_block_index, block[1], <<>>) \in Seq(IrEvents)
      BY <1>1, <3>1, <3>2, UnitType
    <3>. QED BY <1>2, <1>3, <2>1, <3>3, UnitIsBlock
  <2>7. Yields(e, CloseItem(c), events)  BY <1>2, <1>17, <2>1 DEF FeedOtherDone
  <2>. QED BY <2>5, <2>6, <2>7, YieldsSound
<1>. QED BY <1>4, <1>6, <1>8, <1>10, <1>11, <1>15, <1>16, <1>17 DEF FeedItemDone

LEMMA TerminalTypeOK ==
  ASSUME TypeOK, NEW e \in Events, FeedTerminal(e)
  PROVE  TypeOK'
<1>1. Sound(dec)  BY TypeOKIsSound
<1>2. CASE Rejects(dec)  BY <1>1, <1>2, RejectsSound
<1>3. CASE ~Rejects(dec)
  <2>1. PICK response, stop, usage, sequence :
          /\ response = e.response[1] /\ stop = StopOf(response, dec.tool_use_seen)
          /\ usage = (IF response.usage = None THEN NoUsage ELSE response.usage[1])
          /\ sequence = <<>>
    OBVIOUS
  <2>2. PICK d, losses, events :
          /\ d = [dec EXCEPT !.terminated = TRUE]
          /\ losses = (IF stop = "other" THEN <<<<"status", -1>>>> ELSE <<>>)
          /\ events = <<MessageDelta(stop, sequence, usage), MessageDone>>
    OBVIOUS
  <2>3. e.kind \in Terminals /\ TerminalAccepted(dec, e) /\ Yields(e, Lose(d, losses), events)
    BY <1>3, <2>1, <2>2 DEF FeedTerminal, Receives
  <2>4. Sound(d)  BY <1>1, <2>2, <2>3, PhaseSound DEF TerminalAccepted
  <2>5. losses \in Seq(Losses)
    <3>1. <<"status", -1>> \in Losses  BY DEF Losses
    <3>. QED BY <2>2, <3>1
  <2>6. usage \in Usages
    <3>1. response \in Responses
      BY <2>1, <2>3, WireTypes, SomeTypes DEF TerminalAccepted
    <3>2. response.usage \in Option(Usages)  BY <3>1 DEF Responses
    <3>3. NoUsage \in Usages  BY DEF NoUsage, Usage, Usages
    <3>. QED BY <2>1, <3>2, <3>3, SomeTypes
  <2>7. stop \in StopReasons  BY <2>1 DEF StopOf, StopReasons
  <2>8. events \in Seq(IrEvents)
    <3>1. MessageDelta(stop, sequence, usage) \in IrEvents /\ MessageDone \in IrEvents
      BY <2>1, <2>6, <2>7, NoToken, EventTypes
    <3>. QED BY <2>2, <3>1
  <2>. QED BY <2>3, <2>4, <2>5, <2>8, LoseSound, YieldsSound
<1>. QED BY <1>2, <1>3

LEMMA UnknownTypeOK ==
  ASSUME TypeOK, NEW e, FeedUnknown(e)
  PROVE  TypeOK'
<1>1. Sound(dec)  BY TypeOKIsSound
<1>2. PICK none, losses : none = <<>> /\ losses = <<<<"event", -1>>>>  OBVIOUS
<1>3. none \in Seq(IrEvents) /\ losses \in Seq(Losses)
  <2>1. <<"event", -1>> \in Losses  BY DEF Losses
  <2>. QED BY <1>2, <2>1
<1>4. Rejects(dec) \/ Yields(e, dec, none) \/ Yields(e, Lose(dec, losses), none)
  BY <1>2, Zenon DEF FeedUnknown
<1>. QED BY <1>1, <1>3, <1>4, RejectsSound, LoseSound, YieldsSound

LEMMA FeedTypeOK ==
  ASSUME TypeOK, NEW e \in Events, Feed(e)
  PROVE  TypeOK'
<1>1. FeedAfterEnd \/ FeedIntoPatch(e) => TypeOK'
  BY RejectsSound, TypeOKIsSound DEF FeedAfterEnd, FeedIntoPatch
<1>. QED
  BY <1>1, CreatedTypeOK, ItemAddedTypeOK, PartTypeOK, InputTypeOK, ItemDoneTypeOK,
     TerminalTypeOK, UnknownTypeOK DEF Feed

LEMMA FlushTypeOK ==
  ASSUME TypeOK, Flush
  PROVE  TypeOK'
<1>1. Sound(dec)  BY TypeOKIsSound
<1>2. CASE FlushRefused  BY <1>1, <1>2 DEF FlushRefused, TypeOK
<1>3. CASE FlushConfirmed
  <2>1. PICK d : d = [dec EXCEPT !.flushed = TRUE]  OBVIOUS
  <2>2. Sound(d)  BY <1>1, <1>3, <2>1, PhaseSound DEF FlushConfirmed
  <2>3. dec' = d /\ failed' = failed  BY <1>3, <2>1 DEF FlushConfirmed
  <2>4. Sound(dec)' /\ (failed \in BOOLEAN)'  BY <2>2, <2>3, TypeOKIsSound
  <2>. QED BY <2>4 DEF TypeOK, Sound, Books
<1>. QED BY <1>2, <1>3 DEF Flush

LEMMA InitTypeOK ==
  ASSUME Init
  PROVE  TypeOK
<1>1. PICK empty : empty = ""  OBVIOUS
<1>2. PICK none : none = <<>>  OBVIOUS
<1>3. PICK d :
        d = [started |-> FALSE, terminated |-> FALSE, flushed |-> FALSE,
             next_output_index |-> 0, next_block_index |-> 0, next_content_index |-> 0,
             item_open |-> FALSE, skipped_item |-> FALSE, item_type |-> empty,
             item_id |-> empty, skipped_call_id |-> empty, output_index |-> 0,
             function_call |-> none, apply_patch |-> none,
             completed_custom_calls |-> none, completed_items |-> none,
             tool_use_seen |-> FALSE, block_open |-> FALSE, skipped_part |-> FALSE,
             block_index |-> 0, content_index |-> 0, text_done |-> FALSE,
             losses |-> none, events |-> none]
  OBVIOUS
<1>4. dec = d  BY <1>1, <1>2, <1>3, Zenon DEF Init, NewDecoder, None
<1>5. empty \in Tokens  BY <1>1, NoToken, Zenon
<1>6. /\ none \in Option(Calls) /\ none \in Option(Tokens) /\ none \in Seq(SavedCalls)
      /\ none \in Seq(NativeItems) /\ none \in Seq(Losses) /\ none \in Seq(IrEvents)
  BY <1>2 DEF Option
<1>7. d \in Decoders  BY <1>3, <1>5, <1>6 DEF Decoders
<1>8. Books(d)  BY <1>2, <1>3 DEF Books, InSkipped, PartOpen, None
<1>9. failed \in BOOLEAN  BY DEF Init
<1>. QED BY <1>4, <1>7, <1>8, <1>9, TypeOKIsSound DEF Sound

(* Whatever events the provider sends, in whatever order: the decoder stays
   consistent.  Nothing is open outside an open item, calls, patches and
   parts exclude one another as their items do, an open block is not a
   skipped one, the indexes in use are the last ones given out, and all
   that was handed over are events of the IR. *)
THEOREM DecoderTypeCorrect == Spec => []TypeOK
<1>1. Init => TypeOK  BY InitTypeOK
<1>2. TypeOK /\ [Next]_vars => TypeOK'
  <2>1. SUFFICES ASSUME TypeOK, [Next]_vars
                 PROVE  TypeOK'
    OBVIOUS
  <2>2. ASSUME NEW e \in Events, Feed(e)
        PROVE  TypeOK'
    BY <2>1, <2>2, FeedTypeOK
  <2>3. CASE Flush  BY <2>1, <2>3, FlushTypeOK
  <2>4. CASE UNCHANGED vars
    BY <2>1, <2>4, TypeOKIsSound DEF vars, TypeOK, InSkipped, PartOpen
  <2>. QED BY <2>1, <2>2, <2>3, <2>4 DEF Next
<1>. QED BY <1>1, <1>2, PTL DEF Spec

-----------------------------------------------------------------------------
(* The contract *)

(* What the decoder remembers of the last event it handed over.  A call or
   a patch is open in the decoder only: the stream is still before it. *)
Placed(d) ==
  /\ ~d.started => d.events = <<>> /\ ~d.block_open /\ d.next_block_index = 0
  /\ d.started /\ ~d.terminated /\ ~d.block_open => AtBoundary(d.events, d.next_block_index)
  /\ d.block_open =>
       /\ d.started /\ d.next_block_index = d.block_index + 1
       /\ \E family : /\ InsideBlock(d.events, d.block_index, family, FALSE)
                      /\ HeldFamily(d.events, family)
  /\ d.function_call # None =>
       Identified(d.function_call[1].call_id, d.function_call[1].name)
  /\ d.apply_patch # None => HasId(d.apply_patch[1])

(* The inductive invariant: until a call fails, what was handed over is
   legal, ends where the decoder thinks it ends, and is complete exactly
   when the decoder has terminated. *)
ContractInv ==
  ~failed =>
    /\ Kept(dec.events)
    /\ Placed(dec)
    /\ dec.terminated => Complete(dec.events)
    /\ ~dec.terminated => ~Terminated(dec.events)

(* The contract of IrProducer speaks of the grammar of IrStream. *)
LEMMA PromisedMeans ==
  ASSUME NEW s
  PROVE  /\ Promised!Promise(s) <=> Promise(s)
         /\ Promised!Terminated(s) <=> Terminated(s)
<1>1. \A e : /\ Promised!IsStart(e) <=> IsStart(e)
             /\ Promised!IsDelta(e) <=> IsDelta(e)
             /\ Promised!IsStop(e) <=> IsStop(e)
  BY DEF Promised!IsStart, Promised!IsDelta, Promised!IsStop, IsStart, IsDelta, IsStop
<1>2. \A e, f : Promised!Follows(e, f) <=> Follows(e, f)
  <2>1. \A d : Promised!DeltaFamily(d) = DeltaFamily(d)
    BY DEF Promised!DeltaFamily, DeltaFamily
  <2>2. \A b : Promised!BlockFamily(b) = BlockFamily(b)
    BY DEF Promised!BlockFamily, BlockFamily
  <2>3. \A f, i, fam : Promised!Continues(f, i, fam) <=> Continues(f, i, fam)
    BY <1>1, <2>1 DEF Promised!Continues, Continues
  <2>4. \A f, i : Promised!OpensAt(f, i) <=> OpensAt(f, i)
    BY <1>1 DEF Promised!OpensAt, OpensAt
  <2>. QED BY <1>1, <2>1, <2>2, <2>3, <2>4 DEF Promised!Follows, Follows
<1>3. \A e : Promised!EventOK(e) <=> EventOK(e)
  BY <1>1 DEF Promised!EventOK, EventOK, Promised!StreamedKinds, StreamedKinds,
              Promised!ApplyPatchKinds, ApplyPatchKinds, Promised!AtomicKinds, AtomicKinds,
              Promised!ToolKinds, ToolKinds
<1>4. Promised!WellFormed(s) <=> WellFormed(s)
  BY <1>2, <1>3 DEF Promised!WellFormed, WellFormed, Promised!InOrder, InOrder
<1>5. \A k, m : Promised!IsToolUnit(s, k, m) <=> IsToolUnit(s, k, m)
  BY <1>1 DEF Promised!IsToolUnit, IsToolUnit, Promised!ToolKinds, ToolKinds
<1>6. \A input, fs, lax : Promised!InputExact(input, fs, lax) <=> InputExact(input, fs, lax)
  <2>1. \A ss : Promised!Concat(ss) = Concat(ss)
    BY DEF Promised!Concat, Concat, Promised!FlattenSeq, FlattenSeq
  <2>. QED BY <2>1 DEF Promised!InputExact, InputExact
<1>7. Promised!ToolInputsExact(s, FALSE) <=> ToolInputsExact(s, FALSE)
  <2>1. \A k, m : Promised!Fragments(s, k, m) = Fragments(s, k, m)
    BY DEF Promised!Fragments, Fragments
  <2>. QED BY <1>5, <1>6, <2>1 DEF Promised!ToolInputsExact, ToolInputsExact
<1>8. Promised!ToolBlocksWhole(s) <=> ToolBlocksWhole(s)
  BY <1>1, <1>5 DEF Promised!ToolBlocksWhole, ToolBlocksWhole, Promised!ToolKinds, ToolKinds
<1>9. Promised!Terminated(s) <=> Terminated(s)
  BY DEF Promised!Terminated, Terminated
<1>. QED BY <1>4, <1>7, <1>8, <1>9 DEF Promised!Promise, Promise, Promised!Complete, Complete

(* A step of the contract, and the invariant after it. *)
Honest == ContractInv' /\ [Promised!Next]_<<dec.events, failed>>

(* The fields of the decoder after a successful call. *)
LEMMA YieldsFields ==
  ASSUME TypeOK', NEW e, NEW d, NEW u, Yields(e, d, u)
  PROVE  /\ dec'.events = d.events \o u /\ failed' = failed
         /\ dec'.started = d.started /\ dec'.terminated = d.terminated
         /\ dec'.block_open = d.block_open /\ dec'.block_index = d.block_index
         /\ dec'.next_block_index = d.next_block_index
         /\ dec'.function_call = d.function_call /\ dec'.apply_patch = d.apply_patch
BY DEF Yields, TypeOK, Decoders

(* A call that fails hands nothing over. *)
LEMMA RejectsHonest ==
  ASSUME NEW d, d.events = dec.events, Rejects(d)
  PROVE  Honest
BY DEF Rejects, Honest, ContractInv, Promised!Next, Promised!Fail

(* A call that hands over a batch within the message. *)
LEMMA YieldsHonest ==
  ASSUME TypeOK, TypeOK', ContractInv, ~failed, ~dec.terminated,
         NEW e, NEW d, NEW u \in Seq(IrEvents), Yields(e, d, u),
         d.events = dec.events, ~d.terminated,
         Kept(dec.events \o u), ~Terminated(u), Placed(dec')
  PROVE  Honest
<1>1. dec.events \in Seq(IrEvents) /\ ~Terminated(dec.events)
  BY DEF TypeOK, Decoders, ContractInv
<1>2. dec'.events = dec.events \o u /\ failed' = failed /\ ~dec'.terminated
  BY YieldsFields, ZenonT(60)
<1>3. ~Terminated(dec'.events)  BY <1>1, <1>2, TerminatedBatch
<1>4. ContractInv'  BY <1>2, <1>3 DEF ContractInv
<1>5. IsPrefix(dec.events, dec'.events)  BY <1>1, <1>2, BatchPrefix
<1>6. Promise(dec'.events)  BY <1>2, <1>3 DEF Promise, Kept
<1>7. Promised!IsPrefix(dec.events, dec'.events)
  BY <1>5 DEF IsPrefix, Promised!IsPrefix
<1>8. Promised!Deliver
  BY <1>1, <1>2, <1>6, <1>7, PromisedMeans DEF Promised!Deliver
<1>. QED BY <1>4, <1>8 DEF Honest, Promised!Next

(* A call that hands over nothing and moves no block. *)
LEMMA QuietHonest ==
  ASSUME TypeOK, TypeOK', ContractInv, ~failed, ~dec.terminated,
         NEW e, NEW d, Yields(e, d, <<>>),
         d.events = dec.events, d.started = dec.started, d.terminated = dec.terminated,
         d.block_open = dec.block_open, d.block_index = dec.block_index,
         d.next_block_index = dec.next_block_index,
         d.function_call # None =>
           Identified(d.function_call[1].call_id, d.function_call[1].name),
         d.apply_patch # None => HasId(d.apply_patch[1])
  PROVE  Honest
<1>1. PICK u : u = <<>>  OBVIOUS
<1>2. u \in Seq(IrEvents) /\ ~Terminated(u)  BY <1>1 DEF Terminated
<1>3. dec.events \in Seq(IrEvents) /\ dec.events \o u = dec.events
  BY <1>1 DEF TypeOK, Decoders
<1>4. Placed(dec')
  <2>1. Yields(e, d, u)  BY <1>1
  <2>2. /\ dec'.events = dec.events /\ dec'.started = dec.started
        /\ dec'.terminated = dec.terminated /\ dec'.block_open = dec.block_open
        /\ dec'.block_index = dec.block_index
        /\ dec'.next_block_index = dec.next_block_index
        /\ dec'.function_call = d.function_call /\ dec'.apply_patch = d.apply_patch
    BY <1>3, <2>1, YieldsFields
  <2>3. Placed(dec)  BY DEF ContractInv
  <2>. QED BY <2>2, <2>3 DEF Placed
<1>. QED BY <1>1, <1>2, <1>3, <1>4, YieldsHonest DEF ContractInv

(* A call that hands over one event. *)
LEMMA SingleHonest ==
  ASSUME TypeOK, TypeOK', ContractInv, ~failed, ~dec.terminated,
         NEW e, NEW d, NEW x \in IrEvents, Yields(e, d, <<x>>),
         d.events = dec.events, ~d.terminated, x.type # "message_delta",
         Admits(dec.events, x), EventOK(x), IsStart(x) => x.block.kind \notin ToolKinds,
         Placed(dec')
  PROVE  Honest
<1>1. PICK u : u = <<x>>  OBVIOUS
<1>2. u \in Seq(IrEvents) /\ ~Terminated(u)  BY <1>1 DEF Terminated
<1>3. dec.events \in Seq(IrEvents) /\ Kept(dec.events)
  BY DEF TypeOK, Decoders, ContractInv
<1>4. Kept(dec.events \o <<x>>)  BY <1>3, KeptSingle
<1>5. Yields(e, d, u) /\ Kept(dec.events \o u)  BY <1>1, <1>4
<1>. QED BY <1>2, <1>5, YieldsHonest

(* A call that hands over a whole block between two others. *)
LEMMA WholeHonest ==
  ASSUME TypeOK, TypeOK', ContractInv, ~failed, ~dec.terminated,
         dec.started, ~dec.block_open,
         NEW e, NEW d, NEW u, WholeBatch(u, dec.next_block_index), Yields(e, d, u),
         d.events = dec.events, d.started, ~d.terminated, ~d.block_open,
         d.next_block_index = dec.next_block_index + 1,
         d.function_call = None, d.apply_patch = None
  PROVE  Honest
<1>1. PICK i : i = dec.next_block_index  OBVIOUS
<1>2. i \in Nat /\ dec.events \in Seq(IrEvents)  BY <1>1 DEF TypeOK, Decoders
<1>3. /\ LegalBatch(u) /\ ~Terminated(u) /\ u \in Seq(IrEvents) /\ u # <<>>
      /\ IsStart(u[1]) /\ u[1].index = i /\ IsStop(Last(u)) /\ Last(u).index = i
  BY <1>1 DEF WholeBatch
<1>4. AtBoundary(dec.events, i) /\ Kept(dec.events)
  BY <1>1 DEF ContractInv, Placed
<1>5. Kept(dec.events \o u)
  <2>1. Admits(dec.events, u[1])  BY <1>3, <1>4, BoundaryAdmits DEF OpensAt
  <2>. QED BY <1>2, <1>3, <1>4, <2>1, KeptBatch
<1>6. AtBoundary(dec.events \o u, i + 1)  BY <1>2, <1>3, AfterBatch
<1>7. Placed(dec')
  <2>1. /\ dec'.events = dec.events \o u /\ dec'.started /\ ~dec'.block_open
        /\ dec'.next_block_index = i + 1
        /\ dec'.function_call = None /\ dec'.apply_patch = None
    BY <1>1, YieldsFields, ZenonT(60)
  <2>. QED BY <1>6, <2>1 DEF Placed
<1>. QED BY <1>3, <1>5, <1>7, YieldsHonest

(* A message starts once, and before its first block. *)
LEMMA CreatedHonest ==
  ASSUME TypeOK, TypeOK', ContractInv, ~failed, NEW e, FeedCreated(e)
  PROVE  Honest
<1>1. CASE Rejects(dec)  BY <1>1, RejectsHonest
<1>2. CASE ~Rejects(dec)
  <2>1. PICK d, x : d = [dec EXCEPT !.started = TRUE] /\ x = MessageStart
    OBVIOUS
  <2>2. PICK u : u = <<x>>  OBVIOUS
  <2>3. ~dec.started /\ ~dec.terminated /\ Yields(e, d, u)
    BY <1>2, <2>1, <2>2 DEF FeedCreated, Receives, Ended
  <2>4. /\ d.started /\ d.terminated = dec.terminated /\ d.block_open = dec.block_open
        /\ d.next_block_index = dec.next_block_index /\ d.events = dec.events
        /\ d.function_call = dec.function_call /\ d.apply_patch = dec.apply_patch
    BY <2>1 DEF TypeOK, Decoders
  <2>5. /\ x \in IrEvents /\ x.type = "message_start" /\ EventOK(x) /\ ~IsStart(x)
        /\ x.type # "message_delta"
    BY <2>1, EventTypes DEF MessageStart, EventOK, IsStart
  <2>6. dec.events = <<>> /\ ~dec.block_open /\ dec.next_block_index = 0
    BY <2>3 DEF ContractInv, Placed
  <2>7. Admits(dec.events, x)  BY <2>5, <2>6 DEF Admits
  <2>8. AtBoundary(dec.events \o u, 0)
    <3>1. dec.events \in Seq(IrEvents)  BY DEF TypeOK, Decoders
    <3>. QED BY <2>2, <2>5, <3>1, AfterSingle
  <2>9. Placed(dec')
    <3>1. /\ dec'.events = dec.events \o u /\ dec'.started /\ ~dec'.block_open
          /\ dec'.next_block_index = 0
          /\ dec'.function_call = dec.function_call /\ dec'.apply_patch = dec.apply_patch
      BY <2>3, <2>4, <2>6, YieldsFields, ZenonT(60)
    <3>2. Placed(dec)  BY DEF ContractInv
    <3>. QED BY <2>8, <3>1, <3>2 DEF Placed
  <2>. QED BY <2>2, <2>3, <2>4, <2>5, <2>7, <2>9, SingleHonest
<1>. QED BY <1>1, <1>2

(* An item that starts hands nothing over.  A call or a patch is kept with
   its id. *)
LEMMA ItemAddedHonest ==
  ASSUME TypeOK, TypeOK', ContractInv, ~failed, NEW e \in Events, FeedItemAdded(e)
  PROVE  Honest
<1>1. dec \in Decoders  BY DEF TypeOK
<1>2. PICK o, item : o = OpenItem(dec, e) /\ item = e.item[1]  OBVIOUS
<1>3. CASE FeedAddRejected(e)  BY <1>3, RejectsHonest DEF FeedAddRejected
<1>4. /\ o.events = dec.events /\ o.started = dec.started /\ o.terminated = dec.terminated
      /\ o.block_open = dec.block_open /\ o.block_index = dec.block_index
      /\ o.next_block_index = dec.next_block_index
      /\ o.apply_patch = dec.apply_patch /\ o.skipped_item = dec.skipped_item
      /\ o.function_call = None
  BY <1>1, <1>2 DEF OpenItem, Decoders
<1>5. CASE FeedAddInvalid(e)
  BY <1>2, <1>4, <1>5, RejectsHonest DEF FeedAddInvalid
<1>6. Adding(e) => /\ ~dec.terminated /\ item \in NativeItems /\ dec.apply_patch = None
                   /\ o \in Decoders
  <2>1. SUFFICES ASSUME Adding(e)
                 PROVE  /\ ~dec.terminated /\ item \in NativeItems /\ dec.apply_patch = None
                        /\ o \in Decoders
    OBVIOUS
  <2>2. e.kind = "output_item.added" /\ ~Ended /\ ~AddRejected(dec, e)
    BY <2>1 DEF Adding, Receives
  <2>3. e.item \in Option(NativeItems)  BY <2>2, WireTypes
  <2>4. e.item[1] \in NativeItems  BY <2>2, <2>3, SomeTypes DEF AddRejected
  <2>5. Sound(o)  BY <1>2, <2>2, <2>3, TypeOKIsSound, OpenItemSound DEF Ended
  <2>6. dec.apply_patch = None
    BY <2>2, TypeOKIsSound DEF AddRejected, Sound, Books
  <2>. QED BY <1>2, <2>2, <2>4, <2>5, <2>6 DEF Ended, Sound
<1>7. CASE FeedAddSkipped(e)
  <2>1. Adding(e)  BY <1>7 DEF FeedAddSkipped
  <2>2. PICK p, q, losses :
          /\ p = [o EXCEPT !.skipped_item = TRUE]
          /\ q = [p EXCEPT !.skipped_call_id = item.call_id]
          /\ losses = <<<<"item", e.output_index>>>>
    OBVIOUS
  <2>3. PICK k \in {p, q} : Yields(e, Lose(k, losses), <<>>)
    BY <1>2, <1>7, <2>2, Zenon DEF FeedAddSkipped
  <2>4. PICK d : d = Lose(k, losses)  OBVIOUS
  <2>5. /\ k.events = o.events /\ k.started = o.started /\ k.terminated = o.terminated
        /\ k.block_open = o.block_open /\ k.block_index = o.block_index
        /\ k.next_block_index = o.next_block_index
        /\ k.function_call = o.function_call /\ k.apply_patch = o.apply_patch
        /\ k \in Decoders
    <3>1. o \in Decoders /\ item.call_id \in Tokens  BY <1>6, <2>1, ItemFields
    <3>. QED BY <2>2, <3>1, ZenonT(60) DEF Decoders
  <2>6. /\ d.events = k.events /\ d.started = k.started /\ d.terminated = k.terminated
        /\ d.block_open = k.block_open /\ d.block_index = k.block_index
        /\ d.next_block_index = k.next_block_index
        /\ d.function_call = k.function_call /\ d.apply_patch = k.apply_patch
    BY <2>4, <2>5 DEF Lose, Decoders
  <2>7. Yields(e, d, <<>>)  BY <2>3, <2>4
  <2>. QED BY <1>4, <1>6, <2>1, <2>5, <2>6, <2>7, QuietHonest
<1>8. CASE FeedAddKnown(e)
  <2>1. Adding(e) /\ ~ItemInvalid(item)  BY <1>2, <1>8 DEF FeedAddKnown
  <2>2. PICK call, patch, losses :
          /\ call = (IF item.kind \in CallItems THEN Some(Call(item)) ELSE o.function_call)
          /\ patch = (IF item.kind \in PatchItems THEN Some(item.call_id) ELSE o.apply_patch)
          /\ losses = (IF item.kind = "reasoning" /\ item.cipher # <<>>
                       THEN <<<<"cipher", e.output_index>>>> ELSE <<>>)
    OBVIOUS
  <2>3. PICK d : d = [o EXCEPT !.function_call = call, !.apply_patch = patch]
    OBVIOUS
  <2>4. PICK m : m = Lose(d, losses)  OBVIOUS
  <2>5. Yields(e, m, <<>>)
    BY <1>2, <1>8, <2>2, <2>3, <2>4, Zenon DEF FeedAddKnown
  <2>6. /\ d.events = o.events /\ d.started = o.started /\ d.terminated = o.terminated
        /\ d.block_open = o.block_open /\ d.block_index = o.block_index
        /\ d.next_block_index = o.next_block_index
        /\ d.function_call = call /\ d.apply_patch = patch
    BY <1>6, <2>1, <2>3 DEF Decoders
  <2>7. /\ m.events = d.events /\ m.started = d.started /\ m.terminated = d.terminated
        /\ m.block_open = d.block_open /\ m.block_index = d.block_index
        /\ m.next_block_index = d.next_block_index
        /\ m.function_call = d.function_call /\ m.apply_patch = d.apply_patch
    BY <1>6, <2>1, <2>3, <2>4 DEF Lose, Decoders
  <2>8. call # None => Identified(call[1].call_id, call[1].name)
    <3>1. SUFFICES ASSUME item.kind \in CallItems
                   PROVE  Identified(call[1].call_id, call[1].name)
      BY <1>4, <2>2
    <3>2. PICK c : c = Call(item)  OBVIOUS
    <3>3. c.call_id = item.call_id /\ c.name = QualifiedName(item.name, item.ns)
      BY <3>2 DEF Call
    <3>4. HasId(item.call_id) /\ item.name # <<>>
      BY <2>1, <3>1, Zenon DEF ItemInvalid, HasId
    <3>5. QualifiedName(item.name, item.ns) # <<>>
      <4>1. item.name \in Seq(Tokens) /\ item.ns \in Tokens
        BY <1>6, <2>1, ItemFields DEF Text
      <4>2. <<item.ns>> \o item.name # <<>>  BY <4>1
      <4>3. QualifiedName(item.name, item.ns) \in {item.name, <<item.ns>> \o item.name}
        BY Zenon DEF QualifiedName
      <4>. QED BY <3>4, <4>2, <4>3
    <3>6. call[1] = c  BY <2>2, <3>1, <3>2 DEF Some
    <3>. QED BY <3>3, <3>4, <3>5, <3>6 DEF Identified
  <2>9. patch # None => HasId(patch[1])
    <3>1. SUFFICES ASSUME item.kind \in PatchItems
                   PROVE  HasId(patch[1])
      BY <1>4, <1>6, <2>1, <2>2
    <3>2. HasId(item.call_id)  BY <2>1, <3>1, Zenon DEF ItemInvalid, HasId
    <3>3. patch[1] = item.call_id  BY <2>2, <3>1 DEF Some
    <3>. QED BY <3>2, <3>3
  <2>. QED BY <1>4, <1>6, <2>1, <2>5, <2>6, <2>7, <2>8, <2>9, QuietHonest
<1>. QED BY <1>3, <1>5, <1>7, <1>8 DEF FeedItemAdded

(* A call that changes nothing the contract looks at. *)
LEMMA StillHonest ==
  ASSUME TypeOK, TypeOK', ContractInv, ~failed, ~dec.terminated,
         NEW e, NEW d, Yields(e, d, <<>>),
         d.events = dec.events, d.started = dec.started, d.terminated = dec.terminated,
         d.block_open = dec.block_open, d.block_index = dec.block_index,
         d.next_block_index = dec.next_block_index,
         d.function_call = dec.function_call, d.apply_patch = dec.apply_patch
  PROVE  Honest
<1>1. /\ d.function_call # None =>
           Identified(d.function_call[1].call_id, d.function_call[1].name)
      /\ d.apply_patch # None => HasId(d.apply_patch[1])
  BY DEF ContractInv, Placed
<1>. QED BY <1>1, QuietHonest

(* A part that becomes a block starts it. *)
LEMMA PartStartHonest ==
  ASSUME TypeOK, TypeOK', ContractInv, ~failed, NEW e \in Events, FeedPartStart(e)
  PROVE  Honest
<1>1. /\ dec \in Decoders /\ ~dec.terminated /\ dec.started /\ ~dec.block_open
      /\ e.kind \in PartAdded /\ e.part # None
  <2>1. StartingPart(e) /\ ~dec.skipped_item /\ ~PartMissing(dec, e)
    BY DEF FeedPartStart
  <2>2. e.part # None  BY <2>1 DEF PartMissing
  <2>. QED
    BY <2>1, <2>2
    DEF TypeOK, StartingPart, Receives, Ended, PartStartRejected, PartOpen, Active
<1>2. PICK i, n, b, c, m :
        /\ i = dec.next_block_index /\ n = i + 1 /\ b = PartBlock(e)
        /\ c = e.content_index /\ m = dec.next_content_index + 1
  OBVIOUS
<1>3. PICK p : p = [dec EXCEPT !.next_content_index = m, !.content_index = c]
  OBVIOUS
<1>4. PICK d : d = [p EXCEPT !.block_open = TRUE, !.text_done = FALSE,
                             !.block_index = i, !.next_block_index = n]
  OBVIOUS
<1>5. PICK x : x = BlockStart(i, b)  OBVIOUS
<1>6. PICK u : u = <<x>>  OBVIOUS
<1>7. p.next_block_index = i /\ p = NextPart(dec, e)
  BY <1>1, <1>2, <1>3 DEF NextPart, Decoders
<1>8. d = [NextPart(dec, e) EXCEPT !.block_open = TRUE, !.text_done = FALSE,
                                   !.block_index = dec.next_block_index,
                                   !.next_block_index = @ + 1]
  BY <1>2, <1>4, <1>7
<1>9. Yields(e, d, u)  BY <1>2, <1>5, <1>6, <1>8 DEF FeedPartStart
<1>10. /\ d.events = dec.events /\ d.started = dec.started /\ d.terminated = dec.terminated
       /\ d.block_open /\ d.block_index = i /\ d.next_block_index = n
       /\ d.function_call = dec.function_call /\ d.apply_patch = dec.apply_patch
  <2>1. /\ p.events = dec.events /\ p.started = dec.started /\ p.terminated = dec.terminated
        /\ p.function_call = dec.function_call /\ p.apply_patch = dec.apply_patch
        /\ DOMAIN p = DOMAIN dec
    BY <1>3, <1>1 DEF Decoders
  <2>. QED BY <1>1, <1>4, <2>1 DEF Decoders
<1>11. i \in Nat /\ dec.events \in Seq(IrEvents) /\ b \in Blocks /\ b.kind \in {"text", "thinking"}
  BY <1>1, <1>2, PartTypes DEF Decoders
<1>12. /\ x \in IrEvents /\ IsStart(x) /\ x.index = i /\ x.block = b
       /\ x.type # "message_delta"
  BY <1>5, <1>11, EventTypes DEF BlockStart, IsStart
<1>13. EventOK(x)
  BY <1>11, <1>12, StartOK
  DEF StreamedKinds, ToolKinds, AtomicKinds, ApplyPatchKinds
<1>14. Admits(dec.events, x)
  <2>1. AtBoundary(dec.events, i)  BY <1>1, <1>2 DEF ContractInv, Placed
  <2>. QED BY <1>12, <2>1, BoundaryAdmits DEF OpensAt
<1>15. x.block.kind \notin ToolKinds  BY <1>11, <1>12 DEF ToolKinds
<1>16. /\ InsideBlock(dec.events \o u, i, BlockFamily(b), FALSE)
       /\ HeldFamily(dec.events \o u, BlockFamily(b))
  BY <1>6, <1>11, <1>12, AfterSingle, HeldAfter
<1>17. Placed(dec')
  <2>1. /\ dec'.events = dec.events \o u /\ dec'.started /\ dec'.block_open
        /\ dec'.block_index = i /\ dec'.next_block_index = i + 1
        /\ dec'.function_call = dec.function_call /\ dec'.apply_patch = dec.apply_patch
    BY <1>1, <1>2, <1>9, <1>10, YieldsFields, ZenonT(60)
  <2>2. Placed(dec)  BY DEF ContractInv
  <2>. QED BY <1>16, <2>1, <2>2 DEF Placed
<1>. QED BY <1>1, <1>6, <1>9, <1>10, <1>12, <1>13, <1>14, <1>15, <1>17, SingleHonest

(* The text of a part goes into its block. *)
LEMMA TextDeltaHonest ==
  ASSUME TypeOK, TypeOK', ContractInv, ~failed, NEW e \in Events, FeedTextDelta(e),
         ~MixesPart(e)
  PROVE  Honest
<1>1. /\ dec \in Decoders /\ ~dec.terminated /\ dec.block_open /\ e.kind \in TextDelta
  BY DEF TypeOK, FeedTextDelta, Receives, Ended, TextRejected
<1>2. PICK i, delta, x : i = dec.block_index /\ delta = DeltaOf(e) /\ x = BlockDelta(i, delta)
  OBVIOUS
<1>3. PICK u : u = <<x>>  OBVIOUS
<1>4. Yields(e, dec, u)  BY <1>2, <1>3 DEF FeedTextDelta
<1>5. /\ i \in Nat /\ dec.events \in Seq(IrEvents)
      /\ delta \in Deltas /\ delta.type # "signature_delta"
  BY <1>1, <1>2, PartTypes DEF Decoders
<1>6. /\ x \in IrEvents /\ IsDelta(x) /\ x.index = i /\ x.delta = delta
      /\ x.type # "message_delta" /\ ~IsStart(x) /\ EventOK(x)
  BY <1>2, <1>5, EventTypes DEF BlockDelta, IsDelta, IsStart, EventOK
<1>7. PICK family : InsideBlock(dec.events, i, family, FALSE) /\ HeldFamily(dec.events, family)
  BY <1>1, <1>2 DEF ContractInv, Placed
<1>8. DeltaFamily(delta) = family
  <2>1. PICK start : start = SelectLastInSeq(dec.events, IsStart)  OBVIOUS
  <2>2. start # 0 /\ BlockFamily(dec.events[start].block) = family
    BY <1>5, <1>7, <2>1, LastStart
  <2>3. dec.events # <<>>  BY <1>7 DEF InsideBlock
  <2>. QED BY <1>1, <1>2, <2>1, <2>2, <2>3 DEF MixesPart
<1>9. Admits(dec.events, x)  BY <1>6, <1>7, <1>8, InsideAdmits DEF Continues
<1>10. /\ InsideBlock(dec.events \o u, i, family, FALSE)
       /\ HeldFamily(dec.events \o u, family)
  <2>1. InsideBlock(dec.events \o u, i, family, delta.type = "signature_delta")
    BY <1>3, <1>5, <1>6, <1>8, AfterSingle
  <2>2. (delta.type = "signature_delta") = FALSE  BY <1>5
  <2>3. HeldFamily(dec.events \o u, family)
    BY <1>3, <1>5, <1>6, <1>7, HeldAfter
  <2>. QED BY <2>1, <2>2, <2>3
<1>11. Placed(dec')
  <2>1. /\ dec'.events = dec.events \o u /\ dec'.started = dec.started /\ dec'.block_open
        /\ dec'.block_index = i /\ dec'.next_block_index = dec.next_block_index
        /\ dec'.function_call = dec.function_call /\ dec'.apply_patch = dec.apply_patch
    BY <1>1, <1>2, <1>4, YieldsFields
  <2>2. Placed(dec)  BY DEF ContractInv
  <2>. QED BY <1>1, <1>2, <1>10, <2>1, <2>2 DEF Placed
<1>. QED BY <1>1, <1>3, <1>4, <1>6, <1>9, <1>11, SingleHonest

(* A part that became a block stops it. *)
LEMMA PartStopHonest ==
  ASSUME TypeOK, TypeOK', ContractInv, ~failed, ~dec.terminated, dec.block_open, NEW e,
         Yields(e, [dec EXCEPT !.block_open = FALSE], <<BlockStop(dec.block_index)>>)
  PROVE  Honest
<1>1. PICK i, d : i = dec.block_index /\ d = [dec EXCEPT !.block_open = FALSE]
  OBVIOUS
<1>2. PICK x : x = BlockStop(i)  OBVIOUS
<1>3. PICK u : u = <<x>>  OBVIOUS
<1>4. Yields(e, d, u)  BY <1>1, <1>2, <1>3
<1>5. dec \in Decoders /\ i \in Nat /\ dec.events \in Seq(IrEvents)
  BY <1>1 DEF TypeOK, Decoders
<1>6. /\ x \in IrEvents /\ IsStop(x) /\ x.index = i /\ x.type # "message_delta"
      /\ ~IsStart(x) /\ EventOK(x)
  BY <1>2, <1>5, EventTypes DEF BlockStop, IsStop, IsStart, EventOK
<1>7. dec.started /\ dec.next_block_index = i + 1
  BY <1>1 DEF ContractInv, Placed
<1>8. PICK family : InsideBlock(dec.events, i, family, FALSE)
  BY <1>1 DEF ContractInv, Placed
<1>9. Admits(dec.events, x)  BY <1>6, <1>8, InsideAdmits DEF Continues
<1>10. AtBoundary(dec.events \o u, i + 1)  BY <1>3, <1>5, <1>6, AfterSingle
<1>11. /\ d.events = dec.events /\ d.started = dec.started /\ d.terminated = dec.terminated
       /\ ~d.block_open /\ d.next_block_index = dec.next_block_index
       /\ d.function_call = dec.function_call /\ d.apply_patch = dec.apply_patch
  BY <1>1, <1>5 DEF Decoders
<1>12. Placed(dec')
  <2>1. /\ dec'.events = dec.events \o u /\ dec'.started /\ ~dec'.block_open
        /\ dec'.next_block_index = i + 1
        /\ dec'.function_call = dec.function_call /\ dec'.apply_patch = dec.apply_patch
    BY <1>4, <1>7, <1>11, YieldsFields, ZenonT(60)
  <2>2. Placed(dec)  BY DEF ContractInv
  <2>. QED BY <1>10, <2>1, <2>2 DEF Placed
<1>. QED BY <1>3, <1>4, <1>6, <1>9, <1>11, <1>12, SingleHonest

(* What concerns a part keeps the contract. *)
LEMMA PartHonest ==
  ASSUME TypeOK, TypeOK', ContractInv, ~failed, NEW e \in Events, FeedPart(e), ~MixesPart(e)
  PROVE  Honest
<1>1. dec \in Decoders /\ dec.events \in Seq(IrEvents)  BY DEF TypeOK, Decoders
<1>2. PICK p : p = NextPart(dec, e)  OBVIOUS
<1>3. /\ p.events = dec.events /\ p.started = dec.started /\ p.terminated = dec.terminated
      /\ p.block_open = dec.block_open /\ p.block_index = dec.block_index
      /\ p.next_block_index = dec.next_block_index
      /\ p.function_call = dec.function_call /\ p.apply_patch = dec.apply_patch
      /\ DOMAIN p = DOMAIN dec
  BY <1>1, <1>2 DEF NextPart, Decoders
<1>4. CASE FeedPartRejected(e)  BY <1>4, RejectsHonest DEF FeedPartRejected
<1>5. CASE FeedPartMissing(e)
  BY <1>2, <1>3, <1>5, RejectsHonest DEF FeedPartMissing
<1>6. CASE FeedSkippedPart(e)
  <2>1. PICK o, losses :
          /\ o = [p EXCEPT !.skipped_part = TRUE]
          /\ losses = (IF dec.skipped_item THEN <<>>
                       ELSE <<<<"part", e.output_index, e.content_index>>>>)
    OBVIOUS
  <2>2. PICK d : d = Lose(o, losses)  OBVIOUS
  <2>3. Yields(e, d, <<>>) /\ ~dec.terminated
    BY <1>2, <1>6, <2>1, <2>2 DEF FeedSkippedPart, StartingPart, Receives, Ended
  <2>4. /\ d.events = p.events /\ d.started = p.started /\ d.terminated = p.terminated
        /\ d.block_open = p.block_open /\ d.block_index = p.block_index
        /\ d.next_block_index = p.next_block_index
        /\ d.function_call = p.function_call /\ d.apply_patch = p.apply_patch
    BY <1>1, <1>3, <2>1, <2>2 DEF Lose, Decoders
  <2>. QED BY <1>3, <2>3, <2>4, StillHonest
<1>7. CASE FeedPartStart(e)  BY <1>7, PartStartHonest
<1>8. CASE FeedTextRejected(e)  BY <1>8, RejectsHonest DEF FeedTextRejected
<1>9. CASE FeedSkippedText(e)
  <2>1. Yields(e, dec, <<>>) /\ ~dec.terminated
    BY <1>9 DEF FeedSkippedText, Receives, Ended
  <2>. QED BY <2>1, StillHonest
<1>10. CASE FeedTextDelta(e)  BY <1>10, TextDeltaHonest
<1>11. CASE FeedTextDone(e)
  <2>1. PICK d : d = [dec EXCEPT !.text_done = TRUE]  OBVIOUS
  <2>2. Yields(e, d, <<>>) /\ ~dec.terminated
    BY <1>11, <2>1 DEF FeedTextDone, Receives, Ended
  <2>3. /\ d.events = dec.events /\ d.started = dec.started /\ d.terminated = dec.terminated
        /\ d.block_open = dec.block_open /\ d.block_index = dec.block_index
        /\ d.next_block_index = dec.next_block_index
        /\ d.function_call = dec.function_call /\ d.apply_patch = dec.apply_patch
    BY <1>1, <2>1 DEF Decoders
  <2>. QED BY <2>2, <2>3, StillHonest
<1>12. CASE FeedPartDone(e)
  <2>1. ~dec.terminated  BY <1>12 DEF FeedPartDone, Receives, Ended
  <2>2. CASE Rejects(dec)  BY <2>2, RejectsHonest
  <2>3. CASE Yields(e, [dec EXCEPT !.skipped_part = FALSE], <<>>)
    <3>1. PICK d : d = [dec EXCEPT !.skipped_part = FALSE]  OBVIOUS
    <3>2. /\ d.events = dec.events /\ d.started = dec.started /\ d.terminated = dec.terminated
          /\ d.block_open = dec.block_open /\ d.block_index = dec.block_index
          /\ d.next_block_index = dec.next_block_index
          /\ d.function_call = dec.function_call /\ d.apply_patch = dec.apply_patch
      BY <1>1, <3>1 DEF Decoders
    <3>. QED BY <2>1, <2>3, <3>1, <3>2, StillHonest
  <2>4. CASE /\ dec.block_open
             /\ Yields(e, [dec EXCEPT !.block_open = FALSE], <<BlockStop(dec.block_index)>>)
    BY <2>1, <2>4, PartStopHonest
  <2>. QED BY <1>12, <2>2, <2>3, <2>4 DEF FeedPartDone, PartDoneRejected
<1>. QED BY <1>4, <1>5, <1>6, <1>7, <1>8, <1>9, <1>10, <1>11, <1>12 DEF FeedPart

(* The input of a call is buffered under the id and the name of the call. *)
LEMMA InputHonest ==
  ASSUME TypeOK, TypeOK', ContractInv, ~failed, NEW e \in Events, FeedInput(e)
  PROVE  Honest
<1>1. dec \in Decoders /\ ~dec.terminated
  BY DEF TypeOK, FeedInput, Receives, Ended
<1>2. CASE Rejects(dec)  BY <1>2, RejectsHonest
<1>3. CASE Yields(e, dec, <<>>)  BY <1>1, <1>3, StillHonest
<1>4. CASE ~Rejects(dec) /\ ~Yields(e, dec, <<>>)
  <2>1. PICK call, t : call = dec.function_call[1] /\ t = TakeInput(call, e)
    OBVIOUS
  <2>2. PICK option : option = Some(t)  OBVIOUS
  <2>3. PICK d : d = [dec EXCEPT !.function_call = option]  OBVIOUS
  <2>4. Yields(e, d, <<>>) /\ dec.function_call # None
    BY <1>4, <2>1, <2>2, <2>3 DEF FeedInput, InputAccepted
  <2>5. t.call_id = call.call_id /\ t.name = call.name
    <3>1. call \in Calls
      <4>1. dec.function_call \in Option(Calls)  BY <1>1 DEF Decoders
      <4>. QED BY <2>1, <2>4, <4>1, SomeTypes
    <3>2. PICK text, fragments, snapshot :
            /\ text = TextGiven(e.text) /\ fragments = Append(call.fragments, text)
            /\ snapshot = (IF call.custom THEN e.text ELSE call.snapshot)
      OBVIOUS
    <3>3. t \in {[call EXCEPT !.fragments = fragments],
                 [call EXCEPT !.arguments_done = TRUE, !.snapshot = snapshot]}
      BY <2>1, <3>2 DEF TakeInput
    <3>. QED BY <3>1, <3>3 DEF Calls
  <2>6. Identified(call.call_id, call.name)
    BY <2>1, <2>4 DEF ContractInv, Placed
  <2>7. option[1] = t  BY <2>2 DEF Some
  <2>8. Identified(option[1].call_id, option[1].name)  BY <2>5, <2>6, <2>7
  <2>9. /\ d.events = dec.events /\ d.started = dec.started /\ d.terminated = dec.terminated
        /\ d.block_open = dec.block_open /\ d.block_index = dec.block_index
        /\ d.next_block_index = dec.next_block_index
        /\ d.function_call = option /\ d.apply_patch = dec.apply_patch
    BY <1>1, <2>3 DEF Decoders
  <2>10. d.apply_patch # None => HasId(d.apply_patch[1])
    BY <2>9 DEF ContractInv, Placed
  <2>. QED BY <1>1, <2>4, <2>8, <2>9, <2>10, QuietHonest
<1>. QED BY <1>2, <1>3, <1>4

(* What closing an item leaves. *)
LEMMA CloseFields ==
  ASSUME NEW d \in Decoders
  PROVE  /\ CloseItem(d).events = d.events /\ CloseItem(d).started = d.started
         /\ CloseItem(d).terminated = d.terminated
         /\ CloseItem(d).block_open = d.block_open /\ CloseItem(d).block_index = d.block_index
         /\ CloseItem(d).next_block_index = d.next_block_index
         /\ CloseItem(d).function_call = None /\ CloseItem(d).apply_patch = d.apply_patch
<1>1. PICK empty, none : empty = "" /\ none = None  OBVIOUS
<1>2. PICK o : o = [d EXCEPT !.item_open = FALSE, !.item_type = empty, !.item_id = empty,
                             !.skipped_call_id = empty, !.skipped_item = FALSE,
                             !.function_call = none]
  OBVIOUS
<1>3. o = CloseItem(d)  BY <1>1, <1>2, Zenon DEF CloseItem
<1>4. /\ o.events = d.events /\ o.started = d.started /\ o.terminated = d.terminated
      /\ o.block_open = d.block_open /\ o.block_index = d.block_index
      /\ o.next_block_index = d.next_block_index
      /\ o.function_call = none /\ o.apply_patch = d.apply_patch
  BY <1>2 DEF Decoders
<1>. QED BY <1>1, <1>3, <1>4

(* The block of a call that is complete is whole: its fragments spell the
   input its item ends with. *)
LEMMA CallUnitLegal ==
  ASSUME NEW i \in Nat, NEW call \in Calls, NEW item \in NativeItems,
         CallAgrees(call, item), Identified(call.call_id, call.name)
  PROVE  WholeBatch(CallUnit(i, call, item), i)
<1>1. item.input # None /\ item.input \in Option(Text) /\ call.fragments \in Seq(Text)
  BY ItemFields DEF CallAgrees, Calls
<1>2. PICK b \in Blocks, type \in DeltaTypes, texts \in Seq(Text) :
        /\ CallUnit(i, call, item) = BlockUnit(i, b, DeltasOf(type, texts))
        /\ texts = (IF call.fragments = <<>> THEN item.input ELSE call.fragments)
        /\ texts # <<>>
        /\ b.kind = (IF call.custom THEN "custom_tool_use" ELSE "tool_use")
        /\ b.id = call.call_id /\ b.name = call.name /\ b.text = item.input[1]
        /\ type = (IF call.custom THEN "custom_tool_input_delta" ELSE "input_json_delta")
  BY <1>1, CallUnitShape, SMTT(60)
<1>3. Concat(texts) = b.text
  <2>1. CASE call.fragments = <<>>
    <3>1. PICK text : text = item.input[1]  OBVIOUS
    <3>2. text \in Seq(Tokens) /\ item.input = <<text>>
      BY <1>1, <3>1 DEF Option, None, Text
    <3>3. Concat(<<text>>) = text  BY <3>2, ConcatSingle
    <3>. QED BY <1>2, <2>1, <3>1, <3>2, <3>3
  <2>2. CASE call.fragments # <<>>  BY <1>2, <2>2 DEF CallAgrees
  <2>. QED BY <2>1, <2>2
<1>4. \A t \in Text : DeltaFamily(Delta(type, t)) = BlockFamily(b)
  BY <1>2 DEF DeltaFamily, BlockFamily, Delta
<1>5. b.kind \in ToolKinds  BY <1>2 DEF ToolKinds
<1>6. EventOK(BlockStart(i, b))
  <2>1. PICK x : x = BlockStart(i, b)  OBVIOUS
  <2>2. IsStart(x) /\ x.block = b  BY <2>1 DEF BlockStart, IsStart
  <2>3. \/ b.kind \in StreamedKinds \ ({"custom_tool_use"} \union ApplyPatchKinds)
        \/ b.kind = "custom_tool_use" /\ Identified(b.id, b.name)
    BY <1>2 DEF StreamedKinds, ToolKinds, ApplyPatchKinds
  <2>. QED BY <2>1, <2>2, <2>3, StartOK
<1>7. WholeBatch(BlockUnit(i, b, DeltasOf(type, texts)), i)
  BY <1>2, <1>3, <1>4, <1>5, <1>6, TextsUnit
<1>. QED BY <1>2, <1>7

(* The block of a patch is whole, and so is that of another item. *)
LEMMA PatchUnitLegal ==
  ASSUME NEW i \in Nat, NEW item \in NativeItems, HasId(item.call_id)
  PROVE  WholeBatch(Unit(i, PatchBlock(item), <<>>), i)
<1>1. PICK b, x : b = PatchBlock(item) /\ x = BlockStart(i, b)  OBVIOUS
<1>2. b \in Blocks /\ b.kind \in ApplyPatchKinds /\ b.id = item.call_id
  BY <1>1, PatchBlockTypes
<1>3. b.kind \in AtomicKinds  BY <1>2 DEF AtomicKinds
<1>4. IsStart(x) /\ x.block = b  BY <1>1 DEF BlockStart, IsStart
<1>5. EventOK(BlockStart(i, b))  BY <1>1, <1>2, <1>4, StartOK
<1>. QED BY <1>1, <1>2, <1>3, <1>5, AtomicUnit, UnitIsBlock

LEMMA ItemUnitLegal ==
  ASSUME NEW i \in Nat, NEW item \in NativeItems, ItemBlock(item) # None
  PROVE  WholeBatch(Unit(i, ItemBlock(item)[1], <<>>), i)
<1>1. PICK b, x : b = ItemBlock(item)[1] /\ x = BlockStart(i, b)  OBVIOUS
<1>2. b \in Blocks /\ b.kind \in {"encrypted_content", "web_search_call"}
  BY <1>1, ItemBlockTypes, SomeTypes
<1>3. b.kind \in AtomicKinds /\ b.kind \in StreamedKinds \ ({"custom_tool_use"} \union ApplyPatchKinds)
  BY <1>2 DEF AtomicKinds, StreamedKinds, ApplyPatchKinds
<1>4. IsStart(x) /\ x.block = b  BY <1>1 DEF BlockStart, IsStart
<1>5. EventOK(BlockStart(i, b))  BY <1>1, <1>3, <1>4, StartOK
<1>. QED BY <1>1, <1>2, <1>3, <1>5, AtomicUnit, UnitIsBlock

(* An item that is done hands over its block whole, or nothing. *)
LEMMA ClosingHonest ==
  ASSUME TypeOK, TypeOK', ContractInv, ~failed, ~dec.terminated, dec.started, ~dec.block_open,
         NEW e, NEW d \in Decoders, NEW u, Yields(e, CloseItem(d), u),
         d.events = dec.events, d.started = dec.started, d.terminated = dec.terminated,
         d.block_open = dec.block_open, d.block_index = dec.block_index, d.apply_patch = None,
         \/ /\ WholeBatch(u, dec.next_block_index)
            /\ d.next_block_index = dec.next_block_index + 1
         \/ u = <<>> /\ d.next_block_index = dec.next_block_index
  PROVE  Honest
<1>1. PICK c : c = CloseItem(d)  OBVIOUS
<1>2. /\ c.events = dec.events /\ c.started = dec.started /\ c.terminated = dec.terminated
      /\ c.block_open = dec.block_open /\ c.block_index = dec.block_index
      /\ c.next_block_index = d.next_block_index
      /\ c.function_call = None /\ c.apply_patch = None
  BY <1>1, CloseFields
<1>3. Yields(e, c, u)  BY <1>1
<1>4. CASE u = <<>> /\ d.next_block_index = dec.next_block_index
  BY <1>2, <1>3, <1>4, QuietHonest
<1>5. CASE /\ WholeBatch(u, dec.next_block_index)
           /\ d.next_block_index = dec.next_block_index + 1
  BY <1>2, <1>3, <1>5, WholeHonest
<1>. QED BY <1>4, <1>5

LEMMA PatchDoneHonest ==
  ASSUME TypeOK, TypeOK', ContractInv, ~failed, NEW e \in Events, FeedPatchDone(e)
  PROVE  Honest
<1>1. /\ Sound(dec) /\ dec \in Decoders /\ dec.next_block_index \in Nat
      /\ dec.tool_use_seen \in BOOLEAN
  BY TypeOKIsSound DEF Sound, Decoders
<1>2. PICK item : item = e.item[1]  OBVIOUS
<1>3. /\ Finishing(e) /\ ~PartOpen(dec) /\ dec.apply_patch # None
      /\ ~PatchMismatch(dec, item)
  BY <1>2 DEF FeedPatchDone
<1>4. ~dec.terminated /\ dec.started /\ ~dec.block_open /\ item \in NativeItems
  <2>1. e.kind = "output_item.done" /\ ~Ended /\ DoneMatches(dec, e)
    BY <1>3 DEF Finishing, Receives, DoneRejected
  <2>2. e.item # None /\ e.item \in Option(NativeItems)
    BY <2>1, WireTypes DEF DoneMatches
  <2>. QED BY <1>2, <1>3, <2>1, <2>2, SomeTypes DEF Ended, DoneMatches, PartOpen
<1>5. HasId(item.call_id)
  <2>1. item.call_id = dec.apply_patch[1]  BY <1>3 DEF PatchMismatch
  <2>2. HasId(dec.apply_patch[1])  BY <1>3 DEF ContractInv, Placed
  <2>. QED BY <2>1, <2>2
<1>6. PICK p, l, items, m, used, u :
        /\ p = PatchTaken
        /\ l = Lose(p, PatchLosses(e))
        /\ items = Append(l.completed_items, item)
        /\ m = (IF PatchLosses(e) = <<>> THEN l.next_block_index + 1 ELSE l.next_block_index)
        /\ used = (l.tool_use_seen \/ (PatchLosses(e) = <<>> /\ item.kind = "apply_patch_call"))
        /\ u = (IF PatchLosses(e) = <<>>
                THEN Unit(dec.next_block_index, PatchBlock(item), <<>>) ELSE <<>>)
  OBVIOUS
<1>7. PICK taken : taken = [l EXCEPT !.completed_items = items, !.next_block_index = m,
                                     !.tool_use_seen = used]
  OBVIOUS
<1>8. Yields(e, CloseItem(taken), u)  BY <1>2, <1>6, <1>7 DEF FeedPatchDone
<1>9. Sound(l) /\ l \in Decoders
  <2>1. dec.next_block_index + 1 \in Nat /\ dec.next_block_index + 1 >= dec.next_block_index
    BY <1>1
  <2>2. Sound(PatchTaken)  BY <1>1, <2>1, TakenSound DEF PatchTaken
  <2>3. e.kind = "output_item.done"  BY <1>3 DEF Finishing, Receives
  <2>4. PatchLosses(e) \in Seq(Losses)
    BY <1>2, <1>4, <2>3, WireTypes, PatchLossesType
  <2>. QED BY <1>6, <2>2, <2>4, LoseSound DEF Sound
<1>10. /\ l.events = dec.events /\ l.started = dec.started /\ l.terminated = dec.terminated
       /\ l.block_open = dec.block_open /\ l.block_index = dec.block_index
       /\ l.next_block_index = dec.next_block_index /\ l.apply_patch = None
  <2>1. /\ p.events = dec.events /\ p.started = dec.started /\ p.terminated = dec.terminated
        /\ p.block_open = dec.block_open /\ p.block_index = dec.block_index
        /\ p.next_block_index = dec.next_block_index /\ p.apply_patch = None
        /\ DOMAIN p = DOMAIN dec
    BY <1>1, <1>6 DEF PatchTaken, Decoders
  <2>. QED BY <1>1, <1>6, <2>1 DEF Lose, Decoders
<1>11. taken \in Decoders
  <2>1. /\ l.completed_items \in Seq(NativeItems) /\ l.next_block_index \in Nat
        /\ l.tool_use_seen \in BOOLEAN
    BY <1>9 DEF Decoders
  <2>2. items \in Seq(NativeItems) /\ m \in Nat /\ used \in BOOLEAN
    BY <1>4, <1>6, <2>1
  <2>. QED BY <1>7, <1>9, <2>2 DEF Decoders
<1>12. /\ taken.events = dec.events /\ taken.started = dec.started
       /\ taken.terminated = dec.terminated
       /\ taken.block_open = dec.block_open /\ taken.block_index = dec.block_index
       /\ taken.next_block_index = m /\ taken.apply_patch = None
  BY <1>7, <1>9, <1>10 DEF Decoders
<1>13. CASE PatchLosses(e) = <<>>
  <2>1. m = dec.next_block_index + 1 /\ u = Unit(dec.next_block_index, PatchBlock(item), <<>>)
    BY <1>6, <1>10, <1>13
  <2>2. WholeBatch(u, dec.next_block_index)
    BY <1>1, <1>4, <1>5, <2>1, PatchUnitLegal
  <2>. QED BY <1>4, <1>8, <1>11, <1>12, <2>1, <2>2, ClosingHonest
<1>14. CASE PatchLosses(e) # <<>>
  <2>1. m = dec.next_block_index /\ u = <<>>  BY <1>6, <1>10, <1>14
  <2>. QED BY <1>4, <1>8, <1>11, <1>12, <2>1, ClosingHonest
<1>. QED BY <1>13, <1>14

LEMMA CallDoneHonest ==
  ASSUME TypeOK, TypeOK', ContractInv, ~failed, NEW e \in Events, FeedCallDone(e)
  PROVE  Honest
<1>1. /\ Sound(dec) /\ dec \in Decoders /\ dec.next_block_index \in Nat
  BY TypeOKIsSound DEF Sound, Decoders
<1>2. PICK item, call, i, n, none :
        /\ item = e.item[1] /\ call = dec.function_call[1]
        /\ i = dec.next_block_index /\ n = i + 1 /\ none = None
  OBVIOUS
<1>3. /\ Finishing(e) /\ ~PartOpen(dec) /\ dec.function_call # None
      /\ CallAgrees(call, item)
  BY <1>2 DEF FeedCallDone
<1>4. ~dec.terminated /\ dec.started /\ ~dec.block_open /\ item \in NativeItems
  <2>1. e.kind = "output_item.done" /\ ~Ended /\ DoneMatches(dec, e)
    BY <1>3 DEF Finishing, Receives, DoneRejected
  <2>2. e.item # None /\ e.item \in Option(NativeItems)
    BY <2>1, WireTypes DEF DoneMatches
  <2>. QED BY <1>2, <1>3, <2>1, <2>2, SomeTypes DEF Ended, DoneMatches, PartOpen
<1>5. call \in Calls /\ Identified(call.call_id, call.name)
  <2>1. dec.function_call \in Option(Calls)  BY <1>1 DEF Decoders
  <2>. QED BY <1>2, <1>3, <2>1, SomeTypes DEF ContractInv, Placed
<1>6. PICK t : t = [dec EXCEPT !.function_call = none, !.next_block_index = n]
  OBVIOUS
<1>7. t = CallTaken /\ Sound(t) /\ t \in Decoders
  <2>1. t = CallTaken  BY <1>2, <1>6 DEF CallTaken
  <2>2. n \in Nat /\ n >= dec.next_block_index  BY <1>1, <1>2
  <2>3. Sound(t)  BY <1>1, <1>2, <1>6, <2>2, TakenSound
  <2>. QED BY <2>1, <2>3 DEF Sound
<1>8. PICK saved, calls, u :
        /\ saved = [call_id |-> call.call_id, name |-> call.name, input |-> item.input]
        /\ calls = (IF call.custom THEN Append(t.completed_custom_calls, saved)
                    ELSE t.completed_custom_calls)
        /\ u = CallUnit(i, call, item)
  OBVIOUS
<1>9. PICK taken : taken = [t EXCEPT !.tool_use_seen = TRUE, !.completed_custom_calls = calls]
  OBVIOUS
<1>10. Yields(e, CloseItem(taken), u)
  BY <1>2, <1>7, <1>8, <1>9 DEF FeedCallDone
<1>11. taken \in Decoders
  <2>1. saved \in SavedCalls
    BY <1>4, <1>5, <1>8, ItemFields DEF SavedCalls, Calls
  <2>2. t.completed_custom_calls \in Seq(SavedCalls)  BY <1>7 DEF Decoders
  <2>3. calls \in Seq(SavedCalls)  BY <1>8, <2>1, <2>2
  <2>. QED BY <1>7, <1>9, <2>3 DEF Decoders
<1>12. dec.apply_patch = None
  <2>1. CallItems \cap PatchItems = {}  BY DEF CallItems, PatchItems
  <2>. QED BY <1>1, <1>3, <2>1 DEF Sound, Books
<1>13. /\ t.events = dec.events /\ t.started = dec.started /\ t.terminated = dec.terminated
       /\ t.block_open = dec.block_open /\ t.block_index = dec.block_index
       /\ t.next_block_index = n /\ t.apply_patch = dec.apply_patch
  BY <1>1, <1>6 DEF Decoders
<1>14. /\ taken.events = t.events /\ taken.started = t.started
       /\ taken.terminated = t.terminated
       /\ taken.block_open = t.block_open /\ taken.block_index = t.block_index
       /\ taken.next_block_index = t.next_block_index /\ taken.apply_patch = t.apply_patch
  BY <1>7, <1>9 DEF Decoders
<1>15. WholeBatch(u, dec.next_block_index)
  BY <1>1, <1>2, <1>3, <1>4, <1>5, <1>8, CallUnitLegal
<1>16. taken.next_block_index = dec.next_block_index + 1  BY <1>2, <1>13, <1>14
<1>. QED BY <1>4, <1>10, <1>11, <1>12, <1>13, <1>14, <1>15, <1>16, ClosingHonest

LEMMA OtherDoneHonest ==
  ASSUME TypeOK, TypeOK', ContractInv, ~failed, NEW e \in Events, FeedOtherDone(e)
  PROVE  Honest
<1>1. /\ Sound(dec) /\ dec \in Decoders /\ dec.next_block_index \in Nat
  BY TypeOKIsSound DEF Sound, Decoders
<1>2. PICK item, i, block : item = e.item[1] /\ i = dec.next_block_index /\ block = ItemBlock(item)
  OBVIOUS
<1>3. Finishing(e) /\ ~PartOpen(dec) /\ dec.apply_patch = None
  BY <1>2 DEF FeedOtherDone
<1>4. /\ ~dec.terminated /\ dec.started /\ ~dec.block_open /\ item \in NativeItems
      /\ e.output_index \in Int
  <2>1. e.kind = "output_item.done" /\ ~Ended /\ DoneMatches(dec, e)
    BY <1>3 DEF Finishing, Receives, DoneRejected
  <2>2. e.item # None /\ e.item \in Option(NativeItems) /\ e.output_index \in Int
    BY <2>1, WireTypes DEF DoneMatches
  <2>. QED BY <1>2, <1>3, <2>1, <2>2, SomeTypes DEF Ended, DoneMatches, PartOpen
<1>5. PICK c, u, n, losses, o :
        /\ c = CountedBlock(dec, e)
        /\ u = (IF block = None THEN <<>> ELSE Unit(i, block[1], <<>>))
        /\ n = i + Len(block)
        /\ losses = (IF item.kind = "web_search_call" /\ item.payload = "lossy"
                     THEN <<<<"action", e.output_index>>>> ELSE <<>>)
        /\ o = [dec EXCEPT !.next_block_index = n]
  OBVIOUS
<1>6. Yields(e, CloseItem(c), u)  BY <1>2, <1>5 DEF FeedOtherDone
<1>7. c = Lose(o, losses)  BY <1>2, <1>5 DEF CountedBlock
<1>8. c \in Decoders  BY <1>1, <1>2, <1>4, <1>5, CountedSound DEF Sound
<1>9. /\ c.events = dec.events /\ c.started = dec.started /\ c.terminated = dec.terminated
      /\ c.block_open = dec.block_open /\ c.block_index = dec.block_index
      /\ c.next_block_index = n /\ c.apply_patch = dec.apply_patch
  <2>1. /\ o.events = dec.events /\ o.started = dec.started /\ o.terminated = dec.terminated
        /\ o.block_open = dec.block_open /\ o.block_index = dec.block_index
        /\ o.next_block_index = n /\ o.apply_patch = dec.apply_patch
        /\ DOMAIN o = DOMAIN dec
    BY <1>1, <1>5 DEF Decoders
  <2>. QED BY <1>1, <1>7, <2>1 DEF Lose, Decoders
<1>10. Len(block) = IF block = None THEN 0 ELSE 1  BY <1>2, <1>4, ItemBlockTypes
<1>11. CASE block # None
  <2>1. n = dec.next_block_index + 1 /\ u = Unit(i, ItemBlock(item)[1], <<>>)
    BY <1>2, <1>5, <1>10, <1>11
  <2>2. WholeBatch(u, dec.next_block_index)
    BY <1>1, <1>2, <1>4, <1>11, <2>1, ItemUnitLegal
  <2>. QED BY <1>3, <1>4, <1>6, <1>8, <1>9, <2>1, <2>2, ClosingHonest
<1>12. CASE block = None
  <2>1. n = dec.next_block_index /\ u = <<>>  BY <1>1, <1>2, <1>5, <1>10, <1>12
  <2>. QED BY <1>3, <1>4, <1>6, <1>8, <1>9, <2>1, ClosingHonest
<1>. QED BY <1>11, <1>12

LEMMA ItemDoneHonest ==
  ASSUME TypeOK, TypeOK', ContractInv, ~failed, NEW e \in Events, FeedItemDone(e)
  PROVE  Honest
<1>1. /\ dec \in Decoders /\ PatchTaken.events = dec.events /\ CallTaken.events = dec.events
  BY DEF TypeOK, PatchTaken, CallTaken, Decoders
<1>2. CountedBlock(dec, e).events = dec.events
  BY <1>1 DEF CountedBlock, Lose, Decoders
<1>3. Lose(PatchTaken, PatchLosses(e)).events = dec.events
  BY <1>1 DEF Lose, PatchTaken, Decoders
<1>. QED
  BY <1>1, <1>2, <1>3, RejectsHonest, PatchDoneHonest, CallDoneHonest, OtherDoneHonest
  DEF FeedItemDone, FeedDoneRejected, FeedDonePartOpen, FeedPatchMismatch, FeedPatchInvalid,
      FeedCallMismatch

(* The terminal pair comes in one batch, and last. *)
LEMMA TerminalHonest ==
  ASSUME TypeOK, TypeOK', ContractInv, ~failed, NEW e \in Events, FeedTerminal(e)
  PROVE  Honest
<1>1. dec \in Decoders /\ ~dec.terminated /\ dec.events \in Seq(IrEvents)
  BY DEF TypeOK, FeedTerminal, Receives, Ended, Decoders
<1>2. CASE Rejects(dec)  BY <1>2, RejectsHonest
<1>3. CASE ~Rejects(dec)
  <2>1. PICK response, stop, usage, sequence :
          /\ response = e.response[1] /\ stop = StopOf(response, dec.tool_use_seen)
          /\ usage = (IF response.usage = None THEN NoUsage ELSE response.usage[1])
          /\ sequence = <<>>
    OBVIOUS
  <2>2. PICK t, losses, x, y :
          /\ t = [dec EXCEPT !.terminated = TRUE]
          /\ losses = (IF stop = "other" THEN <<<<"status", -1>>>> ELSE <<>>)
          /\ x = MessageDelta(stop, sequence, usage) /\ y = MessageDone
    OBVIOUS
  <2>3. PICK d, u : d = Lose(t, losses) /\ u = <<x, y>>  OBVIOUS
  <2>4. e.kind \in Terminals /\ TerminalAccepted(dec, e) /\ Yields(e, d, u)
    BY <1>3, <2>1, <2>2, <2>3 DEF FeedTerminal, Receives
  <2>5. usage \in Usages
    <3>1. response \in Responses
      BY <2>1, <2>4, WireTypes, SomeTypes DEF TerminalAccepted
    <3>2. response.usage \in Option(Usages)  BY <3>1 DEF Responses
    <3>3. NoUsage \in Usages  BY DEF NoUsage, Usage, Usages
    <3>. QED BY <2>1, <3>2, <3>3, SomeTypes
  <2>6. stop \in StopReasons  BY <2>1 DEF StopOf, StopReasons
  <2>7. x \in IrEvents /\ y \in IrEvents
    BY <2>1, <2>2, <2>5, <2>6, NoToken, EventTypes
  <2>8. /\ x.type = "message_delta" /\ y.type = "message_done"
        /\ x.stop_sequence = <<>>
    BY <2>1, <2>2 DEF MessageDelta, MessageDone
  <2>9. dec.started /\ ~dec.block_open  BY <2>4 DEF TerminalAccepted, PartOpen
  <2>10. Admits(dec.events, x)
    <3>1. AtBoundary(dec.events, dec.next_block_index)
      BY <1>1, <2>9 DEF ContractInv, Placed
    <3>. QED BY <2>8, <3>1, BoundaryAdmits DEF OpensAt
  <2>11. Kept(dec.events) /\ ~Terminated(dec.events)  BY <1>1 DEF ContractInv
  <2>12. Promise(dec.events \o <<x, y>>) /\ Terminated(dec.events \o <<x, y>>)
    BY <1>1, <2>7, <2>8, <2>10, <2>11, TerminalBatch
  <2>13. /\ dec'.events = dec.events \o u /\ failed' = failed
         /\ dec'.started /\ dec'.terminated /\ ~dec'.block_open
         /\ dec'.function_call = dec.function_call /\ dec'.apply_patch = dec.apply_patch
    <3>1. /\ d.events = dec.events /\ d.started /\ d.terminated /\ ~d.block_open
          /\ d.function_call = dec.function_call /\ d.apply_patch = dec.apply_patch
      BY <1>1, <2>2, <2>3, <2>9 DEF Lose, Decoders
    <3>. QED BY <2>4, <3>1, YieldsFields, ZenonT(60)
  <2>14. Promise(dec'.events) /\ Terminated(dec'.events)  BY <2>3, <2>12, <2>13
  <2>15. Placed(dec')
    <3>1. Placed(dec)  BY DEF ContractInv
    <3>. QED BY <2>13, <3>1 DEF Placed
  <2>16. ContractInv'  BY <2>13, <2>14, <2>15 DEF ContractInv, Promise, Kept
  <2>17. IsPrefix(dec.events, dec'.events)
    <3>1. u \in Seq(IrEvents)  BY <2>3, <2>7
    <3>. QED BY <1>1, <2>13, <3>1, BatchPrefix
  <2>18. Promised!IsPrefix(dec.events, dec'.events)
    BY <2>17 DEF IsPrefix, Promised!IsPrefix
  <2>19. Promised!Deliver
    BY <2>11, <2>13, <2>14, <2>18, PromisedMeans DEF Promised!Deliver
  <2>. QED BY <2>16, <2>19 DEF Honest, Promised!Next
<1>. QED BY <1>2, <1>3

(* An event of an unknown type hands nothing over. *)
LEMMA UnknownHonest ==
  ASSUME TypeOK, TypeOK', ContractInv, ~failed, NEW e, FeedUnknown(e)
  PROVE  Honest
<1>1. dec \in Decoders /\ ~dec.terminated  BY DEF TypeOK, FeedUnknown, Ended
<1>2. PICK d : d = Lose(dec, <<<<"event", -1>>>>)  OBVIOUS
<1>3. /\ d.events = dec.events /\ d.started = dec.started /\ d.terminated = dec.terminated
      /\ d.block_open = dec.block_open /\ d.block_index = dec.block_index
      /\ d.next_block_index = dec.next_block_index
      /\ d.function_call = dec.function_call /\ d.apply_patch = dec.apply_patch
  BY <1>1, <1>2 DEF Lose, Decoders
<1>4. CASE Rejects(dec)  BY <1>4, RejectsHonest
<1>5. CASE Yields(e, dec, <<>>)  BY <1>1, <1>5, StillHonest
<1>6. CASE Yields(e, d, <<>>)  BY <1>1, <1>3, <1>6, StillHonest
<1>. QED BY <1>2, <1>4, <1>5, <1>6 DEF FeedUnknown

(* Every call of feed keeps the contract until one fails. *)
LEMMA FeedHonest ==
  ASSUME TypeOK, TypeOK', ContractInv, ~failed, NEW e \in Events, Feed(e), ~MixesPart(e)
  PROVE  Honest
<1>1. CASE FeedAfterEnd \/ FeedIntoPatch(e)
  BY <1>1, RejectsHonest DEF FeedAfterEnd, FeedIntoPatch
<1>. QED
  BY <1>1, CreatedHonest, ItemAddedHonest, PartHonest, InputHonest, ItemDoneHonest,
     TerminalHonest, UnknownHonest DEF Feed

(* flush hands nothing over. *)
LEMMA FlushHonest ==
  ASSUME TypeOK, ContractInv, ~failed, Flush
  PROVE  Honest
<1>1. CASE FlushRefused
  BY <1>1 DEF FlushRefused, Honest, ContractInv, Promised!Next, Promised!Fail
<1>2. CASE FlushConfirmed
  <2>1. /\ failed' = failed /\ dec'.events = dec.events /\ dec'.started = dec.started
        /\ dec'.terminated = dec.terminated /\ dec'.block_open = dec.block_open
        /\ dec'.block_index = dec.block_index
        /\ dec'.next_block_index = dec.next_block_index
        /\ dec'.function_call = dec.function_call /\ dec'.apply_patch = dec.apply_patch
    BY <1>2 DEF FlushConfirmed, TypeOK, Decoders
  <2>2. ContractInv'  BY <2>1 DEF ContractInv, Placed
  <2>. QED BY <2>1, <2>2 DEF Honest
<1>. QED BY <1>1, <1>2 DEF Flush

(* An error is not forgotten. *)
LEMMA StaysFailed ==
  ASSUME failed, [Next]_vars
  PROVE  failed'
<1>1. /\ \A e, d, u : Yields(e, d, u) => failed'
      /\ \A d : Rejects(d) => failed'
  BY DEF Yields, Rejects
<1>2. ASSUME NEW e \in Events, Feed(e)
      PROVE  failed'
  <2>1. FeedItemAdded(e) => failed'
    BY <1>1 DEF FeedItemAdded, FeedAddRejected, FeedAddInvalid, FeedAddSkipped, FeedAddKnown
  <2>2. FeedPart(e) => failed'
    BY <1>1 DEF FeedPart, FeedPartRejected, FeedPartMissing, FeedSkippedPart, FeedPartStart,
                FeedTextRejected, FeedSkippedText, FeedTextDelta, FeedTextDone, FeedPartDone
  <2>3. FeedItemDone(e) => failed'
    BY <1>1 DEF FeedItemDone, FeedDoneRejected, FeedDonePartOpen, FeedPatchMismatch,
                FeedPatchInvalid, FeedPatchDone, FeedCallMismatch, FeedCallDone, FeedOtherDone
  <2>4. FeedAfterEnd \/ FeedIntoPatch(e) \/ FeedCreated(e) \/ FeedInput(e) \/ FeedTerminal(e)
          \/ FeedUnknown(e) => failed'
    BY <1>1 DEF FeedAfterEnd, FeedIntoPatch, FeedCreated, FeedInput, FeedTerminal, FeedUnknown
  <2>. QED BY <1>2, <2>1, <2>2, <2>3, <2>4 DEF Feed
<1>3. CASE Flush  BY <1>3 DEF Flush, FlushRefused, FlushConfirmed
<1>. QED BY <1>2, <1>3 DEF Next, vars

(* A provider that puts the text of each part into a part of its kind, and
   whatever else it sends: what feed hands over honours the contract of
   IrProducer.  The events are a legal beginning of a stream, each call
   comes whole when its item is done, with the input its fragments spell,
   the terminal pair comes last and in one batch, and nothing that was
   handed over is taken back. *)
THEOREM DecoderHonoursContract ==
  ASSUME MixesParts = FALSE
  PROVE  Spec => HonoursContract
<1>1. Init => TypeOK /\ ContractInv /\ Promised!Init
  <2>1. SUFFICES ASSUME Init
                 PROVE  TypeOK /\ ContractInv /\ Promised!Init
    OBVIOUS
  <2>2. PICK s : s = dec.events  OBVIOUS
  <2>3. /\ s = <<>> /\ ~failed /\ ~dec.started /\ ~dec.terminated /\ ~dec.block_open
        /\ dec.next_block_index = 0 /\ dec.function_call = None /\ dec.apply_patch = None
    BY <2>1, <2>2, Zenon DEF Init, NewDecoder
  <2>4. Kept(s) /\ ~Terminated(s)
    BY <2>3 DEF Kept, WellFormed, InOrder, ToolBlocksWhole, ToolInputsExact, Terminated
  <2>5. ContractInv  BY <2>2, <2>3, <2>4 DEF ContractInv, Placed
  <2>6. Promised!Init  BY <2>1, <2>2, <2>3 DEF Promised!Init
  <2>. QED BY <2>1, <2>5, <2>6, InitTypeOK
<1>2. TypeOK /\ [Next]_vars => TypeOK'
  <2>1. UNCHANGED vars /\ TypeOK => TypeOK'
    BY TypeOKIsSound DEF vars, TypeOK, InSkipped, PartOpen
  <2>. QED BY <2>1, FeedTypeOK, FlushTypeOK DEF Next
<1>3. TypeOK /\ TypeOK' /\ ContractInv /\ [Next]_vars => Honest
  <2>1. SUFFICES ASSUME TypeOK, TypeOK', ContractInv, [Next]_vars
                 PROVE  Honest
    OBVIOUS
  <2>2. CASE failed
    <3>1. failed'  BY <2>1, <2>2, StaysFailed
    <3>. QED BY <2>2, <3>1 DEF Honest, ContractInv, Promised!Next, Promised!AfterFailure
  <2>3. CASE ~failed
    <3>1. ASSUME NEW e \in Events, Feed(e), MixesPart(e) => MixesParts
          PROVE  Honest
      BY <2>1, <2>3, <3>1, FeedHonest
    <3>2. CASE Flush  BY <2>1, <2>3, <3>2, FlushHonest
    <3>3. CASE UNCHANGED vars
      BY <2>1, <3>3 DEF vars, Honest, ContractInv, Placed
    <3>. QED BY <2>1, <3>1, <3>2, <3>3 DEF Next
  <2>. QED BY <2>2, <2>3
<1>. QED BY <1>1, <1>2, <1>3, PTL DEF Spec, HonoursContract, Promised!Spec, Honest

-----------------------------------------------------------------------------
(* Items and parts in order *)

(* The items among the first k events, the last of them, the events of
   some kinds, and whether the last item is done. *)
AddedIn(s, k) == {j \in 1..k : s[j].kind = "output_item.added"}
LastIn(s, k) == Max(AddedIn(s, k))
AmongIn(s, j, k, kinds) == {i \in j..k : s[i].kind \in kinds}
FinishedIn(s, k) == AmongIn(s, LastIn(s, k), k, {"output_item.done"}) # {}

(* The event may come after the first k, as far as items and parts go. *)
Fits(s, k, e) ==
  /\ e.kind = "output_item.added" =>
       /\ e.output_index = Cardinality(AddedIn(s, k))
       /\ AddedIn(s, k) # {} => FinishedIn(s, k)
  /\ e.kind \in NestedKinds \union {"output_item.done"} =>
       /\ AddedIn(s, k) # {} /\ ~FinishedIn(s, k)
       /\ e.output_index = s[LastIn(s, k)].output_index
       /\ e.kind \in NestedKinds => e.item_id = s[LastIn(s, k)].item[1].id
       /\ e.kind \in PartAdded =>
            e.content_index = Cardinality(AmongIn(s, LastIn(s, k), k, PartAdded))

(* A set of positions has a last one. *)
LEMMA LastPosition ==
  ASSUME NEW k \in Nat, NEW T, T \subseteq 1..k, T # {}
  PROVE  Max(T) \in T /\ \A j \in T : j <= Max(T)
<1> DEFINE Back == {k - j : j \in T}
<1>1. Back \subseteq Nat /\ Back # {}
  <2>1. \A j \in T : k - j \in Nat  OBVIOUS
  <2>2. PICK j : j \in T  OBVIOUS
  <2>3. k - j \in Back  BY <2>2
  <2>. QED BY <2>1, <2>3
<1>2. PICK x \in Back : \A y \in Back : ~(y < x)  BY <1>1, LeastNumber
<1>3. PICK m \in T : x = k - m  OBVIOUS
<1>4. \A j \in T : m >= j
  <2>1. SUFFICES ASSUME NEW j \in T
                 PROVE  m >= j
    OBVIOUS
  <2>2. k - j \in Back  OBVIOUS
  <2>3. ~(k - j < k - m)  BY <1>2, <1>3, <2>2
  <2>4. j \in 1..k /\ m \in 1..k  BY <1>3
  <2>5. \A a, b, c \in Int : ~(c - a < c - b) => b >= a  OBVIOUS
  <2>. QED BY <2>3, <2>4, <2>5
<1>5. Max(T) \in T /\ \A j \in T : Max(T) >= j  BY <1>4, Zenon DEF Max
<1>. QED BY <1>5

(* Positions are finitely many. *)
LEMMA PositionsFinite ==
  ASSUME NEW s, NEW j \in Nat, NEW k \in Nat, NEW kinds
  PROVE  /\ IsFiniteSet(AddedIn(s, k)) /\ Cardinality(AddedIn(s, k)) \in Nat
         /\ IsFiniteSet(AmongIn(s, j, k, kinds)) /\ Cardinality(AmongIn(s, j, k, kinds)) \in Nat
<1>1. IsFiniteSet(1..k) /\ IsFiniteSet(j..k)  BY FS_Interval
<1>2. IsFiniteSet(AddedIn(s, k))
  <2>1. AddedIn(s, k) \in SUBSET (1..k)  BY DEF AddedIn
  <2>. QED BY <1>1, <2>1, FS_Subset
<1>3. IsFiniteSet(AmongIn(s, j, k, kinds))
  <2>1. AmongIn(s, j, k, kinds) \in SUBSET (j..k)  BY DEF AmongIn
  <2>. QED BY <1>1, <2>1, FS_Subset
<1>. QED BY <1>2, <1>3, FS_CardinalityType

(* What the first events say does not depend on the later ones. *)
LEMMA PrefixStays ==
  ASSUME NEW s \in Seq(Events), NEW e \in Events, NEW k \in 0..Len(s)
  PROVE  /\ AddedIn(Append(s, e), k) = AddedIn(s, k)
         /\ LastIn(Append(s, e), k) = LastIn(s, k)
         /\ AddedIn(s, k) # {} => /\ LastIn(s, k) \in 1..k
                                  /\ Append(s, e)[LastIn(s, k)] = s[LastIn(s, k)]
         /\ \A j \in 1..(k + 1) : \A kinds :
              AmongIn(Append(s, e), j, k, kinds) = AmongIn(s, j, k, kinds)
<1>1. PICK t, l : t = Append(s, e) /\ l = Len(s)  OBVIOUS
<1>2. l \in Nat /\ k \in Nat /\ k <= l /\ \A j \in 1..l : t[j] = s[j]  BY <1>1
<1>3. \A j \in 1..k : t[j] = s[j]  BY <1>2
<1>4. AddedIn(t, k) = AddedIn(s, k)  BY <1>3 DEF AddedIn
<1>5. AddedIn(s, k) # {} => LastIn(s, k) \in 1..k
  <2>1. AddedIn(s, k) \subseteq 1..k  BY DEF AddedIn
  <2>. QED BY <1>2, <2>1, LastPosition DEF LastIn
<1>6. ASSUME NEW j \in 1..(k + 1), NEW kinds
      PROVE  AmongIn(t, j, k, kinds) = AmongIn(s, j, k, kinds)
  <2>1. \A i \in j..k : t[i] = s[i]  BY <1>2, <1>3
  <2>. QED BY <2>1 DEF AmongIn
<1>. QED BY <1>1, <1>3, <1>4, <1>5, <1>6 DEF LastIn

LEMMA FitsStays ==
  ASSUME NEW s \in Seq(Events), NEW e \in Events, NEW k \in 0..Len(s), NEW f
  PROVE  Fits(Append(s, e), k, f) <=> Fits(s, k, f)
<1>1. PICK t, a : t = Append(s, e) /\ a = LastIn(s, k)  OBVIOUS
<1>2. AddedIn(t, k) = AddedIn(s, k) /\ LastIn(t, k) = a  BY <1>1, PrefixStays
<1>3. AddedIn(s, k) # {} =>
        /\ t[a] = s[a]
        /\ \A kinds : AmongIn(t, a, k, kinds) = AmongIn(s, a, k, kinds)
  <2>1. AddedIn(s, k) # {} => a \in 1..k /\ a \in 1..(k + 1)
    BY <1>1, PrefixStays
  <2>. QED BY <1>1, <2>1, PrefixStays
<1>. QED BY <1>1, <1>2, <1>3 DEF Fits, FinishedIn

(* How the positions grow with an event that adds an item, and with one
   that does not. *)
LEMMA ItemAdds ==
  ASSUME NEW s \in Seq(Events), NEW e \in Events, e.kind = "output_item.added"
  PROVE  /\ AddedIn(Append(s, e), Len(s) + 1) # {}
         /\ LastIn(Append(s, e), Len(s) + 1) = Len(s) + 1 /\ Append(s, e)[Len(s) + 1] = e
         /\ Cardinality(AddedIn(Append(s, e), Len(s) + 1)) = Cardinality(AddedIn(s, Len(s))) + 1
         /\ \A kinds : e.kind \notin kinds =>
              AmongIn(Append(s, e), Len(s) + 1, Len(s) + 1, kinds) = {}
<1>0. PICK t, n : t = Append(s, e) /\ n = Len(s) + 1  OBVIOUS
<1>1. n = Len(s) + 1 /\ n \in Nat /\ Len(s) \in Nat /\ t[n] = e /\ \A j \in 1..Len(s) : t[j] = s[j]
  BY <1>0
<1>2. AddedIn(t, n) = AddedIn(s, Len(s)) \union {n} /\ n \notin AddedIn(s, Len(s))
  <2>1. \A j \in 1..n : j \in 1..Len(s) \/ j = n  BY <1>1
  <2>2. n \in 1..n /\ n \notin 1..Len(s) /\ \A j \in 1..Len(s) : j \in 1..n
    BY <1>1
  <2>. QED BY <1>1, <2>1, <2>2 DEF AddedIn
<1>3. LastIn(t, n) = n
  <2>1. AddedIn(t, n) \subseteq 1..n /\ AddedIn(t, n) # {} /\ n \in AddedIn(t, n)
    BY <1>2 DEF AddedIn
  <2>2. Max(AddedIn(t, n)) \in 1..n /\ n <= Max(AddedIn(t, n))
    BY <1>1, <2>1, LastPosition
  <2>. QED BY <1>1, <2>2 DEF LastIn
<1>4. IsFiniteSet(AddedIn(s, Len(s)))  BY <1>1, PositionsFinite
<1>5. Cardinality(AddedIn(t, n)) = Cardinality(AddedIn(s, Len(s))) + 1
  BY <1>2, <1>4, FS_AddElement
<1>6. \A kinds : e.kind \notin kinds => AmongIn(t, n, n, kinds) = {}
  <2>1. \A i \in n..n : i = n  BY <1>1
  <2>. QED BY <1>1, <2>1 DEF AmongIn
<1>. QED BY <1>0, <1>1, <1>2, <1>3, <1>5, <1>6

LEMMA OtherAdds ==
  ASSUME NEW s \in Seq(Events), NEW e \in Events, e.kind # "output_item.added"
  PROVE  /\ AddedIn(Append(s, e), Len(s) + 1) = AddedIn(s, Len(s))
         /\ LastIn(Append(s, e), Len(s) + 1) = LastIn(s, Len(s))
         /\ AddedIn(s, Len(s)) # {} =>
              /\ LastIn(s, Len(s)) \in 1..Len(s)
              /\ Append(s, e)[LastIn(s, Len(s))] = s[LastIn(s, Len(s))]
         /\ \A j \in 1..(Len(s) + 1) : \A kinds :
              AmongIn(Append(s, e), j, Len(s) + 1, kinds) =
                IF e.kind \in kinds THEN AmongIn(s, j, Len(s), kinds) \union {Len(s) + 1}
                ELSE AmongIn(s, j, Len(s), kinds)
         /\ \A j \in 1..(Len(s) + 1) : \A kinds :
              e.kind \in kinds =>
                Cardinality(AmongIn(Append(s, e), j, Len(s) + 1, kinds))
                  = Cardinality(AmongIn(s, j, Len(s), kinds)) + 1
<1>0. PICK t, n : t = Append(s, e) /\ n = Len(s) + 1  OBVIOUS
<1>1. n = Len(s) + 1 /\ n \in Nat /\ Len(s) \in Nat /\ t[n] = e /\ \A j \in 1..Len(s) : t[j] = s[j]
  BY <1>0
<1>2. AddedIn(t, n) = AddedIn(s, Len(s))
  <2>1. \A j \in 1..n : j \in 1..Len(s) \/ j = n  BY <1>1
  <2>2. \A j \in 1..Len(s) : j \in 1..n  BY <1>1
  <2>. QED BY <1>1, <2>1, <2>2 DEF AddedIn
<1>3. AddedIn(s, Len(s)) # {} => LastIn(s, Len(s)) \in 1..Len(s)
  <2>1. AddedIn(s, Len(s)) \subseteq 1..Len(s)  BY DEF AddedIn
  <2>. QED BY <1>1, <2>1, LastPosition DEF LastIn
<1>4. ASSUME NEW j \in 1..n, NEW kinds
      PROVE  AmongIn(t, j, n, kinds) =
               IF e.kind \in kinds THEN AmongIn(s, j, Len(s), kinds) \union {n}
               ELSE AmongIn(s, j, Len(s), kinds)
  <2>1. \A i \in j..n : i \in j..Len(s) \/ i = n  BY <1>1
  <2>2. \A i \in j..Len(s) : i \in j..n /\ i \in 1..Len(s)  BY <1>1
  <2>3. n \in j..n  BY <1>1
  <2>. QED BY <1>1, <2>1, <2>2, <2>3 DEF AmongIn
<1>5. ASSUME NEW j \in 1..n, NEW kinds, e.kind \in kinds
      PROVE  Cardinality(AmongIn(t, j, n, kinds)) = Cardinality(AmongIn(s, j, Len(s), kinds)) + 1
  <2>1. j \in Nat  BY <1>1
  <2>2. IsFiniteSet(AmongIn(s, j, Len(s), kinds))
    BY <1>1, <2>1, PositionsFinite
  <2>3. n \notin AmongIn(s, j, Len(s), kinds)  BY <1>1 DEF AmongIn
  <2>. QED BY <1>4, <1>5, <2>2, <2>3, FS_AddElement
<1>. QED BY <1>0, <1>1, <1>2, <1>3, <1>4, <1>5 DEF LastIn

(* What the struct knows of the last item. *)
Linked(s, d) ==
  /\ d.next_output_index = Cardinality(AddedIn(s, Len(s)))
  /\ d.item_open =>
       /\ AddedIn(s, Len(s)) # {} /\ ~FinishedIn(s, Len(s))
       /\ s[LastIn(s, Len(s))].output_index = d.output_index
       /\ s[LastIn(s, Len(s))].item[1].id = d.item_id
       /\ d.next_content_index = Cardinality(AmongIn(s, LastIn(s, Len(s)), Len(s), PartAdded))
       /\ d.skipped_item <=> ~IsKnown(s[LastIn(s, Len(s))].item[1])
  /\ ~d.item_open /\ AddedIn(s, Len(s)) # {} => FinishedIn(s, Len(s))

(* A patch item has its patch: without one it is not a patch item. *)
Holds(d) == d.item_open /\ d.item_type \in PatchItems => d.apply_patch # None

(* The fields that say which item is open and what of it is skipped. *)
SameItem(o, d) ==
  /\ o.item_open = d.item_open /\ o.item_type = d.item_type /\ o.item_id = d.item_id
  /\ o.output_index = d.output_index /\ o.next_output_index = d.next_output_index
  /\ o.skipped_item = d.skipped_item /\ o.apply_patch = d.apply_patch

SamePlace(o, d) ==
  SameItem(o, d) /\ o.next_content_index = d.next_content_index /\ o.skipped_part = d.skipped_part

(* What an accepted event makes of them: it opens an item, closes it,
   starts a part, stays within what is open, or belongs to no item. *)
Opens(d, e, o) ==
  /\ e.kind = "output_item.added" /\ ~d.item_open /\ e.output_index = d.next_output_index
  /\ o.item_open /\ o.output_index = e.output_index /\ o.item_id = e.item[1].id
  /\ o.next_output_index = d.next_output_index + 1 /\ o.next_content_index = 0
  /\ o.skipped_item <=> ~IsKnown(e.item[1])
  /\ o.skipped_part = d.skipped_part
  /\ Holds(o)

Closes(d, e, o) ==
  /\ e.kind = "output_item.done" /\ d.item_open /\ e.output_index = d.output_index
  /\ ~o.item_open /\ o.next_output_index = d.next_output_index
  /\ o.skipped_part = d.skipped_part

StartsPart(d, e, o) ==
  /\ e.kind \in PartAdded /\ Active(d, e) /\ e.content_index = d.next_content_index
  /\ SameItem(o, d) /\ o.next_content_index = d.next_content_index + 1
  /\ ~d.skipped_part
  /\ o.skipped_part <=> d.skipped_item \/ e.part[1].kind # "output_text"

StaysWithin(d, e, o) ==
  /\ e.kind \in NestedKinds \ PartAdded /\ Active(d, e)
  /\ SameItem(o, d) /\ o.next_content_index = d.next_content_index
  /\ o.skipped_part <=> d.skipped_part /\ e.kind \notin PartDone

Passes(d, e, o) ==
  /\ e.kind \notin NestedKinds \union {"output_item.added", "output_item.done"}
  /\ SamePlace(o, d)

MovesPlace(d, e, o) ==
  Opens(d, e, o) \/ Closes(d, e, o) \/ StartsPart(d, e, o) \/ StaysWithin(d, e, o) \/ Passes(d, e, o)

(* The kinds of the events exclude each other. *)
LEMMA KindsDiffer ==
  /\ "output_item.added" \notin NestedKinds \union {"output_item.done"}
  /\ "output_item.done" \notin NestedKinds
  /\ PartAdded \subseteq NestedKinds /\ PartDone \subseteq NestedKinds
  /\ PartAdded \cap PartDone = {}
  /\ Terminals \cap (NestedKinds \union {"output_item.added", "output_item.done"}) = {}
  /\ NestedKinds \union Terminals \union {"created", "output_item.added", "output_item.done"}
       = KnownEvents
  /\ "created" \notin NestedKinds \union Terminals
BY DEF NestedKinds, PartAdded, PartDone, TextDelta, TextDone, InputEvents, Terminals, KnownEvents

(* An accepted event fits, and the struct knows the item it leaves. *)
LEMMA MovesFit ==
  ASSUME NEW s \in Seq(Events), NEW e \in Events, NEW d \in Decoders, NEW o,
         Linked(s, d), Holds(d), MovesPlace(d, e, o)
  PROVE  Fits(s, Len(s), e) /\ Linked(Append(s, e), o) /\ Holds(o)
<1>1. PICK l, n, a, t : l = Len(s) /\ n = l + 1 /\ a = LastIn(s, l) /\ t = Append(s, e)
  OBVIOUS
<1>2. l \in Nat /\ n \in Nat /\ Len(t) = n /\ n \in 1..n  BY <1>1
<1>0. t = Append(s, e) /\ n = Len(s) + 1 /\ Len(s) = l  BY <1>1
<1>3. CASE Opens(d, e, o)
  <2>1. e.kind = "output_item.added" /\ e.kind \notin NestedKinds \union {"output_item.done"}
        /\ e.kind \notin PartAdded
    BY <1>3, KindsDiffer DEF Opens
  <2>2. Fits(s, l, e)  BY <1>1, <1>3, <2>1 DEF Fits, Opens, Linked
  <2>3. /\ AddedIn(t, n) # {} /\ LastIn(t, n) = n /\ t[n] = e
        /\ Cardinality(AddedIn(t, n)) = Cardinality(AddedIn(s, l)) + 1
        /\ AmongIn(t, n, n, {"output_item.done"}) = {} /\ AmongIn(t, n, n, PartAdded) = {}
    <3>1. /\ AddedIn(t, n) # {} /\ LastIn(t, n) = n /\ t[n] = e
          /\ Cardinality(AddedIn(t, n)) = Cardinality(AddedIn(s, Len(s))) + 1
          /\ \A kinds : e.kind \notin kinds => AmongIn(t, n, n, kinds) = {}
      BY <1>0, <2>1, ItemAdds
    <3>2. e.kind \notin {"output_item.done"}  BY <2>1
    <3>. QED BY <1>0, <2>1, <3>1, <3>2
  <2>4. ~FinishedIn(t, n) /\ Cardinality(AmongIn(t, n, n, PartAdded)) = 0
    BY <2>3, FS_EmptySet DEF FinishedIn
  <2>5. Linked(t, o)  BY <1>1, <1>2, <1>3, <2>3, <2>4 DEF Linked, Opens
  <2>. QED BY <1>1, <1>3, <2>2, <2>5 DEF Opens
<1>4. ASSUME e.kind # "output_item.added"
      PROVE  /\ AddedIn(t, n) = AddedIn(s, l) /\ LastIn(t, n) = a
             /\ AddedIn(s, l) # {} =>
                  /\ t[a] = s[a] /\ a \in 1..n
                  /\ \A kinds : AmongIn(t, a, n, kinds) =
                                  IF e.kind \in kinds THEN AmongIn(s, a, l, kinds) \union {n}
                                  ELSE AmongIn(s, a, l, kinds)
                  /\ e.kind \in PartAdded => Cardinality(AmongIn(t, a, n, PartAdded))
                                               = Cardinality(AmongIn(s, a, l, PartAdded)) + 1
                  /\ FinishedIn(t, n) <=> FinishedIn(s, l) \/ e.kind = "output_item.done"
  <2>0. /\ AddedIn(t, n) = AddedIn(s, Len(s)) /\ LastIn(t, n) = LastIn(s, Len(s))
        /\ AddedIn(s, Len(s)) # {} => /\ LastIn(s, Len(s)) \in 1..Len(s)
                                      /\ t[LastIn(s, Len(s))] = s[LastIn(s, Len(s))]
    BY <1>0, <1>4, OtherAdds
  <2>1. AddedIn(t, n) = AddedIn(s, l) /\ LastIn(t, n) = a  BY <1>1, <2>0
  <2>2. SUFFICES ASSUME AddedIn(s, l) # {}
                 PROVE  /\ t[a] = s[a] /\ a \in 1..n
                        /\ \A kinds : AmongIn(t, a, n, kinds) =
                                  IF e.kind \in kinds THEN AmongIn(s, a, l, kinds) \union {n}
                                  ELSE AmongIn(s, a, l, kinds)
                        /\ e.kind \in PartAdded => Cardinality(AmongIn(t, a, n, PartAdded))
                                               = Cardinality(AmongIn(s, a, l, PartAdded)) + 1
                        /\ FinishedIn(t, n) <=> FinishedIn(s, l) \/ e.kind = "output_item.done"
    BY <2>1
  <2>3. t[a] = s[a] /\ a \in 1..l  BY <1>1, <2>0, <2>2
  <2>4. a \in 1..n  BY <1>1, <1>2, <2>3
  <2>5. /\ \A kinds : AmongIn(t, a, n, kinds) =
                        IF e.kind \in kinds THEN AmongIn(s, a, l, kinds) \union {n}
                        ELSE AmongIn(s, a, l, kinds)
        /\ \A kinds : e.kind \in kinds => Cardinality(AmongIn(t, a, n, kinds))
                                            = Cardinality(AmongIn(s, a, l, kinds)) + 1
    <3>2. a \in 1..(Len(s) + 1)  BY <1>0, <2>4
    <3>3. /\ \A kinds : AmongIn(Append(s, e), a, Len(s) + 1, kinds) =
                          IF e.kind \in kinds THEN AmongIn(s, a, Len(s), kinds) \union {Len(s) + 1}
                          ELSE AmongIn(s, a, Len(s), kinds)
          /\ \A kinds : e.kind \in kinds =>
               Cardinality(AmongIn(Append(s, e), a, Len(s) + 1, kinds))
                 = Cardinality(AmongIn(s, a, Len(s), kinds)) + 1
      BY <1>4, <3>2, OtherAdds
    <3>. QED BY <1>0, <3>3, Zenon
  <2>6. FinishedIn(t, n) <=> FinishedIn(s, l) \/ e.kind = "output_item.done"
    BY <1>1, <2>1, <2>5 DEF FinishedIn
  <2>. QED BY <2>3, <2>4, <2>5, <2>6
<1>5. CASE Closes(d, e, o)
  <2>1. e.kind # "output_item.added" /\ e.kind = "output_item.done" /\ e.kind \notin NestedKinds
    BY <1>5, KindsDiffer DEF Closes
  <2>2. Fits(s, l, e)  BY <1>1, <1>5, <2>1, KindsDiffer DEF Fits, Closes, Linked
  <2>3. Linked(t, o)  BY <1>1, <1>2, <1>4, <1>5, <2>1 DEF Linked, Closes
  <2>. QED BY <1>1, <1>5, <2>2, <2>3 DEF Holds, Closes
<1>6. CASE StartsPart(d, e, o)
  <2>1. e.kind # "output_item.added" /\ e.kind # "output_item.done"
    BY <1>6, KindsDiffer DEF StartsPart
  <2>2. Fits(s, l, e)  BY <1>1, <1>6, <2>1 DEF Fits, StartsPart, Linked, Active
  <2>3. Linked(t, o)
    <3>1. Linked(s, d) /\ SameItem(o, d) /\ e.kind \in PartAdded
          /\ o.next_content_index = d.next_content_index + 1
      BY <1>6 DEF StartsPart
    <3>. QED BY <1>1, <1>2, <1>4, <2>1, <3>1 DEF Linked, SameItem
  <2>. QED BY <1>1, <1>6, <2>2, <2>3 DEF Holds, StartsPart, SameItem
<1>7. CASE StaysWithin(d, e, o) \/ Passes(d, e, o)
  <2>1. e.kind # "output_item.added" /\ e.kind # "output_item.done" /\ e.kind \notin PartAdded
    BY <1>7, KindsDiffer DEF StaysWithin, Passes
  <2>2. Fits(s, l, e)
    BY <1>1, <1>7, <2>1 DEF Fits, StaysWithin, Passes, Linked, Active
  <2>3. SameItem(o, d) /\ o.next_content_index = d.next_content_index
    BY <1>7 DEF StaysWithin, Passes, SamePlace
  <2>4. Linked(t, o)
    <3>1. AddedIn(s, l) # {} => /\ t[a] = s[a]
                                /\ AmongIn(t, a, n, PartAdded) = AmongIn(s, a, l, PartAdded)
                                /\ FinishedIn(t, n) <=> FinishedIn(s, l)
      BY <1>4, <2>1
    <3>2. AddedIn(t, n) = AddedIn(s, l) /\ LastIn(t, n) = a  BY <1>4, <2>1
    <3>. QED BY <1>1, <1>2, <2>3, <3>1, <3>2 DEF Linked, SameItem
  <2>. QED BY <1>1, <2>2, <2>3, <2>4 DEF Holds, SameItem
<1>. QED BY <1>3, <1>5, <1>6, <1>7 DEF MovesPlace

(* What is lost of an event within a skipped item or part, or outside. *)
GapOf(e, item, part) ==
  CASE e.kind = "output_item.added" ->
         IF ~IsKnown(e.item[1]) THEN <<<<"item", e.output_index>>>>
         ELSE IF e.item[1].kind = "reasoning" /\ e.item[1].cipher # <<>>
         THEN <<<<"cipher", e.output_index>>>> ELSE <<>>
    [] e.kind \in PartAdded ->
         IF item \/ e.part[1].kind = "output_text" THEN <<>>
         ELSE <<<<"part", e.output_index, e.content_index>>>>
    [] e.kind = "output_item.done" ->
         IF e.item[1].kind \in PatchItems THEN PatchLosses(e)
         ELSE IF e.item[1].kind = "web_search_call" /\ e.item[1].payload = "lossy"
         THEN <<<<"action", e.output_index>>>> ELSE <<>>
    [] e.kind \in Terminals ->
         IF StopOf(e.response[1], FALSE) = "other" THEN <<<<"status", -1>>>> ELSE <<>>
    [] e.kind \in {"created"} \union (NestedKinds \ PartAdded) -> <<>>
    [] OTHER -> IF HasIdentity(e) /\ (item \/ part) THEN <<>> ELSE <<<<"event", -1>>>>

(* GapOf, kind by kind. *)
LEMMA GapForms ==
  ASSUME NEW e, NEW item, NEW part
  PROVE  /\ e.kind = "output_item.added" =>
              GapOf(e, item, part) =
                IF ~IsKnown(e.item[1]) THEN <<<<"item", e.output_index>>>>
                ELSE IF e.item[1].kind = "reasoning" /\ e.item[1].cipher # <<>>
                THEN <<<<"cipher", e.output_index>>>> ELSE <<>>
         /\ e.kind \in PartAdded =>
              GapOf(e, item, part) =
                IF item \/ e.part[1].kind = "output_text" THEN <<>>
                ELSE <<<<"part", e.output_index, e.content_index>>>>
         /\ e.kind = "output_item.done" =>
              GapOf(e, item, part) =
                IF e.item[1].kind \in PatchItems THEN PatchLosses(e)
                ELSE IF e.item[1].kind = "web_search_call" /\ e.item[1].payload = "lossy"
                THEN <<<<"action", e.output_index>>>> ELSE <<>>
         /\ e.kind \in Terminals =>
              GapOf(e, item, part) =
                IF StopOf(e.response[1], FALSE) = "other" THEN <<<<"status", -1>>>> ELSE <<>>
         /\ e.kind \in {"created"} \union (NestedKinds \ PartAdded) =>
              GapOf(e, item, part) = <<>>
         /\ e.kind \notin KnownEvents =>
              GapOf(e, item, part) =
                IF HasIdentity(e) /\ (item \/ part) THEN <<>> ELSE <<<<"event", -1>>>>
<1>1. PICK g, added, started, done, end, other :
        /\ g = GapOf(e, item, part)
        /\ added = (IF ~IsKnown(e.item[1]) THEN <<<<"item", e.output_index>>>>
                    ELSE IF e.item[1].kind = "reasoning" /\ e.item[1].cipher # <<>>
                    THEN <<<<"cipher", e.output_index>>>> ELSE <<>>)
        /\ started = (IF item \/ e.part[1].kind = "output_text" THEN <<>>
                      ELSE <<<<"part", e.output_index, e.content_index>>>>)
        /\ done = (IF e.item[1].kind \in PatchItems THEN PatchLosses(e)
                   ELSE IF e.item[1].kind = "web_search_call" /\ e.item[1].payload = "lossy"
                   THEN <<<<"action", e.output_index>>>> ELSE <<>>)
        /\ end = (IF StopOf(e.response[1], FALSE) = "other" THEN <<<<"status", -1>>>> ELSE <<>>)
        /\ other = (IF HasIdentity(e) /\ (item \/ part) THEN <<>> ELSE <<<<"event", -1>>>>)
  OBVIOUS
<1>2. g = CASE e.kind = "output_item.added" -> added
            [] e.kind \in PartAdded -> started
            [] e.kind = "output_item.done" -> done
            [] e.kind \in Terminals -> end
            [] e.kind \in {"created"} \union (NestedKinds \ PartAdded) -> <<>>
            [] OTHER -> other
  BY <1>1, Zenon DEF GapOf
<1>3. NestedKinds \ PartAdded = PartDone \union TextDelta \union TextDone \union InputEvents
  BY DEF NestedKinds, PartAdded, PartDone, TextDelta, TextDone, InputEvents
<1>4. /\ e.kind = "output_item.added" => g = added
      /\ e.kind = "output_item.done" => g = done
  BY <1>2, <1>3 DEF PartAdded, Terminals, PartDone, TextDelta, TextDone, InputEvents
<1>5. e.kind \in PartAdded => g = started
  BY <1>2, <1>3 DEF PartAdded, Terminals, PartDone, TextDelta, TextDone, InputEvents
<1>6. e.kind \in Terminals => g = end
  BY <1>2, <1>3 DEF PartAdded, Terminals, PartDone, TextDelta, TextDone, InputEvents
<1>7. e.kind \in {"created"} \union (NestedKinds \ PartAdded) => g = <<>>
  BY <1>2, <1>3 DEF PartAdded, Terminals, PartDone, TextDelta, TextDone, InputEvents
<1>8. e.kind \notin KnownEvents => g = other  BY <1>2, KindsDiffer
<1>. QED BY <1>1, <1>4, <1>5, <1>6, <1>7, <1>8, Zenon

(* The same, each kind by itself. *)
LEMMA AddedGap ==
  ASSUME NEW e, NEW item, NEW part, e.kind = "output_item.added"
  PROVE  GapOf(e, item, part) =
           IF ~IsKnown(e.item[1]) THEN <<<<"item", e.output_index>>>>
           ELSE IF e.item[1].kind = "reasoning" /\ e.item[1].cipher # <<>>
           THEN <<<<"cipher", e.output_index>>>> ELSE <<>>
BY GapForms, Zenon

LEMMA PartGap ==
  ASSUME NEW e, NEW item, NEW part, e.kind \in PartAdded
  PROVE  GapOf(e, item, part) =
           IF item \/ e.part[1].kind = "output_text" THEN <<>>
           ELSE <<<<"part", e.output_index, e.content_index>>>>
BY GapForms, Zenon

LEMMA DoneGap ==
  ASSUME NEW e, NEW item, NEW part, e.kind = "output_item.done"
  PROVE  GapOf(e, item, part) =
           IF e.item[1].kind \in PatchItems THEN PatchLosses(e)
           ELSE IF e.item[1].kind = "web_search_call" /\ e.item[1].payload = "lossy"
           THEN <<<<"action", e.output_index>>>> ELSE <<>>
BY GapForms, Zenon

LEMMA EndGap ==
  ASSUME NEW e, NEW item, NEW part, e.kind \in Terminals
  PROVE  GapOf(e, item, part) =
           IF StopOf(e.response[1], FALSE) = "other" THEN <<<<"status", -1>>>> ELSE <<>>
BY GapForms, Zenon

LEMMA PlainGap ==
  ASSUME NEW e, NEW item, NEW part, e.kind \in {"created"} \union (NestedKinds \ PartAdded)
  PROVE  GapOf(e, item, part) = <<>>
BY GapForms, Zenon

LEMMA UnknownGap ==
  ASSUME NEW e, NEW item, NEW part, e.kind \notin KnownEvents
  PROVE  GapOf(e, item, part) =
           IF HasIdentity(e) /\ (item \/ part) THEN <<>> ELSE <<<<"event", -1>>>>
BY GapForms, Zenon

(* An event was accepted: it moved what is open and its gap was recorded. *)
Accepted(e) ==
  /\ fed' = Append(fed, e) /\ failed' = failed
  /\ MovesPlace(dec, e, dec')
  /\ dec'.losses = dec.losses \o GapOf(e, dec.skipped_item, dec.skipped_part)

Fails == fed' = fed /\ failed'

LEMMA SamePlaceMoves ==
  ASSUME NEW d, NEW e, NEW o, MovesPlace(d, e, o), NEW p, SamePlace(p, o)
  PROVE  MovesPlace(d, e, p)
<1>1. Opens(d, e, o) => Opens(d, e, p)  BY DEF Opens, SamePlace, SameItem, Holds
<1>2. Closes(d, e, o) => Closes(d, e, p)  BY DEF Closes, SamePlace, SameItem
<1>3. StartsPart(d, e, o) => StartsPart(d, e, p)
  BY DEF StartsPart, SamePlace, SameItem
<1>4. StaysWithin(d, e, o) => StaysWithin(d, e, p)
  BY DEF StaysWithin, SamePlace, SameItem
<1>5. Passes(d, e, o) => Passes(d, e, p)  BY DEF Passes, SamePlace, SameItem
<1>. QED BY <1>1, <1>2, <1>3, <1>4, <1>5 DEF MovesPlace

(* An accepted event, by the struct before the events are handed over:
   with losses, without, and with the item closed. *)
LEMMA LostAccepted ==
  ASSUME TypeOK', NEW e, NEW d, NEW losses, NEW u, Yields(e, Lose(d, losses), u),
         d.losses = dec.losses, MovesPlace(dec, e, d),
         losses = GapOf(e, dec.skipped_item, dec.skipped_part)
  PROVE  Accepted(e)
<1>1. PICK l : l = d.losses \o losses  OBVIOUS
<1>2. PICK o : o = [d EXCEPT !.losses = l]  OBVIOUS
<1>3. o = Lose(d, losses)  BY <1>1, <1>2 DEF Lose
<1>4. fed' = Append(fed, e) /\ failed' = failed /\ dec' = [o EXCEPT !.events = @ \o u]
  BY <1>3 DEF Yields
<1>5. DOMAIN dec' = DOMAIN d /\ dec' \in Decoders  BY <1>2, <1>4 DEF TypeOK
<1>6. SamePlace(dec', d) /\ dec'.losses = l
  BY <1>2, <1>4, <1>5 DEF Decoders, SamePlace, SameItem
<1>7. MovesPlace(dec, e, dec')  BY <1>6, SamePlaceMoves
<1>. QED BY <1>1, <1>4, <1>6, <1>7 DEF Accepted

LEMMA PlainAccepted ==
  ASSUME TypeOK, TypeOK', NEW e, NEW d, NEW u, Yields(e, d, u),
         d.losses = dec.losses, MovesPlace(dec, e, d),
         GapOf(e, dec.skipped_item, dec.skipped_part) = <<>>
  PROVE  Accepted(e)
<1>1. fed' = Append(fed, e) /\ failed' = failed /\ dec' = [d EXCEPT !.events = @ \o u]
  BY DEF Yields
<1>2. DOMAIN dec' = DOMAIN d /\ dec' \in Decoders  BY <1>1 DEF TypeOK
<1>3. SamePlace(dec', d) /\ dec'.losses = dec.losses
  BY <1>1, <1>2 DEF Decoders, SamePlace, SameItem
<1>4. dec.losses \o <<>> = dec.losses  BY DEF TypeOK, Decoders
<1>5. MovesPlace(dec, e, dec')  BY <1>3, SamePlaceMoves
<1>. QED BY <1>1, <1>3, <1>4, <1>5 DEF Accepted

LEMMA ClosedAccepted ==
  ASSUME TypeOK', NEW e, NEW d, NEW u, Yields(e, CloseItem(d), u),
         e.kind = "output_item.done", DoneMatches(dec, e),
         d.next_output_index = dec.next_output_index, d.skipped_part = dec.skipped_part,
         d.losses = dec.losses \o GapOf(e, dec.skipped_item, dec.skipped_part)
  PROVE  Accepted(e)
<1>1. PICK empty, none : empty = "" /\ none = None  OBVIOUS
<1>2. PICK o : o = [d EXCEPT !.item_open = FALSE, !.item_type = empty, !.item_id = empty,
                             !.skipped_call_id = empty, !.skipped_item = FALSE,
                             !.function_call = none]
  OBVIOUS
<1>3. o = CloseItem(d)  BY <1>1, <1>2, Zenon DEF CloseItem
<1>4. fed' = Append(fed, e) /\ failed' = failed /\ dec' = [o EXCEPT !.events = @ \o u]
  BY <1>3 DEF Yields
<1>5. DOMAIN dec' = DOMAIN d /\ dec' \in Decoders  BY <1>2, <1>4 DEF TypeOK
<1>6. /\ ~dec'.item_open /\ dec'.next_output_index = d.next_output_index
      /\ dec'.skipped_part = d.skipped_part /\ dec'.losses = d.losses
  BY <1>2, <1>4, <1>5 DEF Decoders
<1>7. Closes(dec, e, dec')  BY <1>6 DEF Closes, DoneMatches
<1>. QED BY <1>4, <1>6, <1>7 DEF Accepted, MovesPlace

(* The message starts. *)
LEMMA CreatedAccepted ==
  ASSUME TypeOK, TypeOK', NEW e \in Events, FeedCreated(e)
  PROVE  Fails \/ Accepted(e)
<1>1. PICK d : d = [dec EXCEPT !.started = TRUE]  OBVIOUS
<1>2. e.kind = "created" /\ (Rejects(dec) \/ Yields(e, d, <<MessageStart>>))
  BY <1>1 DEF FeedCreated, Receives
<1>3. SamePlace(d, dec) /\ d.losses = dec.losses
  BY <1>1 DEF TypeOK, Decoders, SamePlace, SameItem
<1>4. MovesPlace(dec, e, d)  BY <1>2, <1>3, KindsDiffer DEF MovesPlace, Passes
<1>5. GapOf(e, dec.skipped_item, dec.skipped_part) = <<>>
  BY <1>2, PlainGap, Zenon
<1>6. CASE Rejects(dec)  BY <1>6 DEF Rejects, Fails
<1>7. CASE Yields(e, d, <<MessageStart>>)
  BY <1>3, <1>4, <1>5, <1>7, PlainAccepted
<1>. QED BY <1>2, <1>6, <1>7

(* An item opens: one that is skipped is lost as a whole, a known one
   loses at most its cipher. *)
LEMMA ItemAddedAccepted ==
  ASSUME TypeOK, TypeOK', NEW e \in Events, FeedItemAdded(e)
  PROVE  Fails \/ Accepted(e)
<1>1. dec \in Decoders /\ Books(dec)  BY TypeOKIsSound DEF Sound
<1>2. PICK o, item : o = OpenItem(dec, e) /\ item = e.item[1]  OBVIOUS
<1>3. CASE FeedAddRejected(e) \/ FeedAddInvalid(e)
  BY <1>3 DEF FeedAddRejected, FeedAddInvalid, Rejects, Fails
<1>4. /\ o.item_open /\ o.item_type = item.kind /\ o.item_id = item.id
      /\ o.output_index = e.output_index /\ o.next_output_index = dec.next_output_index + 1
      /\ o.next_content_index = 0 /\ o.apply_patch = dec.apply_patch
      /\ o.skipped_item = dec.skipped_item /\ o.skipped_part = dec.skipped_part
      /\ o.losses = dec.losses /\ o.function_call = None
      /\ DOMAIN o = DOMAIN dec
  BY <1>1, <1>2 DEF OpenItem, Decoders
<1>5. Adding(e) => /\ e.kind = "output_item.added" /\ ~dec.item_open
                   /\ e.output_index = dec.next_output_index
                   /\ ~dec.skipped_item
  BY <1>1 DEF Adding, Receives, AddRejected, Books, InSkipped
<1>6. e.kind = "output_item.added" =>
        GapOf(e, dec.skipped_item, dec.skipped_part) =
          IF ~IsKnown(e.item[1]) THEN <<<<"item", e.output_index>>>>
          ELSE IF e.item[1].kind = "reasoning" /\ e.item[1].cipher # <<>>
          THEN <<<<"cipher", e.output_index>>>> ELSE <<>>
  BY AddedGap, Zenon
<1>7. CASE FeedAddSkipped(e)
  <2>1. Adding(e) /\ ~IsKnown(item)  BY <1>2, <1>7 DEF FeedAddSkipped
  <2>2. PICK p, q, losses :
          /\ p = [o EXCEPT !.skipped_item = TRUE]
          /\ q = [p EXCEPT !.skipped_call_id = item.call_id]
          /\ losses = <<<<"item", e.output_index>>>>
    OBVIOUS
  <2>3. PICK k \in {p, q} : Yields(e, Lose(k, losses), <<>>)
    BY <1>2, <1>7, <2>2, Zenon DEF FeedAddSkipped
  <2>4. /\ k.item_open = o.item_open /\ k.item_type = o.item_type /\ k.item_id = o.item_id
        /\ k.output_index = o.output_index /\ k.next_output_index = o.next_output_index
        /\ k.next_content_index = o.next_content_index /\ k.skipped_part = o.skipped_part
        /\ k.apply_patch = o.apply_patch /\ k.losses = o.losses
        /\ k.skipped_item
    <3>1. /\ p.item_open = o.item_open /\ p.item_type = o.item_type /\ p.item_id = o.item_id
          /\ p.output_index = o.output_index /\ p.next_output_index = o.next_output_index
          /\ p.next_content_index = o.next_content_index /\ p.skipped_part = o.skipped_part
          /\ p.apply_patch = o.apply_patch /\ p.losses = o.losses
          /\ p.skipped_item /\ DOMAIN p = DOMAIN dec
      BY <1>1, <1>4, <2>2 DEF Decoders
    <3>2. /\ q.item_open = p.item_open /\ q.item_type = p.item_type /\ q.item_id = p.item_id
          /\ q.output_index = p.output_index /\ q.next_output_index = p.next_output_index
          /\ q.next_content_index = p.next_content_index /\ q.skipped_part = p.skipped_part
          /\ q.apply_patch = p.apply_patch /\ q.losses = p.losses
          /\ q.skipped_item = p.skipped_item
      BY <1>1, <2>2, <3>1 DEF Decoders
    <3>. QED BY <3>1, <3>2
  <2>5. item.kind \notin PatchItems  BY <2>1 DEF IsKnown, KnownItems, PatchItems
  <2>6. Opens(dec, e, k)  BY <1>2, <1>4, <1>5, <2>1, <2>4, <2>5 DEF Opens, Holds
  <2>7. losses = GapOf(e, dec.skipped_item, dec.skipped_part)
    BY <1>2, <1>5, <1>6, <2>1, <2>2
  <2>. QED BY <1>4, <2>3, <2>4, <2>6, <2>7, LostAccepted DEF MovesPlace
<1>8. CASE FeedAddKnown(e)
  <2>1. Adding(e) /\ IsKnown(item)  BY <1>2, <1>8 DEF FeedAddKnown
  <2>2. PICK call, patch, losses :
          /\ call = (IF item.kind \in CallItems THEN Some(Call(item)) ELSE o.function_call)
          /\ patch = (IF item.kind \in PatchItems THEN Some(item.call_id) ELSE o.apply_patch)
          /\ losses = (IF item.kind = "reasoning" /\ item.cipher # <<>>
                       THEN <<<<"cipher", e.output_index>>>> ELSE <<>>)
    OBVIOUS
  <2>3. PICK d : d = [o EXCEPT !.function_call = call, !.apply_patch = patch]
    OBVIOUS
  <2>4. Yields(e, Lose(d, losses), <<>>)
    BY <1>2, <1>8, <2>2, <2>3, Zenon DEF FeedAddKnown
  <2>5. /\ d.item_open = o.item_open /\ d.item_type = o.item_type /\ d.item_id = o.item_id
        /\ d.output_index = o.output_index /\ d.next_output_index = o.next_output_index
        /\ d.next_content_index = o.next_content_index /\ d.skipped_part = o.skipped_part
        /\ d.apply_patch = patch /\ d.losses = o.losses
        /\ d.skipped_item = o.skipped_item
    BY <1>1, <1>4, <2>3 DEF Decoders
  <2>6. item.kind \in PatchItems => patch # None  BY <2>2 DEF Some, None
  <2>7. Opens(dec, e, d)  BY <1>2, <1>4, <1>5, <2>1, <2>5, <2>6 DEF Opens, Holds
  <2>8. losses = GapOf(e, dec.skipped_item, dec.skipped_part)
    BY <1>2, <1>5, <1>6, <2>1, <2>2
  <2>. QED BY <1>4, <2>4, <2>5, <2>7, <2>8, LostAccepted DEF MovesPlace
<1>. QED BY <1>3, <1>7, <1>8 DEF FeedItemAdded

(* A part starts: skipped within a skipped item or of an unknown kind. *)
LEMMA PartStartAccepted ==
  ASSUME TypeOK, TypeOK', NEW e \in Events, StartingPart(e), NEW d, NEW losses, NEW u,
         \/ Yields(e, Lose(d, losses), u)
         \/ Yields(e, d, u) /\ losses = <<>>,
         NEW skipped \in BOOLEAN,
         skipped <=> dec.skipped_item \/ e.part[1].kind # "output_text",
         losses = GapOf(e, dec.skipped_item, dec.skipped_part),
         SameItem(d, NextPart(dec, e)), d.losses = NextPart(dec, e).losses,
         d.next_content_index = NextPart(dec, e).next_content_index, d.skipped_part = skipped
  PROVE  Accepted(e)
<1>1. dec \in Decoders  BY DEF TypeOK
<1>2. PICK n : n = NextPart(dec, e)  OBVIOUS
<1>3. SameItem(n, dec) /\ n.losses = dec.losses /\ n.next_content_index = dec.next_content_index + 1
  BY <1>1, <1>2 DEF NextPart, Decoders, SameItem
<1>4. /\ e.kind \in PartAdded /\ Active(dec, e) /\ e.content_index = dec.next_content_index
      /\ ~dec.skipped_part
  BY DEF StartingPart, Receives, PartStartRejected, PartOpen
<1>5. SameItem(d, dec) /\ d.losses = dec.losses /\ d.next_content_index = dec.next_content_index + 1
  BY <1>2, <1>3 DEF SameItem
<1>6. MovesPlace(dec, e, d)  BY <1>4, <1>5 DEF MovesPlace, StartsPart
<1>. QED BY <1>5, <1>6, LostAccepted, PlainAccepted

LEMMA PartAccepted ==
  ASSUME TypeOK, TypeOK', NEW e \in Events, FeedPart(e)
  PROVE  Fails \/ Accepted(e)
<1>1. dec \in Decoders /\ Books(dec)  BY TypeOKIsSound DEF Sound
<1>2. PICK n, gap : /\ n = NextPart(dec, e)
                    /\ gap = GapOf(e, dec.skipped_item, dec.skipped_part)
  OBVIOUS
<1>3. /\ n.skipped_item = dec.skipped_item /\ n.losses = dec.losses
      /\ n.skipped_part = dec.skipped_part /\ DOMAIN n = DOMAIN dec
  BY <1>1, <1>2 DEF NextPart, Decoders
<1>4. e.kind \in PartAdded =>
        gap = IF dec.skipped_item \/ e.part[1].kind = "output_text" THEN <<>>
              ELSE <<<<"part", e.output_index, e.content_index>>>>
  <2>1. ASSUME e.kind \in PartAdded
        PROVE  GapOf(e, dec.skipped_item, dec.skipped_part) =
                 IF dec.skipped_item \/ e.part[1].kind = "output_text" THEN <<>>
                 ELSE <<<<"part", e.output_index, e.content_index>>>>
    BY <2>1, PartGap, Zenon
  <2>. QED BY <1>2, <2>1
<1>5. e.kind \in NestedKinds \ PartAdded => gap = <<>>
  <2>1. e.kind \in NestedKinds \ PartAdded =>
          e.kind \in {"created"} \union (NestedKinds \ PartAdded)
    OBVIOUS
  <2>. QED BY <1>2, <2>1, PlainGap, Zenon
<1>6. TextDelta \union TextDone \subseteq (NestedKinds \ PartAdded) \ PartDone
      /\ PartDone \subseteq NestedKinds \ PartAdded
  BY DEF NestedKinds, PartAdded, PartDone, TextDelta, TextDone
<1>7. CASE FeedPartRejected(e) \/ FeedPartMissing(e) \/ FeedTextRejected(e)
  BY <1>7 DEF FeedPartRejected, FeedPartMissing, FeedTextRejected, Rejects, Fails
<1>8. CASE FeedSkippedPart(e)
  <2>1. PICK d, losses :
          /\ d = [n EXCEPT !.skipped_part = TRUE]
          /\ losses = (IF dec.skipped_item THEN <<>>
                       ELSE <<<<"part", e.output_index, e.content_index>>>>)
    OBVIOUS
  <2>2. /\ StartingPart(e) /\ Yields(e, Lose(d, losses), <<>>)
        /\ dec.skipped_item \/ e.part[1].kind # "output_text"
    BY <1>2, <1>8, <2>1 DEF FeedSkippedPart
  <2>3. /\ d.item_open = n.item_open /\ d.item_type = n.item_type /\ d.item_id = n.item_id
        /\ d.output_index = n.output_index /\ d.next_output_index = n.next_output_index
        /\ d.skipped_item = n.skipped_item /\ d.apply_patch = n.apply_patch
        /\ d.losses = n.losses /\ d.next_content_index = n.next_content_index
        /\ d.skipped_part = TRUE
    BY <1>1, <1>3, <2>1 DEF Decoders
  <2>4. losses = gap  BY <1>4, <2>1, <2>2 DEF StartingPart, Receives
  <2>5. SameItem(d, n)  BY <2>3 DEF SameItem
  <2>. QED BY <1>2, <2>2, <2>3, <2>4, <2>5, PartStartAccepted
<1>9. CASE FeedPartStart(e)
  <2>1. PICK d : d = [n EXCEPT !.block_open = TRUE, !.text_done = FALSE,
                               !.block_index = dec.next_block_index,
                               !.next_block_index = @ + 1]
    OBVIOUS
  <2>2. /\ StartingPart(e) /\ ~dec.skipped_item /\ e.part[1].kind = "output_text"
        /\ \E u : Yields(e, d, u)
    BY <1>2, <1>9, <2>1 DEF FeedPartStart
  <2>3. /\ d.item_open = n.item_open /\ d.item_type = n.item_type /\ d.item_id = n.item_id
        /\ d.output_index = n.output_index /\ d.next_output_index = n.next_output_index
        /\ d.skipped_item = n.skipped_item /\ d.apply_patch = n.apply_patch
        /\ d.losses = n.losses /\ d.next_content_index = n.next_content_index
        /\ d.skipped_part = n.skipped_part
    BY <1>1, <1>3, <2>1 DEF Decoders
  <2>4. gap = <<>> /\ e.kind \in PartAdded
    BY <1>4, <2>2 DEF StartingPart, Receives
  <2>5. SameItem(d, n) /\ d.skipped_part = FALSE
    <3>1. ~dec.skipped_part
      BY <2>2 DEF StartingPart, PartStartRejected, PartOpen
    <3>. QED BY <1>1, <1>3, <2>3, <3>1 DEF SameItem, Decoders
  <2>. QED BY <1>2, <2>2, <2>3, <2>4, <2>5, PartStartAccepted
<1>10. ASSUME NEW d, NEW u, Yields(e, d, u), Active(dec, e), e.kind \in NestedKinds \ PartAdded,
              SameItem(d, dec), d.next_content_index = dec.next_content_index,
              d.losses = dec.losses,
              d.skipped_part <=> dec.skipped_part /\ e.kind \notin PartDone
       PROVE  Accepted(e)
  <2>1. MovesPlace(dec, e, d)  BY <1>10 DEF MovesPlace, StaysWithin
  <2>. QED BY <1>2, <1>5, <1>10, <2>1, PlainAccepted
<1>11. CASE FeedSkippedText(e) \/ FeedTextDelta(e)
  <2>1. /\ e.kind \in TextDelta \union TextDone /\ Active(dec, e)
        /\ \E u : Yields(e, dec, u)
    BY <1>11 DEF FeedSkippedText, FeedTextDelta, Receives, TextRejected
  <2>. QED BY <1>6, <1>10, <2>1 DEF SameItem
<1>12. CASE FeedTextDone(e)
  <2>1. PICK d : d = [dec EXCEPT !.text_done = TRUE]  OBVIOUS
  <2>2. e.kind \in TextDone /\ Active(dec, e) /\ Yields(e, d, <<>>)
    BY <1>12, <2>1 DEF FeedTextDone, Receives, TextRejected
  <2>3. SamePlace(d, dec) /\ d.losses = dec.losses
    BY <1>1, <2>1 DEF Decoders, SamePlace, SameItem
  <2>. QED BY <1>6, <1>10, <2>2, <2>3 DEF SamePlace
<1>13. CASE FeedPartDone(e)
  <2>1. PICK p, b : p = [dec EXCEPT !.skipped_part = FALSE] /\ b = [dec EXCEPT !.block_open = FALSE]
    OBVIOUS
  <2>2. CASE Rejects(dec)  BY <2>2 DEF Rejects, Fails
  <2>3. CASE ~Rejects(dec)
    <3>1. /\ e.kind \in PartDone /\ Active(dec, e)
          /\ \/ Yields(e, p, <<>>)
             \/ ~InSkipped(dec) /\ \E u : Yields(e, b, u)
      BY <1>13, <2>1, <2>3 DEF FeedPartDone, Receives, PartDoneRejected
    <3>2. SameItem(p, dec) /\ p.losses = dec.losses /\ ~p.skipped_part
          /\ p.next_content_index = dec.next_content_index
      BY <1>1, <2>1 DEF Decoders, SameItem
    <3>3. SamePlace(b, dec) /\ b.losses = dec.losses
      BY <1>1, <2>1 DEF Decoders, SamePlace, SameItem
    <3>. QED BY <1>6, <1>10, <3>1, <3>2, <3>3 DEF SamePlace, InSkipped
  <2>. QED BY <2>2, <2>3
<1>. QED BY <1>7, <1>8, <1>9, <1>11, <1>12, <1>13 DEF FeedPart

(* The input of a call is taken, or absorbed with the item. *)
LEMMA InputAccepts ==
  ASSUME TypeOK, TypeOK', NEW e \in Events, FeedInput(e)
  PROVE  Fails \/ Accepted(e)
<1>1. PICK d : d = [dec EXCEPT !.function_call = Some(TakeInput(@[1], e))]
  OBVIOUS
<1>2. /\ e.kind \in InputEvents
      /\ Rejects(dec) \/ (Active(dec, e) /\ (Yields(e, dec, <<>>) \/ Yields(e, d, <<>>)))
  BY <1>1 DEF FeedInput, Receives, InputAccepted
<1>3. SamePlace(d, dec) /\ d.losses = dec.losses /\ SamePlace(dec, dec)
  BY <1>1 DEF TypeOK, Decoders, SamePlace, SameItem
<1>4. e.kind \in NestedKinds \ PartAdded /\ e.kind \notin PartDone
  BY <1>2 DEF NestedKinds, PartAdded, PartDone, InputEvents
<1>5. GapOf(e, dec.skipped_item, dec.skipped_part) = <<>>
  <2>1. e.kind \in {"created"} \union (NestedKinds \ PartAdded)  BY <1>4
  <2>. QED BY <2>1, PlainGap, Zenon
<1>6. CASE Rejects(dec)  BY <1>6 DEF Rejects, Fails
<1>7. ASSUME Active(dec, e)
      PROVE  MovesPlace(dec, e, dec) /\ MovesPlace(dec, e, d)
  BY <1>3, <1>4, <1>7 DEF MovesPlace, StaysWithin, SamePlace
<1>. QED BY <1>2, <1>3, <1>5, <1>6, <1>7, PlainAccepted

(* An item is done.  Whether it is a patch, a call or neither is settled
   by its kind and by what the struct holds, which agree. *)
LEMMA ItemDoneAccepted ==
  ASSUME TypeOK, TypeOK', Holds(dec), NEW e \in Events, FeedItemDone(e)
  PROVE  Fails \/ Accepted(e)
<1>1. dec \in Decoders /\ Books(dec)  BY TypeOKIsSound DEF Sound
<1>2. PICK item, gap : item = e.item[1] /\ gap = GapOf(e, dec.skipped_item, dec.skipped_part)
  OBVIOUS
<1>3. Finishing(e) => /\ e.kind = "output_item.done" /\ DoneMatches(dec, e)
                      /\ item.kind = dec.item_type /\ dec.item_open
  BY <1>2 DEF Finishing, Receives, DoneRejected, DoneMatches
<1>4. e.kind = "output_item.done" =>
        gap = IF item.kind \in PatchItems THEN PatchLosses(e)
              ELSE IF item.kind = "web_search_call" /\ item.payload = "lossy"
              THEN <<<<"action", e.output_index>>>> ELSE <<>>
  <2>1. ASSUME e.kind = "output_item.done"
        PROVE  GapOf(e, dec.skipped_item, dec.skipped_part) =
                 IF e.item[1].kind \in PatchItems THEN PatchLosses(e)
                 ELSE IF e.item[1].kind = "web_search_call" /\ e.item[1].payload = "lossy"
                 THEN <<<<"action", e.output_index>>>> ELSE <<>>
    BY <2>1, DoneGap, Zenon
  <2>. QED BY <1>2, <2>1
<1>5. CASE \/ FeedDoneRejected(e) \/ FeedDonePartOpen(e) \/ FeedPatchMismatch(e)
           \/ FeedPatchInvalid(e) \/ FeedCallMismatch(e)
  BY <1>5 DEF FeedDoneRejected, FeedDonePartOpen, FeedPatchMismatch, FeedPatchInvalid,
              FeedCallMismatch, Rejects, Fails
<1>6. CASE FeedPatchDone(e)
  <2>1. PICK p, l, losses, items, m, used, u :
          /\ p = PatchTaken /\ losses = PatchLosses(e)
          /\ l = Lose(p, losses)
          /\ items = Append(l.completed_items, item)
          /\ m = (IF PatchLosses(e) = <<>> THEN l.next_block_index + 1 ELSE l.next_block_index)
          /\ used = (l.tool_use_seen \/ (PatchLosses(e) = <<>> /\ item.kind = "apply_patch_call"))
          /\ u = (IF PatchLosses(e) = <<>>
                  THEN Unit(dec.next_block_index, PatchBlock(item), <<>>) ELSE <<>>)
    OBVIOUS
  <2>2. PICK taken : taken = [l EXCEPT !.completed_items = items, !.next_block_index = m,
                                       !.tool_use_seen = used]
    OBVIOUS
  <2>3. Yields(e, CloseItem(taken), u) /\ Finishing(e) /\ dec.apply_patch # None
    BY <1>2, <1>6, <2>1, <2>2 DEF FeedPatchDone
  <2>4. losses = gap  BY <1>1, <1>3, <1>4, <2>1, <2>3 DEF Books
  <2>5. /\ p.next_output_index = dec.next_output_index /\ p.skipped_part = dec.skipped_part
        /\ p.losses = dec.losses /\ DOMAIN p = DOMAIN dec
    BY <1>1, <2>1 DEF PatchTaken, Decoders
  <2>6. PICK k : k = p.losses \o losses  OBVIOUS
  <2>7. /\ l.next_output_index = p.next_output_index /\ l.skipped_part = p.skipped_part
        /\ l.losses = k /\ DOMAIN l = DOMAIN dec
    BY <1>1, <2>1, <2>5, <2>6 DEF Lose, Decoders
  <2>8. /\ taken.next_output_index = l.next_output_index /\ taken.skipped_part = l.skipped_part
        /\ taken.losses = l.losses
    BY <1>1, <2>2, <2>7 DEF Decoders
  <2>9. taken.losses = dec.losses \o gap  BY <2>4, <2>5, <2>6, <2>7, <2>8
  <2>. QED BY <1>2, <1>3, <2>3, <2>5, <2>7, <2>8, <2>9, ClosedAccepted
<1>7. CASE FeedCallDone(e)
  <2>0. PICK none, n : none = None /\ n = dec.next_block_index + 1  OBVIOUS
  <2>1. PICK c : c = [dec EXCEPT !.function_call = none, !.next_block_index = n]
    OBVIOUS
  <2>8. PICK calls, u :
          /\ calls = (IF dec.function_call[1].custom
                      THEN Append(c.completed_custom_calls,
                                  [call_id |-> dec.function_call[1].call_id,
                                   name |-> dec.function_call[1].name,
                                   input |-> item.input])
                      ELSE c.completed_custom_calls)
          /\ u = CallUnit(dec.next_block_index, dec.function_call[1], item)
    OBVIOUS
  <2>2. PICK taken : taken = [c EXCEPT !.tool_use_seen = TRUE, !.completed_custom_calls = calls]
    OBVIOUS
  <2>3. Yields(e, CloseItem(taken), u) /\ Finishing(e) /\ dec.function_call # None
    BY <1>2, <1>7, <2>0, <2>1, <2>8, <2>2 DEF FeedCallDone, CallTaken
  <2>4. gap = <<>>
    <3>1. item.kind \in CallItems  BY <1>1, <1>3, <2>3 DEF Books
    <3>2. item.kind \notin PatchItems /\ item.kind # "web_search_call"
      BY <3>1 DEF CallItems, PatchItems
    <3>. QED BY <1>3, <1>4, <2>3, <3>2
  <2>5. /\ c.next_output_index = dec.next_output_index /\ c.skipped_part = dec.skipped_part
        /\ c.losses = dec.losses /\ DOMAIN c = DOMAIN dec
    BY <1>1, <2>1 DEF Decoders
  <2>6. /\ taken.next_output_index = c.next_output_index /\ taken.skipped_part = c.skipped_part
        /\ taken.losses = c.losses
    BY <1>1, <2>2, <2>5 DEF Decoders
  <2>7. taken.losses = dec.losses \o gap
    <3>1. dec.losses \o <<>> = dec.losses  BY <1>1 DEF Decoders
    <3>. QED BY <2>4, <2>5, <2>6, <3>1
  <2>. QED BY <1>2, <1>3, <2>3, <2>5, <2>6, <2>7, ClosedAccepted
<1>8. CASE FeedOtherDone(e)
  <2>1. PICK c, losses, o, n, k :
          /\ c = CountedBlock(dec, e)
          /\ n = dec.next_block_index + Len(ItemBlock(item))
          /\ losses = (IF item.kind = "web_search_call" /\ item.payload = "lossy"
                       THEN <<<<"action", e.output_index>>>> ELSE <<>>)
          /\ o = [dec EXCEPT !.next_block_index = n]
          /\ k = o.losses \o losses
    OBVIOUS
  <2>2. (\E u : Yields(e, CloseItem(c), u)) /\ Finishing(e) /\ dec.apply_patch = None
    BY <1>8, <2>1 DEF FeedOtherDone
  <2>3. c = Lose(o, losses)  BY <1>2, <2>1 DEF CountedBlock
  <2>4. item.kind \notin PatchItems  BY <1>3, <2>2 DEF Holds
  <2>5. losses = gap  BY <1>3, <1>4, <2>1, <2>2, <2>4
  <2>6. /\ o.next_output_index = dec.next_output_index /\ o.skipped_part = dec.skipped_part
        /\ o.losses = dec.losses /\ DOMAIN o = DOMAIN dec
    BY <1>1, <2>1 DEF Decoders
  <2>7. /\ c.next_output_index = o.next_output_index /\ c.skipped_part = o.skipped_part
        /\ c.losses = k
    BY <1>1, <2>1, <2>3, <2>6 DEF Lose, Decoders
  <2>8. c.losses = dec.losses \o gap  BY <2>1, <2>5, <2>6, <2>7
  <2>. QED BY <1>2, <1>3, <2>2, <2>6, <2>7, <2>8, ClosedAccepted
<1>. QED BY <1>5, <1>6, <1>7, <1>8 DEF FeedItemDone

(* The stop reason is other whether or not a tool was used. *)
LEMMA StopOther ==
  ASSUME NEW response, NEW calls \in BOOLEAN
  PROVE  StopOf(response, calls) = "other" <=> StopOf(response, FALSE) = "other"
BY DEF StopOf

(* The message ends. *)
LEMMA TerminalAccepts ==
  ASSUME TypeOK, TypeOK', NEW e \in Events, FeedTerminal(e)
  PROVE  Fails \/ Accepted(e)
<1>1. dec \in Decoders  BY DEF TypeOK
<1>2. PICK d, stop, losses :
        /\ d = [dec EXCEPT !.terminated = TRUE]
        /\ stop = StopOf(e.response[1], dec.tool_use_seen)
        /\ losses = (IF stop = "other" THEN <<<<"status", -1>>>> ELSE <<>>)
  OBVIOUS
<1>3. e.kind \in Terminals /\ (Rejects(dec) \/ \E u : Yields(e, Lose(d, losses), u))
  BY <1>2 DEF FeedTerminal, Receives
<1>4. SamePlace(d, dec) /\ d.losses = dec.losses
  BY <1>1, <1>2 DEF Decoders, SamePlace, SameItem
<1>5. MovesPlace(dec, e, d)
  <2>1. e.kind \notin NestedKinds \union {"output_item.added", "output_item.done"}
    BY <1>3, KindsDiffer
  <2>. QED BY <1>4, <2>1 DEF MovesPlace, Passes
<1>6. losses = GapOf(e, dec.skipped_item, dec.skipped_part)
  <2>1. dec.tool_use_seen \in BOOLEAN  BY <1>1 DEF Decoders
  <2>2. stop = "other" <=> StopOf(e.response[1], FALSE) = "other"
    BY <1>2, <2>1, StopOther
  <2>3. GapOf(e, dec.skipped_item, dec.skipped_part)
          = IF StopOf(e.response[1], FALSE) = "other" THEN <<<<"status", -1>>>> ELSE <<>>
    BY <1>3, EndGap, Zenon
  <2>. QED BY <1>2, <2>2, <2>3
<1>7. CASE Rejects(dec)  BY <1>7 DEF Rejects, Fails
<1>. QED BY <1>3, <1>4, <1>5, <1>6, <1>7, LostAccepted

(* An event of an unknown type. *)
LEMMA UnknownAccepted ==
  ASSUME TypeOK, TypeOK', NEW e \in Events, FeedUnknown(e)
  PROVE  Fails \/ Accepted(e)
<1>1. PICK losses : losses = <<<<"event", -1>>>>  OBVIOUS
<1>2. /\ e.kind \notin KnownEvents
      /\ \/ Rejects(dec)
         \/ InSkipped(dec) /\ HasIdentity(e) /\ Yields(e, dec, <<>>)
         \/ ~(InSkipped(dec) /\ HasIdentity(e)) /\ Yields(e, Lose(dec, losses), <<>>)
  BY <1>1 DEF FeedUnknown
<1>3. GapOf(e, dec.skipped_item, dec.skipped_part)
        = IF HasIdentity(e) /\ InSkipped(dec) THEN <<>> ELSE losses
  <2>1. GapOf(e, dec.skipped_item, dec.skipped_part)
          = IF HasIdentity(e) /\ (dec.skipped_item \/ dec.skipped_part) THEN <<>>
            ELSE <<<<"event", -1>>>>
    BY <1>2, UnknownGap, Zenon
  <2>. QED BY <1>1, <2>1 DEF InSkipped
<1>4. MovesPlace(dec, e, dec)
  <2>1. e.kind \notin NestedKinds \union {"output_item.added", "output_item.done"}
    BY <1>2, KindsDiffer
  <2>. QED BY <2>1 DEF MovesPlace, Passes, SamePlace, SameItem
<1>5. CASE Rejects(dec)  BY <1>5 DEF Rejects, Fails
<1>6. CASE InSkipped(dec) /\ HasIdentity(e) /\ Yields(e, dec, <<>>)
  BY <1>3, <1>4, <1>6, PlainAccepted
<1>7. CASE ~(InSkipped(dec) /\ HasIdentity(e)) /\ Yields(e, Lose(dec, losses), <<>>)
  BY <1>3, <1>4, <1>7, LostAccepted
<1>. QED BY <1>2, <1>5, <1>6, <1>7

(* Every call of feed fails or accepts its event. *)
LEMMA FeedAccepted ==
  ASSUME TypeOK, TypeOK', Holds(dec), NEW e \in Events, Feed(e)
  PROVE  Fails \/ Accepted(e)
<1>1. CASE FeedAfterEnd \/ FeedIntoPatch(e)
  BY <1>1 DEF FeedAfterEnd, FeedIntoPatch, Rejects, Fails
<1>. QED
  BY <1>1, CreatedAccepted, ItemAddedAccepted, PartAccepted, InputAccepts, ItemDoneAccepted,
     TerminalAccepts, UnknownAccepted DEF Feed

(* Every accepted event fitted when it came, and the struct knows the last
   item. *)
NestInv ==
  ~failed =>
    /\ fed \in Seq(Events)
    /\ \A k \in 1..Len(fed) : Fits(fed, k - 1, fed[k])
    /\ Linked(fed, dec) /\ Holds(dec)

(* What a step does to the invariants about items: it stutters, fails,
   confirms the end, or accepts an event. *)
LEMMA StepForms ==
  ASSUME TypeOK, TypeOK', ~failed, Holds(dec), [Next]_vars
  PROVE  \/ UNCHANGED vars
         \/ failed' /\ fed' = fed
         \/ /\ UNCHANGED <<fed, failed>> /\ SamePlace(dec', dec) /\ dec'.losses = dec.losses
         \/ \E e \in Events : Accepted(e)
<1>1. ASSUME NEW e \in Events, Feed(e)
      PROVE  (failed' /\ fed' = fed) \/ Accepted(e)
  BY <1>1, FeedAccepted DEF Fails
<1>2. CASE FlushRefused  BY <1>2 DEF FlushRefused
<1>3. CASE FlushConfirmed
  <2>1. dec \in Decoders /\ dec' = [dec EXCEPT !.flushed = TRUE] /\ UNCHANGED <<fed, failed>>
    BY <1>3 DEF FlushConfirmed, TypeOK
  <2>. QED BY <2>1 DEF Decoders, SamePlace, SameItem
<1>. QED BY <1>1, <1>2, <1>3 DEF Next, Flush

LEMMA NestInit ==
  ASSUME Init
  PROVE  NestInv
<1>1. fed = <<>> /\ ~dec.item_open /\ dec.next_output_index = 0
  BY Zenon DEF Init, NewDecoder
<1>2. AddedIn(fed, Len(fed)) = {}  BY <1>1 DEF AddedIn
<1>3. Linked(fed, dec) /\ Holds(dec)
  BY <1>1, <1>2, FS_EmptySet DEF Linked, Holds
<1>. QED BY <1>1, <1>3 DEF NestInv

LEMMA NestAccepted ==
  ASSUME TypeOK, NestInv, ~failed, NEW e \in Events, Accepted(e)
  PROVE  NestInv'
<1>1. fed \in Seq(Events) /\ dec \in Decoders /\ fed' = Append(fed, e)
  BY DEF TypeOK, NestInv, Accepted
<1>2. Fits(fed, Len(fed), e) /\ Linked(fed', dec') /\ Holds(dec')
  <2>1. Linked(fed, dec) /\ Holds(dec) /\ MovesPlace(dec, e, dec')
    BY DEF NestInv, Accepted
  <2>. QED BY <1>1, <2>1, MovesFit
<1>3. fed' \in Seq(Events)  BY <1>1
<1>4. ASSUME NEW k \in 1..Len(fed')
      PROVE  Fits(fed', k - 1, fed'[k])
  <2>1. PICK s, t : s = fed /\ t = fed'  OBVIOUS
  <2>2. t = Append(s, e) /\ s \in Seq(Events) /\ k \in 1..Len(t)  BY <1>1, <2>1
  <2>3. k - 1 \in 0..Len(s) /\ (k = Len(s) + 1 \/ k \in 1..Len(s))  BY <2>2
  <2>4. Fits(s, k - 1, t[k])
    <3>1. CASE k = Len(s) + 1
      <4>1. t[k] = e /\ k - 1 = Len(s)  BY <2>2, <3>1
      <4>. QED BY <1>2, <2>1, <4>1
    <3>2. CASE k \in 1..Len(s)
      <4>1. t[k] = s[k]  BY <2>2, <3>2
      <4>. QED BY <2>1, <3>2, <4>1 DEF NestInv
    <3>. QED BY <2>3, <3>1, <3>2
  <2>5. Fits(Append(s, e), k - 1, t[k]) <=> Fits(s, k - 1, t[k])
    BY <2>2, <2>3, FitsStays
  <2>. QED BY <2>1, <2>2, <2>4, <2>5
<1>. QED BY <1>2, <1>3, <1>4 DEF NestInv

LEMMA NestStep ==
  ASSUME TypeOK, TypeOK', NestInv, [Next]_vars
  PROVE  NestInv'
<1>1. CASE failed'  BY <1>1 DEF NestInv
<1>2. CASE ~failed'
  <2>1. ~failed  BY <1>2, StaysFailed
  <2>2. Holds(dec)  BY <2>1 DEF NestInv
  <2>3. CASE UNCHANGED vars  BY <2>3 DEF NestInv, vars
  <2>4. CASE UNCHANGED <<fed, failed>> /\ SamePlace(dec', dec)
    BY <2>1, <2>4 DEF NestInv, SamePlace, SameItem, Linked, Holds
  <2>5. CASE \E e \in Events : Accepted(e)  BY <2>1, <2>5, NestAccepted
  <2>. QED BY <1>2, <2>1, <2>2, <2>3, <2>4, <2>5, StepForms
<1>. QED BY <1>1, <1>2

(* An event that fitted when it came is where the property wants it. *)
LEMMA FittingOrder ==
  ASSUME fed \in Seq(Events), NEW k \in 1..Len(fed), Fits(fed, k - 1, fed[k])
  PROVE  LET e == fed[k]
         IN  /\ e.kind = "output_item.added" =>
                  /\ e.output_index = Cardinality(AddedUpTo(k - 1))
                  /\ AddedUpTo(k - 1) # {} =>
                       Among(AddedAt(k - 1), k - 1, {"output_item.done"}) # {}
             /\ e.kind \in NestedKinds \union {"output_item.done"} =>
                  /\ AddedUpTo(k) # {}
                  /\ e.output_index = fed[AddedAt(k)].output_index
                  /\ Among(AddedAt(k), k - 1, {"output_item.done"}) = {}
             /\ e.kind \in NestedKinds => e.item_id = AddedItem(k).id
             /\ e.kind \in PartAdded =>
                  e.content_index = Cardinality(Among(AddedAt(k), k - 1, PartAdded))
<1>1. /\ AddedUpTo(k - 1) = AddedIn(fed, k - 1) /\ AddedAt(k - 1) = LastIn(fed, k - 1)
      /\ AddedUpTo(k) = AddedIn(fed, k) /\ AddedAt(k) = LastIn(fed, k)
      /\ \A j, kinds : Among(j, k - 1, kinds) = AmongIn(fed, j, k - 1, kinds)
  BY DEF AddedUpTo, AddedAt, AddedIn, LastIn, Among, AmongIn
<1>2. fed[k].kind # "output_item.added" =>
        AddedIn(fed, k) = AddedIn(fed, k - 1) /\ LastIn(fed, k) = LastIn(fed, k - 1)
  <2>1. \A j \in 1..k : j \in 1..(k - 1) \/ j = k  OBVIOUS
  <2>2. \A j \in 1..(k - 1) : j \in 1..k  OBVIOUS
  <2>. QED BY <2>1, <2>2 DEF AddedIn, LastIn
<1>. QED BY <1>1, <1>2, KindsDiffer DEF Fits, FinishedIn, AddedItem

(* One item at a time and one part after the other: an event that names an
   item is accepted between its start and its end only, under its index
   and its id, and the indexes count from 0 without gaps. *)
THEOREM ItemsInOrder == Spec => []ItemsDoNotInterleave
<1>1. Init => TypeOK /\ NestInv  BY InitTypeOK, NestInit
<1>2. TypeOK /\ TypeOK' /\ NestInv /\ [Next]_vars => NestInv'  BY NestStep
<1>3. NestInv => ItemsDoNotInterleave
  BY FittingOrder DEF NestInv, ItemsDoNotInterleave
<1>. QED BY <1>1, <1>2, <1>3, DecoderTypeCorrect, PTL DEF Spec

-----------------------------------------------------------------------------
(* Losses *)

(* The part added at j is of a kind the IR has, in an item it has; after
   the first k events, the open item is one it does not have, and a part
   that was skipped is not done yet. *)
KeptIn(s, j) ==
  /\ s[j].kind \in PartAdded /\ s[j].part[1].kind = "output_text"
  /\ AddedIn(s, j) # {} /\ IsKnown(s[LastIn(s, j)].item[1])

ItemSkippedIn(s, k) ==
  AddedIn(s, k) # {} /\ ~IsKnown(s[LastIn(s, k)].item[1]) /\ ~FinishedIn(s, k)

PartSkippedIn(s, k) ==
  \E j \in 1..k :
    s[j].kind \in PartAdded /\ ~KeptIn(s, j) /\ AmongIn(s, j, k, PartDone) = {}

Gap(s, k) == GapOf(s[k], ItemSkippedIn(s, k - 1), PartSkippedIn(s, k - 1))

AllGaps(s) == [k \in 1..Len(s) |-> Gap(s, k)]

(* Losses name a kind and native indexes. *)
LEMMA GapType ==
  ASSUME NEW e \in Events, NEW item, NEW part
  PROVE  GapOf(e, item, part) \in Seq(Losses)
<1>1. \A kind \in {"item", "cipher", "action", "status", "operation", "event"} : \A i \in Int :
        <<<<kind, i>>>> \in Seq(Losses)
  BY DEF Losses
<1>2. \A i, j \in Int : <<<<"part", i, j>>>> \in Seq(Losses)  BY DEF Losses
<1>3. PICK none : none = <<>> /\ none \in Seq(Losses)
  <2>1. <<>> \in Seq(Losses)  OBVIOUS
  <2>. QED BY <2>1
<1>4. -1 \in Int  OBVIOUS
<1>5. CASE e.kind = "output_item.added"
  <2>1. e.output_index \in Int  BY <1>5, WireTypes
  <2>2. GapOf(e, item, part) = IF ~IsKnown(e.item[1]) THEN <<<<"item", e.output_index>>>>
                               ELSE IF e.item[1].kind = "reasoning" /\ e.item[1].cipher # <<>>
                               THEN <<<<"cipher", e.output_index>>>> ELSE <<>>
    BY <1>5, AddedGap, Zenon
  <2>. QED BY <1>1, <1>3, <2>1, <2>2
<1>6. CASE e.kind \in PartAdded
  <2>1. e.output_index \in Int /\ e.content_index \in Int  BY <1>6, WireTypes
  <2>2. GapOf(e, item, part) = IF item \/ e.part[1].kind = "output_text" THEN <<>>
                               ELSE <<<<"part", e.output_index, e.content_index>>>>
    BY <1>6, PartGap, Zenon
  <2>. QED BY <1>2, <1>3, <2>1, <2>2
<1>7. CASE e.kind = "output_item.done"
  <2>1. e.output_index \in Int  BY <1>7, WireTypes
  <2>2. GapOf(e, item, part) = IF e.item[1].kind \in PatchItems THEN PatchLosses(e)
                               ELSE IF e.item[1].kind = "web_search_call"
                                       /\ e.item[1].payload = "lossy"
                               THEN <<<<"action", e.output_index>>>> ELSE <<>>
    BY <1>7, DoneGap, Zenon
  <2>3. PatchLosses(e) \in Seq(Losses)  BY <2>1, PatchLossesType
  <2>. QED BY <1>1, <1>3, <2>1, <2>2, <2>3
<1>8. CASE e.kind \in Terminals
  <2>1. GapOf(e, item, part)
          = IF StopOf(e.response[1], FALSE) = "other" THEN <<<<"status", -1>>>> ELSE <<>>
    BY <1>8, EndGap, Zenon
  <2>. QED BY <1>1, <1>3, <1>4, <2>1
<1>9. CASE e.kind \in {"created"} \union (NestedKinds \ PartAdded)
  <2>1. GapOf(e, item, part) = <<>>  BY <1>9, PlainGap, Zenon
  <2>. QED BY <1>3, <2>1
<1>10. CASE e.kind \notin KnownEvents
  <2>1. GapOf(e, item, part)
          = IF HasIdentity(e) /\ (item \/ part) THEN <<>> ELSE <<<<"event", -1>>>>
    BY <1>10, UnknownGap, Zenon
  <2>. QED BY <1>1, <1>3, <1>4, <2>1
<1>. QED BY <1>5, <1>6, <1>7, <1>8, <1>9, <1>10, KindsDiffer

(* What is skipped after the first events does not depend on later ones. *)
LEMMA SkippedStays ==
  ASSUME NEW s \in Seq(Events), NEW e \in Events, NEW k \in 0..Len(s)
  PROVE  /\ ItemSkippedIn(Append(s, e), k) = ItemSkippedIn(s, k)
         /\ PartSkippedIn(Append(s, e), k) = PartSkippedIn(s, k)
<1>1. PICK t, l : t = Append(s, e) /\ l = Len(s)  OBVIOUS
<1>2. l \in Nat /\ k \in 0..l /\ \A j \in 1..l : t[j] = s[j]  BY <1>1
<1>3. ItemSkippedIn(t, k) <=> ItemSkippedIn(s, k)
  <2>1. /\ AddedIn(t, k) = AddedIn(s, k) /\ LastIn(t, k) = LastIn(s, k)
        /\ AddedIn(s, k) # {} => LastIn(s, k) \in 1..k /\ t[LastIn(s, k)] = s[LastIn(s, k)]
    BY <1>1, PrefixStays
  <2>2. \A j \in 1..(k + 1) : \A kinds : AmongIn(t, j, k, kinds) = AmongIn(s, j, k, kinds)
    BY <1>1, PrefixStays
  <2>3. AddedIn(s, k) # {} => LastIn(s, k) \in 1..(k + 1)  BY <1>2, <2>1
  <2>. QED BY <2>1, <2>2, <2>3 DEF ItemSkippedIn, FinishedIn
<1>4. PartSkippedIn(t, k) <=> PartSkippedIn(s, k)
  <2>1. ASSUME NEW j \in 1..k
        PROVE  /\ t[j] = s[j]
               /\ KeptIn(t, j) <=> KeptIn(s, j)
               /\ AmongIn(t, j, k, PartDone) = AmongIn(s, j, k, PartDone)
    <3>1. j \in 0..Len(s) /\ j \in 1..(k + 1) /\ t[j] = s[j]  BY <1>1, <1>2
    <3>2. /\ AddedIn(t, j) = AddedIn(s, j) /\ LastIn(t, j) = LastIn(s, j)
          /\ AddedIn(s, j) # {} => t[LastIn(s, j)] = s[LastIn(s, j)]
      BY <1>1, <3>1, PrefixStays
    <3>3. AmongIn(t, j, k, PartDone) = AmongIn(s, j, k, PartDone)
      BY <1>1, <3>1, PrefixStays
    <3>. QED BY <3>1, <3>2, <3>3 DEF KeptIn
  <2>. QED BY <2>1 DEF PartSkippedIn
<1>. QED BY <1>1, <1>3, <1>4 DEF ItemSkippedIn, PartSkippedIn

(* A part is skipped from its start to the next end of a part. *)
LEMMA PartSkippedGoesOn ==
  ASSUME NEW s \in Seq(Events), NEW e \in Events
  PROVE  PartSkippedIn(Append(s, e), Len(s) + 1) <=>
           \/ e.kind \in PartAdded /\ ~KeptIn(Append(s, e), Len(s) + 1)
           \/ PartSkippedIn(s, Len(s)) /\ e.kind \notin PartDone
<1>1. PICK t, l, n : t = Append(s, e) /\ l = Len(s) /\ n = l + 1  OBVIOUS
<1>2. l \in Nat /\ n = l + 1 /\ t[n] = e /\ \A j \in 1..l : t[j] = s[j]  BY <1>1
<1>3. e.kind \in PartAdded => AmongIn(t, n, n, PartDone) = {}
  <2>1. \A i \in n..n : i = n  BY <1>2
  <2>. QED BY <1>2, <2>1, KindsDiffer DEF AmongIn
<1>4. ASSUME NEW j \in 1..l
      PROVE  /\ t[j] = s[j] /\ (KeptIn(t, j) <=> KeptIn(s, j))
             /\ AmongIn(t, j, n, PartDone) = {} <=>
                  AmongIn(s, j, l, PartDone) = {} /\ e.kind \notin PartDone
  <2>1. j \in 0..Len(s) /\ t[j] = s[j]  BY <1>1, <1>2
  <2>2. /\ AddedIn(t, j) = AddedIn(s, j) /\ LastIn(t, j) = LastIn(s, j)
        /\ AddedIn(s, j) # {} => t[LastIn(s, j)] = s[LastIn(s, j)]
    BY <1>1, <2>1, PrefixStays
  <2>3. KeptIn(t, j) <=> KeptIn(s, j)  BY <2>1, <2>2 DEF KeptIn
  <2>4. \A i \in j..n : i \in j..l \/ i = n  BY <1>2
  <2>5. \A i \in j..l : i \in j..n /\ t[i] = s[i]  BY <1>2
  <2>6. n \in j..n  BY <1>2
  <2>7. AmongIn(t, j, n, PartDone) = {} <=>
          AmongIn(s, j, l, PartDone) = {} /\ e.kind \notin PartDone
    BY <1>2, <2>4, <2>5, <2>6 DEF AmongIn
  <2>. QED BY <2>1, <2>3, <2>7
<1>5. n \in 1..n /\ (\A j \in 1..l : j \in 1..n) /\ \A j \in 1..n : j \in 1..l \/ j = n
  BY <1>2
<1>6. PartSkippedIn(t, n) <=>
        \/ e.kind \in PartAdded /\ ~KeptIn(t, n)
        \/ PartSkippedIn(s, l) /\ e.kind \notin PartDone
  BY <1>2, <1>3, <1>4, <1>5 DEF PartSkippedIn
<1>. QED BY <1>1, <1>6

(* The gaps grow by that of the last event. *)
LEMMA GapsGrow ==
  ASSUME NEW s \in Seq(Events), NEW e \in Events
  PROVE  Concat(AllGaps(Append(s, e)))
           = Concat(AllGaps(s)) \o GapOf(e, ItemSkippedIn(s, Len(s)), PartSkippedIn(s, Len(s)))
<1>1. PICK t, l, f, g : t = Append(s, e) /\ l = Len(s) /\ f = AllGaps(s) /\ g = AllGaps(t)
  OBVIOUS
<1>2. /\ l \in Nat /\ Len(t) = l + 1 /\ t[l + 1] = e /\ \A j \in 1..l : t[j] = s[j]
      /\ \A j \in 1..l : s[j] \in Events
  BY <1>1
<1>3. f = [k \in 1..l |-> Gap(s, k)] /\ g = [k \in 1..(l + 1) |-> Gap(t, k)]
  BY <1>1, <1>2 DEF AllGaps
<1>4. \A k \in 1..l : f[k] = Gap(s, k) /\ f[k] \in Seq(Losses)
  BY <1>2, <1>3, GapType DEF Gap
<1>5. ASSUME NEW k \in 0..l
      PROVE  ItemSkippedIn(t, k) = ItemSkippedIn(s, k) /\ PartSkippedIn(t, k) = PartSkippedIn(s, k)
  BY <1>1, SkippedStays
<1>6. \A k \in 1..l : g[k] = f[k]
  <2>1. SUFFICES ASSUME NEW k \in 1..l
                 PROVE  g[k] = f[k]
    OBVIOUS
  <2>2. k \in 1..(l + 1) /\ t[k] = s[k] /\ k - 1 \in 0..l  BY <1>2
  <2>3. Gap(t, k) = Gap(s, k)  BY <1>5, <2>2, Zenon DEF Gap
  <2>. QED BY <1>3, <1>4, <2>2, <2>3
<1>7. g[l + 1] = GapOf(e, ItemSkippedIn(s, l), PartSkippedIn(s, l)) /\ g[l + 1] \in Seq(Losses)
  <2>1. l + 1 \in 1..(l + 1) /\ (l + 1) - 1 = l /\ l \in 0..l  BY <1>2
  <2>2. Gap(t, l + 1) = GapOf(e, ItemSkippedIn(t, l), PartSkippedIn(t, l))
    BY <1>2, <2>1, Zenon DEF Gap
  <2>3. Gap(t, l + 1) = GapOf(e, ItemSkippedIn(s, l), PartSkippedIn(s, l))
    BY <1>5, <2>1, <2>2, Zenon
  <2>. QED BY <1>3, <2>1, <2>3, GapType
<1>8. f \in [1..l -> Seq(Losses)] /\ g \in [1..(l + 1) -> Seq(Losses)]
  <2>1. \A k \in 1..(l + 1) : k \in 1..l \/ k = l + 1  BY <1>2
  <2>. QED BY <1>3, <1>4, <1>6, <1>7, <2>1
<1>9. Concat(g) = Concat(f) \o g[l + 1]  BY <1>2, <1>6, <1>8, ConcatGrows
<1>. QED BY <1>1, <1>7, <1>9

(* Of what is disputed the decoder records the ciphertext. *)
Recorded(k) == fed[k].kind = "output_item.added" /\ Disputed(k) # <<>>

(* The gaps are those the property reads off the history. *)
LEMMA GapsMean ==
  ASSUME fed \in Seq(Events), \A k \in 1..Len(fed) : Fits(fed, k - 1, fed[k]),
         NEW k \in 1..Len(fed)
  PROVE  GapsAt(k) \o (IF Recorded(k) THEN Disputed(k) ELSE <<>>) = Gap(fed, k)
<1>1. Len(fed) \in Nat /\ k \in Nat  OBVIOUS
<1>2. ASSUME NEW j \in 1..Len(fed)
      PROVE  /\ AddedUpTo(j) = AddedIn(fed, j) /\ AddedAt(j) = LastIn(fed, j)
             /\ fed[j].kind # "output_item.added" =>
                  AddedIn(fed, j) = AddedIn(fed, j - 1) /\ LastIn(fed, j) = LastIn(fed, j - 1)
  <2>1. \A i \in 1..j : i \in 1..(j - 1) \/ i = j  OBVIOUS
  <2>2. \A i \in 1..(j - 1) : i \in 1..j  OBVIOUS
  <2>. QED BY <2>1, <2>2 DEF AddedUpTo, AddedAt, AddedIn, LastIn
<1>3. ASSUME NEW j \in 1..Len(fed), fed[j].kind \in PartAdded
      PROVE  /\ AddedIn(fed, j) # {} /\ ~FinishedIn(fed, j - 1)
             /\ IsKeptPart(j) <=> KeptIn(fed, j)
  <2>1. fed[j].kind \in NestedKinds /\ fed[j].kind # "output_item.added"
    BY <1>3, KindsDiffer
  <2>2. AddedIn(fed, j - 1) # {} /\ ~FinishedIn(fed, j - 1)  BY <2>1 DEF Fits
  <2>. QED BY <1>2, <2>1, <2>2 DEF IsKeptPart, KeptIn, AddedItem
<1>4. InSkippedPart(k) <=> PartSkippedIn(fed, k - 1)
  <2>1. \A j \in 1..(k - 1) : j \in 1..Len(fed)  BY <1>1
  <2>2. \A j : Among(j, k - 1, PartDone) = AmongIn(fed, j, k - 1, PartDone)
    BY DEF Among, AmongIn
  <2>. QED BY <1>3, <2>1, <2>2 DEF InSkippedPart, PartSkippedIn
<1>5. fed[k].kind # "output_item.added" => (InSkippedItem(k) <=> ItemSkippedIn(fed, k - 1))
  <2>1. \A j : Among(j, k - 1, {"output_item.done"}) = AmongIn(fed, j, k - 1, {"output_item.done"})
    BY DEF Among, AmongIn
  <2>. QED BY <1>2, <2>1 DEF InSkippedItem, ItemSkippedIn, FinishedIn, AddedItem
<1>6. fed[k].kind \in PartAdded =>
        (IsKeptPart(k) \/ InSkippedItem(k) <=>
           ItemSkippedIn(fed, k - 1) \/ fed[k].part[1].kind = "output_text")
  <2>1. SUFFICES ASSUME fed[k].kind \in PartAdded
                 PROVE  IsKeptPart(k) \/ InSkippedItem(k) <=>
                          ItemSkippedIn(fed, k - 1) \/ fed[k].part[1].kind = "output_text"
    OBVIOUS
  <2>2. fed[k].kind # "output_item.added"  BY <2>1, KindsDiffer
  <2>. QED BY <1>2, <1>3, <1>5, <2>1, <2>2 DEF KeptIn, ItemSkippedIn
<1> DEFINE e == fed[k]
<1>7. PICK g, h, unknown, added, p, q :
        /\ g = GapsAt(k) /\ h = Gap(fed, k)
        /\ unknown = (IF ~IsKnown(e.item[1]) THEN <<<<"item", e.output_index>>>> ELSE <<>>)
        /\ added = (IF ~IsKnown(e.item[1]) THEN <<<<"item", e.output_index>>>>
                    ELSE IF e.item[1].kind = "reasoning" /\ e.item[1].cipher # <<>>
                    THEN <<<<"cipher", e.output_index>>>> ELSE <<>>)
        /\ p = (IF IsKeptPart(k) \/ InSkippedItem(k) THEN <<>>
                ELSE <<<<"part", e.output_index, e.content_index>>>>)
        /\ q = (IF ItemSkippedIn(fed, k - 1) \/ e.part[1].kind = "output_text" THEN <<>>
                ELSE <<<<"part", e.output_index, e.content_index>>>>)
  OBVIOUS
<1>8. PICK done, end, x, y :
        /\ done = (IF e.item[1].kind \in PatchItems THEN PatchLosses(e)
                   ELSE IF e.item[1].kind = "web_search_call" /\ e.item[1].payload = "lossy"
                   THEN <<<<"action", e.output_index>>>> ELSE <<>>)
        /\ end = (IF StopOf(e.response[1], FALSE) = "other" THEN <<<<"status", -1>>>> ELSE <<>>)
        /\ x = (IF HasIdentity(e) /\ (InSkippedItem(k) \/ InSkippedPart(k)) THEN <<>>
                ELSE <<<<"event", -1>>>>)
        /\ y = (IF HasIdentity(e) /\ (ItemSkippedIn(fed, k - 1) \/ PartSkippedIn(fed, k - 1))
                THEN <<>> ELSE <<<<"event", -1>>>>)
  OBVIOUS
<1>9. g = CASE e.kind = "output_item.added" -> unknown
            [] e.kind \in PartAdded -> p
            [] e.kind = "output_item.done" -> done
            [] e.kind \in Terminals -> end
            [] e.kind \in {"created"} \union (NestedKinds \ PartAdded) -> <<>>
            [] OTHER -> x
  BY <1>7, <1>8, Zenon DEF GapsAt
<1>10. h = CASE e.kind = "output_item.added" -> added
            [] e.kind \in PartAdded -> q
            [] e.kind = "output_item.done" -> done
            [] e.kind \in Terminals -> end
            [] e.kind \in {"created"} \union (NestedKinds \ PartAdded) -> <<>>
            [] OTHER -> y
  BY <1>7, <1>8, Zenon DEF Gap, GapOf
<1>11. e.kind \in PartAdded => p = q  BY <1>6, <1>7
<1>12. e.kind # "output_item.added" => x = y  BY <1>4, <1>5, <1>8
<1>13. e.kind # "output_item.added" => g = h
  <2>1. CASE e.kind \in PartAdded  BY <1>9, <1>10, <1>11, <2>1, KindsDiffer
  <2>. QED BY <1>9, <1>10, <1>11, <1>12, <2>1, KindsDiffer
<1>14. e.kind = "output_item.added" => g = unknown /\ h = added
  BY <1>9, <1>10, KindsDiffer
<1>15. h \in Seq(Losses)
  <2>1. e \in Events  OBVIOUS
  <2>. QED BY <1>7, <2>1, GapType DEF Gap
<1>16. PICK none, told, cipher :
         /\ none = <<>> /\ told = Disputed(k)
         /\ cipher = (IF e.item[1].kind = "reasoning" /\ e.item[1].cipher # <<>>
                      THEN <<<<"cipher", e.output_index>>>> ELSE <<>>)
  OBVIOUS
<1>17. CASE e.kind = "output_item.added"
  <2>1. told = cipher  BY <1>16, <1>17, Zenon DEF Disputed
  <2>2. e.item[1].kind = "reasoning" => IsKnown(e.item[1])  BY DEF IsKnown, KnownItems
  <2>3. unknown \o cipher = added
    <3>1. CASE e.item[1].kind = "reasoning"
      <4>1. unknown = <<>> /\ added = cipher  BY <1>7, <1>16, <2>2, <3>1
      <4>2. cipher \in Seq(Losses)  BY <1>14, <1>15, <1>17, <4>1
      <4>. QED BY <4>1, <4>2
    <3>2. CASE e.item[1].kind # "reasoning"
      <4>1. cipher = <<>> /\ added = unknown  BY <1>7, <1>16, <3>2
      <4>2. added \in Seq(Losses)  BY <1>14, <1>15, <1>17
      <4>. QED BY <4>1, <4>2
    <3>. QED BY <3>1, <3>2
  <2>4. (IF Recorded(k) THEN Disputed(k) ELSE <<>>) = cipher
    BY <1>16, <1>17, <2>1 DEF Recorded
  <2>. QED BY <1>7, <1>14, <1>17, <2>3, <2>4
<1>18. CASE e.kind # "output_item.added"
  <2>1. (IF Recorded(k) THEN Disputed(k) ELSE <<>>) = none  BY <1>16, <1>18 DEF Recorded
  <2>2. h \o none = h  BY <1>15, <1>16
  <2>. QED BY <1>7, <1>13, <1>18, <2>1, <2>2, Zenon
<1>. QED BY <1>17, <1>18

(* What the struct remembers of the gaps. *)
LossInv ==
  ~failed =>
    /\ dec.losses = Concat(AllGaps(fed))
    /\ dec.skipped_part <=> PartSkippedIn(fed, Len(fed))

(* An item that is skipped is the open one. *)
LEMMA SkippedIsOpen ==
  ASSUME NEW d, Books(d), NEW s, Linked(s, d)
  PROVE  d.skipped_item <=> ItemSkippedIn(s, Len(s))
BY DEF Books, Linked, ItemSkippedIn, InSkipped

(* An accepted event starts and ends the part that is skipped. *)
LEMMA MovesSkip ==
  ASSUME NEW s \in Seq(Events), NEW e \in Events, NEW d, NEW o, Linked(s, d), MovesPlace(d, e, o),
         d.skipped_part <=> PartSkippedIn(s, Len(s))
  PROVE  o.skipped_part <=> PartSkippedIn(Append(s, e), Len(s) + 1)
<1>1. PartSkippedIn(Append(s, e), Len(s) + 1) <=>
        \/ e.kind \in PartAdded /\ ~KeptIn(Append(s, e), Len(s) + 1)
        \/ d.skipped_part /\ e.kind \notin PartDone
  BY PartSkippedGoesOn
<1>2. CASE Opens(d, e, o) \/ Closes(d, e, o) \/ Passes(d, e, o)
  <2>1. e.kind \notin PartAdded /\ e.kind \notin PartDone
    BY <1>2, KindsDiffer DEF Opens, Closes, Passes
  <2>2. o.skipped_part = d.skipped_part
    BY <1>2 DEF Opens, Closes, Passes, SamePlace
  <2>. QED BY <1>1, <2>1, <2>2
<1>3. CASE StartsPart(d, e, o)
  <2>1. /\ e.kind \in PartAdded /\ e.kind # "output_item.added" /\ d.item_open /\ ~d.skipped_part
        /\ o.skipped_part <=> d.skipped_item \/ e.part[1].kind # "output_text"
    BY <1>3, KindsDiffer DEF StartsPart, Active
  <2>2. AddedIn(s, Len(s)) # {} /\ (d.skipped_item <=> ~IsKnown(s[LastIn(s, Len(s))].item[1]))
    BY <2>1 DEF Linked
  <2>3. PICK t, l, n : t = Append(s, e) /\ l = Len(s) /\ n = Len(s) + 1  OBVIOUS
  <2>4. /\ AddedIn(t, n) = AddedIn(s, l) /\ LastIn(t, n) = LastIn(s, l)
        /\ t[LastIn(s, l)] = s[LastIn(s, l)]
    BY <2>1, <2>2, <2>3, OtherAdds
  <2>5. t[n] = e  BY <2>3
  <2>6. KeptIn(t, n) <=> e.part[1].kind = "output_text" /\ ~d.skipped_item
    BY <2>1, <2>2, <2>3, <2>4, <2>5 DEF KeptIn
  <2>. QED BY <1>1, <2>1, <2>3, <2>6
<1>4. CASE StaysWithin(d, e, o)  BY <1>1, <1>4 DEF StaysWithin
<1>. QED BY <1>2, <1>3, <1>4 DEF MovesPlace

LEMMA LossAccepted ==
  ASSUME TypeOK, NestInv, LossInv, ~failed, NEW e \in Events, Accepted(e)
  PROVE  LossInv'
<1>1. PICK s, t, d, o : s = fed /\ t = fed' /\ d = dec /\ o = dec'  OBVIOUS
<1>2. /\ s \in Seq(Events) /\ t = Append(s, e) /\ Linked(s, d) /\ MovesPlace(d, e, o)
      /\ d.losses = Concat(AllGaps(s)) /\ (d.skipped_part <=> PartSkippedIn(s, Len(s)))
      /\ o.losses = d.losses \o GapOf(e, d.skipped_item, d.skipped_part)
  BY <1>1 DEF NestInv, LossInv, Accepted
<1>3. Books(d) /\ d.skipped_item \in BOOLEAN /\ d.skipped_part \in BOOLEAN
  BY <1>1, TypeOKIsSound DEF Sound, Decoders
<1>4. d.skipped_item <=> ItemSkippedIn(s, Len(s))  BY <1>2, <1>3, SkippedIsOpen
<1>5. d.skipped_item = ItemSkippedIn(s, Len(s)) /\ d.skipped_part = PartSkippedIn(s, Len(s))
  BY <1>2, <1>3, <1>4 DEF ItemSkippedIn, PartSkippedIn
<1>6. Concat(AllGaps(t)) = Concat(AllGaps(s)) \o GapOf(e, d.skipped_item, d.skipped_part)
  <2>1. Concat(AllGaps(t))
          = Concat(AllGaps(s)) \o GapOf(e, ItemSkippedIn(s, Len(s)), PartSkippedIn(s, Len(s)))
    BY <1>2, GapsGrow
  <2>. QED BY <1>5, <2>1, Zenon
<1>7. o.losses = Concat(AllGaps(t))  BY <1>2, <1>6
<1>8. o.skipped_part <=> PartSkippedIn(t, Len(s) + 1)  BY <1>2, MovesSkip
<1>9. Len(t) = Len(s) + 1  BY <1>2
<1>. QED BY <1>1, <1>7, <1>8, <1>9 DEF LossInv

(* For every set of provider events, as long as no call has failed: the
   losses are those of the gaps, in their order.  An item or a part that
   is skipped counts once, whatever comes inside it; an action, the status
   or the operation of a patch, a stop reason and an event the IR does not
   have count each, and nothing else does but, at its place, what is
   disputed. *)
THEOREM DecoderTellsLosses == Spec => []LossesInOrderOfGaps
<1>1. Init => TypeOK /\ NestInv /\ LossInv
  <2>1. SUFFICES ASSUME Init
                 PROVE  LossInv
    BY InitTypeOK, NestInit
  <2>2. fed = <<>> /\ dec.losses = <<>> /\ ~dec.skipped_part
    BY <2>1, Zenon DEF Init, NewDecoder
  <2>3. Len(fed) = 0 /\ AllGaps(fed) = <<>>  BY <2>2 DEF AllGaps
  <2>4. ~PartSkippedIn(fed, Len(fed))  BY <2>3 DEF PartSkippedIn
  <2>. QED BY <2>2, <2>3, <2>4, ConcatEmpty DEF LossInv
<1>2. TypeOK /\ TypeOK' /\ NestInv /\ [Next]_vars => NestInv'  BY NestStep
<1>3. TypeOK /\ TypeOK' /\ NestInv /\ LossInv /\ [Next]_vars => LossInv'
  <2>1. SUFFICES ASSUME TypeOK, TypeOK', NestInv, LossInv, [Next]_vars
                 PROVE  LossInv'
    OBVIOUS
  <2>2. CASE failed
    <3>1. failed'  BY <2>1, <2>2, StaysFailed
    <3>. QED BY <3>1 DEF LossInv
  <2>3. CASE ~failed
    <3>1. Holds(dec)  BY <2>1, <2>3 DEF NestInv
    <3>2. CASE UNCHANGED vars  BY <2>1, <3>2 DEF LossInv, vars
    <3>3. CASE failed'  BY <3>3 DEF LossInv
    <3>4. CASE UNCHANGED <<fed, failed>> /\ SamePlace(dec', dec) /\ dec'.losses = dec.losses
      BY <2>1, <3>4 DEF LossInv, SamePlace
    <3>5. CASE \E e \in Events : Accepted(e)  BY <2>1, <2>3, <3>5, LossAccepted
    <3>. QED BY <2>1, <2>3, <3>1, <3>2, <3>3, <3>4, <3>5, StepForms
  <2>. QED BY <2>2, <2>3
<1>4. NestInv /\ LossInv => LossesInOrderOfGaps
  <2>1. SUFFICES ASSUME NestInv, LossInv, ~failed
                 PROVE  LossesInOrderOfGaps
    BY DEF LossesInOrderOfGaps
  <2>2. PICK told : told = {k \in 1..Len(fed) : Recorded(k)}  OBVIOUS
  <2>3. \A k \in 1..Len(fed) :
          GapsAt(k) \o (IF k \in told THEN Disputed(k) ELSE <<>>) = Gap(fed, k)
    <3>1. TAKE k \in 1..Len(fed)
    <3>2. k \in told <=> Recorded(k)  BY <2>2
    <3>3. GapsAt(k) \o (IF Recorded(k) THEN Disputed(k) ELSE <<>>) = Gap(fed, k)
      BY <2>1, GapsMean DEF NestInv
    <3>. QED BY <3>2, <3>3
  <2>4. [k \in 1..Len(fed) |-> GapsAt(k) \o (IF k \in told THEN Disputed(k) ELSE <<>>)]
          = AllGaps(fed)
    BY <2>3, Zenon DEF AllGaps
  <2>5. told \in SUBSET {k \in 1..Len(fed) : Disputed(k) # <<>>}
    BY <2>2 DEF Recorded
  <2>6. dec.losses = Concat(AllGaps(fed))  BY <2>1 DEF LossInv
  <2>. QED BY <2>4, <2>5, <2>6, Zenon DEF LossesInOrderOfGaps
<1>. QED BY <1>1, <1>2, <1>3, <1>4, DecoderTypeCorrect, PTL DEF Spec

-----------------------------------------------------------------------------
(* The end of the response and what was streamed *)

(* A custom call as it is told: its id, its name and its input. *)
Told == Tokens \X Text \X Text

IsCustom(e) == IsStart(e) /\ e.block.kind = "custom_tool_use"

(* What a block start tells is a call. *)
LEMMA CustomType ==
  ASSUME NEW e \in IrEvents
  PROVE  CustomOf(e) \in Seq(Told)
<1>1. CASE IsCustom(e)
  <2>1. e.block \in Blocks  BY <1>1, EventForms DEF IsCustom
  <2>2. PICK c : c = <<e.block.id, e.block.name, e.block.text>>  OBVIOUS
  <2>3. c \in Told  BY <2>1, <2>2 DEF Told, Blocks
  <2>4. <<c>> \in Seq(Told)  BY <2>3
  <2>5. CustomOf(e) = <<c>>  BY <1>1, <2>2, Zenon DEF CustomOf, IsCustom
  <2>. QED BY <2>4, <2>5
<1>2. CASE ~IsCustom(e)
  <2>1. CustomOf(e) = <<>>  BY <1>2, Zenon DEF CustomOf, IsCustom
  <2>. QED BY <2>1
<1>. QED BY <1>1, <1>2

(* What two runs of events tell, one behind the other. *)
LEMMA CustomsJoin ==
  ASSUME NEW s \in Seq(IrEvents), NEW u \in Seq(IrEvents)
  PROVE  CustomsOf(s \o u) = CustomsOf(s) \o CustomsOf(u)
<1>1. PICK F : F = [e \in IrEvents |-> CustomOf(e)]  OBVIOUS
<1>2. F \in Sayings(IrEvents, Told)  BY <1>1, CustomType DEF Sayings
<1>3. s \o u \in Seq(IrEvents) /\ JoinOf(F, s \o u) = JoinOf(F, s) \o JoinOf(F, u)
  BY <1>2, JoinOfBoth
<1>4. ASSUME NEW t \in Seq(IrEvents)
      PROVE  CustomsOf(t) = JoinOf(F, t)
  <2>1. \A k \in 1..Len(t) : CustomOf(t[k]) = F[t[k]]  BY <1>1
  <2>2. [k \in 1..Len(t) |-> CustomOf(t[k])] = [k \in 1..Len(t) |-> F[t[k]]]
    BY <2>1
  <2>. QED BY <2>2 DEF CustomsOf, JoinOf
<1>. QED BY <1>3, <1>4

LEMMA BlocksJoin ==
  ASSUME NEW s \in Seq(IrEvents), NEW u \in Seq(IrEvents)
  PROVE  BlocksOf(s \o u) = BlocksOf(s) \union BlocksOf(u)
<1>1. PICK t, l : t = s \o u /\ l = Len(s)  OBVIOUS
<1>2. /\ l \in Nat /\ Len(u) \in Nat /\ Len(t) = l + Len(u)
      /\ \A i \in 1..l : t[i] = s[i]
      /\ \A j \in 1..Len(u) : t[l + j] = u[j]
  BY <1>1, BatchFacts
<1>3. ASSUME NEW b \in BlocksOf(t)
      PROVE  b \in BlocksOf(s) \union BlocksOf(u)
  <2>1. PICK k \in 1..Len(t) : IsStart(t[k]) /\ b = t[k].block
    BY <1>3 DEF BlocksOf
  <2>2. CASE k \in 1..l  BY <1>1, <1>2, <2>1, <2>2 DEF BlocksOf
  <2>3. CASE k \notin 1..l
    <3>1. PICK j : j = k - l  OBVIOUS
    <3>2. j \in 1..Len(u) /\ k = l + j  BY <1>2, <2>3, <3>1
    <3>3. t[k] = u[j]  BY <1>2, <3>2
    <3>. QED BY <2>1, <3>2, <3>3 DEF BlocksOf
  <2>. QED BY <2>2, <2>3
<1>4. BlocksOf(s) \subseteq BlocksOf(t)
  <2>1. \A i \in 1..l : i \in 1..Len(t)  BY <1>2
  <2>. QED BY <1>1, <1>2, <2>1 DEF BlocksOf
<1>5. BlocksOf(u) \subseteq BlocksOf(t)
  <2>1. \A j \in 1..Len(u) : l + j \in 1..Len(t)  BY <1>2
  <2>. QED BY <1>2, <2>1 DEF BlocksOf
<1>. QED BY <1>1, <1>3, <1>4, <1>5

(* Events that start no block of a call or of a patch. *)
Quiet(u) ==
  \A k \in 1..Len(u) : IsStart(u[k]) => u[k].block.kind \notin CallingKinds \union ApplyPatchKinds

LEMMA QuietTells ==
  ASSUME NEW u \in Seq(IrEvents), Quiet(u)
  PROVE  CustomsOf(u) = <<>> /\ \A b \in BlocksOf(u) : b.kind \notin CallingKinds
<1>1. PICK f : f = [k \in 1..Len(u) |-> CustomOf(u[k])]  OBVIOUS
<1>2. \A k \in 1..Len(u) : f[k] = <<>>
  <2>1. ASSUME NEW k \in 1..Len(u)
        PROVE  CustomOf(u[k]) = <<>>
    <3>1. ~IsCustom(u[k])  BY DEF Quiet, IsCustom, CallingKinds, ToolKinds
    <3>. QED BY <3>1, Zenon DEF CustomOf, IsCustom
  <2>. QED BY <1>1, <2>1
<1>3. PICK T : T = Seq(Told)  OBVIOUS
<1>4. f \in Seq(T) /\ Len(f) = Len(u)
  <2>1. \A k \in 1..Len(u) : u[k] \in IrEvents  OBVIOUS
  <2>2. \A k \in 1..Len(u) : CustomOf(u[k]) \in T  BY <1>3, <2>1, CustomType
  <2>. QED BY <1>1, <2>2
<1>5. Concat(f) = <<>>  BY <1>2, <1>3, <1>4, ConcatNone
<1>6. CustomsOf(u) = <<>>  BY <1>1, <1>5 DEF CustomsOf
<1>7. \A b \in BlocksOf(u) : b.kind \notin CallingKinds  BY DEF BlocksOf, Quiet
<1>. QED BY <1>6, <1>7

(* One event. *)
LEMMA CustomsSingle ==
  ASSUME NEW e \in IrEvents
  PROVE  CustomsOf(<<e>>) = CustomOf(e)
<1>1. PICK c, u : c = CustomOf(e) /\ u = <<e>>  OBVIOUS
<1>2. c \in Seq(Told) /\ Len(u) = 1 /\ u[1] = e  BY <1>1, CustomType
<1>3. [k \in 1..Len(u) |-> CustomOf(u[k])] = [k \in 1..1 |-> c]  BY <1>1, <1>2
<1>4. [k \in 1..1 |-> c] = <<c>>  OBVIOUS
<1>5. Concat(<<c>>) = c  BY <1>2, ConcatSingle
<1>. QED BY <1>1, <1>3, <1>4, <1>5, Zenon DEF CustomsOf

(* What a whole block tells: its start says it all. *)
LEMMA UnitTells ==
  ASSUME NEW i \in Nat, NEW b \in Blocks, NEW ds \in Seq(Deltas), NEW u, u = BlockUnit(i, b, ds)
  PROVE  /\ u \in Seq(IrEvents) /\ BlocksOf(u) = {b}
         /\ CustomsOf(u) = IF b.kind = "custom_tool_use"
                           THEN <<<<b.id, b.name, b.text>>>> ELSE <<>>
<1>1. PICK n, start, stop, es : /\ n = Len(ds)
                                /\ start = BlockStart(i, b) /\ stop = BlockStop(i)
                                /\ es = [k \in 1..n |-> BlockDelta(i, ds[k])]
  OBVIOUS
<1>2. start \in IrEvents /\ stop \in IrEvents  BY <1>1, EventTypes
<1>3. IsStart(start) /\ start.block = b /\ ~IsStart(stop)
  BY <1>1 DEF BlockStart, BlockStop, IsStart
<1>4. es \in Seq(IrEvents) /\ Len(es) = n /\ \A k \in 1..n : ~IsStart(es[k])
  <2>1. \A k \in 1..n : BlockDelta(i, ds[k]) \in IrEvents  BY <1>1, EventTypes
  <2>2. n \in Nat  BY <1>1
  <2>3. es \in Seq(IrEvents) /\ Len(es) = n  BY <1>1, <2>1, <2>2
  <2>4. \A k \in 1..n : ~IsStart(es[k])  BY <1>1 DEF BlockDelta, IsStart
  <2>. QED BY <2>3, <2>4
<1>5. PICK p, q, r : p = <<start>> /\ r = <<stop>> /\ q = p \o es  OBVIOUS
<1>6. /\ p \in Seq(IrEvents) /\ r \in Seq(IrEvents) /\ q \in Seq(IrEvents)
      /\ Len(p) = 1 /\ p[1] = start /\ Len(r) = 1 /\ r[1] = stop
  BY <1>2, <1>4, <1>5
<1>7. u = q \o r  BY <1>1, <1>5 DEF BlockUnit
<1>8. u \in Seq(IrEvents)  BY <1>6, <1>7
<1>9. Quiet(es) /\ Quiet(r)  BY <1>3, <1>4, <1>6 DEF Quiet
<1>10. /\ CustomsOf(es) = <<>> /\ CustomsOf(r) = <<>>
       /\ CustomsOf(p) = CustomOf(start)
  BY <1>2, <1>4, <1>5, <1>6, <1>9, QuietTells, CustomsSingle
<1>11. CustomsOf(u) = CustomOf(start)
  <2>1. CustomOf(start) \in Seq(Told)  BY <1>2, CustomType
  <2>2. CustomsOf(q) = CustomsOf(p) \o CustomsOf(es)
    BY <1>4, <1>5, <1>6, CustomsJoin
  <2>3. CustomsOf(u) = CustomsOf(q) \o CustomsOf(r)  BY <1>6, <1>7, CustomsJoin
  <2>. QED BY <1>10, <2>1, <2>2, <2>3
<1>12. CustomOf(start) = IF b.kind = "custom_tool_use"
                         THEN <<<<b.id, b.name, b.text>>>> ELSE <<>>
  BY <1>3, Zenon DEF CustomOf
<1>13. BlocksOf(u) = {b}
  <2>1. BlocksOf(q) = BlocksOf(p) \union BlocksOf(es) /\ BlocksOf(u) = BlocksOf(q) \union BlocksOf(r)
    BY <1>4, <1>5, <1>6, <1>7, BlocksJoin
  <2>2. BlocksOf(p) = {b}  BY <1>3, <1>6 DEF BlocksOf
  <2>3. BlocksOf(es) = {} /\ BlocksOf(r) = {}  BY <1>3, <1>4, <1>6 DEF BlocksOf
  <2>. QED BY <2>1, <2>2, <2>3
<1>. QED BY <1>8, <1>11, <1>12, <1>13

(* The fields that the end of the response is compared with. *)
KeepsStory(o, d) ==
  /\ o.completed_custom_calls = d.completed_custom_calls
  /\ o.completed_items = d.completed_items
  /\ o.tool_use_seen = d.tool_use_seen
  /\ o.terminated = d.terminated

QuietStep ==
  /\ KeepsStory(dec', dec)
  /\ \E u \in Seq(IrEvents) : Quiet(u) /\ dec'.events = dec.events \o u

LEMMA YieldsStory ==
  ASSUME TypeOK', NEW e, NEW d, NEW u, Yields(e, d, u)
  PROVE  /\ KeepsStory(dec', d) /\ dec'.events = d.events \o u /\ dec'.losses = d.losses
         /\ fed' = Append(fed, e) /\ failed' = failed
BY DEF Yields, TypeOK, Decoders, KeepsStory

LEMMA QuietYields ==
  ASSUME TypeOK', NEW e, NEW d, NEW u \in Seq(IrEvents), Quiet(u), Yields(e, d, u),
         KeepsStory(d, dec), d.events = dec.events
  PROVE  QuietStep
<1>1. KeepsStory(dec', d) /\ dec'.events = d.events \o u  BY YieldsStory
<1>. QED BY <1>1 DEF QuietStep, KeepsStory

LEMMA NothingYields ==
  ASSUME TypeOK', NEW e, NEW d, Yields(e, d, <<>>), KeepsStory(d, dec), d.events = dec.events
  PROVE  QuietStep
<1>1. PICK u : u = <<>>  OBVIOUS
<1>2. u \in Seq(IrEvents) /\ Quiet(u) /\ Yields(e, d, u)  BY <1>1 DEF Quiet
<1>. QED BY <1>2, QuietYields

(* Recording a loss changes nothing of it. *)
LEMMA LoseKeeps ==
  ASSUME TypeOK, NEW d, DOMAIN d = DOMAIN dec, NEW losses
  PROVE  /\ KeepsStory(Lose(d, losses), d) /\ Lose(d, losses).events = d.events
         /\ Lose(d, losses).losses = d.losses \o losses
<1>1. PICK l : l = d.losses \o losses  OBVIOUS
<1>2. PICK o : o = [d EXCEPT !.losses = l]  OBVIOUS
<1>3. o = Lose(d, losses)  BY <1>1, <1>2 DEF Lose
<1>4. KeepsStory(o, d) /\ o.events = d.events /\ o.losses = l
  BY <1>2 DEF TypeOK, Decoders, KeepsStory
<1>. QED BY <1>1, <1>3, <1>4

(* A call of feed that fails. *)
LEMMA RejectsFails ==
  ASSUME NEW d, Rejects(d)
  PROVE  Fails
BY DEF Rejects, Fails

(* The calls that neither a tool block nor the end of the message is due to. *)
LEMMA CreatedTells ==
  ASSUME TypeOK, TypeOK', NEW e, FeedCreated(e)
  PROVE  Fails \/ QuietStep
<1>1. PICK d, x : d = [dec EXCEPT !.started = TRUE] /\ x = MessageStart  OBVIOUS
<1>2. PICK u : u = <<x>>  OBVIOUS
<1>3. Rejects(dec) \/ Yields(e, d, u)  BY <1>1, <1>2 DEF FeedCreated
<1>4. KeepsStory(d, dec) /\ d.events = dec.events
  BY <1>1 DEF TypeOK, Decoders, KeepsStory
<1>5. u \in Seq(IrEvents) /\ Quiet(u)
  <2>1. x \in IrEvents /\ ~IsStart(x)
    BY <1>1, EventTypes DEF MessageStart, IsStart
  <2>. QED BY <1>2, <2>1 DEF Quiet
<1>. QED BY <1>3, <1>4, <1>5, RejectsFails, QuietYields

LEMMA ItemAddedTells ==
  ASSUME TypeOK, TypeOK', NEW e, FeedItemAdded(e)
  PROVE  Fails \/ QuietStep
<1>1. dec \in Decoders  BY DEF TypeOK
<1>2. PICK o, item : o = OpenItem(dec, e) /\ item = e.item[1]  OBVIOUS
<1>3. KeepsStory(o, dec) /\ o.events = dec.events /\ DOMAIN o = DOMAIN dec
  BY <1>1, <1>2 DEF OpenItem, Decoders, KeepsStory
<1>4. ASSUME NEW d, DOMAIN d = DOMAIN dec, KeepsStory(d, o), d.events = o.events,
             NEW losses, Yields(e, Lose(d, losses), <<>>)
      PROVE  QuietStep
  <2>1. KeepsStory(Lose(d, losses), d) /\ Lose(d, losses).events = d.events
    BY <1>4, LoseKeeps
  <2>2. KeepsStory(Lose(d, losses), dec) /\ Lose(d, losses).events = dec.events
    BY <1>3, <1>4, <2>1 DEF KeepsStory
  <2>. QED BY <1>4, <2>2, NothingYields
<1>5. CASE FeedAddRejected(e) \/ FeedAddInvalid(e)
  BY <1>5, RejectsFails DEF FeedAddRejected, FeedAddInvalid
<1>6. CASE FeedAddSkipped(e)
  <2>1. PICK p, q, losses :
          /\ p = [o EXCEPT !.skipped_item = TRUE]
          /\ q = [p EXCEPT !.skipped_call_id = item.call_id]
          /\ losses = <<<<"item", e.output_index>>>>
    OBVIOUS
  <2>2. PICK k \in {p, q} : Yields(e, Lose(k, losses), <<>>)
    BY <1>2, <1>6, <2>1, Zenon DEF FeedAddSkipped
  <2>3. KeepsStory(p, o) /\ p.events = o.events /\ DOMAIN p = DOMAIN dec
    BY <1>1, <1>3, <2>1 DEF Decoders, KeepsStory
  <2>4. KeepsStory(q, p) /\ q.events = p.events /\ DOMAIN q = DOMAIN dec
    BY <1>1, <2>1, <2>3 DEF Decoders, KeepsStory
  <2>5. KeepsStory(k, o) /\ k.events = o.events /\ DOMAIN k = DOMAIN dec
    BY <2>3, <2>4 DEF KeepsStory
  <2>. QED BY <1>4, <2>2, <2>5
<1>7. CASE FeedAddKnown(e)
  <2>1. PICK call, patch, losses :
          /\ call = (IF item.kind \in CallItems THEN Some(Call(item)) ELSE o.function_call)
          /\ patch = (IF item.kind \in PatchItems THEN Some(item.call_id) ELSE o.apply_patch)
          /\ losses = (IF item.kind = "reasoning" /\ item.cipher # <<>>
                       THEN <<<<"cipher", e.output_index>>>> ELSE <<>>)
    OBVIOUS
  <2>2. PICK d : d = [o EXCEPT !.function_call = call, !.apply_patch = patch]
    OBVIOUS
  <2>3. Yields(e, Lose(d, losses), <<>>)
    BY <1>2, <1>7, <2>1, <2>2, Zenon DEF FeedAddKnown
  <2>4. KeepsStory(d, o) /\ d.events = o.events /\ DOMAIN d = DOMAIN dec
    BY <1>1, <1>3, <2>2 DEF Decoders, KeepsStory
  <2>. QED BY <1>4, <2>3, <2>4
<1>. QED BY <1>5, <1>6, <1>7 DEF FeedItemAdded

LEMMA PartTells ==
  ASSUME TypeOK, TypeOK', NEW e \in Events, FeedPart(e)
  PROVE  Fails \/ QuietStep
<1>1. dec \in Decoders /\ dec.next_block_index \in Nat /\ dec.block_index \in Nat
  BY DEF TypeOK, Decoders
<1>2. PICK n : n = NextPart(dec, e)  OBVIOUS
<1>3. KeepsStory(n, dec) /\ n.events = dec.events /\ DOMAIN n = DOMAIN dec
  BY <1>1, <1>2 DEF NextPart, Decoders, KeepsStory
<1>4. KeepsStory(dec, dec)  BY DEF KeepsStory
<1>5. CASE FeedPartRejected(e) \/ FeedPartMissing(e) \/ FeedTextRejected(e)
  BY <1>5, RejectsFails DEF FeedPartRejected, FeedPartMissing, FeedTextRejected
<1>6. CASE FeedSkippedPart(e)
  <2>1. PICK d, losses :
          /\ d = [n EXCEPT !.skipped_part = TRUE]
          /\ losses = (IF dec.skipped_item THEN <<>>
                       ELSE <<<<"part", e.output_index, e.content_index>>>>)
    OBVIOUS
  <2>2. Yields(e, Lose(d, losses), <<>>)
    BY <1>2, <1>6, <2>1 DEF FeedSkippedPart
  <2>3. KeepsStory(d, n) /\ d.events = n.events /\ DOMAIN d = DOMAIN dec
    BY <1>1, <1>3, <2>1 DEF Decoders, KeepsStory
  <2>4. KeepsStory(Lose(d, losses), d) /\ Lose(d, losses).events = d.events
    BY <2>3, LoseKeeps
  <2>5. KeepsStory(Lose(d, losses), dec) /\ Lose(d, losses).events = dec.events
    BY <1>3, <2>3, <2>4 DEF KeepsStory
  <2>. QED BY <2>2, <2>5, NothingYields
<1>7. CASE FeedPartStart(e)
  <2>1. PICK d, i, b : /\ d = [n EXCEPT !.block_open = TRUE, !.text_done = FALSE,
                                        !.block_index = dec.next_block_index,
                                        !.next_block_index = @ + 1]
                       /\ i = dec.next_block_index /\ b = PartBlock(e)
    OBVIOUS
  <2>2. PICK x : x = BlockStart(i, b)  OBVIOUS
  <2>3. PICK u : u = <<x>>  OBVIOUS
  <2>4. StartingPart(e) /\ ~PartMissing(dec, e) /\ ~dec.skipped_item /\ Yields(e, d, u)
    BY <1>2, <1>7, <2>1, <2>2, <2>3 DEF FeedPartStart
  <2>5. KeepsStory(d, n) /\ d.events = n.events
    BY <1>1, <1>3, <2>1 DEF Decoders, KeepsStory
  <2>6. b \in Blocks /\ b.kind \in {"text", "thinking"}
    <3>1. e.kind \in PartAdded /\ e.part # None
      BY <2>4 DEF StartingPart, Receives, PartMissing
    <3>. QED BY <2>1, <3>1, PartTypes
  <2>7. u \in Seq(IrEvents) /\ Quiet(u)
    <3>1. x \in IrEvents  BY <1>1, <2>1, <2>2, <2>6, EventTypes
    <3>2. x.block = b  BY <2>2 DEF BlockStart
    <3>3. b.kind \notin CallingKinds \union ApplyPatchKinds
      BY <2>6 DEF CallingKinds, ToolKinds, ApplyPatchKinds
    <3>. QED BY <2>3, <3>1, <3>2, <3>3 DEF Quiet
  <2>8. KeepsStory(d, dec) /\ d.events = dec.events
    BY <1>3, <2>5 DEF KeepsStory
  <2>. QED BY <2>4, <2>7, <2>8, QuietYields
<1>8. CASE FeedSkippedText(e)  BY <1>4, <1>8, NothingYields DEF FeedSkippedText
<1>9. CASE FeedTextDelta(e)
  <2>1. PICK x : x = BlockDelta(dec.block_index, DeltaOf(e))  OBVIOUS
  <2>2. PICK u : u = <<x>>  OBVIOUS
  <2>3. e.kind \in TextDelta /\ Yields(e, dec, u)
    BY <1>9, <2>1, <2>2 DEF FeedTextDelta, Receives
  <2>4. x \in IrEvents  BY <1>1, <2>1, <2>3, PartTypes, EventTypes
  <2>5. ~IsStart(x)  BY <2>1 DEF BlockDelta, IsStart
  <2>6. u \in Seq(IrEvents) /\ Quiet(u)  BY <2>2, <2>4, <2>5 DEF Quiet
  <2>. QED BY <1>4, <2>3, <2>6, QuietYields
<1>10. CASE FeedTextDone(e)
  <2>1. PICK d : d = [dec EXCEPT !.text_done = TRUE]  OBVIOUS
  <2>2. Yields(e, d, <<>>)  BY <1>10, <2>1 DEF FeedTextDone
  <2>3. KeepsStory(d, dec) /\ d.events = dec.events
    BY <1>1, <2>1 DEF Decoders, KeepsStory
  <2>. QED BY <2>2, <2>3, NothingYields
<1>11. CASE FeedPartDone(e)
  <2>1. PICK p, b, x : /\ p = [dec EXCEPT !.skipped_part = FALSE]
                       /\ b = [dec EXCEPT !.block_open = FALSE]
                       /\ x = BlockStop(dec.block_index)
    OBVIOUS
  <2>2. PICK u : u = <<x>>  OBVIOUS
  <2>3. Rejects(dec) \/ Yields(e, p, <<>>) \/ Yields(e, b, u)
    BY <1>11, <2>1, <2>2 DEF FeedPartDone
  <2>4. KeepsStory(p, dec) /\ p.events = dec.events /\ KeepsStory(b, dec) /\ b.events = dec.events
    BY <1>1, <2>1 DEF Decoders, KeepsStory
  <2>5. x \in IrEvents /\ ~IsStart(x)
    BY <1>1, <2>1, EventTypes DEF BlockStop, IsStart
  <2>6. u \in Seq(IrEvents) /\ Quiet(u)  BY <2>2, <2>5 DEF Quiet
  <2>. QED BY <2>3, <2>4, <2>6, RejectsFails, NothingYields, QuietYields
<1>. QED BY <1>5, <1>6, <1>7, <1>8, <1>9, <1>10, <1>11 DEF FeedPart

LEMMA InputTells ==
  ASSUME TypeOK, TypeOK', NEW e, FeedInput(e)
  PROVE  Fails \/ QuietStep
<1>1. PICK d : d = [dec EXCEPT !.function_call = Some(TakeInput(@[1], e))]
  OBVIOUS
<1>2. Rejects(dec) \/ Yields(e, dec, <<>>) \/ Yields(e, d, <<>>)
  BY <1>1 DEF FeedInput
<1>3. KeepsStory(d, dec) /\ d.events = dec.events /\ KeepsStory(dec, dec)
  BY <1>1 DEF TypeOK, Decoders, KeepsStory
<1>. QED BY <1>2, <1>3, RejectsFails, NothingYields

LEMMA UnknownTells ==
  ASSUME TypeOK, TypeOK', NEW e, FeedUnknown(e)
  PROVE  Fails \/ QuietStep
<1>1. PICK losses : losses = <<<<"event", -1>>>>  OBVIOUS
<1>2. Rejects(dec) \/ Yields(e, dec, <<>>) \/ Yields(e, Lose(dec, losses), <<>>)
  BY <1>1 DEF FeedUnknown
<1>3. KeepsStory(Lose(dec, losses), dec) /\ Lose(dec, losses).events = dec.events
  BY LoseKeeps
<1>4. KeepsStory(dec, dec)  BY DEF KeepsStory
<1>. QED BY <1>2, <1>3, <1>4, RejectsFails, NothingYields

(* The custom calls the decoder has kept, as they are told. *)
CallsTold(calls) ==
  [k \in 1..Len(calls) |-> <<calls[k].call_id, calls[k].name, calls[k].input[1]>>]

(* A call ends: it is handed over, and kept if it is a custom one. *)
CallStep ==
  /\ dec'.completed_items = dec.completed_items
  /\ dec'.tool_use_seen /\ dec'.terminated = dec.terminated
  /\ \E u \in Seq(IrEvents), b \in Blocks :
       /\ dec'.events = dec.events \o u
       /\ BlocksOf(u) = {b} /\ b.kind \in ToolKinds
       /\ CallsTold(dec'.completed_custom_calls)
            = CallsTold(dec.completed_custom_calls) \o CustomsOf(u)

(* A patch ends: it is kept, and handed over unless something of it is
   lost. *)
PatchStep(e) ==
  /\ dec'.completed_custom_calls = dec.completed_custom_calls
  /\ dec'.terminated = dec.terminated
  /\ e.kind = "output_item.done" /\ e.item[1] \in NativeItems
  /\ dec'.completed_items = Append(dec.completed_items, e.item[1])
  /\ dec'.losses = dec.losses \o PatchLosses(e)
  /\ \/ /\ PatchLosses(e) = <<>>
        /\ dec'.tool_use_seen = (dec.tool_use_seen \/ e.item[1].kind = "apply_patch_call")
        /\ \E u \in Seq(IrEvents) :
             /\ dec'.events = dec.events \o u
             /\ BlocksOf(u) = {PatchBlock(e.item[1])} /\ CustomsOf(u) = <<>>
     \/ /\ PatchLosses(e) # <<>>
        /\ dec'.tool_use_seen = dec.tool_use_seen /\ dec'.events = dec.events

LEMMA CloseKeeps ==
  ASSUME TypeOK, NEW d, DOMAIN d = DOMAIN dec
  PROVE  /\ KeepsStory(CloseItem(d), d) /\ CloseItem(d).events = d.events
         /\ CloseItem(d).losses = d.losses
<1>1. PICK empty, none : empty = "" /\ none = None  OBVIOUS
<1>2. PICK o : o = [d EXCEPT !.item_open = FALSE, !.item_type = empty, !.item_id = empty,
                             !.skipped_call_id = empty, !.skipped_item = FALSE,
                             !.function_call = none]
  OBVIOUS
<1>3. o = CloseItem(d)  BY <1>1, <1>2, Zenon DEF CloseItem
<1>4. KeepsStory(o, d) /\ o.events = d.events /\ o.losses = d.losses
  BY <1>2 DEF TypeOK, Decoders, KeepsStory
<1>. QED BY <1>3, <1>4

(* The item of an event that ends it. *)
LEMMA FinishedItem ==
  ASSUME NEW e \in Events, Finishing(e)
  PROVE  /\ e.kind = "output_item.done" /\ e.item[1] \in NativeItems
         /\ e.output_index \in Int
<1>1. e.kind = "output_item.done" /\ DoneMatches(dec, e)
  BY DEF Finishing, Receives, DoneRejected
<1>2. e.item # None /\ e.item \in Option(NativeItems) /\ e.output_index \in Int
  BY <1>1, WireTypes DEF DoneMatches
<1>. QED BY <1>1, <1>2, SomeTypes

(* A block that is none of a call or a patch. *)
LEMMA QuietUnit ==
  ASSUME NEW u, NEW b, BlocksOf(u) = {b}, b.kind \notin CallingKinds \union ApplyPatchKinds
  PROVE  Quiet(u)
<1>1. \A k \in 1..Len(u) : IsStart(u[k]) => u[k].block = b  BY DEF BlocksOf
<1>. QED BY <1>1 DEF Quiet

LEMMA OtherDoneTells ==
  ASSUME TypeOK, TypeOK', NEW e \in Events, FeedOtherDone(e)
  PROVE  QuietStep
<1>1. dec \in Decoders /\ dec.next_block_index \in Nat  BY DEF TypeOK, Decoders
<1>2. PICK item, i, block : item = e.item[1] /\ i = dec.next_block_index /\ block = ItemBlock(item)
  OBVIOUS
<1>3. item \in NativeItems  BY <1>2, FinishedItem DEF FeedOtherDone
<1>4. PICK c, u, n, losses, o :
        /\ c = CountedBlock(dec, e)
        /\ u = (IF block = None THEN <<>> ELSE Unit(i, block[1], <<>>))
        /\ n = i + Len(block)
        /\ losses = (IF item.kind = "web_search_call" /\ item.payload = "lossy"
                     THEN <<<<"action", e.output_index>>>> ELSE <<>>)
        /\ o = [dec EXCEPT !.next_block_index = n]
  OBVIOUS
<1>5. Yields(e, CloseItem(c), u)  BY <1>2, <1>4 DEF FeedOtherDone
<1>6. c = Lose(o, losses)  BY <1>2, <1>4 DEF CountedBlock
<1>7. KeepsStory(o, dec) /\ o.events = dec.events /\ DOMAIN o = DOMAIN dec
  BY <1>1, <1>4 DEF Decoders, KeepsStory
<1>8. KeepsStory(c, o) /\ c.events = o.events /\ DOMAIN c = DOMAIN dec
  <2>1. DOMAIN Lose(o, losses) = DOMAIN o  BY DEF Lose
  <2>. QED BY <1>6, <1>7, <2>1, LoseKeeps
<1>9. KeepsStory(CloseItem(c), dec) /\ CloseItem(c).events = dec.events
  BY <1>7, <1>8, CloseKeeps DEF KeepsStory
<1>10. u \in Seq(IrEvents) /\ Quiet(u)
  <2>1. CASE block = None
    <3>1. u = <<>>  BY <1>4, <2>1
    <3>. QED BY <3>1 DEF Quiet
  <2>2. CASE block # None
    <3>1. PICK b, none : b = block[1] /\ none = <<>>  OBVIOUS
    <3>2. b \in Blocks /\ b.kind \in {"encrypted_content", "web_search_call"}
      BY <1>2, <1>3, <2>2, <3>1, ItemBlockTypes, SomeTypes
    <3>3. none \in Seq(Deltas) /\ u = BlockUnit(i, b, none)
      BY <1>4, <2>2, <3>1, UnitIsBlock
    <3>4. u \in Seq(IrEvents) /\ BlocksOf(u) = {b}
      BY <1>1, <1>2, <3>2, <3>3, UnitTells
    <3>5. b.kind \notin CallingKinds \union ApplyPatchKinds
      BY <3>2 DEF CallingKinds, ToolKinds, ApplyPatchKinds
    <3>. QED BY <3>4, <3>5, QuietUnit
  <2>. QED BY <2>1, <2>2
<1>. QED BY <1>5, <1>9, <1>10, QuietYields

(* What is kept of a call is what its block tells. *)
LEMMA SavedTold ==
  ASSUME NEW calls \in Seq(SavedCalls), NEW saved \in SavedCalls
  PROVE  CallsTold(Append(calls, saved))
           = CallsTold(calls) \o <<<<saved.call_id, saved.name, saved.input[1]>>>>
<1>1. PICK l, more, c : /\ l = Len(calls) /\ more = Append(calls, saved)
                        /\ c = <<saved.call_id, saved.name, saved.input[1]>>
  OBVIOUS
<1>2. /\ l \in Nat /\ Len(more) = l + 1 /\ more[l + 1] = saved
      /\ \A k \in 1..l : more[k] = calls[k]
  BY <1>1
<1>3. PICK f, g : f = CallsTold(calls) /\ g = CallsTold(more)  OBVIOUS
<1>4. /\ f = [k \in 1..l |-> <<calls[k].call_id, calls[k].name, calls[k].input[1]>>]
      /\ g = [k \in 1..(l + 1) |-> <<more[k].call_id, more[k].name, more[k].input[1]>>]
  BY <1>1, <1>2, <1>3 DEF CallsTold
<1>5. g = [k \in 1..(l + 1) |-> IF k = l + 1 THEN c ELSE f[k]]
  <2>1. ASSUME NEW k \in 1..(l + 1)
        PROVE  <<more[k].call_id, more[k].name, more[k].input[1]>> = IF k = l + 1 THEN c ELSE f[k]
    <3>1. CASE k = l + 1  BY <1>1, <1>2, <3>1
    <3>2. CASE k # l + 1
      <4>1. k \in 1..l  BY <1>2, <3>2
      <4>. QED BY <1>2, <1>4, <3>2, <4>1
    <3>. QED BY <3>1, <3>2
  <2>. QED BY <1>4, <2>1
<1>6. PICK T : T = {f[k] : k \in 1..l} \union {c}  OBVIOUS
<1>7. f \in Seq(T) /\ Len(f) = l /\ c \in T
  <2>1. \A k \in 1..l : <<calls[k].call_id, calls[k].name, calls[k].input[1]>> \in T
    BY <1>4, <1>6
  <2>. QED BY <1>2, <1>4, <1>6, <2>1
<1>8. f \o <<c>> = [k \in 1..(l + 1) |-> IF k = l + 1 THEN c ELSE f[k]]
  BY <1>2, <1>7
<1>. QED BY <1>1, <1>3, <1>5, <1>8

LEMMA CallDoneTells ==
  ASSUME TypeOK, TypeOK', NEW e \in Events, FeedCallDone(e)
  PROVE  CallStep
<1>1. dec \in Decoders /\ dec.next_block_index \in Nat  BY DEF TypeOK, Decoders
<1>2. PICK item, call, i, n, none :
        /\ item = e.item[1] /\ call = dec.function_call[1]
        /\ i = dec.next_block_index /\ n = i + 1 /\ none = None
  OBVIOUS
<1>3. /\ item \in NativeItems /\ dec.function_call # None /\ CallAgrees(call, item)
  BY <1>2, FinishedItem DEF FeedCallDone
<1>4. call \in Calls /\ item.input # None
  <2>1. dec.function_call \in Option(Calls)  BY <1>1 DEF Decoders
  <2>. QED BY <1>2, <1>3, <2>1, SomeTypes DEF CallAgrees
<1>5. PICK t : t = [dec EXCEPT !.function_call = none, !.next_block_index = n]
  OBVIOUS
<1>6. t = CallTaken  BY <1>2, <1>5 DEF CallTaken
<1>7. PICK saved, calls, u :
        /\ saved = [call_id |-> call.call_id, name |-> call.name, input |-> item.input]
        /\ calls = (IF call.custom THEN Append(t.completed_custom_calls, saved)
                    ELSE t.completed_custom_calls)
        /\ u = CallUnit(i, call, item)
  OBVIOUS
<1>8. PICK taken : taken = [t EXCEPT !.tool_use_seen = TRUE, !.completed_custom_calls = calls]
  OBVIOUS
<1>9. Yields(e, CloseItem(taken), u)  BY <1>2, <1>6, <1>7, <1>8 DEF FeedCallDone
<1>10. KeepsStory(t, dec) /\ t.events = dec.events /\ DOMAIN t = DOMAIN dec
  BY <1>1, <1>5 DEF Decoders, KeepsStory
<1>11. /\ taken.events = t.events /\ taken.completed_items = t.completed_items
       /\ taken.terminated = t.terminated /\ taken.tool_use_seen
       /\ taken.completed_custom_calls = calls /\ DOMAIN taken = DOMAIN dec
  BY <1>1, <1>8, <1>10 DEF Decoders
<1>12. /\ dec'.events = dec.events \o u /\ dec'.completed_items = dec.completed_items
       /\ dec'.terminated = dec.terminated /\ dec'.tool_use_seen
       /\ dec'.completed_custom_calls = calls
  <2>1. KeepsStory(CloseItem(taken), taken) /\ CloseItem(taken).events = taken.events
    BY <1>11, CloseKeeps
  <2>2. KeepsStory(dec', CloseItem(taken)) /\ dec'.events = CloseItem(taken).events \o u
    BY <1>9, YieldsStory
  <2>. QED BY <1>10, <1>11, <2>1, <2>2 DEF KeepsStory
<1>13. PICK b \in Blocks, type \in DeltaTypes, texts \in Seq(Text) :
         /\ u = BlockUnit(i, b, DeltasOf(type, texts))
         /\ b.kind = (IF call.custom THEN "custom_tool_use" ELSE "tool_use")
         /\ b.id = call.call_id /\ b.name = call.name /\ b.text = item.input[1]
  <2>1. \E b \in Blocks, type \in DeltaTypes, texts \in Seq(Text) :
          /\ CallUnit(i, call, item) = BlockUnit(i, b, DeltasOf(type, texts))
          /\ texts = (IF call.fragments = <<>> THEN item.input ELSE call.fragments)
          /\ texts # <<>>
          /\ b.kind = (IF call.custom THEN "custom_tool_use" ELSE "tool_use")
          /\ b.id = call.call_id /\ b.name = call.name /\ b.text = item.input[1]
          /\ type = (IF call.custom THEN "custom_tool_input_delta" ELSE "input_json_delta")
    BY <1>3, <1>4, CallUnitShape, SMTT(60)
  <2>. QED BY <1>7, <2>1, Zenon
<1>14. DeltasOf(type, texts) \in Seq(Deltas)  BY DeltasType
<1>15. /\ u \in Seq(IrEvents) /\ BlocksOf(u) = {b}
       /\ CustomsOf(u) = IF b.kind = "custom_tool_use"
                         THEN <<<<b.id, b.name, b.text>>>> ELSE <<>>
  BY <1>1, <1>2, <1>13, <1>14, UnitTells
<1>16. b.kind \in ToolKinds  BY <1>13 DEF ToolKinds
<1>17. dec.completed_custom_calls \in Seq(SavedCalls) /\ saved \in SavedCalls
  BY <1>1, <1>3, <1>4, <1>7, ItemFields DEF SavedCalls, Calls, Decoders
<1>18. CallsTold(calls) = CallsTold(dec.completed_custom_calls) \o CustomsOf(u)
  <2>1. t.completed_custom_calls = dec.completed_custom_calls
    BY <1>10 DEF KeepsStory
  <2>2. CASE call.custom
    <3>1. calls = Append(dec.completed_custom_calls, saved)  BY <1>7, <2>1, <2>2
    <3>2. CallsTold(calls) = CallsTold(dec.completed_custom_calls)
                               \o <<<<saved.call_id, saved.name, saved.input[1]>>>>
      BY <1>17, <3>1, SavedTold
    <3>3. saved.call_id = b.id /\ saved.name = b.name /\ saved.input[1] = b.text
      BY <1>7, <1>13
    <3>4. CustomsOf(u) = <<<<b.id, b.name, b.text>>>>  BY <1>13, <1>15, <2>2
    <3>. QED BY <3>2, <3>3, <3>4
  <2>3. CASE ~call.custom
    <3>1. calls = dec.completed_custom_calls  BY <1>7, <2>1, <2>3
    <3>2. CustomsOf(u) = <<>>  BY <1>13, <1>15, <2>3
    <3>0. PICK f, l : f = CallsTold(calls) /\ l = Len(calls)  OBVIOUS
    <3>3. PICK T : T = {f[k] : k \in 1..l}  OBVIOUS
    <3>4. l \in Nat  BY <1>17, <3>0, <3>1
    <3>5. f = [k \in 1..l |-> <<calls[k].call_id, calls[k].name, calls[k].input[1]>>]
      BY <3>0 DEF CallsTold
    <3>6. f \in [1..l -> T]
      <4>1. \A k \in 1..l : f[k] \in T  BY <3>3
      <4>2. f = [k \in 1..l |-> f[k]]  BY <3>5, Zenon
      <4>. QED BY <4>1, <4>2
    <3>7. f \in Seq(T)  BY <3>4, <3>6
    <3>8. f \o <<>> = f  BY <3>7
    <3>. QED BY <3>0, <3>1, <3>2, <3>8
  <2>. QED BY <2>2, <2>3
<1>. QED BY <1>12, <1>15, <1>16, <1>18 DEF CallStep

LEMMA PatchDoneTells ==
  ASSUME TypeOK, TypeOK', NEW e \in Events, FeedPatchDone(e)
  PROVE  PatchStep(e)
<1>1. dec \in Decoders /\ dec.next_block_index \in Nat /\ dec.events \in Seq(IrEvents)
  BY DEF TypeOK, Decoders
<1>2. PICK item, none : item = e.item[1] /\ none = None  OBVIOUS
<1>3. e.kind = "output_item.done" /\ item \in NativeItems
  BY <1>2, FinishedItem DEF FeedPatchDone
<1>4. PICK p, l, losses, items, m, used, u :
        /\ p = PatchTaken /\ losses = PatchLosses(e)
        /\ l = Lose(p, losses)
        /\ items = Append(l.completed_items, item)
        /\ m = (IF PatchLosses(e) = <<>> THEN l.next_block_index + 1 ELSE l.next_block_index)
        /\ used = (l.tool_use_seen \/ (PatchLosses(e) = <<>> /\ item.kind = "apply_patch_call"))
        /\ u = (IF PatchLosses(e) = <<>>
                THEN Unit(dec.next_block_index, PatchBlock(item), <<>>) ELSE <<>>)
  OBVIOUS
<1>5. PICK taken : taken = [l EXCEPT !.completed_items = items, !.next_block_index = m,
                                     !.tool_use_seen = used]
  OBVIOUS
<1>6. Yields(e, CloseItem(taken), u)  BY <1>2, <1>4, <1>5 DEF FeedPatchDone
<1>7. KeepsStory(p, dec) /\ p.events = dec.events /\ p.losses = dec.losses /\ DOMAIN p = DOMAIN dec
  BY <1>1, <1>4 DEF PatchTaken, Decoders, KeepsStory
<1>8. /\ KeepsStory(l, p) /\ l.events = p.events /\ l.losses = p.losses \o losses
      /\ DOMAIN l = DOMAIN dec
  <2>1. DOMAIN Lose(p, losses) = DOMAIN p  BY DEF Lose
  <2>. QED BY <1>4, <1>7, <2>1, LoseKeeps
<1>9. /\ taken.completed_items = items /\ taken.tool_use_seen = used
      /\ taken.completed_custom_calls = l.completed_custom_calls
      /\ taken.terminated = l.terminated /\ taken.events = l.events
      /\ taken.losses = l.losses /\ DOMAIN taken = DOMAIN dec
  BY <1>1, <1>5, <1>8 DEF Decoders
<1>10. /\ dec'.completed_items = items /\ dec'.tool_use_seen = used
       /\ dec'.completed_custom_calls = dec.completed_custom_calls
       /\ dec'.terminated = dec.terminated /\ dec'.events = dec.events \o u
       /\ dec'.losses = dec.losses \o losses
  <2>1. /\ KeepsStory(CloseItem(taken), taken) /\ CloseItem(taken).events = taken.events
        /\ CloseItem(taken).losses = taken.losses
    BY <1>9, CloseKeeps
  <2>2. /\ KeepsStory(dec', CloseItem(taken)) /\ dec'.events = CloseItem(taken).events \o u
        /\ dec'.losses = CloseItem(taken).losses
    BY <1>6, YieldsStory
  <2>. QED BY <1>7, <1>8, <1>9, <2>1, <2>2 DEF KeepsStory
<1>11. items = Append(dec.completed_items, item)
       /\ used = (dec.tool_use_seen \/ (PatchLosses(e) = <<>> /\ item.kind = "apply_patch_call"))
  BY <1>4, <1>7, <1>8 DEF KeepsStory
<1>12. CASE PatchLosses(e) = <<>>
  <2>1. PICK b, empty : b = PatchBlock(item) /\ empty = <<>>  OBVIOUS
  <2>2. b \in Blocks /\ b.kind \in ApplyPatchKinds
    BY <1>3, <2>1, PatchBlockTypes
  <2>3. empty \in Seq(Deltas) /\ u = BlockUnit(dec.next_block_index, b, empty)
    BY <1>4, <1>12, <2>1, UnitIsBlock
  <2>4. /\ u \in Seq(IrEvents) /\ BlocksOf(u) = {b}
        /\ CustomsOf(u) = IF b.kind = "custom_tool_use"
                          THEN <<<<b.id, b.name, b.text>>>> ELSE <<>>
    BY <1>1, <2>2, <2>3, UnitTells
  <2>5. CustomsOf(u) = <<>>  BY <2>2, <2>4 DEF ApplyPatchKinds
  <2>6. used = (dec.tool_use_seen \/ item.kind = "apply_patch_call")
    BY <1>11, <1>12
  <2>. QED BY <1>2, <1>3, <1>4, <1>10, <1>11, <1>12, <2>1, <2>4, <2>5, <2>6, Zenon DEF PatchStep
<1>13. CASE PatchLosses(e) # <<>>
  <2>1. used = dec.tool_use_seen
    <3>1. dec.tool_use_seen \in BOOLEAN  BY <1>1 DEF Decoders
    <3>. QED BY <1>11, <1>13, <3>1
  <2>2. u = <<>> /\ dec.events \o <<>> = dec.events  BY <1>1, <1>4, <1>13
  <2>3. dec'.events = dec.events  BY <1>10, <2>2
  <2>. QED BY <1>2, <1>3, <1>4, <1>10, <1>11, <1>13, <2>1, <2>3, Zenon DEF PatchStep
<1>. QED BY <1>12, <1>13

LEMMA ItemDoneTells ==
  ASSUME TypeOK, TypeOK', NEW e \in Events, FeedItemDone(e)
  PROVE  Fails \/ QuietStep \/ CallStep \/ PatchStep(e)
BY RejectsFails, PatchDoneTells, CallDoneTells, OtherDoneTells
DEF FeedItemDone, FeedDoneRejected, FeedDonePartOpen, FeedPatchMismatch, FeedPatchInvalid,
    FeedCallMismatch

(* The message ends: the response has been compared, its status is told. *)
EndStep(e) ==
  /\ ~dec.terminated /\ dec'.terminated
  /\ e.response[1] \in Responses
  /\ CustomRepeated(e.response[1].output, dec.completed_custom_calls)
  /\ PatchesRepeated(e.response[1].output, dec.completed_items)
  /\ dec'.completed_custom_calls = dec.completed_custom_calls
  /\ dec'.completed_items = dec.completed_items
  /\ dec'.tool_use_seen = dec.tool_use_seen
  /\ \E x, y \in IrEvents :
       /\ dec'.events = dec.events \o <<x, y>> /\ ~IsStart(x) /\ ~IsStart(y)
       /\ x.stop_reason = StopOf(e.response[1], dec.tool_use_seen)

LEMMA TerminalTells ==
  ASSUME TypeOK, TypeOK', NEW e \in Events, FeedTerminal(e)
  PROVE  Fails \/ EndStep(e)
<1>1. dec \in Decoders /\ ~dec.terminated
  BY DEF TypeOK, FeedTerminal, Receives, Ended
<1>2. CASE Rejects(dec)  BY <1>2, RejectsFails
<1>3. CASE ~Rejects(dec)
  <2>1. PICK response, stop, usage, sequence :
          /\ response = e.response[1] /\ stop = StopOf(response, dec.tool_use_seen)
          /\ usage = (IF response.usage = None THEN NoUsage ELSE response.usage[1])
          /\ sequence = <<>>
    OBVIOUS
  <2>2. PICK t, losses, x, y :
          /\ t = [dec EXCEPT !.terminated = TRUE]
          /\ losses = (IF stop = "other" THEN <<<<"status", -1>>>> ELSE <<>>)
          /\ x = MessageDelta(stop, sequence, usage) /\ y = MessageDone
    OBVIOUS
  <2>3. PICK u : u = <<x, y>>  OBVIOUS
  <2>4. e.kind \in Terminals /\ TerminalAccepted(dec, e) /\ Yields(e, Lose(t, losses), u)
    BY <1>3, <2>1, <2>2, <2>3 DEF FeedTerminal, Receives
  <2>5. response \in Responses
    BY <2>1, <2>4, WireTypes, SomeTypes DEF TerminalAccepted
  <2>6. usage \in Usages
    <3>1. response.usage \in Option(Usages)  BY <2>5 DEF Responses
    <3>2. NoUsage \in Usages  BY DEF NoUsage, Usage, Usages
    <3>. QED BY <2>1, <3>1, <3>2, SomeTypes
  <2>7. stop \in StopReasons  BY <2>1 DEF StopOf, StopReasons
  <2>8. x \in IrEvents /\ y \in IrEvents
    BY <2>1, <2>2, <2>6, <2>7, NoToken, EventTypes
  <2>9. x.stop_reason = stop /\ ~IsStart(x) /\ ~IsStart(y)
    BY <2>2 DEF MessageDelta, MessageDone, IsStart
  <2>10. /\ t.completed_custom_calls = dec.completed_custom_calls
         /\ t.completed_items = dec.completed_items /\ t.tool_use_seen = dec.tool_use_seen
         /\ t.terminated /\ t.events = dec.events /\ DOMAIN t = DOMAIN dec
    BY <1>1, <2>2 DEF Decoders
  <2>11. KeepsStory(Lose(t, losses), t) /\ Lose(t, losses).events = t.events
    BY <2>10, LoseKeeps
  <2>12. KeepsStory(dec', Lose(t, losses)) /\ dec'.events = Lose(t, losses).events \o u
    BY <2>4, YieldsStory
  <2>13. /\ dec'.completed_custom_calls = dec.completed_custom_calls
         /\ dec'.completed_items = dec.completed_items /\ dec'.tool_use_seen = dec.tool_use_seen
         /\ dec'.terminated /\ dec'.events = dec.events \o <<x, y>>
    BY <2>3, <2>10, <2>11, <2>12 DEF KeepsStory
  <2>14. /\ CustomRepeated(response.output, dec.completed_custom_calls)
         /\ PatchesRepeated(response.output, dec.completed_items)
    BY <2>1, <2>4, Zenon DEF TerminalAccepted
  <2>. QED BY <1>1, <2>1, <2>5, <2>8, <2>9, <2>13, <2>14, Zenon DEF EndStep
<1>. QED BY <1>2, <1>3

(* Every call of feed. *)
LEMMA FeedTells ==
  ASSUME TypeOK, TypeOK', NEW e \in Events, Feed(e)
  PROVE  Fails \/ QuietStep \/ CallStep \/ PatchStep(e) \/ EndStep(e)
<1>1. CASE FeedAfterEnd \/ FeedIntoPatch(e)
  BY <1>1, RejectsFails DEF FeedAfterEnd, FeedIntoPatch
<1>. QED
  BY <1>1, CreatedTells, ItemAddedTells, PartTells, InputTells, ItemDoneTells, TerminalTells,
     UnknownTells DEF Feed

(* After the end every call of feed fails. *)
LEMMA EndedFails ==
  ASSUME NEW e, Feed(e), dec.terminated
  PROVE  Fails
<1>1. \A kinds : ~Receives(e, kinds)  BY DEF Receives, Ended
<1>2. ~FeedCreated(e) /\ ~FeedInput(e) /\ ~FeedTerminal(e)
  BY <1>1 DEF FeedCreated, FeedInput, FeedTerminal
<1>3. ~FeedItemAdded(e)
  BY <1>1 DEF FeedItemAdded, FeedAddRejected, FeedAddInvalid, FeedAddSkipped, FeedAddKnown, Adding
<1>4. ~FeedPart(e)
  BY <1>1 DEF FeedPart, FeedPartRejected, FeedPartMissing, FeedSkippedPart, FeedPartStart,
              FeedTextRejected, FeedSkippedText, FeedTextDelta, FeedTextDone, FeedPartDone,
              StartingPart
<1>5. ~FeedItemDone(e)
  BY <1>1 DEF FeedItemDone, FeedDoneRejected, FeedDonePartOpen, FeedPatchMismatch,
              FeedPatchInvalid, FeedPatchDone, FeedCallMismatch, FeedCallDone, FeedOtherDone,
              Finishing
<1>6. ~FeedUnknown(e) /\ ~FeedIntoPatch(e)
  <2>1. Ended  BY DEF Ended
  <2>. QED BY <2>1, Zenon DEF FeedUnknown, FeedIntoPatch
<1>7. FeedAfterEnd => Fails  BY RejectsFails DEF FeedAfterEnd
<1>. QED BY <1>2, <1>3, <1>4, <1>5, <1>6, <1>7 DEF Feed

(* The patch item that ended at k of the events s: a block or a loss. *)
ToldIn(s, d, k) ==
  \/ \E b \in BlocksOf(d.events) :
       /\ b.kind \in ApplyPatchKinds
       /\ b.id = s[k].item[1].call_id
       /\ b.text = <<s[k].item[1].status, s[k].item[1].payload>>
  \/ \E n \in 1..Len(d.losses) : d.losses[n] \in {"status", "operation"} \X {s[k].output_index}

EndedAt(s, d, k, item) ==
  s[k].kind = "output_item.done" /\ s[k].item[1] = item /\ ToldIn(s, d, k)

(* The inductive invariant: the custom calls that are kept are those
   handed over, a tool was used when a tool block says so, and every patch
   that is kept was streamed and told. *)
StoryInv ==
  ~failed =>
    /\ CallsTold(dec.completed_custom_calls) = CustomsOf(dec.events)
    /\ dec.tool_use_seen <=> \E b \in BlocksOf(dec.events) : b.kind \in CallingKinds
    /\ \A n \in 1..Len(dec.completed_items) :
         \E k \in 1..Len(fed) : EndedAt(fed, dec, k, dec.completed_items[n])

(* What was told of a patch stays told. *)
LEMMA ToldStays ==
  ASSUME NEW s \in Seq(Events), NEW e \in Events, NEW d, NEW o, NEW ls \in Seq(Losses),
         d.losses \in Seq(Losses), o.losses = d.losses \o ls,
         BlocksOf(d.events) \subseteq BlocksOf(o.events),
         NEW k \in 1..Len(s), NEW item, EndedAt(s, d, k, item)
  PROVE  k \in 1..Len(Append(s, e)) /\ EndedAt(Append(s, e), o, k, item)
<1>1. PICK t, a, b : t = Append(s, e) /\ a = d.losses /\ b = o.losses  OBVIOUS
<1>2. t[k] = s[k] /\ k \in 1..Len(t)  BY <1>1
<1>3. /\ Len(a) \in Nat /\ \A n \in 1..Len(a) : n \in 1..Len(b) /\ b[n] = a[n]
  BY <1>1
<1>4. ToldIn(t, o, k)
  <2>1. CASE \E c \in BlocksOf(d.events) :
               /\ c.kind \in ApplyPatchKinds
               /\ c.id = s[k].item[1].call_id
               /\ c.text = <<s[k].item[1].status, s[k].item[1].payload>>
    BY <1>2, <2>1, Zenon DEF ToldIn
  <2>2. CASE \E n \in 1..Len(d.losses) :
               d.losses[n] \in {"status", "operation"} \X {s[k].output_index}
    <3>1. PICK n \in 1..Len(a) : a[n] \in {"status", "operation"} \X {s[k].output_index}
      BY <1>1, <2>2
    <3>2. n \in 1..Len(b) /\ b[n] \in {"status", "operation"} \X {t[k].output_index}
      BY <1>2, <1>3, <3>1
    <3>. QED BY <1>1, <3>2 DEF ToldIn
  <2>. QED BY <2>1, <2>2 DEF EndedAt, ToldIn
<1>5. t[k].kind = "output_item.done" /\ t[k].item[1] = item  BY <1>2 DEF EndedAt
<1>. QED BY <1>1, <1>2, <1>4, <1>5 DEF EndedAt

(* The losses of a patch name its item. *)
LEMMA PatchLossesForm ==
  ASSUME NEW e, e.output_index \in Int, PatchLosses(e) # <<>>
  PROVE  /\ PatchLosses(e) \in Seq(Losses) /\ 1 \in 1..Len(PatchLosses(e))
         /\ PatchLosses(e)[1] \in {"status", "operation"} \X {e.output_index}
<1>1. PICK S, i, a, b, none : /\ S = {"status", "operation"} \X {e.output_index}
                              /\ i = e.output_index /\ none = <<>>
                              /\ a = <<<<"status", e.output_index>>>>
                              /\ b = <<<<"operation", e.output_index>>>>
  OBVIOUS
<1>2. a \in Seq(S) /\ b \in Seq(S) /\ none \in Seq(S)  BY <1>1
<1>3. PICK x \in {a, none}, y \in {b, none} : PatchLosses(e) = x \o y
  BY <1>1, Zenon DEF PatchLosses
<1>4. x \o y \in Seq(S) /\ x \o y # <<>>  BY <1>2, <1>3
<1>5. 1 \in 1..Len(x \o y) /\ (x \o y)[1] \in S  BY <1>4
<1>. QED BY <1>1, <1>3, <1>5, PatchLossesType

(* An accepted event is remembered, and losses are only added. *)
LEMMA AcceptedGrows ==
  ASSUME TypeOK, NestInv, ~failed, NEW e \in Events, Accepted(e)
  PROVE  /\ fed \in Seq(Events) /\ fed' = Append(fed, e) /\ ~failed'
         /\ dec.losses \in Seq(Losses) /\ dec.events \in Seq(IrEvents)
         /\ \E ls \in Seq(Losses) : dec'.losses = dec.losses \o ls
<1>1. GapOf(e, dec.skipped_item, dec.skipped_part) \in Seq(Losses)  BY GapType
<1>. QED BY <1>1 DEF TypeOK, Decoders, NestInv, Accepted

(* Blocks are only added, and no patch is forgotten. *)
LEMMA ItemsStayTold ==
  ASSUME TypeOK, NestInv, StoryInv, ~failed, NEW e \in Events, Accepted(e),
         BlocksOf(dec.events) \subseteq BlocksOf(dec'.events)
  PROVE  \A n \in 1..Len(dec.completed_items) :
           \E k \in 1..Len(fed') : EndedAt(fed', dec', k, dec.completed_items[n])
<1>1. PICK s, d, o, t : s = fed /\ d = dec /\ o = dec' /\ t = fed'  OBVIOUS
<1>2. /\ s \in Seq(Events) /\ t = Append(s, e) /\ d.losses \in Seq(Losses)
      /\ \E ls \in Seq(Losses) : o.losses = d.losses \o ls
      /\ BlocksOf(d.events) \subseteq BlocksOf(o.events)
  BY <1>1, AcceptedGrows
<1>3. PICK ls \in Seq(Losses) : o.losses = d.losses \o ls  BY <1>2
<1>4. ASSUME NEW n \in 1..Len(d.completed_items)
      PROVE  \E k \in 1..Len(t) : EndedAt(t, o, k, d.completed_items[n])
  <2>1. PICK k \in 1..Len(s) : EndedAt(s, d, k, d.completed_items[n])
    BY <1>1, <1>4 DEF StoryInv
  <2>2. k \in 1..Len(Append(s, e)) /\ EndedAt(Append(s, e), o, k, d.completed_items[n])
    BY <1>2, <1>3, <2>1, ToldStays
  <2>. QED BY <1>2, <2>2
<1>. QED BY <1>1, <1>4

(* What a call hands over is told behind the rest. *)
LEMMA StoryGrows ==
  ASSUME TypeOK, NEW u \in Seq(IrEvents), dec'.events = dec.events \o u
  PROVE  /\ CustomsOf(dec'.events) = CustomsOf(dec.events) \o CustomsOf(u)
         /\ BlocksOf(dec'.events) = BlocksOf(dec.events) \union BlocksOf(u)
         /\ CustomsOf(dec.events) \o <<>> = CustomsOf(dec.events)
<1>1. PICK s : s = dec.events  OBVIOUS
<1>2. s \in Seq(IrEvents)  BY <1>1 DEF TypeOK, Decoders
<1>3. CustomsOf(s) \in Seq(Told)
  <2>1. PICK f, T : f = [k \in 1..Len(s) |-> CustomOf(s[k])] /\ T = Seq(Told)
    OBVIOUS
  <2>2. \A k \in 1..Len(s) : s[k] \in IrEvents  BY <1>2
  <2>3. \A k \in 1..Len(s) : CustomOf(s[k]) \in T  BY <2>1, <2>2, CustomType
  <2>4. f \in Seq(T)  BY <1>2, <2>1, <2>3
  <2>5. Concat(f) \in Seq(Told)  BY <2>1, <2>4, ConcatText
  <2>. QED BY <2>1, <2>5 DEF CustomsOf
<1>4. CustomsOf(s) \o <<>> = CustomsOf(s)  BY <1>3
<1>. QED BY <1>1, <1>2, <1>4, CustomsJoin, BlocksJoin

LEMMA StoryQuiet ==
  ASSUME TypeOK, NestInv, StoryInv, ~failed, NEW e \in Events, Accepted(e),
         dec'.completed_custom_calls = dec.completed_custom_calls,
         dec'.completed_items = dec.completed_items, dec'.tool_use_seen = dec.tool_use_seen,
         NEW u \in Seq(IrEvents), Quiet(u), dec'.events = dec.events \o u
  PROVE  StoryInv'
<1>1. CustomsOf(u) = <<>> /\ \A b \in BlocksOf(u) : b.kind \notin CallingKinds
  BY QuietTells
<1>2. /\ CustomsOf(dec'.events) = CustomsOf(dec.events)
      /\ BlocksOf(dec'.events) = BlocksOf(dec.events) \union BlocksOf(u)
  BY <1>1, StoryGrows
<1>3. \A n \in 1..Len(dec.completed_items) :
        \E k \in 1..Len(fed') : EndedAt(fed', dec', k, dec.completed_items[n])
  BY <1>2, ItemsStayTold
<1>4. /\ CallsTold(dec.completed_custom_calls) = CustomsOf(dec.events)
      /\ dec.tool_use_seen <=> \E b \in BlocksOf(dec.events) : b.kind \in CallingKinds
  BY DEF StoryInv
<1>5. CallsTold(dec'.completed_custom_calls) = CustomsOf(dec'.events)
  BY <1>2, <1>4
<1>6. dec'.tool_use_seen <=> \E b \in BlocksOf(dec'.events) : b.kind \in CallingKinds
  BY <1>1, <1>2, <1>4
<1>7. \A n \in 1..Len(dec'.completed_items) :
        \E k \in 1..Len(fed') : EndedAt(fed', dec', k, dec'.completed_items[n])
  BY <1>3
<1>. QED BY <1>5, <1>6, <1>7 DEF StoryInv

LEMMA StoryCall ==
  ASSUME TypeOK, NestInv, StoryInv, ~failed, NEW e \in Events, Accepted(e), CallStep
  PROVE  StoryInv'
<1>1. PICK u \in Seq(IrEvents), b \in Blocks :
        /\ dec'.events = dec.events \o u
        /\ BlocksOf(u) = {b} /\ b.kind \in ToolKinds
        /\ CallsTold(dec'.completed_custom_calls)
             = CallsTold(dec.completed_custom_calls) \o CustomsOf(u)
  BY DEF CallStep
<1>2. /\ CustomsOf(dec'.events) = CustomsOf(dec.events) \o CustomsOf(u)
      /\ BlocksOf(dec'.events) = BlocksOf(dec.events) \union BlocksOf(u)
  BY <1>1, StoryGrows
<1>3. \A n \in 1..Len(dec.completed_items) :
        \E k \in 1..Len(fed') : EndedAt(fed', dec', k, dec.completed_items[n])
  BY <1>2, ItemsStayTold
<1>4. CallsTold(dec.completed_custom_calls) = CustomsOf(dec.events)
  BY DEF StoryInv
<1>5. CallsTold(dec'.completed_custom_calls) = CustomsOf(dec'.events)
  BY <1>1, <1>2, <1>4
<1>6. dec'.tool_use_seen /\ \E c \in BlocksOf(dec'.events) : c.kind \in CallingKinds
  BY <1>1, <1>2 DEF CallStep, CallingKinds
<1>7. \A n \in 1..Len(dec'.completed_items) :
        \E k \in 1..Len(fed') : EndedAt(fed', dec', k, dec'.completed_items[n])
  BY <1>3 DEF CallStep
<1>. QED BY <1>5, <1>6, <1>7 DEF StoryInv

LEMMA StoryPatch ==
  ASSUME TypeOK, NestInv, StoryInv, ~failed, NEW e \in Events, Accepted(e), PatchStep(e)
  PROVE  StoryInv'
<1>1. PICK item, b, items : item = e.item[1] /\ b = PatchBlock(item) /\ items = dec.completed_items
  OBVIOUS
<1>2. item \in NativeItems /\ items \in Seq(NativeItems) /\ e.kind = "output_item.done"
  BY <1>1 DEF PatchStep, TypeOK, Decoders
<1>3. /\ b.kind \in ApplyPatchKinds /\ b.id = item.call_id
      /\ b.text = <<item.status, item.payload>>
      /\ b.kind = "apply_patch_tool_use" <=> item.kind = "apply_patch_call"
  BY <1>1, <1>2, PatchBlockTypes, Zenon DEF PatchBlock, Block
<1>4. PICK u \in Seq(IrEvents) :
        /\ dec'.events = dec.events \o u /\ CustomsOf(u) = <<>>
        /\ \/ /\ PatchLosses(e) = <<>> /\ BlocksOf(u) = {b}
              /\ dec'.tool_use_seen = (dec.tool_use_seen \/ item.kind = "apply_patch_call")
           \/ /\ PatchLosses(e) # <<>> /\ BlocksOf(u) = {}
              /\ dec'.tool_use_seen = dec.tool_use_seen
  <2>1. CASE PatchLosses(e) = <<>>  BY <1>1, <2>1 DEF PatchStep
  <2>2. CASE PatchLosses(e) # <<>>
    <3>1. PICK u : u = <<>>  OBVIOUS
    <3>2. u \in Seq(IrEvents) /\ Quiet(u) /\ BlocksOf(u) = {} /\ dec.events \o u = dec.events
      BY <3>1 DEF Quiet, BlocksOf, TypeOK, Decoders
    <3>3. CustomsOf(u) = <<>>  BY <3>2, QuietTells
    <3>. QED BY <2>2, <3>2, <3>3 DEF PatchStep
  <2>. QED BY <2>1, <2>2
<1>5. /\ CustomsOf(dec'.events) = CustomsOf(dec.events)
      /\ BlocksOf(dec'.events) = BlocksOf(dec.events) \union BlocksOf(u)
  BY <1>4, StoryGrows
<1>6. \A n \in 1..Len(items) : \E k \in 1..Len(fed') : EndedAt(fed', dec', k, items[n])
  BY <1>1, <1>5, ItemsStayTold
<1>7. PICK l, t, o : l = Len(fed) + 1 /\ t = fed' /\ o = dec'  OBVIOUS
<1>8. l \in 1..Len(t) /\ t[l] = e
  <2>1. fed \in Seq(Events) /\ t = Append(fed, e)  BY <1>7, AcceptedGrows
  <2>. QED BY <1>7, <2>1
<1>9. ToldIn(t, o, l)
  <2>1. CASE PatchLosses(e) = <<>>
    <3>1. b \in BlocksOf(o.events)  BY <1>4, <1>5, <1>7, <2>1
    <3>. QED BY <1>1, <1>3, <1>8, <3>1, Zenon DEF ToldIn
  <2>2. CASE PatchLosses(e) # <<>>
    <3>1. PICK a, p : a = dec.losses /\ p = PatchLosses(e)  OBVIOUS
    <3>2. a \in Seq(Losses) /\ o.losses = a \o p
      BY <1>7, <3>1 DEF PatchStep, TypeOK, Decoders
    <3>3. /\ p \in Seq(Losses) /\ 1 \in 1..Len(p)
          /\ p[1] \in {"status", "operation"} \X {e.output_index}
      <4>1. e.output_index \in Int  BY <1>2, WireTypes
      <4>. QED BY <2>2, <3>1, <4>1, PatchLossesForm
    <3>4. PICK n : n = Len(a) + 1  OBVIOUS
    <3>5. n \in 1..Len(a \o p) /\ (a \o p)[n] = p[1]  BY <3>2, <3>3, <3>4
    <3>. QED BY <1>8, <3>2, <3>3, <3>5 DEF ToldIn
  <2>. QED BY <2>1, <2>2
<1>10. EndedAt(t, o, l, item)  BY <1>1, <1>2, <1>8, <1>9 DEF EndedAt
<1>11. \A n \in 1..Len(dec'.completed_items) :
         \E k \in 1..Len(fed') : EndedAt(fed', dec', k, dec'.completed_items[n])
  <2>1. PICK more : more = Append(items, item)  OBVIOUS
  <2>2. dec'.completed_items = more  BY <1>1, <2>1 DEF PatchStep
  <2>3. ASSUME NEW n \in 1..Len(more)
        PROVE  \E k \in 1..Len(t) : EndedAt(t, o, k, more[n])
    <3>1. CASE n = Len(items) + 1
      <4>1. more[n] = item  BY <1>2, <2>1, <3>1
      <4>. QED BY <1>8, <1>10, <4>1
    <3>2. CASE n # Len(items) + 1
      <4>1. n \in 1..Len(items) /\ more[n] = items[n]  BY <1>2, <2>1, <2>3, <3>2
      <4>. QED BY <1>6, <1>7, <4>1
    <3>. QED BY <3>1, <3>2
  <2>. QED BY <1>7, <2>2, <2>3
<1>12. /\ CallsTold(dec.completed_custom_calls) = CustomsOf(dec.events)
       /\ dec.tool_use_seen <=> \E c \in BlocksOf(dec.events) : c.kind \in CallingKinds
  BY DEF StoryInv
<1>13. CallsTold(dec'.completed_custom_calls) = CustomsOf(dec'.events)
  BY <1>5, <1>12 DEF PatchStep
<1>14. dec'.tool_use_seen <=> \E c \in BlocksOf(dec'.events) : c.kind \in CallingKinds
  <2>1. b.kind \in CallingKinds <=> item.kind = "apply_patch_call"
    BY <1>3 DEF CallingKinds, ToolKinds, ApplyPatchKinds
  <2>. QED BY <1>4, <1>5, <1>12, <2>1
<1>. QED BY <1>11, <1>13, <1>14 DEF StoryInv

LEMMA StoryEnd ==
  ASSUME TypeOK, NestInv, StoryInv, ~failed, NEW e \in Events, Accepted(e), EndStep(e)
  PROVE  StoryInv'
<1>1. PICK x \in IrEvents, y \in IrEvents :
        dec'.events = dec.events \o <<x, y>> /\ ~IsStart(x) /\ ~IsStart(y)
  BY DEF EndStep
<1>2. PICK u : u = <<x, y>>  OBVIOUS
<1>3. u \in Seq(IrEvents) /\ Len(u) = 2 /\ u[1] = x /\ u[2] = y  BY <1>2
<1>4. Quiet(u)  BY <1>1, <1>3 DEF Quiet
<1>5. /\ dec'.completed_custom_calls = dec.completed_custom_calls
      /\ dec'.completed_items = dec.completed_items /\ dec'.tool_use_seen = dec.tool_use_seen
      /\ dec'.events = dec.events \o u
  BY <1>1, <1>2 DEF EndStep
<1>. QED BY <1>3, <1>4, <1>5, StoryQuiet

(* A stop reason that speaks of tools is about those that were seen. *)
LEMMA StopSpeaks ==
  ASSUME NEW response, NEW calls \in BOOLEAN
  PROVE  /\ StopOf(response, calls) = "tool_use" => calls
         /\ StopOf(response, calls) = "end_turn" => ~calls
BY DEF StopOf

(* The response that was compared at the end agrees with what was told. *)
LEMMA EndAgrees ==
  ASSUME TypeOK, TypeOK', NestInv, StoryInv', ~failed', ~failed, NEW e \in Events, Accepted(e),
         EndStep(e)
  PROVE  TerminalAgreesWithStream'
<1>1. PICK output, customs, calls, items :
        /\ output = e.response[1].output /\ customs = CustomCalls(output)
        /\ calls = dec'.completed_custom_calls /\ items = dec'.completed_items
  OBVIOUS
<1>2. /\ CustomRepeated(output, calls) /\ PatchesRepeated(output, items)
  BY <1>1 DEF EndStep
<1>3. fed'[Len(fed')] = e  BY AcceptedGrows
<1>4. /\ CallsTold(calls) = CustomsOf(dec'.events)
      /\ dec'.tool_use_seen <=> \E b \in BlocksOf(dec'.events) : b.kind \in CallingKinds
      /\ \A n \in 1..Len(items) : \E k \in 1..Len(fed') : EndedAt(fed', dec', k, items[n])
  BY <1>1 DEF StoryInv
<1>5. [k \in 1..Len(customs) |-> <<customs[k].call_id, customs[k].name, customs[k].input[1]>>]
        = CustomsOf(dec'.events)
  <2>1. /\ Len(customs) = Len(calls)
        /\ \A k \in 1..Len(customs) :
             [call_id |-> customs[k].call_id, name |-> customs[k].name, input |-> customs[k].input]
               = calls[k]
    BY <1>1, <1>2, Zenon DEF CustomRepeated
  <2>2. \A k \in 1..Len(calls) :
          /\ customs[k].call_id = calls[k].call_id /\ customs[k].name = calls[k].name
          /\ customs[k].input = calls[k].input
    <3>1. ASSUME NEW k \in 1..Len(calls)
          PROVE  /\ customs[k].call_id = calls[k].call_id /\ customs[k].name = calls[k].name
                 /\ customs[k].input = calls[k].input
      <4>1. [call_id |-> customs[k].call_id, name |-> customs[k].name, input |-> customs[k].input]
              = calls[k]
        BY <2>1
      <4>. QED BY <4>1
    <3>. QED BY <3>1
  <2>3. [k \in 1..Len(customs) |-> <<customs[k].call_id, customs[k].name, customs[k].input[1]>>]
          = CallsTold(calls)
    BY <2>1, <2>2 DEF CallsTold
  <2>. QED BY <1>4, <2>3
<1>6. ASSUME NEW j \in 1..Len(output), output[j].kind \in PatchItems
      PROVE  \E k \in 1..Len(fed') :
               /\ fed'[k].kind = "output_item.done"
               /\ fed'[k].item[1].id = output[j].id
               /\ fed'[k].item[1].call_id = output[j].call_id
               /\ fed'[k].item[1].status = output[j].status
               /\ fed'[k].item[1].payload = output[j].payload
               /\ PatchTold(k)'
  <2>1. PICK n \in 1..Len(items) :
          /\ items[n].id = output[j].id /\ items[n].call_id = output[j].call_id
          /\ items[n].status = output[j].status /\ items[n].payload = output[j].payload
    BY <1>2, <1>6 DEF PatchesRepeated
  <2>2. PICK k \in 1..Len(fed') : EndedAt(fed', dec', k, items[n])  BY <1>4
  <2>3. fed'[k].kind = "output_item.done" /\ fed'[k].item[1] = items[n] /\ ToldIn(fed', dec', k)
    BY <2>2 DEF EndedAt
  <2>4. PatchTold(k)'  BY <2>3, Zenon DEF PatchTold, ToldIn
  <2>. QED BY <2>1, <2>3, <2>4
<1>7. PICK x : /\ dec'.events[Len(dec'.events) - 1] = x
               /\ x.stop_reason = StopOf(e.response[1], dec'.tool_use_seen)
  <2>1. PICK x \in IrEvents, y \in IrEvents :
          /\ dec'.events = dec.events \o <<x, y>>
          /\ x.stop_reason = StopOf(e.response[1], dec.tool_use_seen)
    BY DEF EndStep
  <2>2. PICK s, u, t : s = dec.events /\ u = <<x, y>> /\ t = s \o u  OBVIOUS
  <2>3. s \in Seq(IrEvents) /\ u \in Seq(IrEvents) /\ Len(u) = 2 /\ u[1] = x
    BY <2>2, AcceptedGrows
  <2>4. Len(t) - 1 \in Nat /\ t[Len(t) - 1] = x  BY <2>2, <2>3
  <2>. QED BY <2>1, <2>2, <2>4 DEF EndStep
<1>8. dec'.tool_use_seen \in BOOLEAN  BY DEF TypeOK, Decoders
<1>9. /\ x.stop_reason = "tool_use" => \E b \in BlocksOf(dec'.events) : b.kind \in CallingKinds
      /\ x.stop_reason = "end_turn" => ~\E b \in BlocksOf(dec'.events) : b.kind \in CallingKinds
  BY <1>4, <1>7, <1>8, StopSpeaks, Zenon
<1>. QED BY <1>1, <1>3, <1>5, <1>6, <1>7, <1>9, Zenon DEF TerminalAgreesWithStream

(* A step of the two invariants. *)
LEMMA StoryStep ==
  ASSUME TypeOK, TypeOK', NestInv, StoryInv, TerminalAgreesWithStream, [Next]_vars
  PROVE  StoryInv' /\ TerminalAgreesWithStream'
<1>1. CASE failed'  BY <1>1 DEF StoryInv, TerminalAgreesWithStream
<1>2. CASE ~failed'
  <2>1. ~failed  BY <1>2, StaysFailed
  <2>2. CASE UNCHANGED vars
    <3>1. dec' = dec /\ fed' = fed /\ failed' = failed  BY <2>2 DEF vars
    <3>2. \A k : PatchTold(k)' <=> PatchTold(k)  BY <3>1 DEF PatchTold
    <3>3. StoryInv'  BY <3>1 DEF StoryInv
    <3>4. TerminalAgreesWithStream'  BY <3>1, <3>2 DEF TerminalAgreesWithStream
    <3>. QED BY <3>3, <3>4
  <2>3. CASE Flush
    <3>1. /\ dec' = [dec EXCEPT !.flushed = TRUE] /\ UNCHANGED <<fed, failed>> /\ dec.terminated
      BY <1>2, <2>3 DEF Flush, FlushRefused, FlushConfirmed
    <3>2. KeepsStory(dec', dec) /\ dec'.events = dec.events /\ dec'.losses = dec.losses
      BY <3>1 DEF TypeOK, Decoders, KeepsStory
    <3>3. StoryInv'
      <4>1. \A k, item : EndedAt(fed, dec, k, item) => EndedAt(fed', dec', k, item)
        BY <3>1, <3>2, Zenon DEF EndedAt, ToldIn
      <4>. QED BY <3>1, <3>2, <4>1 DEF StoryInv, KeepsStory
    <3>4. TerminalAgreesWithStream'
      <4>1. \A k : PatchTold(k)' <=> PatchTold(k)  BY <3>1, <3>2 DEF PatchTold
      <4>. QED BY <3>1, <3>2, <4>1 DEF TerminalAgreesWithStream, KeepsStory
    <3>. QED BY <3>3, <3>4
  <2>4. ASSUME NEW e \in Events, Feed(e)
        PROVE  StoryInv' /\ TerminalAgreesWithStream'
    <3>1. ~Fails  BY <1>2 DEF Fails
    <3>2. ~dec.terminated  BY <2>4, <3>1, EndedFails
    <3>3. Accepted(e)  BY <2>1, <2>4, <3>1, FeedAccepted DEF NestInv
    <3>4. CASE QuietStep
      <4>1. PICK u \in Seq(IrEvents) : Quiet(u) /\ dec'.events = dec.events \o u
        BY <3>4 DEF QuietStep
      <4>2. StoryInv'
        BY <2>1, <2>4, <3>3, <3>4, <4>1, StoryQuiet DEF QuietStep, KeepsStory
      <4>3. ~dec'.terminated  BY <3>2, <3>4 DEF QuietStep, KeepsStory
      <4>. QED BY <4>2, <4>3 DEF TerminalAgreesWithStream
    <3>5. CASE CallStep
      <4>1. StoryInv'  BY <2>1, <2>4, <3>3, <3>5, StoryCall
      <4>2. ~dec'.terminated  BY <3>2, <3>5 DEF CallStep
      <4>. QED BY <4>1, <4>2 DEF TerminalAgreesWithStream
    <3>6. CASE PatchStep(e)
      <4>1. StoryInv'  BY <2>1, <2>4, <3>3, <3>6, StoryPatch
      <4>2. ~dec'.terminated  BY <3>2, <3>6 DEF PatchStep
      <4>. QED BY <4>1, <4>2 DEF TerminalAgreesWithStream
    <3>7. CASE EndStep(e)
      <4>1. StoryInv'  BY <2>1, <2>4, <3>3, <3>7, StoryEnd
      <4>. QED BY <1>2, <2>1, <2>4, <3>3, <3>7, <4>1, EndAgrees
    <3>. QED BY <2>4, <3>1, <3>4, <3>5, <3>6, <3>7, FeedTells
  <2>. QED BY <2>2, <2>3, <2>4 DEF Next
<1>. QED BY <1>1, <1>2

(* For every set of provider events, as long as no call has failed: what
   the final response says is what was handed over.  Its custom calls are
   those of the stream, in order, with their names and inputs; each of its
   patches ended in the stream as it is repeated, and was handed over as a
   block or is among the losses under its item; and a completed response
   stops for tools exactly if the stream had a call. *)
THEOREM TerminalIsFaithful == Spec => []TerminalAgreesWithStream
<1>1. Init => TypeOK /\ NestInv /\ StoryInv /\ TerminalAgreesWithStream
  <2>1. SUFFICES ASSUME Init
                 PROVE  StoryInv /\ TerminalAgreesWithStream
    BY InitTypeOK, NestInit
  <2>2. /\ dec.events = <<>> /\ dec.completed_custom_calls = <<>> /\ dec.completed_items = <<>>
        /\ ~dec.tool_use_seen /\ ~dec.terminated
    BY <2>1, Zenon DEF Init, NewDecoder
  <2>3. CallsTold(dec.completed_custom_calls) = <<>>  BY <2>2 DEF CallsTold
  <2>4. CustomsOf(dec.events) = <<>> /\ BlocksOf(dec.events) = {}
    <3>1. PICK u : u = <<>>  OBVIOUS
    <3>2. u \in Seq(IrEvents) /\ Quiet(u) /\ BlocksOf(u) = {}
      BY <3>1 DEF Quiet, BlocksOf
    <3>. QED BY <2>2, <3>1, <3>2, QuietTells
  <2>5. Len(dec.completed_items) = 0  BY <2>2
  <2>. QED BY <2>2, <2>3, <2>4, <2>5 DEF StoryInv, TerminalAgreesWithStream
<1>2. TypeOK /\ TypeOK' /\ NestInv /\ [Next]_vars => NestInv'  BY NestStep
<1>3. /\ TypeOK /\ TypeOK' /\ NestInv /\ StoryInv /\ TerminalAgreesWithStream /\ [Next]_vars
      => StoryInv' /\ TerminalAgreesWithStream'
  BY StoryStep
<1>. QED BY <1>1, <1>2, <1>3, DecoderTypeCorrect, PTL DEF Spec

-----------------------------------------------------------------------------
(* The whole output *)

(* The block of an item that is done, when it is none of a call. *)
DoneBlock(e) ==
  IF e.item[1].kind \notin PatchItems THEN ItemBlock(e.item[1])
  ELSE IF PatchLosses(e) = <<>> THEN Some(PatchBlock(e.item[1])) ELSE None

DoneKept(e) ==
  e.kind = "output_item.done" /\ (e.item[1].kind \in CallItems \/ DoneBlock(e) # None)

Calling(e) == DoneKept(e) /\ e.item[1].kind \in CallItems \union {"apply_patch_call"}

PairOf(e, called) ==
  <<MessageDelta(StopOf(e.response[1], called), <<>>,
                 IF e.response[1].usage = None THEN NoUsage ELSE e.response[1].usage[1]),
    MessageDone>>

(* What comes out because of e: i blocks were handed over, e starts a part
   that is kept, such a part is open as block p, call is the block of the
   call that e ends, and a call came before. *)
Output(e, i, kept, open, p, call, called) ==
  CASE e.kind = "created" -> <<MessageStart>>
    [] kept -> <<BlockStart(i, PartBlock(e))>>
    [] e.kind \in TextDelta /\ open -> <<BlockDelta(p, DeltaOf(e))>>
    [] e.kind \in PartDone /\ open -> <<BlockStop(p)>>
    [] DoneKept(e) ->
         IF e.item[1].kind \in CallItems THEN call ELSE Unit(i, DoneBlock(e)[1], <<>>)
    [] e.kind \in Terminals -> PairOf(e, called)
    [] OTHER -> <<>>

(* Output, kind by kind. *)
OutputBy(g, e, i, kept, open, p, call, called) ==
  /\ e.kind = "created" => g = <<MessageStart>>
  /\ e.kind \in PartAdded /\ kept => g = <<BlockStart(i, PartBlock(e))>>
  /\ e.kind \in PartAdded /\ ~kept => g = <<>>
  /\ e.kind \in TextDelta => g = IF open THEN <<BlockDelta(p, DeltaOf(e))>> ELSE <<>>
  /\ e.kind \in PartDone => g = IF open THEN <<BlockStop(p)>> ELSE <<>>
  /\ DoneKept(e) =>
       g = IF e.item[1].kind \in CallItems THEN call ELSE Unit(i, DoneBlock(e)[1], <<>>)
  /\ e.kind = "output_item.done" /\ ~DoneKept(e) => g = <<>>
  /\ e.kind \in Terminals => g = PairOf(e, called)
  /\ e.kind \in {"output_item.added"} \union TextDone \union InputEvents => g = <<>>
  /\ e.kind \notin KnownEvents => g = <<>>

LEMMA OutputForms ==
  ASSUME NEW e, NEW i, NEW kept, NEW open, NEW p, NEW call, NEW called,
         kept => e.kind \in PartAdded
  PROVE  OutputBy(Output(e, i, kept, open, p, call, called), e, i, kept, open, p, call, called)
<1>1. PICK g, first, start, delta, stop, unit, pair, none :
        /\ g = Output(e, i, kept, open, p, call, called)
        /\ first = <<MessageStart>>
        /\ start = <<BlockStart(i, PartBlock(e))>>
        /\ delta = <<BlockDelta(p, DeltaOf(e))>>
        /\ stop = <<BlockStop(p)>>
        /\ unit = (IF e.item[1].kind \in CallItems THEN call ELSE Unit(i, DoneBlock(e)[1], <<>>))
        /\ pair = PairOf(e, called)
        /\ none = <<>>
  OBVIOUS
<1>3. g = CASE e.kind = "created" -> first
            [] kept -> start
            [] e.kind \in TextDelta /\ open -> delta
            [] e.kind \in PartDone /\ open -> stop
            [] DoneKept(e) -> unit
            [] e.kind \in Terminals -> pair
            [] OTHER -> none
  BY <1>1, Zenon DEF Output
<1>4. DoneKept(e) => e.kind = "output_item.done"  BY DEF DoneKept
<1>5. e.kind = "created" => g = first
  BY <1>3, <1>4 DEF PartAdded, PartDone, TextDelta, Terminals
<1>6. e.kind \in PartAdded /\ kept => g = start
  BY <1>3, <1>4 DEF PartAdded, PartDone, TextDelta, Terminals
<1>7. e.kind \in PartAdded /\ ~kept => g = none
  BY <1>3, <1>4 DEF PartAdded, PartDone, TextDelta, Terminals
<1>8. e.kind \in TextDelta => g = IF open THEN delta ELSE none
  BY <1>3, <1>4 DEF PartAdded, PartDone, TextDelta, Terminals
<1>9. e.kind \in PartDone => g = IF open THEN stop ELSE none
  BY <1>3, <1>4 DEF PartAdded, PartDone, TextDelta, Terminals
<1>10. DoneKept(e) => g = unit
  BY <1>3, <1>4 DEF PartAdded, PartDone, TextDelta, Terminals
<1>11. e.kind = "output_item.done" /\ ~DoneKept(e) => g = none
  BY <1>3, <1>4 DEF PartAdded, PartDone, TextDelta, Terminals
<1>12. e.kind \in Terminals => g = pair
  BY <1>3, <1>4 DEF PartAdded, PartDone, TextDelta, Terminals
<1>13. e.kind \in {"output_item.added"} \union TextDone \union InputEvents => g = none
  BY <1>3, <1>4 DEF PartAdded, PartDone, TextDelta, TextDone, InputEvents, Terminals
<1>14. e.kind \notin KnownEvents => g = none
  <2>1. e.kind \notin KnownEvents =>
          /\ e.kind # "created" /\ ~kept /\ e.kind \notin TextDelta /\ e.kind \notin PartDone
          /\ ~DoneKept(e) /\ e.kind \notin Terminals
    BY <1>4 DEF KnownEvents
  <2>. QED BY <1>3, <2>1
<1>. QED
  BY <1>1, <1>5, <1>6, <1>7, <1>8, <1>9, <1>10, <1>11, <1>12, <1>13, <1>14, Zenon DEF OutputBy

(* The event starts a part that is kept. *)
StartsBlock(d, e) == e.kind \in PartAdded /\ ~d.skipped_item /\ e.part[1].kind = "output_text"

(* The call that is buffered after the event. *)
CallAfter(d, e) ==
  IF e.kind = "output_item.added"
  THEN (IF e.item[1].kind \in CallItems THEN Some(Call(e.item[1])) ELSE None)
  ELSE IF e.kind = "output_item.done" THEN None
  ELSE IF e.kind \in InputEvents /\ d.function_call # None
  THEN Some(TakeInput(d.function_call[1], e)) ELSE d.function_call

(* What an accepted event makes of the counters and buffers. *)
MovesBlocks(d, e, o) ==
  /\ o.next_block_index =
       d.next_block_index + (IF StartsBlock(d, e) \/ DoneKept(e) THEN 1 ELSE 0)
  /\ o.block_open <=> StartsBlock(d, e) \/ (d.block_open /\ e.kind \notin PartDone)
  /\ o.block_index = IF StartsBlock(d, e) THEN d.next_block_index ELSE d.block_index
  /\ o.tool_use_seen <=> d.tool_use_seen \/ Calling(e)
  /\ o.function_call = CallAfter(d, e)
  /\ o.item_open =>
       o.item_type = IF e.kind = "output_item.added" THEN e.item[1].kind ELSE d.item_type
  /\ e.kind \in PartAdded => ~d.block_open
  /\ StartsBlock(d, e) => e.part # None
  /\ e.kind \in Terminals => e.response # None
  /\ e.kind = "output_item.added" => e.item # None
  /\ e.kind = "output_item.done" =>
       /\ e.item[1].kind = d.item_type /\ e.item[1] \in NativeItems
       /\ e.item[1].kind \in CallItems => d.function_call # None /\ e.item[1].input # None

SameBlocks(o, d) ==
  /\ o.next_block_index = d.next_block_index /\ o.block_open = d.block_open
  /\ o.block_index = d.block_index /\ o.tool_use_seen = d.tool_use_seen
  /\ o.function_call = d.function_call /\ o.item_open = d.item_open
  /\ o.item_type = d.item_type

OutputNow(e) ==
  Output(e, dec.next_block_index, StartsBlock(dec, e), dec.block_open, dec.block_index,
         CallUnit(dec.next_block_index, dec.function_call[1], e.item[1]), dec.tool_use_seen)

Speaks(e) == dec'.events = dec.events \o OutputNow(e) /\ MovesBlocks(dec, e, dec')

LEMMA SameBlocksMove ==
  ASSUME NEW d, NEW e, NEW o, MovesBlocks(d, e, o), NEW p, SameBlocks(p, o)
  PROVE  MovesBlocks(d, e, p)
BY DEF MovesBlocks, SameBlocks

(* An accepted event, by the struct before the events are handed over. *)
LEMMA YieldsSpeaks ==
  ASSUME TypeOK, TypeOK', NEW e, NEW d, DOMAIN d = DOMAIN dec, NEW losses, NEW u,
         Yields(e, Lose(d, losses), u) \/ Yields(e, d, u),
         d.events = dec.events, MovesBlocks(dec, e, d), u = OutputNow(e)
  PROVE  Speaks(e)
<1>1. PICK l : l = d.losses \o losses  OBVIOUS
<1>2. PICK o : o = [d EXCEPT !.losses = l]  OBVIOUS
<1>3. o = Lose(d, losses)  BY <1>1, <1>2 DEF Lose
<1>4. SameBlocks(o, d) /\ SameBlocks(d, d) /\ o.events = d.events /\ DOMAIN o = DOMAIN dec
  BY <1>2 DEF TypeOK, Decoders, SameBlocks
<1>5. PICK q \in {o, d} : Yields(e, q, u)  BY <1>3
<1>6. SameBlocks(q, d) /\ q.events = dec.events /\ DOMAIN q = DOMAIN dec
  BY <1>4, <1>5
<1>7. PICK out : out = q.events \o u  OBVIOUS
<1>8. dec' = [q EXCEPT !.events = out]  BY <1>5, <1>7 DEF Yields
<1>9. SameBlocks(dec', q) /\ dec'.events = out
  BY <1>6, <1>8 DEF TypeOK, Decoders, SameBlocks
<1>10. SameBlocks(dec', d)  BY <1>6, <1>9 DEF SameBlocks
<1>11. MovesBlocks(dec, e, dec')  BY <1>10, SameBlocksMove
<1>. QED BY <1>6, <1>7, <1>9, <1>11 DEF Speaks

(* Output at an event, by its kind. *)
LEMMA NowForms ==
  ASSUME NEW e
  PROVE  /\ e.kind = "created" => OutputNow(e) = <<MessageStart>>
         /\ StartsBlock(dec, e) =>
              OutputNow(e) = <<BlockStart(dec.next_block_index, PartBlock(e))>>
         /\ e.kind \in PartAdded /\ ~StartsBlock(dec, e) => OutputNow(e) = <<>>
         /\ e.kind \in TextDelta =>
              OutputNow(e) =
                IF dec.block_open THEN <<BlockDelta(dec.block_index, DeltaOf(e))>> ELSE <<>>
         /\ e.kind \in PartDone =>
              OutputNow(e) = IF dec.block_open THEN <<BlockStop(dec.block_index)>> ELSE <<>>
         /\ DoneKept(e) =>
              OutputNow(e) =
                IF e.item[1].kind \in CallItems
                THEN CallUnit(dec.next_block_index, dec.function_call[1], e.item[1])
                ELSE Unit(dec.next_block_index, DoneBlock(e)[1], <<>>)
         /\ e.kind = "output_item.done" /\ ~DoneKept(e) => OutputNow(e) = <<>>
         /\ e.kind \in Terminals => OutputNow(e) = PairOf(e, dec.tool_use_seen)
         /\ e.kind \in {"output_item.added"} \union TextDone \union InputEvents =>
              OutputNow(e) = <<>>
         /\ e.kind \notin KnownEvents => OutputNow(e) = <<>>
<1>1. PICK i, kept, open, p, call, called :
        /\ i = dec.next_block_index /\ kept = StartsBlock(dec, e) /\ open = dec.block_open
        /\ p = dec.block_index /\ call = CallUnit(i, dec.function_call[1], e.item[1])
        /\ called = dec.tool_use_seen
  OBVIOUS
<1>2. PICK g : g = Output(e, i, kept, open, p, call, called)  OBVIOUS
<1>3. g = OutputNow(e)  BY <1>1, <1>2, Zenon DEF OutputNow
<1>4. kept => e.kind \in PartAdded  BY <1>1 DEF StartsBlock
<1>5. OutputBy(g, e, i, kept, open, p, call, called)
  BY <1>2, <1>4, OutputForms, Zenon
<1>6. /\ e.kind = "created" => g = <<MessageStart>>
      /\ e.kind \in PartAdded /\ kept => g = <<BlockStart(i, PartBlock(e))>>
      /\ e.kind \in PartAdded /\ ~kept => g = <<>>
      /\ e.kind \in TextDelta => g = IF open THEN <<BlockDelta(p, DeltaOf(e))>> ELSE <<>>
      /\ e.kind \in PartDone => g = IF open THEN <<BlockStop(p)>> ELSE <<>>
      /\ DoneKept(e) =>
           g = IF e.item[1].kind \in CallItems THEN call ELSE Unit(i, DoneBlock(e)[1], <<>>)
      /\ e.kind = "output_item.done" /\ ~DoneKept(e) => g = <<>>
      /\ e.kind \in Terminals => g = PairOf(e, called)
      /\ e.kind \in {"output_item.added"} \union TextDone \union InputEvents => g = <<>>
      /\ e.kind \notin KnownEvents => g = <<>>
  BY <1>5, Zenon DEF OutputBy
<1>. QED BY <1>1, <1>3, <1>4, <1>6, Zenon

(* An event that has no part in the blocks. *)
LEMMA StillBlocks ==
  ASSUME NEW d, d.next_block_index \in Nat, NEW e, NEW o, SameBlocks(o, d),
         ~StartsBlock(d, e), e.kind \notin {"output_item.added", "output_item.done"},
         e.kind \in PartAdded \union PartDone => ~d.block_open,
         e.kind \in Terminals => e.response # None,
         e.kind \in InputEvents => d.function_call = None
  PROVE  MovesBlocks(d, e, o)
<1>1. ~DoneKept(e) /\ ~Calling(e)  BY DEF DoneKept, Calling
<1>2. CallAfter(d, e) = d.function_call  BY DEF CallAfter
<1>. QED BY <1>1, <1>2 DEF MovesBlocks, SameBlocks

(* A call item has its call: without one it is not a call item. *)
HeldCall(d) == d.item_open /\ d.item_type \in CallItems => d.function_call # None

LEMMA CreatedSpeaks ==
  ASSUME TypeOK, TypeOK', NEW e, FeedCreated(e)
  PROVE  Fails \/ Speaks(e)
<1>1. PICK d, u : d = [dec EXCEPT !.started = TRUE] /\ u = <<MessageStart>>
  OBVIOUS
<1>2. e.kind = "created" /\ (Rejects(dec) \/ Yields(e, d, u))
  BY <1>1 DEF FeedCreated, Receives
<1>3. SameBlocks(d, dec) /\ d.events = dec.events /\ DOMAIN d = DOMAIN dec
      /\ dec.next_block_index \in Nat
  BY <1>1 DEF TypeOK, Decoders, SameBlocks
<1>4. MovesBlocks(dec, e, d)
  <2>1. /\ ~StartsBlock(dec, e) /\ e.kind \notin Terminals
        /\ e.kind \notin PartAdded \union PartDone \union InputEvents
    BY <1>2 DEF StartsBlock, Terminals, PartAdded, PartDone, InputEvents
  <2>. QED BY <1>2, <1>3, <2>1, StillBlocks
<1>5. u = OutputNow(e)  BY <1>1, <1>2, NowForms, Zenon
<1>. QED BY <1>2, <1>3, <1>4, <1>5, RejectsFails, YieldsSpeaks

(* An item opens.  The call of a call item is buffered. *)
LEMMA ItemAddedSpeaks ==
  ASSUME TypeOK, TypeOK', NEW e \in Events, FeedItemAdded(e)
  PROVE  Fails \/ Speaks(e)
<1>1. dec \in Decoders /\ dec.next_block_index \in Nat  BY DEF TypeOK, Decoders
<1>2. PICK o, item, kind, none :
        /\ o = OpenItem(dec, e) /\ item = e.item[1] /\ kind = item.kind /\ none = None
  OBVIOUS
<1>3. /\ o.next_block_index = dec.next_block_index /\ o.block_open = dec.block_open
      /\ o.block_index = dec.block_index /\ o.tool_use_seen = dec.tool_use_seen
      /\ o.function_call = none /\ o.item_type = kind
      /\ o.events = dec.events /\ DOMAIN o = DOMAIN dec
  <2>1. PICK n, id, empty, zero :
          /\ n = dec.next_output_index + 1 /\ id = item.id /\ empty = "" /\ zero = 0
    OBVIOUS
  <2>2. o = [dec EXCEPT !.next_output_index = n, !.item_open = TRUE,
                        !.item_type = kind, !.item_id = id,
                        !.output_index = e.output_index, !.skipped_call_id = empty,
                        !.next_content_index = zero, !.function_call = none]
    BY <1>2, <2>1 DEF OpenItem
  <2>. QED BY <1>1, <2>2 DEF Decoders
<1>4. ASSUME NEW d, e.kind = "output_item.added", e.item # None,
             d.next_block_index = o.next_block_index, d.block_open = o.block_open,
             d.block_index = o.block_index, d.tool_use_seen = o.tool_use_seen,
             d.item_type = o.item_type,
             d.function_call = CallAfter(dec, e)
      PROVE  MovesBlocks(dec, e, d)
  <2>1. ~StartsBlock(dec, e) /\ ~DoneKept(e) /\ ~Calling(e)
        /\ e.kind \notin PartDone /\ e.kind \notin PartAdded /\ e.kind \notin Terminals
    BY <1>4 DEF StartsBlock, DoneKept, Calling, PartAdded, PartDone, Terminals
  <2>. QED BY <1>1, <1>2, <1>3, <1>4, <2>1 DEF MovesBlocks
<1>5. CASE FeedAddRejected(e) \/ FeedAddInvalid(e)
  BY <1>5, RejectsFails DEF FeedAddRejected, FeedAddInvalid
<1>6. Adding(e) => /\ e.kind = "output_item.added" /\ e.item # None
                   /\ OutputNow(e) = <<>>
                   /\ CallAfter(dec, e) = IF kind \in CallItems THEN Some(Call(item)) ELSE none
  <2>1. ASSUME Adding(e)
        PROVE  e.kind = "output_item.added" /\ e.item # None
    BY <2>1 DEF Adding, Receives, AddRejected
  <2>2. e.kind = "output_item.added" => OutputNow(e) = <<>>
    <3>1. e.kind = "output_item.added" =>
            e.kind \in {"output_item.added"} \union TextDone \union InputEvents
      OBVIOUS
    <3>. QED BY <3>1, NowForms, Zenon
  <2>3. e.kind = "output_item.added" =>
          CallAfter(dec, e) = IF kind \in CallItems THEN Some(Call(item)) ELSE none
    BY <1>2 DEF CallAfter
  <2>. QED BY <2>1, <2>2, <2>3
<1>7. CASE FeedAddSkipped(e)
  <2>1. PICK p, q, losses, u :
          /\ p = [o EXCEPT !.skipped_item = TRUE]
          /\ q = [p EXCEPT !.skipped_call_id = item.call_id]
          /\ losses = <<<<"item", e.output_index>>>> /\ u = <<>>
    OBVIOUS
  <2>2. PICK k \in {p, q} : Yields(e, Lose(k, losses), u)
    BY <1>2, <1>7, <2>1, Zenon DEF FeedAddSkipped
  <2>3. /\ SameBlocks(p, o) /\ p.events = o.events /\ DOMAIN p = DOMAIN dec
    BY <1>1, <1>3, <2>1 DEF Decoders, SameBlocks
  <2>4. SameBlocks(q, o) /\ q.events = o.events /\ DOMAIN q = DOMAIN dec
    <3>1. SameBlocks(q, p) /\ q.events = p.events /\ DOMAIN q = DOMAIN dec
      BY <1>1, <2>1, <2>3 DEF Decoders, SameBlocks
    <3>. QED BY <2>3, <3>1 DEF SameBlocks
  <2>5. Adding(e) /\ kind \notin CallItems
    <3>1. Adding(e) /\ ~IsKnown(item)  BY <1>2, <1>7 DEF FeedAddSkipped
    <3>. QED BY <1>2, <3>1 DEF IsKnown, KnownItems, CallItems
  <2>6. SameBlocks(k, o) /\ k.events = dec.events /\ DOMAIN k = DOMAIN dec
    BY <1>3, <2>3, <2>4
  <2>7. MovesBlocks(dec, e, k)  BY <1>3, <1>4, <1>6, <2>5, <2>6 DEF SameBlocks
  <2>8. u = OutputNow(e)  BY <1>6, <2>1, <2>5
  <2>. QED BY <2>2, <2>6, <2>7, <2>8, YieldsSpeaks
<1>8. CASE FeedAddKnown(e)
  <2>1. PICK call, patch, losses, u :
          /\ call = (IF kind \in CallItems THEN Some(Call(item)) ELSE o.function_call)
          /\ patch = (IF kind \in PatchItems THEN Some(item.call_id) ELSE o.apply_patch)
          /\ losses = (IF kind = "reasoning" /\ item.cipher # <<>>
                       THEN <<<<"cipher", e.output_index>>>> ELSE <<>>)
          /\ u = <<>>
    OBVIOUS
  <2>2. PICK d : d = [o EXCEPT !.function_call = call, !.apply_patch = patch]
    OBVIOUS
  <2>3. Yields(e, Lose(d, losses), u) /\ Adding(e)
    BY <1>2, <1>8, <2>1, <2>2, Zenon DEF FeedAddKnown
  <2>4. /\ d.next_block_index = o.next_block_index /\ d.block_open = o.block_open
        /\ d.block_index = o.block_index /\ d.tool_use_seen = o.tool_use_seen
        /\ d.item_type = o.item_type /\ d.function_call = call
        /\ d.events = dec.events /\ DOMAIN d = DOMAIN dec
    BY <1>1, <1>3, <2>2 DEF Decoders
  <2>5. call = CallAfter(dec, e)  BY <1>3, <1>6, <2>1, <2>3
  <2>6. MovesBlocks(dec, e, d)  BY <1>4, <1>6, <2>3, <2>4, <2>5
  <2>7. u = OutputNow(e)  BY <1>6, <2>1, <2>3
  <2>. QED BY <2>3, <2>4, <2>6, <2>7, YieldsSpeaks
<1>. QED BY <1>5, <1>7, <1>8 DEF FeedItemAdded

(* Parts and their texts: a part that is kept starts a block, one that is
   skipped says nothing. *)
LEMMA PartSpeaks ==
  ASSUME TypeOK, TypeOK', NEW e \in Events, FeedPart(e)
  PROVE  Fails \/ Speaks(e)
<1>1. dec \in Decoders /\ Books(dec) /\ dec.next_block_index \in Nat
  BY TypeOKIsSound DEF Sound, Decoders
<1>2. PICK n, none : n = NextPart(dec, e) /\ none = <<>>  OBVIOUS
<1>3. SameBlocks(n, dec) /\ n.events = dec.events /\ DOMAIN n = DOMAIN dec
      /\ SameBlocks(dec, dec)
  BY <1>1, <1>2 DEF NextPart, Decoders, SameBlocks
<1>4. InSkipped(dec) => ~dec.block_open  BY <1>1 DEF Books, InSkipped
<1>5. StartingPart(e) => e.kind \in PartAdded /\ ~dec.block_open
  BY DEF StartingPart, PartStartRejected, PartOpen, Receives
<1>6. /\ e.kind \in PartAdded => e.kind \notin TextDelta \union TextDone \union PartDone \union InputEvents
      /\ e.kind \in PartDone => e.kind \notin TextDelta \union TextDone \union PartAdded \union InputEvents
      /\ e.kind \in TextDelta \union TextDone => e.kind \notin PartAdded \union PartDone \union InputEvents
      /\ e.kind \in PartAdded \union PartDone \union TextDelta \union TextDone =>
           e.kind \notin {"output_item.added", "output_item.done"} /\ e.kind \notin Terminals
  BY DEF PartAdded, PartDone, TextDelta, TextDone, InputEvents, Terminals
<1>7. CASE FeedPartRejected(e) \/ FeedPartMissing(e) \/ FeedTextRejected(e)
  BY <1>7, RejectsFails DEF FeedPartRejected, FeedPartMissing, FeedTextRejected
<1>8. CASE FeedSkippedPart(e)
  <2>1. PICK d, losses :
          /\ d = [n EXCEPT !.skipped_part = TRUE]
          /\ losses = (IF dec.skipped_item THEN <<>>
                       ELSE <<<<"part", e.output_index, e.content_index>>>>)
    OBVIOUS
  <2>2. Yields(e, Lose(d, losses), none) /\ StartingPart(e) /\ ~StartsBlock(dec, e)
    BY <1>2, <1>8, <2>1 DEF FeedSkippedPart, StartsBlock
  <2>3. SameBlocks(d, dec) /\ d.events = dec.events /\ DOMAIN d = DOMAIN dec
    <3>1. SameBlocks(d, n) /\ d.events = n.events /\ DOMAIN d = DOMAIN dec
      BY <1>1, <1>3, <2>1 DEF Decoders, SameBlocks
    <3>. QED BY <1>3, <3>1 DEF SameBlocks
  <2>4. MovesBlocks(dec, e, d)  BY <1>1, <1>5, <1>6, <2>2, <2>3, StillBlocks
  <2>5. none = OutputNow(e)  BY <1>2, <1>5, <2>2, NowForms, Zenon
  <2>. QED BY <2>2, <2>3, <2>4, <2>5, YieldsSpeaks
<1>9. CASE FeedPartStart(e)
  <2>1. PICK i, m, b : i = dec.next_block_index /\ m = i + 1 /\ b = PartBlock(e)
    OBVIOUS
  <2>2. PICK d, u : /\ d = [n EXCEPT !.block_open = TRUE, !.text_done = FALSE,
                                     !.block_index = i, !.next_block_index = m]
                    /\ u = <<BlockStart(i, b)>>
    OBVIOUS
  <2>3. StartingPart(e) /\ StartsBlock(dec, e) /\ Yields(e, d, u) /\ e.part # None
    <3>1. n.next_block_index + 1 = m  BY <1>3, <2>1 DEF SameBlocks
    <3>2. Yields(e, [n EXCEPT !.block_open = TRUE, !.text_done = FALSE, !.block_index = i,
                              !.next_block_index = @ + 1], u)
      BY <1>2, <1>9, <2>1, <2>2 DEF FeedPartStart
    <3>3. /\ StartingPart(e) /\ ~dec.skipped_item /\ e.part[1].kind = "output_text"
          /\ e.part # None
      BY <1>9 DEF FeedPartStart, PartMissing
    <3>. QED BY <1>5, <2>2, <3>1, <3>2, <3>3 DEF StartsBlock
  <2>4. /\ d.next_block_index = m /\ d.block_open /\ d.block_index = i
        /\ d.tool_use_seen = n.tool_use_seen /\ d.function_call = n.function_call
        /\ d.item_open = n.item_open /\ d.item_type = n.item_type
        /\ d.events = n.events /\ DOMAIN d = DOMAIN dec
    BY <1>1, <1>3, <2>2 DEF Decoders
  <2>5. MovesBlocks(dec, e, d)
    <3>1. ~DoneKept(e) /\ ~Calling(e) /\ CallAfter(dec, e) = dec.function_call
      BY <1>5, <1>6, <2>3 DEF DoneKept, Calling, CallAfter
    <3>. QED BY <1>1, <1>3, <1>5, <1>6, <2>1, <2>3, <2>4, <3>1 DEF MovesBlocks, SameBlocks
  <2>6. u = OutputNow(e)  BY <2>1, <2>2, <2>3, NowForms, Zenon
  <2>7. d.events = dec.events  BY <1>3, <2>4
  <2>. QED BY <2>3, <2>4, <2>5, <2>6, <2>7, YieldsSpeaks
<1>10. ASSUME e.kind \in TextDelta \union TextDone, NEW d, SameBlocks(d, dec)
       PROVE  MovesBlocks(dec, e, d)
  <2>1. ~StartsBlock(dec, e)  BY <1>6, <1>10 DEF StartsBlock
  <2>. QED BY <1>1, <1>6, <1>10, <2>1, StillBlocks
<1>11. CASE FeedSkippedText(e)
  <2>1. e.kind \in TextDelta \union TextDone /\ ~dec.block_open /\ Yields(e, dec, none)
    BY <1>2, <1>4, <1>11 DEF FeedSkippedText, Receives
  <2>2. none = OutputNow(e)
    <3>1. CASE e.kind \in TextDelta  BY <1>2, <2>1, <3>1, NowForms, Zenon
    <3>2. CASE e.kind \in TextDone
      <4>1. e.kind \in {"output_item.added"} \union TextDone \union InputEvents
        BY <3>2
      <4>. QED BY <1>2, <4>1, NowForms, Zenon
    <3>. QED BY <2>1, <3>1, <3>2
  <2>3. MovesBlocks(dec, e, dec)  BY <1>3, <1>10, <2>1
  <2>. QED BY <2>1, <2>2, <2>3, YieldsSpeaks
<1>12. CASE FeedTextDelta(e)
  <2>1. PICK u : u = <<BlockDelta(dec.block_index, DeltaOf(e))>>  OBVIOUS
  <2>2. e.kind \in TextDelta /\ dec.block_open /\ Yields(e, dec, u)
    BY <1>12, <2>1 DEF FeedTextDelta, Receives, TextRejected
  <2>3. u = OutputNow(e)  BY <2>1, <2>2, NowForms, Zenon
  <2>4. MovesBlocks(dec, e, dec)  BY <1>3, <1>10, <2>2
  <2>. QED BY <2>2, <2>3, <2>4, YieldsSpeaks
<1>13. CASE FeedTextDone(e)
  <2>1. PICK d : d = [dec EXCEPT !.text_done = TRUE]  OBVIOUS
  <2>2. e.kind \in TextDone /\ Yields(e, d, none)
    BY <1>2, <1>13, <2>1 DEF FeedTextDone, Receives
  <2>3. SameBlocks(d, dec) /\ d.events = dec.events /\ DOMAIN d = DOMAIN dec
    BY <1>1, <2>1 DEF Decoders, SameBlocks
  <2>4. none = OutputNow(e)
    <3>1. e.kind \in {"output_item.added"} \union TextDone \union InputEvents
      BY <2>2
    <3>. QED BY <1>2, <3>1, NowForms, Zenon
  <2>5. MovesBlocks(dec, e, d)  BY <1>10, <2>2, <2>3
  <2>. QED BY <2>2, <2>3, <2>4, <2>5, YieldsSpeaks
<1>14. CASE FeedPartDone(e)
  <2>1. PICK p, b, u : /\ p = [dec EXCEPT !.skipped_part = FALSE]
                       /\ b = [dec EXCEPT !.block_open = FALSE]
                       /\ u = <<BlockStop(dec.block_index)>>
    OBVIOUS
  <2>2. e.kind \in PartDone  BY <1>14 DEF FeedPartDone, Receives
  <2>3. \/ Rejects(dec)
        \/ InSkipped(dec) /\ Yields(e, p, none)
        \/ dec.block_open /\ Yields(e, b, u)
    BY <1>2, <1>14, <2>1 DEF FeedPartDone, PartDoneRejected
  <2>4. ~StartsBlock(dec, e)  BY <1>6, <2>2 DEF StartsBlock
  <2>5. CASE InSkipped(dec) /\ Yields(e, p, none)
    <3>1. SameBlocks(p, dec) /\ p.events = dec.events /\ DOMAIN p = DOMAIN dec
      BY <1>1, <2>1 DEF Decoders, SameBlocks
    <3>2. MovesBlocks(dec, e, p)
      BY <1>1, <1>4, <1>6, <2>2, <2>4, <2>5, <3>1, StillBlocks
    <3>3. none = OutputNow(e)  BY <1>2, <1>4, <2>2, <2>5, NowForms, Zenon
    <3>. QED BY <2>5, <3>1, <3>2, <3>3, YieldsSpeaks
  <2>6. CASE dec.block_open /\ Yields(e, b, u)
    <3>1. /\ b.next_block_index = dec.next_block_index /\ ~b.block_open
          /\ b.block_index = dec.block_index /\ b.tool_use_seen = dec.tool_use_seen
          /\ b.function_call = dec.function_call /\ b.item_open = dec.item_open
          /\ b.item_type = dec.item_type /\ b.events = dec.events /\ DOMAIN b = DOMAIN dec
      BY <1>1, <2>1 DEF Decoders
    <3>2. MovesBlocks(dec, e, b)
      <4>1. ~DoneKept(e) /\ ~Calling(e) /\ CallAfter(dec, e) = dec.function_call
        BY <1>6, <2>2 DEF DoneKept, Calling, CallAfter
      <4>. QED BY <1>1, <1>6, <2>2, <2>4, <3>1, <4>1 DEF MovesBlocks
    <3>3. u = OutputNow(e)  BY <2>1, <2>2, <2>6, NowForms, Zenon
    <3>. QED BY <2>6, <3>1, <3>2, <3>3, YieldsSpeaks
  <2>. QED BY <2>3, <2>5, <2>6, RejectsFails
<1>. QED BY <1>7, <1>8, <1>9, <1>11, <1>12, <1>13, <1>14 DEF FeedPart

(* The input of a call goes into the call. *)
LEMMA InputSpeaks ==
  ASSUME TypeOK, TypeOK', NEW e \in Events, FeedInput(e)
  PROVE  Fails \/ Speaks(e)
<1>1. dec \in Decoders /\ Books(dec) /\ dec.next_block_index \in Nat
  BY TypeOKIsSound DEF Sound, Decoders
<1>2. PICK call, none : call = Some(TakeInput(dec.function_call[1], e)) /\ none = <<>>
  OBVIOUS
<1>3. PICK d : d = [dec EXCEPT !.function_call = call]  OBVIOUS
<1>4. /\ e.kind \in InputEvents
      /\ \/ Rejects(dec)
         \/ dec.skipped_item /\ Yields(e, dec, none)
         \/ dec.function_call # None /\ Yields(e, d, none)
  BY <1>2, <1>3 DEF FeedInput, Receives, InputAccepted, InputSkipped
<1>5. e.kind \notin PartAdded \union PartDone \union Terminals
                     \union {"output_item.added", "output_item.done"}
  BY <1>4 DEF InputEvents, PartAdded, PartDone, Terminals
<1>6. ~StartsBlock(dec, e)  BY <1>5 DEF StartsBlock
<1>7. none = OutputNow(e)
  <2>1. e.kind \in {"output_item.added"} \union TextDone \union InputEvents
    BY <1>4
  <2>. QED BY <1>2, <2>1, NowForms, Zenon
<1>8. CASE dec.skipped_item /\ Yields(e, dec, none)
  <2>1. dec.function_call = None /\ SameBlocks(dec, dec)
    BY <1>1, <1>8 DEF Books, SameBlocks
  <2>2. MovesBlocks(dec, e, dec)  BY <1>1, <1>5, <1>6, <2>1, StillBlocks
  <2>. QED BY <1>7, <1>8, <2>2, YieldsSpeaks
<1>9. CASE dec.function_call # None /\ Yields(e, d, none)
  <2>1. /\ d.next_block_index = dec.next_block_index /\ d.block_open = dec.block_open
        /\ d.block_index = dec.block_index /\ d.tool_use_seen = dec.tool_use_seen
        /\ d.function_call = call /\ d.item_open = dec.item_open
        /\ d.item_type = dec.item_type /\ d.events = dec.events /\ DOMAIN d = DOMAIN dec
    BY <1>1, <1>3 DEF Decoders
  <2>2. MovesBlocks(dec, e, d)
    <3>1. ~DoneKept(e) /\ ~Calling(e) /\ CallAfter(dec, e) = call
      BY <1>2, <1>4, <1>5, <1>9 DEF DoneKept, Calling, CallAfter
    <3>. QED BY <1>1, <1>5, <1>6, <2>1, <3>1 DEF MovesBlocks
  <2>. QED BY <1>7, <1>9, <2>1, <2>2, YieldsSpeaks
<1>. QED BY <1>4, <1>8, <1>9, RejectsFails

(* An item is done: the struct before the item is closed. *)
LEMMA ClosedSpeaks ==
  ASSUME TypeOK, TypeOK', NEW e, NEW d, DOMAIN d = DOMAIN dec, NEW u,
         Yields(e, CloseItem(d), u),
         e.kind = "output_item.done", e.item[1].kind = dec.item_type, e.item[1] \in NativeItems,
         e.item[1].kind \in CallItems => dec.function_call # None /\ e.item[1].input # None,
         d.events = dec.events, d.block_open = dec.block_open, d.block_index = dec.block_index,
         d.next_block_index = dec.next_block_index + (IF DoneKept(e) THEN 1 ELSE 0),
         d.tool_use_seen <=> dec.tool_use_seen \/ Calling(e),
         u = OutputNow(e)
  PROVE  Speaks(e)
<1>1. PICK empty, none : empty = "" /\ none = None  OBVIOUS
<1>2. PICK o : o = [d EXCEPT !.item_open = FALSE, !.item_type = empty, !.item_id = empty,
                             !.skipped_call_id = empty, !.skipped_item = FALSE,
                             !.function_call = none]
  OBVIOUS
<1>3. o = CloseItem(d)  BY <1>1, <1>2, Zenon DEF CloseItem
<1>4. /\ o.next_block_index = d.next_block_index /\ o.block_open = d.block_open
      /\ o.block_index = d.block_index /\ o.tool_use_seen = d.tool_use_seen
      /\ o.function_call = none /\ ~o.item_open /\ o.events = d.events /\ DOMAIN o = DOMAIN dec
  BY <1>2 DEF TypeOK, Decoders
<1>5. MovesBlocks(dec, e, o)
  <2>1. /\ e.kind \notin PartAdded \union PartDone \union Terminals /\ ~StartsBlock(dec, e)
        /\ CallAfter(dec, e) = none
    BY <1>1 DEF PartAdded, PartDone, Terminals, StartsBlock, CallAfter
  <2>. QED BY <1>4, <2>1 DEF MovesBlocks
<1>6. Yields(e, o, u)  BY <1>3
<1>. QED BY <1>4, <1>5, <1>6, YieldsSpeaks

LEMMA OtherDoneSpeaks ==
  ASSUME TypeOK, TypeOK', Holds(dec), HeldCall(dec), NEW e \in Events, FeedOtherDone(e)
  PROVE  Speaks(e)
<1>1. dec \in Decoders /\ dec.next_block_index \in Nat  BY DEF TypeOK, Decoders
<1>2. PICK item, i, block : item = e.item[1] /\ i = dec.next_block_index /\ block = ItemBlock(item)
  OBVIOUS
<1>3. item \in NativeItems /\ e.kind = "output_item.done"
  BY <1>2, FinishedItem DEF FeedOtherDone
<1>4. PICK c, u, n, losses, o :
        /\ c = CountedBlock(dec, e)
        /\ u = (IF block = None THEN <<>> ELSE Unit(i, block[1], <<>>))
        /\ n = i + Len(block)
        /\ losses = (IF item.kind = "web_search_call" /\ item.payload = "lossy"
                     THEN <<<<"action", e.output_index>>>> ELSE <<>>)
        /\ o = [dec EXCEPT !.next_block_index = n]
  OBVIOUS
<1>5. /\ Yields(e, CloseItem(c), u) /\ dec.item_open /\ item.kind = dec.item_type
      /\ dec.apply_patch = None /\ dec.function_call = None
  BY <1>2, <1>4 DEF FeedOtherDone, Finishing, Receives, DoneRejected, DoneMatches
<1>6. c = Lose(o, losses)  BY <1>2, <1>4 DEF CountedBlock
<1>7. /\ o.next_block_index = n /\ o.block_open = dec.block_open
      /\ o.block_index = dec.block_index /\ o.tool_use_seen = dec.tool_use_seen
      /\ o.events = dec.events /\ DOMAIN o = DOMAIN dec
  BY <1>1, <1>4 DEF Decoders
<1>8. /\ c.next_block_index = n /\ c.block_open = dec.block_open
      /\ c.block_index = dec.block_index /\ c.tool_use_seen = dec.tool_use_seen
      /\ c.events = dec.events /\ DOMAIN c = DOMAIN dec
  <2>1. PICK k : k = o.losses \o losses  OBVIOUS
  <2>2. c = [o EXCEPT !.losses = k]  BY <1>6, <2>1 DEF Lose
  <2>. QED BY <1>1, <1>7, <2>2 DEF Decoders
<1>9. item.kind \notin PatchItems /\ item.kind \notin CallItems
  BY <1>5 DEF Holds, HeldCall
<1>10. /\ DoneBlock(e) = block
       /\ DoneKept(e) <=> block # None
       /\ ~Calling(e)
  <2>1. DoneBlock(e) = block  BY <1>2, <1>9 DEF DoneBlock
  <2>2. "apply_patch_call" \in PatchItems  BY DEF PatchItems
  <2>. QED BY <1>2, <1>3, <1>9, <2>1, <2>2 DEF DoneKept, Calling
<1>11. n = dec.next_block_index + (IF DoneKept(e) THEN 1 ELSE 0)
  <2>1. Len(block) = IF block = None THEN 0 ELSE 1
    BY <1>2, <1>3, ItemBlockTypes
  <2>. QED BY <1>2, <1>4, <1>10, <2>1
<1>12. u = OutputNow(e)
  <2>1. CASE block = None
    <3>1. u = <<>>  BY <1>4, <2>1
    <3>2. OutputNow(e) = <<>>  BY <1>3, <1>10, <2>1, NowForms, Zenon
    <3>. QED BY <3>1, <3>2
  <2>2. CASE block # None
    <3>1. u = Unit(i, block[1], <<>>)  BY <1>4, <2>2
    <3>2. OutputNow(e) = IF e.item[1].kind \in CallItems
                         THEN CallUnit(dec.next_block_index, dec.function_call[1], e.item[1])
                         ELSE Unit(dec.next_block_index, DoneBlock(e)[1], <<>>)
      BY <1>10, <2>2, NowForms, Zenon
    <3>3. OutputNow(e) = Unit(dec.next_block_index, DoneBlock(e)[1], <<>>)
      BY <1>2, <1>9, <3>2, Zenon
    <3>. QED BY <1>2, <1>10, <3>1, <3>3, Zenon
  <2>. QED BY <2>1, <2>2
<1>. QED BY <1>2, <1>3, <1>5, <1>8, <1>9, <1>10, <1>11, <1>12, ClosedSpeaks

LEMMA CallDoneSpeaks ==
  ASSUME TypeOK, TypeOK', NEW e \in Events, FeedCallDone(e)
  PROVE  Speaks(e)
<1>1. dec \in Decoders /\ dec.next_block_index \in Nat /\ Books(dec)
  BY TypeOKIsSound DEF Sound, Decoders
<1>2. PICK item, call, i, n, none :
        /\ item = e.item[1] /\ call = dec.function_call[1]
        /\ i = dec.next_block_index /\ n = i + 1 /\ none = None
  OBVIOUS
<1>3. PICK t : t = [dec EXCEPT !.function_call = none, !.next_block_index = n]
  OBVIOUS
<1>4. t = CallTaken  BY <1>2, <1>3 DEF CallTaken
<1>5. PICK saved, calls, u :
        /\ saved = [call_id |-> call.call_id, name |-> call.name, input |-> item.input]
        /\ calls = (IF call.custom THEN Append(t.completed_custom_calls, saved)
                    ELSE t.completed_custom_calls)
        /\ u = CallUnit(i, call, item)
  OBVIOUS
<1>6. PICK taken : taken = [t EXCEPT !.tool_use_seen = TRUE, !.completed_custom_calls = calls]
  OBVIOUS
<1>7. /\ Yields(e, CloseItem(taken), u) /\ Finishing(e)
      /\ dec.function_call # None /\ CallAgrees(call, item)
  BY <1>2, <1>4, <1>5, <1>6 DEF FeedCallDone
<1>8. /\ e.kind = "output_item.done" /\ item.kind = dec.item_type /\ item.kind \in CallItems
      /\ item \in NativeItems /\ item.input # None
  <2>1. item \in NativeItems  BY <1>2, <1>7, FinishedItem
  <2>2. item.input # None  BY <1>2, <1>7 DEF CallAgrees
  <2>. QED BY <1>1, <1>2, <1>7, <2>1, <2>2 DEF Finishing, Receives, DoneRejected, DoneMatches, Books
<1>9. /\ t.next_block_index = n /\ t.block_open = dec.block_open
      /\ t.block_index = dec.block_index /\ t.events = dec.events /\ DOMAIN t = DOMAIN dec
  BY <1>1, <1>3 DEF Decoders
<1>10. /\ taken.next_block_index = n /\ taken.block_open = dec.block_open
       /\ taken.block_index = dec.block_index /\ taken.events = dec.events
       /\ taken.tool_use_seen /\ DOMAIN taken = DOMAIN dec
  BY <1>1, <1>6, <1>9 DEF Decoders
<1>11. DoneKept(e) /\ Calling(e)  BY <1>2, <1>8 DEF DoneKept, Calling
<1>12. u = OutputNow(e)
  <2>1. OutputNow(e) = IF e.item[1].kind \in CallItems
                       THEN CallUnit(dec.next_block_index, dec.function_call[1], e.item[1])
                       ELSE Unit(dec.next_block_index, DoneBlock(e)[1], <<>>)
    BY <1>11, NowForms, Zenon
  <2>. QED BY <1>2, <1>5, <1>8, <2>1, Zenon
<1>13. n = dec.next_block_index + (IF DoneKept(e) THEN 1 ELSE 0)  BY <1>2, <1>11
<1>. QED BY <1>2, <1>7, <1>8, <1>10, <1>11, <1>12, <1>13, ClosedSpeaks

LEMMA PatchDoneSpeaks ==
  ASSUME TypeOK, TypeOK', NEW e \in Events, FeedPatchDone(e)
  PROVE  Speaks(e)
<1>1. dec \in Decoders /\ dec.next_block_index \in Nat /\ dec.tool_use_seen \in BOOLEAN
      /\ Books(dec)
  BY TypeOKIsSound DEF Sound, Decoders
<1>2. PICK item : item = e.item[1]  OBVIOUS
<1>3. PICK p, l, losses, items, m, used, u :
        /\ p = PatchTaken /\ losses = PatchLosses(e)
        /\ l = Lose(p, losses)
        /\ items = Append(l.completed_items, item)
        /\ m = (IF PatchLosses(e) = <<>> THEN l.next_block_index + 1 ELSE l.next_block_index)
        /\ used = (l.tool_use_seen \/ (PatchLosses(e) = <<>> /\ item.kind = "apply_patch_call"))
        /\ u = (IF PatchLosses(e) = <<>>
                THEN Unit(dec.next_block_index, PatchBlock(item), <<>>) ELSE <<>>)
  OBVIOUS
<1>4. PICK taken : taken = [l EXCEPT !.completed_items = items, !.next_block_index = m,
                                     !.tool_use_seen = used]
  OBVIOUS
<1>5. Yields(e, CloseItem(taken), u) /\ Finishing(e) /\ dec.apply_patch # None
  BY <1>2, <1>3, <1>4 DEF FeedPatchDone
<1>6. /\ e.kind = "output_item.done" /\ item.kind = dec.item_type /\ item.kind \in PatchItems
      /\ item \in NativeItems
  BY <1>1, <1>2, <1>5, FinishedItem DEF Finishing, Receives, DoneRejected, DoneMatches, Books
<1>7. /\ p.next_block_index = dec.next_block_index /\ p.block_open = dec.block_open
      /\ p.block_index = dec.block_index /\ p.tool_use_seen = dec.tool_use_seen
      /\ p.events = dec.events /\ DOMAIN p = DOMAIN dec
  BY <1>1, <1>3 DEF PatchTaken, Decoders
<1>8. /\ l.next_block_index = dec.next_block_index /\ l.block_open = dec.block_open
      /\ l.block_index = dec.block_index /\ l.tool_use_seen = dec.tool_use_seen
      /\ l.events = dec.events /\ DOMAIN l = DOMAIN dec
  <2>1. PICK k : k = p.losses \o losses  OBVIOUS
  <2>2. l = [p EXCEPT !.losses = k]  BY <1>3, <2>1 DEF Lose
  <2>. QED BY <1>1, <1>7, <2>2 DEF Decoders
<1>9. /\ taken.next_block_index = m /\ taken.block_open = dec.block_open
      /\ taken.block_index = dec.block_index /\ taken.tool_use_seen = used
      /\ taken.events = dec.events /\ DOMAIN taken = DOMAIN dec
  BY <1>1, <1>4, <1>8 DEF Decoders
<1>10. item.kind \notin CallItems  BY <1>6 DEF CallItems, PatchItems
<1>11. DoneBlock(e) = IF PatchLosses(e) = <<>> THEN Some(PatchBlock(item)) ELSE None
  BY <1>2, <1>6 DEF DoneBlock
<1>12. Some(PatchBlock(item)) # None /\ Some(PatchBlock(item))[1] = PatchBlock(item)
  <2>1. PICK b : b = PatchBlock(item)  OBVIOUS
  <2>2. Some(b) # None /\ Some(b)[1] = b  BY DEF Some, None
  <2>. QED BY <2>1, <2>2
<1>13. /\ DoneKept(e) <=> PatchLosses(e) = <<>>
       /\ Calling(e) <=> PatchLosses(e) = <<>> /\ item.kind = "apply_patch_call"
  BY <1>2, <1>6, <1>10, <1>11, <1>12 DEF DoneKept, Calling
<1>14. m = dec.next_block_index + (IF DoneKept(e) THEN 1 ELSE 0)
  BY <1>1, <1>3, <1>8, <1>13
<1>15. used <=> dec.tool_use_seen \/ Calling(e)  BY <1>1, <1>3, <1>8, <1>13
<1>16. u = OutputNow(e)
  <2>1. CASE PatchLosses(e) = <<>>
    <3>1. u = Unit(dec.next_block_index, PatchBlock(item), <<>>)  BY <1>3, <2>1
    <3>2. OutputNow(e) = IF e.item[1].kind \in CallItems
                         THEN CallUnit(dec.next_block_index, dec.function_call[1], e.item[1])
                         ELSE Unit(dec.next_block_index, DoneBlock(e)[1], <<>>)
      BY <1>13, <2>1, NowForms, Zenon
    <3>3. DoneBlock(e)[1] = PatchBlock(item)  BY <1>11, <1>12, <2>1, Zenon
    <3>. QED BY <1>2, <1>10, <3>1, <3>2, <3>3, Zenon
  <2>2. CASE PatchLosses(e) # <<>>
    <3>1. u = <<>>  BY <1>3, <2>2
    <3>2. OutputNow(e) = <<>>  BY <1>6, <1>13, <2>2, NowForms, Zenon
    <3>. QED BY <3>1, <3>2
  <2>. QED BY <2>1, <2>2
<1>. QED BY <1>2, <1>5, <1>6, <1>9, <1>10, <1>14, <1>15, <1>16, ClosedSpeaks

LEMMA ItemDoneSpeaks ==
  ASSUME TypeOK, TypeOK', Holds(dec), HeldCall(dec), NEW e \in Events, FeedItemDone(e)
  PROVE  Fails \/ Speaks(e)
BY RejectsFails, PatchDoneSpeaks, CallDoneSpeaks, OtherDoneSpeaks
DEF FeedItemDone, FeedDoneRejected, FeedDonePartOpen, FeedPatchMismatch, FeedPatchInvalid,
    FeedCallMismatch

(* The end: the reason and the usage of the response. *)
LEMMA TerminalSpeaks ==
  ASSUME TypeOK, TypeOK', NEW e \in Events, FeedTerminal(e)
  PROVE  Fails \/ Speaks(e)
<1>1. dec \in Decoders /\ dec.next_block_index \in Nat  BY DEF TypeOK, Decoders
<1>2. PICK t, stop, losses, u :
        /\ t = [dec EXCEPT !.terminated = TRUE]
        /\ stop = StopOf(e.response[1], dec.tool_use_seen)
        /\ losses = (IF stop = "other" THEN <<<<"status", -1>>>> ELSE <<>>)
        /\ u = PairOf(e, dec.tool_use_seen)
  OBVIOUS
<1>3. /\ e.kind \in Terminals
      /\ Rejects(dec) \/ (e.response # None /\ Yields(e, Lose(t, losses), u))
  BY <1>2 DEF FeedTerminal, Receives, PairOf, TerminalAccepted
<1>4. SameBlocks(t, dec) /\ t.events = dec.events /\ DOMAIN t = DOMAIN dec
  BY <1>1, <1>2 DEF Decoders, SameBlocks
<1>5. /\ e.kind \notin PartAdded \union PartDone \union InputEvents
      /\ e.kind \notin {"output_item.added", "output_item.done"}
  BY <1>3 DEF Terminals, PartAdded, PartDone, InputEvents
<1>6. e.response # None => MovesBlocks(dec, e, t)
  <2>1. ~StartsBlock(dec, e)  BY <1>5 DEF StartsBlock
  <2>. QED BY <1>1, <1>4, <1>5, <2>1, StillBlocks
<1>7. u = OutputNow(e)  BY <1>2, <1>3, NowForms, Zenon
<1>. QED BY <1>3, <1>4, <1>6, <1>7, RejectsFails, YieldsSpeaks

LEMMA UnknownSpeaks ==
  ASSUME TypeOK, TypeOK', NEW e \in Events, FeedUnknown(e)
  PROVE  Fails \/ Speaks(e)
<1>1. dec \in Decoders /\ dec.next_block_index \in Nat /\ SameBlocks(dec, dec)
  BY DEF TypeOK, Decoders, SameBlocks
<1>2. PICK losses, none : losses = <<<<"event", -1>>>> /\ none = <<>>  OBVIOUS
<1>3. /\ e.kind \notin KnownEvents
      /\ Rejects(dec) \/ Yields(e, dec, none) \/ Yields(e, Lose(dec, losses), none)
  BY <1>2 DEF FeedUnknown
<1>4. /\ e.kind \notin PartAdded \union PartDone \union InputEvents \union Terminals
      /\ e.kind \notin {"output_item.added", "output_item.done"}
  BY <1>3, KindsDiffer DEF KnownEvents
<1>5. MovesBlocks(dec, e, dec)
  <2>1. ~StartsBlock(dec, e)  BY <1>4 DEF StartsBlock
  <2>. QED BY <1>1, <1>4, <2>1, StillBlocks
<1>6. none = OutputNow(e)  BY <1>2, <1>3, NowForms, Zenon
<1>. QED BY <1>3, <1>5, <1>6, RejectsFails, YieldsSpeaks

(* Every call of feed fails or hands over what its event stands for. *)
LEMMA FeedSpeaks ==
  ASSUME TypeOK, TypeOK', Holds(dec), HeldCall(dec), NEW e \in Events, Feed(e)
  PROVE  Fails \/ Speaks(e)
<1>1. CASE FeedAfterEnd \/ FeedIntoPatch(e)
  BY <1>1, RejectsFails DEF FeedAfterEnd, FeedIntoPatch
<1>. QED
  BY <1>1, CreatedSpeaks, ItemAddedSpeaks, PartSpeaks, InputSpeaks, ItemDoneSpeaks,
     TerminalSpeaks, UnknownSpeaks DEF Feed

(* What the history tells of the blocks: the event at k is kept as a block;
   how many of the first k are; the last part among them, whether it is a
   kept one that is open, and its index; a call was among them. *)
HandedIn(s, k) == KeptIn(s, k) \/ DoneKept(s[k])
KeptTo(s, k) == {j \in 1..k : HandedIn(s, j)}
LastPart(s, k) == Max(AmongIn(s, 1, k, PartAdded))
PartIn(s, k) ==
  /\ AmongIn(s, 1, k, PartAdded) # {}
  /\ KeptIn(s, LastPart(s, k))
  /\ AmongIn(s, LastPart(s, k), k, PartDone) = {}
PartIndex(s, k) == Cardinality(KeptTo(s, LastPart(s, k) - 1))
CalledIn(s, k) == \E j \in 1..k : Calling(s[j])

(* The fragments since the last item was added, and the call they make. *)
Pieces(s, k) == [n \in 1..(k - LastIn(s, k)) |-> InputFragment(s[LastIn(s, k) + n])]

CallOf(i, item, texts, input) ==
  IF item.kind = "function_call"
  THEN Unit(i, ToolUseBlock(item.call_id, QualifiedName(item.name, item.ns), input),
            DeltasOf("input_json_delta", item.input \o texts))
  ELSE Unit(i, CustomToolUseBlock(item.call_id, QualifiedName(item.name, item.ns), input),
            DeltasOf("custom_tool_input_delta", IF texts = <<>> THEN <<input>> ELSE texts))

CallIn(s, k, i) ==
  CallOf(i, s[LastIn(s, k)].item[1], Concat(Pieces(s, k)), s[k].item[1].input[1])

Said(s, k) ==
  Output(s[k], Cardinality(KeptTo(s, k - 1)), KeptIn(s, k), PartIn(s, k - 1),
         PartIndex(s, k - 1), CallIn(s, k, Cardinality(KeptTo(s, k - 1))), CalledIn(s, k - 1))

AllSaid(s) == [k \in 1..Len(s) |-> Said(s, k)]

(* Output depends on the open part and the call only where they matter. *)
LEMMA OutputSame ==
  ASSUME NEW e, NEW i, NEW kept, NEW open, NEW p, NEW call, NEW called,
         NEW kept2, NEW open2, NEW p2, NEW call2,
         kept => e.kind \in PartAdded, kept <=> kept2, open <=> open2, open => p = p2,
         DoneKept(e) /\ e.item[1].kind \in CallItems => call = call2
  PROVE  Output(e, i, kept, open, p, call, called) = Output(e, i, kept2, open2, p2, call2, called)
<1>1. PICK g, h, first, start, delta, stop, unit, delta2, stop2, unit2, pair, none :
        /\ g = Output(e, i, kept, open, p, call, called)
        /\ h = Output(e, i, kept2, open2, p2, call2, called)
        /\ first = <<MessageStart>>
        /\ start = <<BlockStart(i, PartBlock(e))>>
        /\ delta = <<BlockDelta(p, DeltaOf(e))>> /\ delta2 = <<BlockDelta(p2, DeltaOf(e))>>
        /\ stop = <<BlockStop(p)>> /\ stop2 = <<BlockStop(p2)>>
        /\ unit = (IF e.item[1].kind \in CallItems THEN call ELSE Unit(i, DoneBlock(e)[1], <<>>))
        /\ unit2 = (IF e.item[1].kind \in CallItems THEN call2 ELSE Unit(i, DoneBlock(e)[1], <<>>))
        /\ pair = PairOf(e, called)
        /\ none = <<>>
  OBVIOUS
<1>2. g = CASE e.kind = "created" -> first
            [] kept -> start
            [] e.kind \in TextDelta /\ open -> delta
            [] e.kind \in PartDone /\ open -> stop
            [] DoneKept(e) -> unit
            [] e.kind \in Terminals -> pair
            [] OTHER -> none
  BY <1>1, Zenon DEF Output
<1>3. h = CASE e.kind = "created" -> first
            [] kept2 -> start
            [] e.kind \in TextDelta /\ open2 -> delta2
            [] e.kind \in PartDone /\ open2 -> stop2
            [] DoneKept(e) -> unit2
            [] e.kind \in Terminals -> pair
            [] OTHER -> none
  BY <1>1, Zenon DEF Output
<1>4. (open => delta = delta2 /\ stop = stop2) /\ (DoneKept(e) => unit = unit2)
  BY <1>1
<1>5. \/ e.kind = "created"
      \/ kept
      \/ e.kind \in TextDelta /\ open
      \/ e.kind \in PartDone /\ open
      \/ DoneKept(e)
      \/ e.kind \in Terminals
      \/ /\ e.kind # "created" /\ ~kept /\ ~(e.kind \in TextDelta /\ open)
         /\ ~(e.kind \in PartDone /\ open) /\ ~DoneKept(e) /\ e.kind \notin Terminals
  OBVIOUS
<1>6. /\ DoneKept(e) => e.kind = "output_item.done"
      /\ kept => e.kind \notin TextDelta \union PartDone \union Terminals
                 /\ e.kind \notin {"created", "output_item.done"}
      /\ e.kind \in TextDelta => e.kind \notin PartDone \union Terminals
                                /\ e.kind \notin {"created", "output_item.done"}
      /\ e.kind \in PartDone => e.kind \notin Terminals \union {"created", "output_item.done"}
      /\ e.kind \in Terminals => e.kind \notin {"created", "output_item.done"}
  BY DEF DoneKept, PartAdded, TextDelta, PartDone, Terminals
<1>7. g = h  BY <1>2, <1>3, <1>4, <1>6
<1>. QED BY <1>1, <1>7

(* What the first events tell does not depend on the later ones. *)
LEMMA KeptStays ==
  ASSUME NEW s \in Seq(Events), NEW e \in Events, NEW j \in 1..Len(s)
  PROVE  /\ Append(s, e)[j] = s[j]
         /\ KeptIn(Append(s, e), j) <=> KeptIn(s, j)
         /\ HandedIn(Append(s, e), j) <=> HandedIn(s, j)
<1>1. PICK t : t = Append(s, e)  OBVIOUS
<1>2. j \in 0..Len(s) /\ t[j] = s[j]  BY <1>1
<1>3. /\ AddedIn(t, j) = AddedIn(s, j) /\ LastIn(t, j) = LastIn(s, j)
      /\ AddedIn(s, j) # {} => t[LastIn(s, j)] = s[LastIn(s, j)]
  BY <1>1, <1>2, PrefixStays
<1>4. KeptIn(t, j) <=> KeptIn(s, j)  BY <1>2, <1>3 DEF KeptIn
<1>. QED BY <1>1, <1>2, <1>4 DEF HandedIn

LEMMA BlocksStay ==
  ASSUME NEW s \in Seq(Events), NEW e \in Events, NEW k \in 0..Len(s)
  PROVE  /\ KeptTo(Append(s, e), k) = KeptTo(s, k)
         /\ PartIn(Append(s, e), k) = PartIn(s, k)
         /\ PartIn(s, k) => PartIndex(Append(s, e), k) = PartIndex(s, k)
         /\ CalledIn(Append(s, e), k) = CalledIn(s, k)
<1>1. PICK t, l : t = Append(s, e) /\ l = Len(s)  OBVIOUS
<1>2. l \in Nat /\ k \in 0..l /\ k \in Nat /\ \A j \in 1..k : j \in 1..l
  BY <1>1
<1>3. \A j \in 1..l : t[j] = s[j] /\ (KeptIn(t, j) <=> KeptIn(s, j))
                      /\ (HandedIn(t, j) <=> HandedIn(s, j))
  BY <1>1, KeptStays
<1>4. ASSUME NEW i \in 0..k
      PROVE  KeptTo(t, i) = KeptTo(s, i)
  <2>1. \A j \in 1..i : j \in 1..l  BY <1>2
  <2>. QED BY <1>3, <2>1 DEF KeptTo
<1>5. ASSUME NEW j \in 1..(k + 1), NEW kinds
      PROVE  AmongIn(t, j, k, kinds) = AmongIn(s, j, k, kinds)
  BY <1>1, PrefixStays
<1>6. LastPart(t, k) = LastPart(s, k) /\ AmongIn(t, 1, k, PartAdded) = AmongIn(s, 1, k, PartAdded)
  <2>1. 1 \in 1..(k + 1)  BY <1>2
  <2>. QED BY <1>5, <2>1 DEF LastPart
<1>7. AmongIn(s, 1, k, PartAdded) # {} => LastPart(s, k) \in 1..k
  <2>1. AmongIn(s, 1, k, PartAdded) \subseteq 1..k  BY DEF AmongIn
  <2>. QED BY <1>2, <2>1, LastPosition DEF LastPart
<1>8. PartIn(t, k) <=> PartIn(s, k)
  <2>1. ASSUME AmongIn(s, 1, k, PartAdded) # {}
        PROVE  /\ KeptIn(t, LastPart(s, k)) <=> KeptIn(s, LastPart(s, k))
               /\ AmongIn(t, LastPart(s, k), k, PartDone) = AmongIn(s, LastPart(s, k), k, PartDone)
    <3>1. LastPart(s, k) \in 1..l /\ LastPart(s, k) \in 1..(k + 1)
      BY <1>2, <1>7, <2>1
    <3>. QED BY <1>3, <1>5, <3>1
  <2>. QED BY <1>6, <2>1 DEF PartIn
<1>9. PartIn(s, k) => PartIndex(t, k) = PartIndex(s, k)
  <2>1. PartIn(s, k) => LastPart(s, k) - 1 \in 0..k  BY <1>2, <1>7 DEF PartIn
  <2>. QED BY <1>4, <1>6, <2>1 DEF PartIndex
<1>10. CalledIn(t, k) <=> CalledIn(s, k)  BY <1>2, <1>3 DEF CalledIn
<1>11. KeptTo(t, k) = KeptTo(s, k)  BY <1>2, <1>4
<1>12. PartIn(t, k) = PartIn(s, k) /\ CalledIn(t, k) = CalledIn(s, k)
  BY <1>8, <1>10 DEF PartIn, CalledIn
<1>. QED BY <1>1, <1>9, <1>11, <1>12

(* The blocks are finitely many, and grow by one with what is kept. *)
LEMMA KeptGrows ==
  ASSUME NEW s \in Seq(Events), NEW e \in Events
  PROVE  /\ Cardinality(KeptTo(s, Len(s))) \in Nat
         /\ Cardinality(KeptTo(Append(s, e), Len(s) + 1))
              = Cardinality(KeptTo(s, Len(s)))
                  + (IF HandedIn(Append(s, e), Len(s) + 1) THEN 1 ELSE 0)
<1>1. PICK t, l, n : t = Append(s, e) /\ l = Len(s) /\ n = Len(s) + 1  OBVIOUS
<1>2. l \in Nat /\ n = l + 1 /\ n \in Nat /\ n \notin 1..l
      /\ (\A j \in 1..l : j \in 1..n) /\ (\A j \in 1..n : j \in 1..l \/ j = n) /\ n \in 1..n
  BY <1>1
<1>3. IsFiniteSet(KeptTo(s, l))
  <2>1. KeptTo(s, l) \in SUBSET (1..l)  BY DEF KeptTo
  <2>2. IsFiniteSet(1..l)  BY <1>2, FS_Interval
  <2>. QED BY <2>1, <2>2, FS_Subset
<1>4. \A j \in 1..l : HandedIn(t, j) <=> HandedIn(s, j)  BY <1>1, KeptStays
<1>5. KeptTo(t, n) = IF HandedIn(t, n) THEN KeptTo(s, l) \union {n} ELSE KeptTo(s, l)
  BY <1>2, <1>4 DEF KeptTo
<1>6. n \notin KeptTo(s, l)  BY <1>2 DEF KeptTo
<1>7. Cardinality(KeptTo(s, l)) \in Nat
      /\ Cardinality(KeptTo(s, l) \union {n}) = Cardinality(KeptTo(s, l)) + 1
  BY <1>3, <1>6, FS_AddElement, FS_CardinalityType
<1>8. Cardinality(KeptTo(t, n)) = Cardinality(KeptTo(s, l)) + (IF HandedIn(t, n) THEN 1 ELSE 0)
  BY <1>5, <1>7
<1>. QED BY <1>1, <1>7, <1>8

(* A part is open from its start to the next end of a part. *)
LEMMA PartGoesOn ==
  ASSUME NEW s \in Seq(Events), NEW e \in Events
  PROVE  /\ e.kind \in PartAdded =>
              /\ PartIn(Append(s, e), Len(s) + 1) <=> KeptIn(Append(s, e), Len(s) + 1)
              /\ PartIndex(Append(s, e), Len(s) + 1) = Cardinality(KeptTo(s, Len(s)))
         /\ e.kind \notin PartAdded =>
              /\ PartIn(Append(s, e), Len(s) + 1) <=> PartIn(s, Len(s)) /\ e.kind \notin PartDone
              /\ PartIn(s, Len(s)) =>
                   PartIndex(Append(s, e), Len(s) + 1) = PartIndex(s, Len(s))
<1>1. PICK t, l, n : t = Append(s, e) /\ l = Len(s) /\ n = l + 1  OBVIOUS
<1>2. l \in Nat /\ n = l + 1 /\ n \in Nat /\ t[n] = e /\ n \in 1..n
      /\ \A j \in 1..l : t[j] = s[j]
  BY <1>1
<1>3. AmongIn(t, 1, n, PartAdded) = IF e.kind \in PartAdded
                                    THEN AmongIn(s, 1, l, PartAdded) \union {n}
                                    ELSE AmongIn(s, 1, l, PartAdded)
  <2>1. (\A j \in 1..n : j \in 1..l \/ j = n) /\ (\A j \in 1..l : j \in 1..n)
    BY <1>2
  <2>. QED BY <1>2, <2>1 DEF AmongIn
<1>4. CASE e.kind \in PartAdded
  <2>1. LastPart(t, n) = n
    <3>1. AmongIn(t, 1, n, PartAdded) \subseteq 1..n /\ n \in AmongIn(t, 1, n, PartAdded)
      BY <1>2, <1>4 DEF AmongIn
    <3>2. Max(AmongIn(t, 1, n, PartAdded)) \in 1..n /\ n <= Max(AmongIn(t, 1, n, PartAdded))
      BY <1>2, <3>1, LastPosition
    <3>. QED BY <1>2, <3>2 DEF LastPart
  <2>2. AmongIn(t, n, n, PartDone) = {}
    <3>1. \A i \in n..n : i = n  BY <1>2
    <3>2. e.kind \notin PartDone  BY <1>4, KindsDiffer
    <3>. QED BY <1>2, <3>1, <3>2 DEF AmongIn
  <2>3. PartIn(t, n) <=> KeptIn(t, n)  BY <1>3, <1>4, <2>1, <2>2 DEF PartIn
  <2>4. PartIndex(t, n) = Cardinality(KeptTo(s, l))
    <3>1. n - 1 = l /\ l \in 0..Len(s)  BY <1>1, <1>2
    <3>2. KeptTo(t, l) = KeptTo(s, l)  BY <1>1, <3>1, BlocksStay
    <3>. QED BY <2>1, <3>1, <3>2 DEF PartIndex
  <2>. QED BY <1>1, <1>4, <2>3, <2>4
<1>5. CASE e.kind \notin PartAdded
  <2>1. LastPart(t, n) = LastPart(s, l) /\ AmongIn(t, 1, n, PartAdded) = AmongIn(s, 1, l, PartAdded)
    BY <1>3, <1>5 DEF LastPart
  <2>2. AmongIn(s, 1, l, PartAdded) # {} => LastPart(s, l) \in 1..l
    <3>1. AmongIn(s, 1, l, PartAdded) \subseteq 1..l  BY DEF AmongIn
    <3>. QED BY <1>2, <3>1, LastPosition DEF LastPart
  <2>3. ASSUME AmongIn(s, 1, l, PartAdded) # {}
        PROVE  /\ KeptIn(t, LastPart(s, l)) <=> KeptIn(s, LastPart(s, l))
               /\ AmongIn(t, LastPart(s, l), n, PartDone) = {} <=>
                    AmongIn(s, LastPart(s, l), l, PartDone) = {} /\ e.kind \notin PartDone
               /\ KeptTo(t, LastPart(s, l) - 1) = KeptTo(s, LastPart(s, l) - 1)
    <3>1. PICK j : j = LastPart(s, l)  OBVIOUS
    <3>2. j \in 1..l /\ j - 1 \in 0..l  BY <1>2, <2>2, <2>3, <3>1
    <3>3. (\A i \in j..n : i \in j..l \/ i = n) /\ (\A i \in j..l : i \in j..n /\ t[i] = s[i])
          /\ n \in j..n
      BY <1>2, <3>2
    <3>4. AmongIn(t, j, n, PartDone) = {} <=>
            AmongIn(s, j, l, PartDone) = {} /\ e.kind \notin PartDone
      BY <1>2, <3>3 DEF AmongIn
    <3>5. KeptIn(t, j) <=> KeptIn(s, j)  BY <1>1, <3>2, KeptStays
    <3>6. KeptTo(t, j - 1) = KeptTo(s, j - 1)  BY <1>1, <3>2, BlocksStay
    <3>. QED BY <3>1, <3>4, <3>5, <3>6
  <2>4. PartIn(t, n) <=> PartIn(s, l) /\ e.kind \notin PartDone
    BY <2>1, <2>3 DEF PartIn
  <2>5. PartIn(s, l) => PartIndex(t, n) = PartIndex(s, l)
    BY <2>1, <2>3 DEF PartIn, PartIndex
  <2>. QED BY <1>1, <1>5, <2>4, <2>5
<1>. QED BY <1>4, <1>5

LEMMA CalledGrows ==
  ASSUME NEW s \in Seq(Events), NEW e \in Events
  PROVE  CalledIn(Append(s, e), Len(s) + 1) <=> CalledIn(s, Len(s)) \/ Calling(e)
<1>1. PICK t, l, n : t = Append(s, e) /\ l = Len(s) /\ n = l + 1  OBVIOUS
<1>2. l \in Nat /\ t[n] = e /\ n \in 1..n /\ (\A j \in 1..l : t[j] = s[j] /\ j \in 1..n)
      /\ \A j \in 1..n : j \in 1..l \/ j = n
  BY <1>1
<1>3. CalledIn(t, n) <=> CalledIn(s, l) \/ Calling(e)  BY <1>2 DEF CalledIn
<1>. QED BY <1>1, <1>3

(* What is handed over at an event is a sequence of events. *)
LEMMA NowType ==
  ASSUME TypeOK, NEW e \in Events, NEW o, MovesBlocks(dec, e, o)
  PROVE  OutputNow(e) \in Seq(IrEvents)
<1>1. dec \in Decoders /\ dec.next_block_index \in Nat /\ dec.block_index \in Nat
      /\ dec.function_call \in Option(Calls)
  BY DEF TypeOK, Decoders
<1>2. \A x \in IrEvents : <<x>> \in Seq(IrEvents)  OBVIOUS
<1>3. PICK none : none = <<>> /\ none \in Seq(IrEvents) /\ none \in Seq(Deltas)
  <2>1. <<>> \in Seq(IrEvents) /\ <<>> \in Seq(Deltas)  OBVIOUS
  <2>. QED BY <2>1
<1>4. CASE e.kind = "created"
  <2>1. OutputNow(e) = <<MessageStart>>  BY <1>4, NowForms, Zenon
  <2>. QED BY <1>2, <2>1, EventTypes
<1>5. CASE e.kind \in PartAdded
  <2>1. CASE StartsBlock(dec, e)
    <3>1. PICK i, b : i = dec.next_block_index /\ b = PartBlock(e)  OBVIOUS
    <3>2. OutputNow(e) = <<BlockStart(i, b)>>  BY <2>1, <3>1, NowForms, Zenon
    <3>3. b \in Blocks  BY <1>5, <2>1, <3>1, PartTypes DEF MovesBlocks
    <3>4. BlockStart(i, b) \in IrEvents  BY <1>1, <3>1, <3>3, EventTypes
    <3>. QED BY <1>2, <3>2, <3>4
  <2>2. CASE ~StartsBlock(dec, e)  BY <1>3, <1>5, <2>2, NowForms, Zenon
  <2>. QED BY <2>1, <2>2
<1>6. CASE e.kind \in TextDelta
  <2>1. PICK i, x, u : i = dec.block_index /\ x = DeltaOf(e) /\ u = <<BlockDelta(i, x)>>
    OBVIOUS
  <2>2. OutputNow(e) = IF dec.block_open THEN u ELSE none
    BY <1>3, <1>6, <2>1, NowForms, Zenon
  <2>3. u \in Seq(IrEvents)  BY <1>1, <1>2, <1>6, <2>1, PartTypes, EventTypes
  <2>. QED BY <1>3, <2>2, <2>3
<1>7. CASE e.kind \in PartDone
  <2>1. PICK i, u : i = dec.block_index /\ u = <<BlockStop(i)>>  OBVIOUS
  <2>2. OutputNow(e) = IF dec.block_open THEN u ELSE none
    BY <1>3, <1>7, <2>1, NowForms, Zenon
  <2>3. u \in Seq(IrEvents)  BY <1>1, <1>2, <2>1, EventTypes
  <2>. QED BY <1>3, <2>2, <2>3
<1>8. CASE e.kind = "output_item.done"
  <2>1. PICK item, i : item = e.item[1] /\ i = dec.next_block_index  OBVIOUS
  <2>2. item \in NativeItems /\ (item.kind \in CallItems => dec.function_call # None /\ item.input # None)
    BY <1>8, <2>1 DEF MovesBlocks
  <2>3. CASE ~DoneKept(e)  BY <1>3, <1>8, <2>3, NowForms, Zenon
  <2>4. CASE DoneKept(e)
    <3>1. PICK call, unit : call = CallUnit(i, dec.function_call[1], item)
                            /\ unit = Unit(i, DoneBlock(e)[1], none)
      OBVIOUS
    <3>2. OutputNow(e) = IF item.kind \in CallItems THEN call ELSE unit
      BY <1>3, <2>1, <2>4, <3>1, NowForms, Zenon
    <3>3. CASE item.kind \in CallItems
      <4>1. dec.function_call[1] \in Calls  BY <1>1, <2>2, <3>3, SomeTypes
      <4>2. call \in Seq(IrEvents)
        BY <1>1, <2>1, <2>2, <3>1, <3>3, <4>1, CallUnitType
      <4>. QED BY <3>2, <3>3, <4>2
    <3>4. CASE item.kind \notin CallItems
      <4>1. PICK block : block = DoneBlock(e)  OBVIOUS
      <4>2. block # None  BY <2>1, <2>4, <3>4, <4>1 DEF DoneKept
      <4>3. PatchBlock(item) \in Blocks /\ ItemBlock(item) \in Option(Blocks)
        BY <2>2, PatchBlockTypes, ItemBlockTypes
      <4>4. block \in {ItemBlock(item), Some(PatchBlock(item)), None}
        BY <2>1, <4>1, Zenon DEF DoneBlock
      <4>5. block \in Option(Blocks)  BY <4>3, <4>4, SomeTypes
      <4>6. block[1] \in Blocks  BY <4>2, <4>5, SomeTypes
      <4>7. unit = BlockUnit(i, block[1], none)  BY <3>1, <4>1, UnitIsBlock
      <4>8. unit \in Seq(IrEvents)  BY <1>1, <1>3, <2>1, <4>6, <4>7, UnitType
      <4>. QED BY <3>2, <3>4, <4>8
    <3>. QED BY <3>3, <3>4
  <2>. QED BY <2>3, <2>4
<1>9. CASE e.kind \in Terminals
  <2>1. PICK response, stop, usage, sequence :
          /\ response = e.response[1] /\ stop = StopOf(response, dec.tool_use_seen)
          /\ usage = (IF response.usage = None THEN NoUsage ELSE response.usage[1])
          /\ sequence = <<>>
    OBVIOUS
  <2>2. PICK x, y : x = MessageDelta(stop, sequence, usage) /\ y = MessageDone
    OBVIOUS
  <2>3. OutputNow(e) = <<x, y>>
    <3>1. OutputNow(e) = PairOf(e, dec.tool_use_seen)  BY <1>9, NowForms, Zenon
    <3>. QED BY <2>1, <2>2, <3>1, Zenon DEF PairOf
  <2>5. response \in Responses
    BY <1>9, <2>1, WireTypes, SomeTypes DEF MovesBlocks
  <2>6. usage \in Usages
    <3>1. response.usage \in Option(Usages)  BY <2>5 DEF Responses
    <3>2. NoUsage \in Usages  BY DEF NoUsage, Usage, Usages
    <3>. QED BY <2>1, <3>1, <3>2, SomeTypes
  <2>7. stop \in StopReasons  BY <2>1 DEF StopOf, StopReasons
  <2>8. x \in IrEvents /\ y \in IrEvents
    BY <2>1, <2>2, <2>6, <2>7, NoToken, EventTypes
  <2>. QED BY <2>3, <2>8
<1>10. CASE e.kind \in {"output_item.added"} \union TextDone \union InputEvents
  BY <1>3, <1>10, NowForms, Zenon
<1>11. CASE e.kind \notin KnownEvents  BY <1>3, <1>11, NowForms, Zenon
<1>12. e.kind \in KnownEvents =>
         \/ e.kind = "created" \/ e.kind \in PartAdded \/ e.kind \in TextDelta
         \/ e.kind \in PartDone \/ e.kind = "output_item.done" \/ e.kind \in Terminals
         \/ e.kind \in {"output_item.added"} \union TextDone \union InputEvents
  BY DEF KnownEvents, PartAdded, TextDelta, PartDone, Terminals, TextDone, InputEvents
<1>. QED BY <1>4, <1>5, <1>6, <1>7, <1>8, <1>9, <1>10, <1>11, <1>12

(* The fragment of an input event. *)
LEMMA FragmentType ==
  ASSUME NEW e \in Events
  PROVE  InputFragment(e) \in Seq(Text)
<1>1. PICK text, one : text = TextGiven(e.text) /\ one = <<text>>  OBVIOUS
<1>2. InputFragment(e) = IF e.kind \in InputDeltas THEN one ELSE <<>>
  BY <1>1, Zenon DEF InputFragment
<1>3. e.kind \in InputDeltas => text \in Text
  BY <1>1, WireTypes, GivenText DEF InputDeltas, InputEvents
<1>. QED BY <1>1, <1>2, <1>3

(* The fragments that have come do not depend on later events, and grow
   with an input event. *)
LEMMA PiecesStay ==
  ASSUME NEW s \in Seq(Events), NEW e \in Events, NEW k \in 0..Len(s), AddedIn(s, k) # {}
  PROVE  /\ Pieces(Append(s, e), k) = Pieces(s, k)
         /\ Append(s, e)[LastIn(Append(s, e), k)] = s[LastIn(s, k)]
<1>1. PICK t, a : t = Append(s, e) /\ a = LastIn(s, k)  OBVIOUS
<1>2. LastIn(t, k) = a /\ a \in 1..k /\ t[a] = s[a]  BY <1>1, PrefixStays
<1>3. \A n \in 1..(k - a) : t[a + n] = s[a + n]
  <2>1. SUFFICES ASSUME NEW n \in 1..(k - a)
                 PROVE  t[a + n] = s[a + n]
    OBVIOUS
  <2>2. a + n \in 1..Len(s)  BY <1>2
  <2>. QED BY <1>1, <2>2
<1>4. Pieces(t, k) = Pieces(s, k)  BY <1>1, <1>2, <1>3 DEF Pieces
<1>. QED BY <1>1, <1>2, <1>4

LEMMA PiecesType ==
  ASSUME NEW s \in Seq(Events), AddedIn(s, Len(s)) # {}
  PROVE  /\ LastIn(s, Len(s)) \in 1..Len(s)
         /\ Pieces(s, Len(s)) \in [1..(Len(s) - LastIn(s, Len(s))) -> Seq(Text)]
         /\ Concat(Pieces(s, Len(s))) \in Seq(Text)
<1>1. PICK a, l, f, m : a = LastIn(s, Len(s)) /\ l = Len(s) /\ f = Pieces(s, Len(s)) /\ m = l - a
  OBVIOUS
<1>2. a \in 1..l
  <2>1. AddedIn(s, Len(s)) \subseteq 1..Len(s)  BY DEF AddedIn
  <2>. QED BY <1>1, <2>1, LastPosition DEF LastIn
<1>3. f = [n \in 1..m |-> InputFragment(s[a + n])]  BY <1>1 DEF Pieces
<1>4. \A n \in 1..m : InputFragment(s[a + n]) \in Seq(Text)
  <2>1. SUFFICES ASSUME NEW n \in 1..m
                 PROVE  InputFragment(s[a + n]) \in Seq(Text)
    OBVIOUS
  <2>2. a + n \in 1..Len(s)  BY <1>1, <1>2
  <2>. QED BY <2>2, FragmentType
<1>5. f \in [1..m -> Seq(Text)]  BY <1>3, <1>4
<1>6. f \in Seq(Seq(Text))
  <2>1. m \in Nat  BY <1>1, <1>2
  <2>. QED BY <1>5, <2>1
<1>7. Concat(f) \in Seq(Text)  BY <1>6, ConcatText
<1>. QED BY <1>1, <1>2, <1>5, <1>7

LEMMA PiecesGrow ==
  ASSUME NEW s \in Seq(Events), NEW e \in Events
  PROVE  /\ e.kind = "output_item.added" =>
              Concat(Pieces(Append(s, e), Len(s) + 1)) = <<>>
         /\ e.kind # "output_item.added" /\ AddedIn(s, Len(s)) # {} =>
              Concat(Pieces(Append(s, e), Len(s) + 1))
                = Concat(Pieces(s, Len(s))) \o InputFragment(e)
<1>1. PICK t, l, n : t = Append(s, e) /\ l = Len(s) /\ n = l + 1  OBVIOUS
<1>2. l \in Nat /\ n = l + 1 /\ t[n] = e /\ \A j \in 1..l : t[j] = s[j]  BY <1>1
<1>3. ASSUME e.kind = "output_item.added"
      PROVE  Concat(Pieces(t, n)) = <<>>
  <2>1. LastIn(t, n) = n  BY <1>1, <1>3, ItemAdds
  <2>2. 1..(n - n) = {}  BY <1>2
  <2>3. Pieces(t, n) = [m \in {} |-> InputFragment(t[n + m])]
    BY <2>1, <2>2 DEF Pieces
  <2>4. Pieces(t, n) = <<>>  BY <2>3
  <2>. QED BY <2>4, ConcatEmpty
<1>4. ASSUME e.kind # "output_item.added", AddedIn(s, l) # {}
      PROVE  Concat(Pieces(t, n)) = Concat(Pieces(s, l)) \o InputFragment(e)
  <2>1. PICK a, m, f, g : a = LastIn(s, l) /\ m = l - a /\ f = Pieces(s, l) /\ g = Pieces(t, n)
    OBVIOUS
  <2>2. LastIn(t, n) = a /\ a \in 1..l  BY <1>1, <1>4, <2>1, OtherAdds
  <2>3. m \in Nat /\ n - a = m + 1 /\ a + (m + 1) = n  BY <1>2, <2>1, <2>2
  <2>4. f \in [1..m -> Seq(Text)]  BY <1>1, <1>4, <2>1, PiecesType
  <2>5. g = [i \in 1..(m + 1) |-> InputFragment(t[a + i])]
    BY <2>1, <2>2, <2>3 DEF Pieces
  <2>6. f = [i \in 1..m |-> InputFragment(s[a + i])]  BY <2>1 DEF Pieces
  <2>7. \A i \in 1..m : g[i] = f[i]
    <3>1. SUFFICES ASSUME NEW i \in 1..m
                   PROVE  g[i] = f[i]
      OBVIOUS
    <3>2. i \in 1..(m + 1) /\ a + i \in 1..l  BY <1>2, <2>1, <2>2, <2>3
    <3>. QED BY <1>2, <2>5, <2>6, <3>2
  <2>8. g[m + 1] = InputFragment(e)
    <3>1. m + 1 \in 1..(m + 1)  BY <2>3
    <3>. QED BY <1>2, <2>3, <2>5, <3>1
  <2>9. g \in [1..(m + 1) -> Seq(Text)]
    <3>1. \A i \in 1..(m + 1) : i \in 1..m \/ i = m + 1  BY <2>3
    <3>2. \A i \in 1..(m + 1) : g[i] \in Seq(Text)
      BY <2>4, <2>7, <2>8, <3>1, FragmentType
    <3>. QED BY <2>5, <3>2
  <2>10. Concat(g) = Concat(f) \o g[m + 1]
    BY <2>3, <2>4, <2>7, <2>9, ConcatGrows
  <2>. QED BY <2>1, <2>8, <2>10
<1>. QED BY <1>1, <1>3, <1>4

(* The call that is buffered is the one of the item: under the name its
   start gives, with the fragments that have come. *)
CallFits(call, item, texts) ==
  /\ item \in NativeItems /\ item.kind \in CallItems
  /\ item.kind = "function_call" => item.input # None
  /\ call.call_id = item.call_id /\ call.name = QualifiedName(item.name, item.ns)
  /\ call.custom <=> item.kind = "custom_tool_call"
  /\ call.fragments = (IF item.kind = "function_call" THEN item.input ELSE <<>>) \o texts

(* Such a call is handed over as the property reads it off the items. *)
LEMMA CallReads ==
  ASSUME NEW i, NEW call, NEW item \in NativeItems, NEW texts \in Seq(Text), NEW done \in NativeItems,
         CallFits(call, item, texts), done.input # None
  PROVE  CallUnit(i, call, done) = CallOf(i, item, texts, done.input[1])
<1>1. PICK name, input, none : name = QualifiedName(item.name, item.ns) /\ input = done.input[1]
                               /\ none = <<>>
  OBVIOUS
<1>2. /\ call.call_id = item.call_id /\ call.name = name
      /\ call.custom <=> item.kind = "custom_tool_call"
      /\ item.kind \in {"function_call", "custom_tool_call"}
  BY <1>1 DEF CallFits, CallItems
<1>3. PICK fragments : fragments = IF call.fragments = none THEN done.input ELSE call.fragments
  OBVIOUS
<1>4. CASE item.kind = "function_call"
  <2>1. fragments = item.input \o texts
    <3>1. item.input \in Seq(Text) /\ item.input # <<>>
      BY <1>4, ItemFields DEF CallFits, Option, None
    <3>2. call.fragments = item.input \o texts  BY <1>4 DEF CallFits
    <3>3. item.input \o texts # <<>>  BY <3>1
    <3>. QED BY <1>1, <1>3, <3>2, <3>3
  <2>2. ~call.custom  BY <1>2, <1>4
  <2>3. PICK b : b = Block("tool_use", item.call_id, name, input)  OBVIOUS
  <2>4. CallUnit(i, call, done) = Unit(i, b, DeltasOf("input_json_delta", fragments))
    BY <1>1, <1>2, <1>3, <2>2, <2>3, Zenon DEF CallUnit, DeltasOf
  <2>5. CallOf(i, item, texts, input) = Unit(i, b, DeltasOf("input_json_delta", fragments))
    BY <1>1, <1>4, <2>1, <2>3, Zenon DEF CallOf, ToolUseBlock
  <2>. QED BY <1>1, <2>4, <2>5
<1>5. CASE item.kind = "custom_tool_call"
  <2>1. fragments = IF texts = <<>> THEN <<input>> ELSE texts
    <3>1. call.fragments = texts  BY <1>5 DEF CallFits
    <3>2. done.input = <<input>>  BY <1>1, ItemFields DEF Option, None
    <3>. QED BY <1>1, <1>3, <3>1, <3>2
  <2>2. call.custom /\ item.kind # "function_call"  BY <1>2, <1>5
  <2>3. PICK b : b = Block("custom_tool_use", item.call_id, name, input)
    OBVIOUS
  <2>4. CallUnit(i, call, done) = Unit(i, b, DeltasOf("custom_tool_input_delta", fragments))
    BY <1>1, <1>2, <1>3, <2>2, <2>3, Zenon DEF CallUnit, DeltasOf
  <2>5. CallOf(i, item, texts, input) = Unit(i, b, DeltasOf("custom_tool_input_delta", fragments))
    BY <1>1, <2>1, <2>2, <2>3, Zenon DEF CallOf, CustomToolUseBlock
  <2>. QED BY <1>1, <2>4, <2>5
<1>. QED BY <1>2, <1>4, <1>5

(* An input event adds its fragment to the call; any other has none. *)
LEMMA InputReads ==
  ASSUME NEW call \in Calls, NEW item \in NativeItems, NEW texts \in Seq(Text),
         CallFits(call, item, texts), NEW e \in Events
  PROVE  /\ e.kind \in InputEvents =>
              CallFits(TakeInput(call, e), item, texts \o InputFragment(e))
         /\ e.kind \notin InputEvents => CallFits(call, item, texts \o InputFragment(e))
<1>1. PICK first : first = IF item.kind = "function_call" THEN item.input ELSE <<>>
  OBVIOUS
<1>2. first \in Seq(Text) /\ call.fragments = first \o texts
  BY <1>1, ItemFields DEF CallFits, Option
<1>3. CASE e.kind \in InputDeltas
  <2>1. PICK text, fragments : text = TextGiven(e.text) /\ fragments = Append(call.fragments, text)
    OBVIOUS
  <2>2. text \in Text /\ e.kind \in InputEvents
    BY <1>3, <2>1, WireTypes, GivenText DEF InputDeltas, InputEvents
  <2>3. InputFragment(e) = <<text>>  BY <1>3, <2>1, Zenon DEF InputFragment
  <2>4. fragments = first \o (texts \o <<text>>)  BY <1>2, <2>1, <2>2
  <2>5. PICK c : c = [call EXCEPT !.fragments = fragments]  OBVIOUS
  <2>6. /\ c.call_id = call.call_id /\ c.name = call.name /\ c.custom = call.custom
        /\ c.fragments = fragments
    BY <2>5 DEF Calls
  <2>7. c = TakeInput(call, e)  BY <1>3, <2>1, <2>5 DEF TakeInput
  <2>8. CallFits(c, item, texts \o <<text>>)  BY <1>1, <2>4, <2>6 DEF CallFits
  <2>. QED BY <2>2, <2>3, <2>7, <2>8
<1>4. CASE e.kind \notin InputDeltas
  <2>1. PICK none : none = InputFragment(e) /\ none = <<>>
    BY <1>4, Zenon DEF InputFragment
  <2>2. texts \o none = texts  BY <2>1
  <2>3. PICK snapshot : snapshot = (IF call.custom THEN e.text ELSE call.snapshot)
    OBVIOUS
  <2>4. PICK c : c = [call EXCEPT !.arguments_done = TRUE, !.snapshot = snapshot]
    OBVIOUS
  <2>5. /\ c.call_id = call.call_id /\ c.name = call.name /\ c.custom = call.custom
        /\ c.fragments = call.fragments
    BY <2>4 DEF Calls
  <2>6. c = TakeInput(call, e)  BY <1>4, <2>3, <2>4 DEF TakeInput
  <2>7. CallFits(c, item, texts)  BY <2>5 DEF CallFits
  <2>. QED BY <2>1, <2>2, <2>6, <2>7
<1>. QED BY <1>3, <1>4

(* What the struct remembers of the blocks and of the call. *)
Gathered(s, d) ==
  /\ d.next_block_index = Cardinality(KeptTo(s, Len(s)))
  /\ d.block_open <=> PartIn(s, Len(s))
  /\ d.block_open => d.block_index = PartIndex(s, Len(s))
  /\ d.tool_use_seen <=> CalledIn(s, Len(s))
  /\ HeldCall(d)
  /\ d.function_call # None =>
       CallFits(d.function_call[1], s[LastIn(s, Len(s))].item[1], Concat(Pieces(s, Len(s))))

(* The event starts a part that is kept exactly if the history says so. *)
LEMMA StartsKept ==
  ASSUME NEW s \in Seq(Events), NEW e \in Events, NEW d, NEW o, Linked(s, d), MovesPlace(d, e, o)
  PROVE  /\ StartsBlock(d, e) <=> KeptIn(Append(s, e), Len(s) + 1)
         /\ HandedIn(Append(s, e), Len(s) + 1) <=> StartsBlock(d, e) \/ DoneKept(e)
<1>1. PICK t, l, n : t = Append(s, e) /\ l = Len(s) /\ n = Len(s) + 1  OBVIOUS
<1>2. t[n] = e  BY <1>1
<1>3. StartsBlock(d, e) <=> KeptIn(t, n)
  <2>1. CASE e.kind \in PartAdded
    <3>1. StartsPart(d, e, o)
      BY <2>1, KindsDiffer DEF MovesPlace, Opens, Closes, StaysWithin, Passes
    <3>2. e.kind # "output_item.added" /\ d.item_open
      BY <2>1, <3>1, KindsDiffer DEF StartsPart, Active
    <3>3. AddedIn(s, l) # {} /\ (d.skipped_item <=> ~IsKnown(s[LastIn(s, l)].item[1]))
      BY <1>1, <3>2 DEF Linked
    <3>4. /\ AddedIn(t, n) = AddedIn(s, l) /\ LastIn(t, n) = LastIn(s, l)
          /\ t[LastIn(s, l)] = s[LastIn(s, l)]
      BY <1>1, <3>2, <3>3, OtherAdds
    <3>. QED BY <1>2, <2>1, <3>3, <3>4 DEF KeptIn, StartsBlock
  <2>2. CASE e.kind \notin PartAdded  BY <1>2, <2>2 DEF KeptIn, StartsBlock
  <2>. QED BY <2>1, <2>2
<1>. QED BY <1>1, <1>2, <1>3 DEF HandedIn

(* An accepted event keeps that so: the blocks. *)
LEMMA GatheredBlocks ==
  ASSUME NEW s \in Seq(Events), NEW e \in Events, NEW d \in Decoders, NEW o, Linked(s, d),
         Gathered(s, d), MovesPlace(d, e, o), MovesBlocks(d, e, o)
  PROVE  /\ o.next_block_index = Cardinality(KeptTo(Append(s, e), Len(s) + 1))
         /\ o.block_open <=> PartIn(Append(s, e), Len(s) + 1)
         /\ o.block_open => o.block_index = PartIndex(Append(s, e), Len(s) + 1)
         /\ o.tool_use_seen <=> CalledIn(Append(s, e), Len(s) + 1)
<1>1. PICK t, l, n : t = Append(s, e) /\ l = Len(s) /\ n = Len(s) + 1  OBVIOUS
<1>2. /\ d.next_block_index = Cardinality(KeptTo(s, l)) /\ (d.block_open <=> PartIn(s, l))
      /\ d.block_open => d.block_index = PartIndex(s, l)
      /\ d.tool_use_seen <=> CalledIn(s, l)
  BY <1>1 DEF Gathered
<1>3. /\ StartsBlock(d, e) <=> KeptIn(t, n)
      /\ HandedIn(t, n) <=> StartsBlock(d, e) \/ DoneKept(e)
  BY <1>1, StartsKept
<1>4. /\ o.next_block_index =
           d.next_block_index + (IF StartsBlock(d, e) \/ DoneKept(e) THEN 1 ELSE 0)
      /\ o.block_open <=> StartsBlock(d, e) \/ (d.block_open /\ e.kind \notin PartDone)
      /\ o.block_index = IF StartsBlock(d, e) THEN d.next_block_index ELSE d.block_index
      /\ o.tool_use_seen <=> d.tool_use_seen \/ Calling(e)
      /\ e.kind \in PartAdded => ~d.block_open
  BY DEF MovesBlocks
<1>5. o.next_block_index = Cardinality(KeptTo(t, n))
  <2>1. Cardinality(KeptTo(t, n))
          = Cardinality(KeptTo(s, l)) + (IF HandedIn(t, n) THEN 1 ELSE 0)
    BY <1>1, KeptGrows
  <2>. QED BY <1>2, <1>3, <1>4, <2>1
<1>6. /\ o.block_open <=> PartIn(t, n)
      /\ o.block_open => o.block_index = PartIndex(t, n)
  <2>1. CASE e.kind \in PartAdded
    <3>1. (PartIn(t, n) <=> KeptIn(t, n)) /\ PartIndex(t, n) = Cardinality(KeptTo(s, l))
      BY <1>1, <2>1, PartGoesOn
    <3>. QED BY <1>2, <1>3, <1>4, <2>1, <3>1
  <2>2. CASE e.kind \notin PartAdded
    <3>1. /\ PartIn(t, n) <=> PartIn(s, l) /\ e.kind \notin PartDone
          /\ PartIn(s, l) => PartIndex(t, n) = PartIndex(s, l)
      BY <1>1, <2>2, PartGoesOn
    <3>2. ~StartsBlock(d, e)  BY <2>2 DEF StartsBlock
    <3>. QED BY <1>2, <1>4, <3>1, <3>2
  <2>. QED BY <2>1, <2>2
<1>7. o.tool_use_seen <=> CalledIn(t, n)
  <2>1. CalledIn(t, n) <=> CalledIn(s, l) \/ Calling(e)  BY <1>1, CalledGrows
  <2>. QED BY <1>2, <1>4, <2>1
<1>. QED BY <1>1, <1>5, <1>6, <1>7

(* And the call: an item brings one, its end takes it away, its input adds
   to it. *)
LEMMA GatheredCall ==
  ASSUME NEW s \in Seq(Events), NEW e \in Events, NEW d \in Decoders, NEW o, Books(d),
         Linked(s, d), Gathered(s, d), MovesPlace(d, e, o), MovesBlocks(d, e, o)
  PROVE  /\ HeldCall(o)
         /\ o.function_call # None =>
              CallFits(o.function_call[1],
                       Append(s, e)[LastIn(Append(s, e), Len(s) + 1)].item[1],
                       Concat(Pieces(Append(s, e), Len(s) + 1)))
<1>1. PICK t, l, n : t = Append(s, e) /\ l = Len(s) /\ n = Len(s) + 1  OBVIOUS
<1>2. o.function_call = CallAfter(d, e)
      /\ (o.item_open =>
            o.item_type = IF e.kind = "output_item.added" THEN e.item[1].kind ELSE d.item_type)
      /\ (e.kind = "output_item.added" => e.item # None)
  BY DEF MovesBlocks
<1>3. CASE e.kind = "output_item.added"
  <2>1. PICK item, call : item = e.item[1] /\ call = Call(item)  OBVIOUS
  <2>2. item \in NativeItems  BY <1>2, <1>3, <2>1, WireTypes, SomeTypes
  <2>3. call \in Calls  BY <2>1, <2>2, CallTypes
  <2>4. o.function_call = IF item.kind \in CallItems THEN Some(call) ELSE None
    BY <1>2, <1>3, <2>1, Zenon DEF CallAfter
  <2>5. Some(call) # None /\ Some(call)[1] = call  BY <2>3, SomeTypes
  <2>6. HeldCall(o)  BY <1>2, <1>3, <2>1, <2>4, <2>5 DEF HeldCall
  <2>7. t[LastIn(t, n)] = e  BY <1>1, <1>3, ItemAdds
  <2>8. Concat(Pieces(t, n)) = <<>>  BY <1>1, <1>3, PiecesGrow
  <2>9. item.kind \in CallItems => CallFits(call, item, <<>>)
    <3>1. SUFFICES ASSUME item.kind \in CallItems
                   PROVE  CallFits(call, item, <<>>)
      OBVIOUS
    <3>2. item.kind = "function_call" => item.input # None
      BY <1>2, <1>3, <2>1, DecoderAssumption
    <3>3. PICK name, fragments, none, custom :
            /\ name = QualifiedName(item.name, item.ns) /\ none = None
            /\ fragments = (IF item.kind = "function_call" THEN item.input ELSE <<>>)
            /\ custom = (item.kind = "custom_tool_call")
      OBVIOUS
    <3>4. call = [call_id |-> item.call_id, name |-> name, fragments |-> fragments,
                  arguments_done |-> FALSE, custom |-> custom, snapshot |-> none]
      BY <2>1, <3>3 DEF Call
    <3>5. /\ call.call_id = item.call_id /\ call.name = name /\ call.custom = custom
          /\ call.fragments = fragments
      BY <3>4
    <3>6. fragments \in Seq(Text)  BY <2>2, <3>3, ItemFields DEF Option
    <3>7. fragments \o <<>> = fragments  BY <3>6
    <3>. QED BY <2>2, <3>1, <3>2, <3>3, <3>5, <3>7 DEF CallFits
  <2>. QED BY <1>1, <2>1, <2>4, <2>5, <2>6, <2>7, <2>8, <2>9
<1>4. CASE e.kind = "output_item.done"
  <2>1. o.function_call = None  BY <1>2, <1>4 DEF CallAfter
  <2>2. ~o.item_open
    BY <1>4, KindsDiffer DEF MovesPlace, Opens, Closes, StartsPart, StaysWithin, Passes
  <2>. QED BY <2>1, <2>2 DEF HeldCall
<1>5. CASE e.kind \notin {"output_item.added", "output_item.done"}
  <2>1. PICK call : call = d.function_call[1]  OBVIOUS
  <2>2. o.function_call = IF e.kind \in InputEvents /\ d.function_call # None
                          THEN Some(TakeInput(call, e)) ELSE d.function_call
    BY <1>2, <1>5, <2>1 DEF CallAfter
  <2>3. o.item_open = d.item_open
    BY <1>5 DEF MovesPlace, Opens, Closes, StartsPart, StaysWithin, Passes, SamePlace, SameItem
  <2>4. HeldCall(o)
    BY <1>2, <1>5, <2>2, <2>3 DEF HeldCall, Gathered, Some, None
  <2>5. ASSUME o.function_call # None
        PROVE  CallFits(o.function_call[1], t[LastIn(t, n)].item[1], Concat(Pieces(t, n)))
    <3>1. d.function_call # None  BY <2>2, <2>5
    <3>2. d.item_open  BY <3>1 DEF Books
    <3>3. AddedIn(s, l) # {}  BY <1>1, <3>2 DEF Linked
    <3>4. PICK item, texts : item = s[LastIn(s, l)].item[1] /\ texts = Concat(Pieces(s, l))
      OBVIOUS
    <3>5. CallFits(call, item, texts)  BY <1>1, <2>1, <3>1, <3>4 DEF Gathered
    <3>6. t[LastIn(t, n)].item[1] = item
      <4>1. LastIn(t, n) = LastIn(s, l) /\ t[LastIn(s, l)] = s[LastIn(s, l)]
        BY <1>1, <1>5, <3>3, OtherAdds
      <4>. QED BY <3>4, <4>1
    <3>7. Concat(Pieces(t, n)) = texts \o InputFragment(e)
      BY <1>1, <1>5, <3>3, <3>4, PiecesGrow
    <3>8. item \in NativeItems /\ texts \in Seq(Text) /\ call \in Calls
      <4>1. texts \in Seq(Text)  BY <1>1, <3>3, <3>4, PiecesType
      <4>2. call \in Calls  BY <2>1, <3>1, SomeTypes DEF Decoders
      <4>3. item \in NativeItems  BY <3>5 DEF CallFits
      <4>. QED BY <4>1, <4>2, <4>3
    <3>9. /\ e.kind \in InputEvents => CallFits(TakeInput(call, e), item, texts \o InputFragment(e))
          /\ e.kind \notin InputEvents => CallFits(call, item, texts \o InputFragment(e))
      BY <3>5, <3>8, InputReads
    <3>10. o.function_call[1] = IF e.kind \in InputEvents THEN TakeInput(call, e) ELSE call
      BY <2>1, <2>2, <3>1 DEF Some
    <3>. QED BY <3>6, <3>7, <3>9, <3>10
  <2>. QED BY <1>1, <2>4, <2>5
<1>. QED BY <1>3, <1>4, <1>5

(* An accepted event keeps all of it. *)
LEMMA GatheredMoves ==
  ASSUME NEW s \in Seq(Events), NEW e \in Events, NEW d \in Decoders, NEW o, Books(d),
         Linked(s, d), Gathered(s, d), MovesPlace(d, e, o), MovesBlocks(d, e, o)
  PROVE  Gathered(Append(s, e), o)
<1>1. PICK t, n : t = Append(s, e) /\ n = Len(s) + 1  OBVIOUS
<1>2. Len(t) = n  BY <1>1
<1>3. /\ o.next_block_index = Cardinality(KeptTo(t, n))
      /\ o.block_open <=> PartIn(t, n)
      /\ o.block_open => o.block_index = PartIndex(t, n)
      /\ o.tool_use_seen <=> CalledIn(t, n)
  BY <1>1, GatheredBlocks
<1>4. /\ HeldCall(o)
      /\ o.function_call # None =>
           CallFits(o.function_call[1], t[LastIn(t, n)].item[1], Concat(Pieces(t, n)))
  BY <1>1, GatheredCall
<1>5. Gathered(t, o)  BY <1>2, <1>3, <1>4 DEF Gathered
<1>. QED BY <1>1, <1>5

(* What is handed over at an event is what the history says of it. *)
LEMMA SaidNow ==
  ASSUME TypeOK, NEW s \in Seq(Events), NEW e \in Events, NEW o, Linked(s, dec),
         Gathered(s, dec), MovesPlace(dec, e, o), MovesBlocks(dec, e, o)
  PROVE  Said(Append(s, e), Len(s) + 1) = OutputNow(e)
<1>1. PICK t, l, n, i : t = Append(s, e) /\ l = Len(s) /\ n = Len(s) + 1 /\ i = dec.next_block_index
  OBVIOUS
<1>2. l \in Nat /\ n - 1 = l /\ t[n] = e /\ l \in 0..Len(s) /\ Len(s) = l
  BY <1>1
<1>3. /\ KeptTo(t, l) = KeptTo(s, l) /\ PartIn(t, l) = PartIn(s, l)
      /\ PartIn(s, l) => PartIndex(t, l) = PartIndex(s, l)
      /\ CalledIn(t, l) = CalledIn(s, l)
  BY <1>1, <1>2, BlocksStay
<1>4. /\ i = Cardinality(KeptTo(s, l)) /\ (dec.block_open <=> PartIn(s, l))
      /\ dec.block_open => dec.block_index = PartIndex(s, l)
      /\ dec.tool_use_seen <=> CalledIn(s, l)
      /\ dec.function_call # None =>
           CallFits(dec.function_call[1], s[LastIn(s, l)].item[1], Concat(Pieces(s, l)))
  BY <1>1 DEF Gathered
<1>5. PICK kept, open, p, call, called :
        /\ kept = KeptIn(t, n) /\ open = PartIn(t, l) /\ p = PartIndex(t, l)
        /\ call = CallIn(t, n, i) /\ called = CalledIn(t, l)
  OBVIOUS
<1>6. PICK kept2, open2, p2, call2, called2 :
        /\ kept2 = StartsBlock(dec, e) /\ open2 = dec.block_open /\ p2 = dec.block_index
        /\ call2 = CallUnit(i, dec.function_call[1], e.item[1]) /\ called2 = dec.tool_use_seen
  OBVIOUS
<1>7. Said(t, n) = Output(e, i, kept, open, p, call, called)
  BY <1>2, <1>3, <1>4, <1>5, Zenon DEF Said
<1>8. OutputNow(e) = Output(e, i, kept2, open2, p2, call2, called2)
  BY <1>1, <1>6, Zenon DEF OutputNow
<1>9. called = called2
  <2>1. called2 \in BOOLEAN  BY <1>6 DEF TypeOK, Decoders
  <2>2. called \in BOOLEAN  BY <1>5 DEF CalledIn
  <2>. QED BY <1>3, <1>4, <1>5, <1>6, <2>1, <2>2
<1>10. kept <=> kept2  BY <1>1, <1>5, <1>6, StartsKept
<1>11. kept => e.kind \in PartAdded  BY <1>2, <1>5 DEF KeptIn
<1>12. (open <=> open2) /\ (open => p = p2)  BY <1>3, <1>4, <1>5, <1>6
<1>13. DoneKept(e) /\ e.item[1].kind \in CallItems => call = call2
  <2>1. SUFFICES ASSUME DoneKept(e), e.item[1].kind \in CallItems
                 PROVE  call = call2
    OBVIOUS
  <2>2. e.kind = "output_item.done" /\ e.kind # "output_item.added" /\ e.kind \notin InputDeltas
    BY <2>1 DEF DoneKept, InputDeltas
  <2>3. dec.function_call # None /\ e.item[1].input # None /\ e.item[1] \in NativeItems
    BY <2>1, <2>2 DEF MovesBlocks
  <2>4. dec.item_open  BY <2>3 DEF TypeOK
  <2>5. AddedIn(s, l) # {}  BY <1>1, <2>4 DEF Linked
  <2>6. PICK item, texts, done : /\ item = s[LastIn(s, l)].item[1] /\ texts = Concat(Pieces(s, l))
                                 /\ done = e.item[1]
    OBVIOUS
  <2>7. CallFits(dec.function_call[1], item, texts)  BY <1>4, <2>3, <2>6
  <2>8. item \in NativeItems /\ texts \in Seq(Text)
    BY <1>1, <2>5, <2>6, <2>7, PiecesType DEF CallFits
  <2>9. t[LastIn(t, n)].item[1] = item
    <3>1. LastIn(t, n) = LastIn(s, l) /\ t[LastIn(s, l)] = s[LastIn(s, l)]
      BY <1>1, <2>2, <2>5, OtherAdds
    <3>. QED BY <2>6, <3>1
  <2>10. Concat(Pieces(t, n)) = texts
    <3>1. Concat(Pieces(t, n)) = texts \o InputFragment(e)
      BY <1>1, <2>2, <2>5, <2>6, PiecesGrow
    <3>2. InputFragment(e) = <<>>  BY <2>2, Zenon DEF InputFragment
    <3>3. texts \o <<>> = texts  BY <2>8
    <3>. QED BY <3>1, <3>2, <3>3
  <2>11. call = CallOf(i, item, texts, done.input[1])
    BY <1>2, <1>5, <2>6, <2>9, <2>10, Zenon DEF CallIn
  <2>12. call2 = CallOf(i, item, texts, done.input[1])
    BY <1>6, <2>3, <2>6, <2>7, <2>8, CallReads
  <2>. QED BY <2>11, <2>12
<1>14. Output(e, i, kept, open, p, call, called) = Output(e, i, kept2, open2, p2, call2, called)
  BY <1>10, <1>11, <1>12, <1>13, OutputSame
<1>15. Said(t, n) = OutputNow(e)  BY <1>7, <1>8, <1>9, <1>14
<1>. QED BY <1>1, <1>15

(* What the history says of an event does not depend on the later ones. *)
LEMMA SaidStays ==
  ASSUME NEW s \in Seq(Events), NEW e \in Events, NEW k \in 1..Len(s), Fits(s, k - 1, s[k])
  PROVE  Said(Append(s, e), k) = Said(s, k)
<1>1. PICK t, j, f : t = Append(s, e) /\ j = k - 1 /\ f = s[k]  OBVIOUS
<1>2. j \in 0..Len(s) /\ k \in 0..Len(s) /\ t[k] = f /\ f \in Events  BY <1>1
<1>3. /\ KeptTo(t, j) = KeptTo(s, j) /\ PartIn(t, j) = PartIn(s, j)
      /\ PartIn(s, j) => PartIndex(t, j) = PartIndex(s, j)
      /\ CalledIn(t, j) = CalledIn(s, j)
  BY <1>1, <1>2, BlocksStay
<1>4. PICK i, called : i = Cardinality(KeptTo(s, j)) /\ called = CalledIn(s, j)
  OBVIOUS
<1>5. PICK kept, open, p, call :
        /\ kept = KeptIn(t, k) /\ open = PartIn(t, j) /\ p = PartIndex(t, j)
        /\ call = CallIn(t, k, i)
  OBVIOUS
<1>6. PICK kept2, open2, p2, call2 :
        /\ kept2 = KeptIn(s, k) /\ open2 = PartIn(s, j) /\ p2 = PartIndex(s, j)
        /\ call2 = CallIn(s, k, i)
  OBVIOUS
<1>7. Said(t, k) = Output(f, i, kept, open, p, call, called)
  BY <1>1, <1>2, <1>3, <1>4, <1>5, Zenon DEF Said
<1>8. Said(s, k) = Output(f, i, kept2, open2, p2, call2, called)
  BY <1>1, <1>4, <1>6, Zenon DEF Said
<1>9. (kept <=> kept2) /\ (kept => f.kind \in PartAdded)
  <2>1. KeptIn(t, k) <=> KeptIn(s, k)  BY <1>1, KeptStays
  <2>. QED BY <1>2, <1>5, <1>6, <2>1 DEF KeptIn
<1>10. (open <=> open2) /\ (open => p = p2)  BY <1>3, <1>5, <1>6
<1>11. DoneKept(f) /\ f.item[1].kind \in CallItems => call = call2
  <2>1. SUFFICES ASSUME f.kind = "output_item.done"
                 PROVE  call = call2
    BY DEF DoneKept
  <2>2. AddedIn(s, j) # {}  BY <1>1, <2>1 DEF Fits
  <2>3. AddedIn(s, k) # {}
    <3>1. AddedIn(s, j) \subseteq AddedIn(s, k)  BY <1>1, <1>2 DEF AddedIn
    <3>. QED BY <2>2, <3>1
  <2>4. Pieces(t, k) = Pieces(s, k) /\ t[LastIn(t, k)] = s[LastIn(s, k)]
    BY <1>1, <1>2, <2>3, PiecesStay
  <2>5. t[k] = s[k]  BY <1>1, <1>2
  <2>. QED BY <1>5, <1>6, <2>4, <2>5, Zenon DEF CallIn
<1>12. Output(f, i, kept, open, p, call, called) = Output(f, i, kept2, open2, p2, call2, called)
  BY <1>9, <1>10, <1>11, OutputSame
<1>. QED BY <1>1, <1>7, <1>8, <1>12

(* The output grows by what the last event stands for. *)
LEMMA SaidGrows ==
  ASSUME NEW s \in Seq(Events), NEW e \in Events, NEW u \in Seq(IrEvents),
         Said(Append(s, e), Len(s) + 1) = u,
         \A k \in 1..Len(s) : Fits(s, k - 1, s[k]) /\ Said(s, k) \in Seq(IrEvents)
  PROVE  /\ Concat(AllSaid(Append(s, e))) = Concat(AllSaid(s)) \o u
         /\ \A k \in 1..Len(Append(s, e)) : Said(Append(s, e), k) \in Seq(IrEvents)
<1>1. PICK t, l, f, g : t = Append(s, e) /\ l = Len(s) /\ f = AllSaid(s) /\ g = AllSaid(t)
  OBVIOUS
<1>2. l \in Nat /\ Len(t) = l + 1  BY <1>1
<1>3. f = [k \in 1..l |-> Said(s, k)] /\ g = [k \in 1..(l + 1) |-> Said(t, k)]
  BY <1>1, <1>2 DEF AllSaid
<1>4. \A k \in 1..l : Said(t, k) = Said(s, k) /\ Said(s, k) \in Seq(IrEvents)
  BY <1>1, SaidStays
<1>5. \A k \in 1..(l + 1) : k \in 1..l \/ k = l + 1  BY <1>2
<1>6. \A k \in 1..(l + 1) : Said(t, k) \in Seq(IrEvents)  BY <1>1, <1>4, <1>5
<1>7. \A k \in 1..l : g[k] = f[k]
  <2>1. \A k \in 1..l : k \in 1..(l + 1)  BY <1>2
  <2>. QED BY <1>3, <1>4, <2>1
<1>8. g[l + 1] = u
  <2>1. l + 1 \in 1..(l + 1)  BY <1>2
  <2>. QED BY <1>1, <1>3, <2>1
<1>9. f \in [1..l -> Seq(IrEvents)] /\ g \in [1..(l + 1) -> Seq(IrEvents)]
  BY <1>3, <1>4, <1>6
<1>10. Concat(g) = Concat(f) \o g[l + 1]  BY <1>2, <1>7, <1>9, ConcatGrows
<1>. QED BY <1>1, <1>2, <1>6, <1>8, <1>10

(* What came out so far is what the history says of it, and the struct
   remembers what the next events need. *)
OutInv ==
  ~failed =>
    /\ dec.events = Concat(AllSaid(fed))
    /\ \A k \in 1..Len(fed) : Said(fed, k) \in Seq(IrEvents)
    /\ Gathered(fed, dec)

LEMMA OutInit ==
  ASSUME Init
  PROVE  OutInv
<1>1. /\ fed = <<>> /\ dec.events = <<>> /\ dec.next_block_index = 0 /\ ~dec.block_open
      /\ ~dec.tool_use_seen /\ ~dec.item_open /\ dec.function_call = None
  BY Zenon DEF Init, NewDecoder
<1>2. Len(fed) = 0 /\ AllSaid(fed) = <<>>  BY <1>1 DEF AllSaid
<1>3. KeptTo(fed, 0) = {} /\ ~PartIn(fed, 0) /\ ~CalledIn(fed, 0)
  BY DEF KeptTo, PartIn, AmongIn, CalledIn
<1>4. Gathered(fed, dec)
  BY <1>1, <1>2, <1>3, FS_EmptySet DEF Gathered, HeldCall
<1>. QED BY <1>1, <1>2, <1>4, ConcatEmpty DEF OutInv

LEMMA OutAccepted ==
  ASSUME TypeOK, NestInv, OutInv, ~failed, NEW e \in Events, Accepted(e), Speaks(e)
  PROVE  OutInv'
<1>1. PICK s, t, o, u : s = fed /\ t = fed' /\ o = dec' /\ u = OutputNow(e)
  OBVIOUS
<1>2. /\ s \in Seq(Events) /\ t = Append(s, e) /\ Linked(s, dec) /\ MovesPlace(dec, e, o)
      /\ MovesBlocks(dec, e, o) /\ o.events = dec.events \o u
      /\ dec.events = Concat(AllSaid(s)) /\ Gathered(s, dec)
      /\ \A k \in 1..Len(s) : Fits(s, k - 1, s[k]) /\ Said(s, k) \in Seq(IrEvents)
  BY <1>1 DEF NestInv, OutInv, Accepted, Speaks
<1>3. dec \in Decoders /\ Books(dec)  BY TypeOKIsSound DEF Sound
<1>4. u \in Seq(IrEvents)  BY <1>1, <1>2, NowType
<1>5. Said(t, Len(s) + 1) = u  BY <1>1, <1>2, SaidNow
<1>6. /\ Concat(AllSaid(t)) = Concat(AllSaid(s)) \o u
      /\ \A k \in 1..Len(t) : Said(t, k) \in Seq(IrEvents)
  BY <1>2, <1>4, <1>5, SaidGrows
<1>7. Gathered(t, o)  BY <1>2, <1>3, GatheredMoves
<1>8. o.events = Concat(AllSaid(t))  BY <1>2, <1>6
<1>. QED BY <1>1, <1>6, <1>7, <1>8 DEF OutInv

(* A step stutters, fails, confirms the end, or hands over the output of
   an event. *)
LEMMA SpeakingForms ==
  ASSUME TypeOK, TypeOK', ~failed, Holds(dec), HeldCall(dec), [Next]_vars
  PROVE  \/ UNCHANGED vars
         \/ failed'
         \/ UNCHANGED <<fed, failed>> /\ SameBlocks(dec', dec) /\ dec'.events = dec.events
         \/ \E e \in Events : Accepted(e) /\ Speaks(e)
<1>1. ASSUME NEW e \in Events, Feed(e)
      PROVE  failed' \/ (Accepted(e) /\ Speaks(e))
  <2>1. (Fails \/ Accepted(e)) /\ (Fails \/ Speaks(e))
    BY <1>1, FeedAccepted, FeedSpeaks
  <2>. QED BY <2>1 DEF Fails
<1>2. CASE FlushRefused  BY <1>2 DEF FlushRefused
<1>3. CASE FlushConfirmed
  <2>1. dec \in Decoders /\ dec' = [dec EXCEPT !.flushed = TRUE] /\ UNCHANGED <<fed, failed>>
    BY <1>3 DEF FlushConfirmed, TypeOK
  <2>. QED BY <2>1 DEF Decoders, SameBlocks
<1>. QED BY <1>1, <1>2, <1>3 DEF Next, Flush

LEMMA OutStep ==
  ASSUME TypeOK, TypeOK', NestInv, OutInv, [Next]_vars
  PROVE  OutInv'
<1>1. CASE failed'  BY <1>1 DEF OutInv
<1>2. CASE ~failed'
  <2>1. ~failed  BY <1>2, StaysFailed
  <2>2. Holds(dec) /\ HeldCall(dec)  BY <2>1 DEF NestInv, OutInv, Gathered
  <2>3. CASE UNCHANGED vars  BY <2>3 DEF OutInv, vars
  <2>4. CASE UNCHANGED <<fed, failed>> /\ SameBlocks(dec', dec) /\ dec'.events = dec.events
    <3>1. PICK s, d, o : s = fed /\ d = dec /\ o = dec'  OBVIOUS
    <3>2. Gathered(s, d) /\ SameBlocks(o, d)  BY <2>1, <2>4, <3>1 DEF OutInv
    <3>3. Gathered(s, o)  BY <3>2 DEF Gathered, SameBlocks, HeldCall
    <3>. QED BY <2>1, <2>4, <3>1, <3>3 DEF OutInv
  <2>5. CASE \E e \in Events : Accepted(e) /\ Speaks(e)
    BY <2>1, <2>5, OutAccepted
  <2>. QED BY <1>2, <2>1, <2>2, <2>3, <2>4, <2>5, SpeakingForms
<1>. QED BY <1>1, <1>2

(* The output is the one the property reads off the history. *)
LEMMA SaidMeans ==
  ASSUME fed \in Seq(Events), \A k \in 1..Len(fed) : Fits(fed, k - 1, fed[k]),
         NEW k \in 1..Len(fed)
  PROVE  OutputOf(k) = Said(fed, k)
<1>1. Len(fed) \in Nat /\ k \in Nat /\ k - 1 \in Nat /\ \A j \in 1..(k - 1) : j \in 1..Len(fed)
  OBVIOUS
<1>2. /\ \A j : AddedUpTo(j) = AddedIn(fed, j) /\ AddedAt(j) = LastIn(fed, j)
      /\ \A i, j, kinds : Among(i, j, kinds) = AmongIn(fed, i, j, kinds)
  BY DEF AddedUpTo, AddedAt, AddedIn, LastIn, Among, AmongIn
<1>3. ASSUME NEW j \in 1..Len(fed)
      PROVE  IsKeptPart(j) <=> KeptIn(fed, j)
  <2>1. CASE fed[j].kind \in PartAdded
    <3>1. fed[j].kind \in NestedKinds  BY <2>1, KindsDiffer
    <3>2. AddedIn(fed, j - 1) # {}  BY <3>1 DEF Fits
    <3>3. AddedIn(fed, j - 1) \subseteq AddedIn(fed, j)
      <4>1. \A i \in 1..(j - 1) : i \in 1..j  OBVIOUS
      <4>. QED BY <4>1 DEF AddedIn
    <3>. QED BY <1>2, <2>1, <3>2, <3>3 DEF IsKeptPart, KeptIn, AddedItem
  <2>2. CASE fed[j].kind \notin PartAdded  BY <2>2 DEF IsKeptPart, KeptIn
  <2>. QED BY <2>1, <2>2
<1>4. ASSUME NEW j
      PROVE  /\ BlockAtDone(j) = DoneBlock(fed[j])
             /\ IsKeptDone(j) <=> DoneKept(fed[j])
  <2>1. BlockAtDone(j) = DoneBlock(fed[j])  BY Zenon DEF BlockAtDone, DoneBlock
  <2>. QED BY <2>1 DEF IsKeptDone, DoneKept
<1>5. ASSUME NEW n \in 0..Len(fed)
      PROVE  KeptBefore(n + 1) = Cardinality(KeptTo(fed, n))
  <2>1. \A j \in 1..n : IsKept(j) <=> HandedIn(fed, j)
    <3>1. \A j \in 1..n : j \in 1..Len(fed)  BY <1>1
    <3>. QED BY <1>3, <1>4, <3>1 DEF IsKept, HandedIn
  <2>2. (n + 1) - 1 = n  OBVIOUS
  <2>3. {j \in 1..((n + 1) - 1) : IsKept(j)} = KeptTo(fed, n)
    BY <2>1, <2>2 DEF KeptTo
  <2>. QED BY <2>3 DEF KeptBefore
<1>6. PartBefore(k) = LastPart(fed, k - 1)  BY <1>2 DEF PartBefore, LastPart
<1>7. AmongIn(fed, 1, k - 1, PartAdded) # {} => LastPart(fed, k - 1) \in 1..(k - 1)
  <2>1. AmongIn(fed, 1, k - 1, PartAdded) \subseteq 1..(k - 1)  BY DEF AmongIn
  <2>. QED BY <1>1, <2>1, LastPosition DEF LastPart
<1>8. InKeptPart(k) <=> PartIn(fed, k - 1)
  BY <1>1, <1>2, <1>3, <1>6, <1>7 DEF InKeptPart, PartIn
<1>9. InKeptPart(k) => KeptBefore(PartBefore(k)) = PartIndex(fed, k - 1)
  <2>1. SUFFICES ASSUME InKeptPart(k)
                 PROVE  KeptBefore(PartBefore(k)) = PartIndex(fed, k - 1)
    OBVIOUS
  <2>2. PICK p : p = LastPart(fed, k - 1)  OBVIOUS
  <2>3. p \in 1..(k - 1)  BY <1>7, <1>8, <2>1, <2>2 DEF PartIn
  <2>4. p - 1 \in 0..Len(fed) /\ (p - 1) + 1 = p  BY <1>1, <2>3
  <2>5. KeptBefore(p) = Cardinality(KeptTo(fed, p - 1))  BY <1>5, <2>4
  <2>. QED BY <1>6, <2>2, <2>5 DEF PartIndex
<1>10. KeptBefore(k) = Cardinality(KeptTo(fed, k - 1))
  <2>1. k - 1 \in 0..Len(fed) /\ (k - 1) + 1 = k  BY <1>1
  <2>. QED BY <1>5, <2>1
<1>11. CalledBefore(k) = CalledIn(fed, k - 1)
  BY <1>4, Zenon DEF CalledBefore, CalledIn, Calling
<1>12. ASSUME NEW i
       PROVE  CallReading(i, k) = CallIn(fed, k, i)
  <2>1. InputFragments(k) = Concat(Pieces(fed, k))
    BY <1>2 DEF InputFragments, Pieces
  <2>2. AddedItem(k) = fed[LastIn(fed, k)].item[1]  BY <1>2 DEF AddedItem
  <2>. QED BY <2>1, <2>2, Zenon DEF CallReading, CallIn, CallOf, DeltasOf
<1>13. PICK e, i, g, h, first, start, delta, stop, unit, unit2, pair, none :
         /\ e = fed[k] /\ i = KeptBefore(k)
         /\ g = OutputOf(k)
         /\ h = Output(e, i, IsKeptPart(k), InKeptPart(k), KeptBefore(PartBefore(k)),
                       CallReading(i, k), CalledBefore(k))
         /\ first = <<MessageStart>>
         /\ start = <<BlockStart(i, PartBlock(e))>>
         /\ delta = <<BlockDelta(KeptBefore(PartBefore(k)), DeltaOf(e))>>
         /\ stop = <<BlockStop(KeptBefore(PartBefore(k)))>>
         /\ unit = DoneReading(i, k)
         /\ unit2 = (IF e.item[1].kind \in CallItems THEN CallReading(i, k)
                     ELSE Unit(i, DoneBlock(e)[1], <<>>))
         /\ pair = PairOf(e, CalledBefore(k))
         /\ none = <<>>
  OBVIOUS
<1>14. pair = TerminalPair(k)  BY <1>13, Zenon DEF TerminalPair, PairOf
<1>15. unit = unit2  BY <1>4, <1>13, Zenon DEF DoneReading
<1>16. g = CASE e.kind = "created" -> first
             [] IsKeptPart(k) -> start
             [] e.kind \in TextDelta /\ InKeptPart(k) -> delta
             [] e.kind \in PartDone /\ InKeptPart(k) -> stop
             [] IsKeptDone(k) -> unit
             [] e.kind \in Terminals -> pair
             [] OTHER -> none
  BY <1>13, <1>14, Zenon DEF OutputOf
<1>17. h = CASE e.kind = "created" -> first
             [] IsKeptPart(k) -> start
             [] e.kind \in TextDelta /\ InKeptPart(k) -> delta
             [] e.kind \in PartDone /\ InKeptPart(k) -> stop
             [] DoneKept(e) -> unit2
             [] e.kind \in Terminals -> pair
             [] OTHER -> none
  BY <1>13, Zenon DEF Output
<1>18. IsKeptDone(k) <=> DoneKept(e)  BY <1>4, <1>13
<1>19. g = h
  <2>1. /\ DoneKept(e) => e.kind = "output_item.done"
        /\ IsKeptPart(k) => e.kind \in PartAdded
    BY <1>13 DEF DoneKept, IsKeptPart
  <2>. QED BY <1>15, <1>16, <1>17, <1>18, <2>1 DEF PartAdded, TextDelta, PartDone, Terminals
<1>20. Said(fed, k) = Output(e, i, KeptIn(fed, k), PartIn(fed, k - 1), PartIndex(fed, k - 1),
                             CallIn(fed, k, i), CalledBefore(k))
  BY <1>10, <1>11, <1>13, Zenon DEF Said
<1>21. h = Output(e, i, KeptIn(fed, k), PartIn(fed, k - 1), PartIndex(fed, k - 1),
                  CallIn(fed, k, i), CalledBefore(k))
  <2>1. PICK kept, open, p, call, called, kept2, open2, p2, call2 :
          /\ kept = IsKeptPart(k) /\ open = InKeptPart(k) /\ p = KeptBefore(PartBefore(k))
          /\ call = CallReading(i, k) /\ called = CalledBefore(k)
          /\ kept2 = KeptIn(fed, k) /\ open2 = PartIn(fed, k - 1) /\ p2 = PartIndex(fed, k - 1)
          /\ call2 = CallIn(fed, k, i)
    OBVIOUS
  <2>2. (kept <=> kept2) /\ (open <=> open2) /\ (open => p = p2) /\ call = call2
    BY <1>3, <1>8, <1>9, <1>12, <2>1
  <2>3. kept => e.kind \in PartAdded  BY <1>13, <2>1 DEF IsKeptPart
  <2>4. Output(e, i, kept, open, p, call, called) = Output(e, i, kept2, open2, p2, call2, called)
    BY <2>2, <2>3, OutputSame
  <2>. QED BY <1>13, <2>1, <2>4, Zenon
<1>. QED BY <1>13, <1>19, <1>20, <1>21

(* For every set of provider events, as long as no call has failed: what
   comes out is, event by event, what came in.  Every part and item the IR
   can carry is a block under the next index, text goes into the block of
   its part, a call is handed over when its item is done, under the name
   its start gave and with its fragments in order, and the end gives the
   reason and the usage of the response; nothing else comes out. *)
THEOREM DecoderIsItemwise == Spec => []OutputIsItemwise
<1>1. Init => TypeOK /\ NestInv /\ OutInv  BY InitTypeOK, NestInit, OutInit
<1>2. TypeOK /\ TypeOK' /\ NestInv /\ [Next]_vars => NestInv'  BY NestStep
<1>3. TypeOK /\ TypeOK' /\ NestInv /\ OutInv /\ [Next]_vars => OutInv'
  BY OutStep
<1>4. NestInv /\ OutInv => OutputIsItemwise
  <2>1. SUFFICES ASSUME NestInv, OutInv, ~failed
                 PROVE  dec.events = Concat([k \in 1..Len(fed) |-> OutputOf(k)])
    BY DEF OutputIsItemwise
  <2>2. [k \in 1..Len(fed) |-> OutputOf(k)] = AllSaid(fed)
    BY <2>1, SaidMeans DEF NestInv, AllSaid
  <2>. QED BY <2>1, <2>2 DEF OutInv
<1>. QED BY <1>1, <1>2, <1>3, <1>4, DecoderTypeCorrect, PTL DEF Spec
=============================================================================
