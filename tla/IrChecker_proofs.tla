-------------------------- MODULE IrChecker_proofs --------------------------
(***************************************************************************)
(* Theorems about IrChecker, for every set of events and every bound.      *)
(*                                                                         *)
(* The grammar of IrStream speaks of adjacent events, the checker keeps a  *)
(* phase, an open block and an index.  The inductive invariant Linked says *)
(* what the checker's state remembers of the last event it read; with it,  *)
(* a legal event is one that may follow that last event.                   *)
(***************************************************************************)
EXTENDS IrChecker, IrStream_proofs, TLAPS

(* The family of deltas that an open block of this kind takes. *)
Family(kind) ==
  CASE kind = "Text" -> "text"
    [] kind = "Thinking" -> "thinking"
    [] kind = "Tool" -> "tool"
    [] kind = "CustomTool" -> "custom"
    [] OTHER -> "atomic"

AtStart == phase = "NeedStart" /\ stream = <<>> /\ next_index = 0 /\ open = Closed

BetweenBlocks ==
  /\ phase = "Blocks" /\ open = Closed /\ stream # <<>>
  /\ \/ Last(stream).type = "message_start" /\ next_index = 0
     \/ IsStop(Last(stream)) /\ next_index = Last(stream).index + 1

InBlock ==
  /\ phase = "Blocks" /\ open # Closed /\ stream # <<>>
  /\ Last(stream).index = open.index
  /\ \/ IsStart(Last(stream)) /\ BlockFamily(Last(stream).block) = Family(open.kind) /\ ~open.signature_seen
     \/ IsDelta(Last(stream)) /\ DeltaFamily(Last(stream).delta) = Family(open.kind)
        /\ (Last(stream).delta.type = "signature_delta" <=> open.signature_seen)

AfterDelta ==
  phase = "NeedMessageDone" /\ open = Closed /\ stream # <<>> /\ Last(stream).type = "message_delta"

AfterDone ==
  phase = "Done" /\ open = Closed /\ stream # <<>> /\ Last(stream).type = "message_done"

Linked ==
  verdict # "violation" => AtStart \/ BetweenBlocks \/ InBlock \/ AfterDelta \/ AfterDone

Finished == verdict = "accepted" => phase = "Done"

IInv ==
  /\ TypeOK
  /\ Linked
  /\ Finished
  /\ verdict # "violation" => WellFormed(stream)

-----------------------------------------------------------------------------
(* Type correctness *)

(* Any event may be read; what is left to show is the state of the block. *)
LEMMA ReadsStream ==
  ASSUME TypeOK, NEW e \in Events, Reads(e)
  PROVE  /\ stream' \in Seq(Events) /\ lenient' \in BOOLEAN
         /\ stream' = Append(stream, e) /\ verdict = "reading"
BY AppendFacts DEF TypeOK, Reads

(* A start opens a block of the kind and index it carries. *)
LEMMA OpenedType ==
  ASSUME NEW e \in Events, IsStart(e), e.index \in Nat
  PROVE  /\ Opened(e) \in OpenBlocks
         /\ Opened(e).kind = OpenKind(e.block) /\ OpenKind(e.block) \in OpenKinds
         /\ Opened(e).index = e.index /\ ~Opened(e).signature_seen
<1>1. InputOf(e.block) \in Text
  <2>1. e.block.text \in Text  BY EventsAssumption
  <2>2. <<>> \in Text  BY DEF Text
  <2>. QED BY <2>1, <2>2 DEF InputOf
<1>2. OpenKind(e.block) \in OpenKinds  BY DEF OpenKind, OpenKinds
<1>3. <<>> \in Text  BY DEF Text
<1>. QED BY <1>1, <1>2, <1>3 DEF Opened, OpenBlock, OpenBlocks

(* The value that stands for "no open block". *)
LEMMA ClosedType == Closed \in OpenBlocks /\ Closed.kind \notin OpenKinds
BY DEF Closed, OpenBlock, OpenBlocks, OpenKinds, Text

(* An absorbed delta changes neither the kind nor the index of the block. *)
LEMMA AbsorbedType ==
  ASSUME NEW o \in OpenBlocks, NEW d, d.text \in Text
  PROVE  /\ Absorbed(o, d) \in OpenBlocks
         /\ Absorbed(o, d).kind = o.kind /\ Absorbed(o, d).index = o.index
         /\ Absorbed(o, d).signature_seen
              <=> (o.signature_seen \/ d.type = "signature_delta")
<1>1. CASE d.type = "signature_delta"  BY <1>1 DEF Absorbed, OpenBlocks
<1>2. CASE d.type \in {"input_json_delta", "custom_tool_input_delta"}
  <2>1. o.fragments \o d.text \in Text /\ o.fragment_count + 1 \in Nat
    BY DEF OpenBlocks, Text
  <2>. QED BY <1>2, <2>1 DEF Absorbed, OpenBlocks
<1>3. CASE d.type \notin {"signature_delta", "input_json_delta", "custom_tool_input_delta"}
  BY <1>3 DEF Absorbed
<1>. QED BY <1>1, <1>2, <1>3

(* The initial states have the right types. *)
LEMMA InitTypeOK == Init => TypeOK
BY ClosedType DEF Init, TypeOK

(* Every step keeps the types: one case per event that is read. *)
LEMMA StepTypeOK == TypeOK /\ [Next]_vars => TypeOK'
<1> SUFFICES ASSUME TypeOK, [Next]_vars
             PROVE  TypeOK'
  OBVIOUS
<1>1. ASSUME NEW e \in Events, ReadMessageStart(e)
      PROVE  TypeOK'
  <2>1. Reads(e)  BY <1>1 DEF ReadMessageStart, ReadsLegal
  <2>. QED BY <1>1, <2>1, ReadsStream DEF ReadMessageStart, ReadsLegal, TypeOK
<1>2. ASSUME NEW e \in Events, ReadBlockStart(e)
      PROVE  TypeOK'
  <2>1. Reads(e) /\ IsStart(e) /\ e.index = next_index
    BY <1>2 DEF ReadBlockStart, ReadsLegal, Legal, IsStart
  <2>2. /\ Opened(e) \in OpenBlocks /\ Opened(e).kind \in OpenKinds
        /\ Opened(e).index = next_index
    BY <2>1, OpenedType DEF TypeOK
  <2>. QED BY <1>2, <2>1, <2>2, ReadsStream DEF ReadBlockStart, ReadsLegal, TypeOK
<1>3. ASSUME NEW e \in Events, ReadBlockDelta(e)
      PROVE  TypeOK'
  <2>1. Reads(e) /\ open # Closed  BY <1>3 DEF ReadBlockDelta, ReadsLegal, Legal
  <2>2. e.delta.text \in Text
    BY <1>3, EventsAssumption DEF ReadBlockDelta, IsDelta
  <2>3. /\ Absorbed(open, e.delta) \in OpenBlocks
        /\ Absorbed(open, e.delta).kind = open.kind
        /\ Absorbed(open, e.delta).index = open.index
    BY <2>2, AbsorbedType DEF TypeOK
  <2>. QED BY <1>3, <2>1, <2>3, ReadsStream DEF ReadBlockDelta, ReadsLegal, TypeOK
<1>4. ASSUME NEW e \in Events, ReadBlockStop(e)
      PROVE  TypeOK'
  <2>1. Reads(e)  BY <1>4 DEF ReadBlockStop, ReadsLegal
  <2>. QED BY <1>4, <2>1, ReadsStream, ClosedType DEF ReadBlockStop, ReadsLegal, TypeOK
<1>5. ASSUME NEW e \in Events, ReadMessageDelta(e)
      PROVE  TypeOK'
  <2>1. Reads(e)  BY <1>5 DEF ReadMessageDelta, ReadsLegal
  <2>. QED BY <1>5, <2>1, ReadsStream DEF ReadMessageDelta, ReadsLegal, TypeOK
<1>6. ASSUME NEW e \in Events, ReadMessageDone(e)
      PROVE  TypeOK'
  <2>1. Reads(e)  BY <1>6 DEF ReadMessageDone, ReadsLegal
  <2>. QED BY <1>6, <2>1, ReadsStream DEF ReadMessageDone, ReadsLegal, TypeOK
<1>7. ASSUME NEW e \in Events, Violate(e)
      PROVE  TypeOK'
  <2>1. Reads(e)  BY <1>7 DEF Violate
  <2>. QED BY <1>7, <2>1, ReadsStream DEF Violate, TypeOK
<1>8. CASE EndOfStream  BY <1>8 DEF EndOfStream, TypeOK
<1>9. CASE UNCHANGED vars  BY <1>9 DEF vars, TypeOK
<1>. QED BY <1>1, <1>2, <1>3, <1>4, <1>5, <1>6, <1>7, <1>8, <1>9 DEF Next

(* The variables of the checker keep their types, whatever events arrive:
   in particular the open block is always the last one that was started. *)
THEOREM TypeCorrect == Spec => []TypeOK
<1>1. Init => TypeOK  BY InitTypeOK
<1>2. TypeOK /\ [Next]_vars => TypeOK'  BY StepTypeOK
<1>. QED BY <1>1, <1>2, PTL DEF Spec

-----------------------------------------------------------------------------
(* The grammar *)

(* The kinds of open block and the families of the grammar agree. *)
LEMMA Families ==
  ASSUME NEW b
  PROVE  BlockFamily(b) = Family(OpenKind(b))
BY DEF BlockFamily, Family, OpenKind

(* A delta that the open block accepts is of its family. *)
LEMMA AcceptedFamily ==
  ASSUME NEW o, NEW d, Accepts(o, d)
  PROVE  /\ DeltaFamily(d) = Family(o.kind)
         /\ o.kind = "Thinking" => ~o.signature_seen
         /\ d.type = "signature_delta" => o.kind = "Thinking"
BY DEF Accepts, DeltaFamily, Family

(* A legal event is good by itself and may follow the last one read. *)
LEMMA LegalIsAdmitted ==
  ASSUME TypeOK, Linked, verdict = "reading", NEW e \in Events, Legal(e)
  PROVE  Admits(stream, e) /\ EventOK(e)
<1> USE DEF AtStart, BetweenBlocks, InBlock, AfterDelta, AfterDone
<1>0. /\ AtStart \/ BetweenBlocks \/ InBlock \/ AfterDelta \/ AfterDone
      /\ next_index \in Nat
  BY DEF Linked, TypeOK
<1>1. CASE e.type = "message_start" /\ phase = "NeedStart"
  BY <1>0, <1>1 DEF Admits, EventOK, IsStart
<1>2. CASE /\ e.type = "content_block_start" /\ phase = "Blocks" /\ open = Closed
           /\ e.index = next_index /\ StartableBlock(e.block)
  <2>1. EventOK(e)
    BY <1>2 DEF EventOK, StartableBlock, IsStart, ApplyPatchKinds
  <2>2. OpensAt(e, next_index)  BY <1>2 DEF OpensAt, IsStart
  <2>3. stream # <<>> /\ Follows(Last(stream), e)
    BY <1>0, <1>2, <2>2 DEF Follows, IsStart, IsDelta, IsStop
  <2>. QED BY <2>1, <2>3 DEF Admits
<1>3. CASE /\ e.type = "content_block_delta" /\ open # Closed
           /\ e.index = open.index /\ Accepts(open, e.delta)
  <2>1. EventOK(e)  BY <1>3 DEF EventOK, IsStart
  <2>2. InBlock  BY <1>0, <1>3
  <2>3. /\ DeltaFamily(e.delta) = Family(open.kind)
        /\ open.kind = "Thinking" => ~open.signature_seen
    BY <1>3, AcceptedFamily
  <2>4. ASSUME IsStart(Last(stream))
        PROVE  Follows(Last(stream), e)
    <3>1. BlockFamily(Last(stream).block) = Family(open.kind)
      BY <2>2, <2>4 DEF IsStart, IsDelta
    <3>2. Continues(e, Last(stream).index, BlockFamily(Last(stream).block))
      BY <1>3, <2>2, <2>3, <3>1 DEF Continues, IsDelta
    <3>. QED BY <2>4, <3>2, FollowsStart
  <2>5. ASSUME IsDelta(Last(stream))
        PROVE  Follows(Last(stream), e)
    <3>1. /\ DeltaFamily(Last(stream).delta) = Family(open.kind)
          /\ Last(stream).delta.type = "signature_delta" <=> open.signature_seen
      BY <2>2, <2>5 DEF IsStart, IsDelta
    <3>2. Last(stream).delta.type # "signature_delta"
      <4>1. SUFFICES ASSUME Last(stream).delta.type = "signature_delta" PROVE FALSE
        OBVIOUS
      <4>2. Family(open.kind) = "thinking"  BY <4>1, <3>1 DEF DeltaFamily
      <4>3. open.kind = "Thinking"  BY <4>2 DEF Family
      <4>. QED BY <4>1, <4>3, <3>1, <2>3
    <3>3. Continues(e, Last(stream).index, DeltaFamily(Last(stream).delta))
      BY <1>3, <2>2, <2>3, <3>1 DEF Continues, IsDelta
    <3>. QED BY <2>5, <3>2, <3>3, FollowsDelta
  <2>. QED BY <2>1, <2>2, <2>4, <2>5 DEF Admits
<1>4. CASE e.type = "content_block_stop" /\ open # Closed /\ e.index = open.index
  <2>1. EventOK(e)  BY <1>4 DEF EventOK, IsStart
  <2>2. InBlock  BY <1>0, <1>4
  <2>. QED BY <1>4, <2>1, <2>2 DEF Admits, Follows, Continues, IsStart, IsDelta, IsStop
<1>5. CASE /\ e.type = "message_delta" /\ phase = "Blocks" /\ open = Closed
           /\ e.stop_sequence # <<>> => e.stop_reason = "stop_sequence"
  <2>1. EventOK(e)  BY <1>5 DEF EventOK, IsStart
  <2>. QED BY <1>0, <1>5, <2>1 DEF Admits, Follows, OpensAt, IsStart, IsDelta, IsStop
<1>6. CASE e.type = "message_done" /\ phase = "NeedMessageDone"
  BY <1>0, <1>6 DEF Admits, EventOK, Follows, IsStart, IsDelta, IsStop
<1>. QED BY <1>1, <1>2, <1>3, <1>4, <1>5, <1>6 DEF Legal

(* What the checker remembers is again about the last event it read. *)
LEMMA StepLinked ==
  ASSUME TypeOK, Linked, Finished, [Next]_vars
  PROVE  Linked' /\ Finished'
<1> USE DEF AtStart, BetweenBlocks, InBlock, AfterDelta, AfterDone
<1>1. ASSUME NEW e \in Events, Reads(e)
      PROVE  /\ stream' # <<>> /\ Last(stream') = e /\ verdict = "reading"
             /\ AtStart \/ BetweenBlocks \/ InBlock \/ AfterDelta \/ AfterDone
  BY <1>1, AppendFacts DEF Reads, TypeOK, Linked
<1>2. ASSUME NEW e \in Events, ReadMessageStart(e)
      PROVE  BetweenBlocks' /\ verdict' = "reading"
  <2>1. Reads(e) /\ phase = "NeedStart"
    BY <1>2 DEF ReadMessageStart, ReadsLegal, Legal
  <2>2. AtStart  BY <2>1, <1>1
  <2>. QED BY <1>2, <2>1, <2>2, <1>1 DEF ReadMessageStart, ReadsLegal
<1>3. ASSUME NEW e \in Events, ReadBlockStart(e)
      PROVE  InBlock' /\ verdict' = "reading"
  <2>1. Reads(e) /\ IsStart(e) /\ phase = "Blocks" /\ e.index = next_index
    BY <1>3 DEF ReadBlockStart, ReadsLegal, Legal, IsStart
  <2>2. /\ open' = Opened(e) /\ open'.index = e.index /\ ~open'.signature_seen
        /\ open'.kind = OpenKind(e.block) /\ open'.kind \in OpenKinds
    BY <1>3, <2>1, OpenedType DEF ReadBlockStart, TypeOK
  <2>3. open' # Closed  BY <2>2, ClosedType
  <2>4. BlockFamily(e.block) = Family(open'.kind)  BY <2>2, Families
  <2>5. phase' = "Blocks" /\ verdict' = "reading"
    BY <1>3, <2>1, <1>1 DEF ReadBlockStart, ReadsLegal
  <2>. QED BY <2>1, <2>2, <2>3, <2>4, <2>5, <1>1
<1>4. ASSUME NEW e \in Events, ReadBlockDelta(e)
      PROVE  InBlock' /\ verdict' = "reading"
  <2>1. /\ Reads(e) /\ IsDelta(e) /\ open # Closed
        /\ e.index = open.index /\ Accepts(open, e.delta)
    BY <1>4 DEF ReadBlockDelta, ReadsLegal, Legal, IsDelta
  <2>2. InBlock /\ open.kind \in OpenKinds  BY <2>1, <1>1 DEF TypeOK
  <2>3. e.delta.text \in Text  BY <2>1, EventsAssumption
  <2>4. /\ open'.kind = open.kind /\ open'.index = open.index
        /\ open'.signature_seen <=> (open.signature_seen \/ e.delta.type = "signature_delta")
    BY <1>4, <2>3, AbsorbedType DEF ReadBlockDelta, TypeOK
  <2>5. open' # Closed  BY <2>2, <2>4, ClosedType
  <2>6. DeltaFamily(e.delta) = Family(open'.kind)  BY <2>1, <2>4, AcceptedFamily
  <2>7. ~open.signature_seen
    <3>1. CASE open.kind = "Thinking"  BY <3>1, <2>1, AcceptedFamily
    <3>2. CASE open.kind # "Thinking"
      <4>1. Family(open.kind) # "thinking"  BY <3>2 DEF Family
      <4>2. ASSUME open.signature_seen
            PROVE  FALSE
        <5>1. IsDelta(Last(stream)) /\ Last(stream).delta.type = "signature_delta"
          BY <4>2, <2>2
        <5>2. DeltaFamily(Last(stream).delta) = "thinking"
          BY <5>1 DEF DeltaFamily
        <5>. QED BY <5>1, <5>2, <4>1, <4>2, <2>2 DEF IsStart, IsDelta
      <4>. QED BY <4>2
    <3>. QED BY <3>1, <3>2
  <2>8. phase' = "Blocks" /\ verdict' = "reading"
    BY <1>4, <2>1, <2>2, <1>1 DEF ReadBlockDelta, ReadsLegal
  <2>. QED BY <2>1, <2>4, <2>5, <2>6, <2>7, <2>8, <1>1
<1>5. ASSUME NEW e \in Events, ReadBlockStop(e)
      PROVE  BetweenBlocks' /\ verdict' = "reading"
  <2>1. Reads(e) /\ IsStop(e) /\ open # Closed /\ e.index = open.index
    BY <1>5 DEF ReadBlockStop, ReadsLegal, Legal, IsStop
  <2>2. InBlock  BY <2>1, <1>1
  <2>3. next_index = e.index + 1  BY <2>1 DEF TypeOK, OpenBlocks
  <2>. QED BY <1>5, <2>1, <2>2, <2>3, <1>1 DEF ReadBlockStop, ReadsLegal
<1>6. ASSUME NEW e \in Events, ReadMessageDelta(e)
      PROVE  AfterDelta' /\ verdict' = "reading"
  <2>1. Reads(e) /\ open = Closed
    BY <1>6 DEF ReadMessageDelta, ReadsLegal, Legal
  <2>. QED BY <1>6, <2>1, <1>1 DEF ReadMessageDelta, ReadsLegal
<1>7. ASSUME NEW e \in Events, ReadMessageDone(e)
      PROVE  AfterDone' /\ verdict' = "reading"
  <2>1. Reads(e) /\ phase = "NeedMessageDone"
    BY <1>7 DEF ReadMessageDone, ReadsLegal, Legal
  <2>2. AfterDelta  BY <2>1, <1>1
  <2>. QED BY <1>7, <2>1, <2>2, <1>1 DEF ReadMessageDone, ReadsLegal
<1>8. ASSUME NEW e \in Events, Violate(e)
      PROVE  verdict' = "violation"
  BY <1>8 DEF Violate
<1>9. CASE EndOfStream  BY <1>9 DEF EndOfStream, Linked, Finished
<1>10. CASE UNCHANGED vars  BY <1>10 DEF vars, Linked, Finished
<1>. QED BY <1>2, <1>3, <1>4, <1>5, <1>6, <1>7, <1>8, <1>9, <1>10 DEF Next, Linked, Finished

(* IInv is inductive. *)
LEMMA StepIInv == IInv /\ [Next]_vars => IInv'
<1> SUFFICES ASSUME IInv, [Next]_vars
             PROVE  IInv'
  OBVIOUS
<1>1. TypeOK' /\ Linked' /\ Finished'  BY StepTypeOK, StepLinked DEF IInv
<1>2. ASSUME verdict' # "violation"
      PROVE  WellFormed(stream')
  <2>1. ASSUME NEW e \in Events, ReadsLegal(e)
        PROVE  WellFormed(stream')
    <3>1. /\ Legal(e) /\ verdict = "reading" /\ stream' = Append(stream, e)
          /\ stream \in Seq(Events)
      BY <2>1 DEF ReadsLegal, Reads, IInv, TypeOK
    <3>2. WellFormed(stream)  BY <3>1 DEF IInv
    <3>3. Admits(stream, e) /\ EventOK(e)  BY <3>1, LegalIsAdmitted DEF IInv
    <3>. QED BY <3>1, <3>2, <3>3, WellFormedAppend
  <2>2. CASE EndOfStream  BY <2>2 DEF EndOfStream, IInv
  <2>3. CASE UNCHANGED vars  BY <1>2, <2>3 DEF vars, IInv
  <2>4. ASSUME NEW e \in Events, Violate(e)
        PROVE  FALSE
    BY <1>2, <2>4 DEF Violate
  <2>. QED
    BY <2>1, <2>2, <2>3, <2>4 DEF Next, ReadMessageStart, ReadBlockStart, ReadBlockDelta,
       ReadBlockStop, ReadMessageDelta, ReadMessageDone
<1>. QED BY <1>1, <1>2 DEF IInv

(* IInv holds initially. *)
LEMMA InitIInv == Init => IInv
<1> SUFFICES ASSUME Init
             PROVE  IInv
  OBVIOUS
<1>1. Linked /\ Finished  BY DEF Init, Linked, Finished, AtStart
<1>2. WellFormed(<<>>)  BY DEF WellFormed, InOrder
<1>. QED BY <1>1, <1>2, InitTypeOK DEF Init, IInv

(* IInv says that only legal prefixes are read on. *)
LEMMA IInvImplies == IInv => ReadsOnlyLegalPrefixes
<1> SUFFICES ASSUME IInv
             PROVE  ReadsOnlyLegalPrefixes
  OBVIOUS
<1>1. ASSUME verdict = "accepted"
      PROVE  Complete(stream)
  <2>1. AfterDone
    BY <1>1 DEF IInv, Linked, Finished, AtStart, BetweenBlocks, InBlock, AfterDelta
  <2>. QED BY <1>1, <2>1 DEF IInv, AfterDone, Complete, Last
<1>. QED BY <1>1 DEF IInv, ReadsOnlyLegalPrefixes

(* The checker is sound for the grammar: whatever the events are and in
   whatever order they come, it never reads past the first event that is
   out of place, and what it accepts is a complete, well-formed stream. *)
THEOREM CheckerSound == Spec => []ReadsOnlyLegalPrefixes
<1>1. Init => IInv  BY InitIInv
<1>2. IInv /\ [Next]_vars => IInv'  BY StepIInv
<1>3. IInv => ReadsOnlyLegalPrefixes  BY IInvImplies
<1>. QED BY <1>1, <1>2, <1>3, PTL DEF Spec

-----------------------------------------------------------------------------
(* The inputs of tool blocks *)

(* The open block is the one that starts at k, and for a tool block the
   checker has gathered what the fragments since then spell. *)
OpenSince(k) ==
  /\ IsStart(stream[k])
  /\ \A n \in (k + 1)..Len(stream) : IsDelta(stream[n])
  /\ open.kind = OpenKind(stream[k].block)
  /\ open.input = InputOf(stream[k].block)
  /\ stream[k].block.kind \in ToolKinds =>
       /\ open.fragment_count = Len(stream) - k
       /\ open.fragments = Concat(Fragments(stream, k, Len(stream) + 1))

Gathered ==
  verdict # "violation" =>
    /\ open # Closed => \E k \in 1..Len(stream) : OpenSince(k)
    /\ ToolInputsExact(stream, lenient)

Refused ==
  verdict = "violation" => ~(Complete(stream) /\ ToolInputsExact(stream, lenient))

ExactInv == IInv /\ Gathered /\ Refused

(* The events after an open start are deltas, whose texts are texts. *)
LEMMA DeltaTexts ==
  ASSUME stream \in Seq(Events), NEW k \in 1..Len(stream), OpenSince(k)
  PROVE  \A n \in (k + 1)..Len(stream) : stream[n].delta.text \in Text
<1>1. ASSUME NEW n \in (k + 1)..Len(stream)
      PROVE  stream[n].delta.text \in Text
  <2>1. n \in 1..Len(stream)  OBVIOUS
  <2>2. stream[n] \in Events /\ IsDelta(stream[n])  BY <2>1 DEF OpenSince
  <2>. QED BY <2>2, EventsAssumption
<1>. QED BY <1>1

(* A block that just started has no fragments. *)
LEMMA StartGathers ==
  ASSUME TypeOK, NEW e \in Events, ReadBlockStart(e)
  PROVE  \E k \in 1..Len(stream') : OpenSince(k)'
<1>1. /\ IsStart(e) /\ open' = Opened(e) /\ stream' = Append(stream, e)
  BY DEF ReadBlockStart, ReadsLegal, Reads, IsStart
<1>2. PICK j : j = Len(stream) + 1  OBVIOUS
<1>3. Len(stream) \in Nat /\ Len(stream') = j /\ stream'[j] = e /\ j \in Nat
  BY <1>1, <1>2, AppendFacts DEF TypeOK
<1>4. Fragments(stream', j, j + 1) = <<>>  BY <1>3 DEF Fragments
<1>5. /\ open'.kind = OpenKind(e.block) /\ open'.input = InputOf(e.block)
      /\ open'.fragment_count = 0 /\ open'.fragments = <<>>
  BY <1>1 DEF Opened, OpenBlock
<1>6. open'.fragments = Concat(Fragments(stream', j, j + 1))
  BY <1>4, <1>5, ConcatEmpty
<1>7. open'.fragment_count = Len(stream') - j  BY <1>3, <1>5
<1>8. \A n \in (j + 1)..Len(stream') : IsDelta(stream'[n])  BY <1>3
<1>9. OpenSince(j)'  BY <1>1, <1>3, <1>5, <1>6, <1>7, <1>8 DEF OpenSince
<1>10. j \in 1..Len(stream')  BY <1>2, <1>3
<1>. QED BY <1>9, <1>10

(* A delta of a tool block adds its text to what is gathered. *)
LEMMA DeltaGathers ==
  ASSUME TypeOK, NEW e \in Events, ReadBlockDelta(e), NEW k \in 1..Len(stream), OpenSince(k)
  PROVE  k \in 1..Len(stream') /\ OpenSince(k)'
<1>1. /\ IsDelta(e) /\ open' = Absorbed(open, e.delta) /\ stream' = Append(stream, e)
      /\ Accepts(open, e.delta) /\ stream \in Seq(Events) /\ open \in OpenBlocks
  BY DEF ReadBlockDelta, ReadsLegal, Reads, Legal, IsDelta, TypeOK
<1>2. /\ Len(stream) \in Nat /\ Len(stream') = Len(stream) + 1
      /\ stream'[Len(stream) + 1] = e
      /\ \A n \in 1..Len(stream) : stream'[n] = stream[n]
  BY <1>1, AppendFacts
<1>3. e.delta.text \in Text  BY <1>1, EventsAssumption
<1>4. stream'[k] = stream[k] /\ k \in 1..Len(stream') /\ k \in Nat  BY <1>2
<1>5. \A n \in (k + 1)..Len(stream') : IsDelta(stream'[n])
  <2>1. ASSUME NEW n \in (k + 1)..Len(stream')
        PROVE  IsDelta(stream'[n])
    <3>1. (n \in 1..Len(stream) /\ n \in (k + 1)..Len(stream)) \/ n = Len(stream) + 1
      BY <1>2
    <3>. QED BY <3>1, <1>1, <1>2 DEF OpenSince
  <2>. QED BY <2>1
<1>6. open'.kind = open.kind /\ open'.input = open.input
  BY <1>1 DEF Absorbed, OpenBlocks
<1>7. ASSUME stream[k].block.kind \in ToolKinds
      PROVE  /\ open'.fragment_count = Len(stream') - k
             /\ open'.fragments = Concat(Fragments(stream', k, Len(stream') + 1))
  <2>1. open.kind \in {"Tool", "CustomTool"}
    BY <1>7 DEF OpenSince, OpenKind, ToolKinds
  <2>2. e.delta.type \in {"input_json_delta", "custom_tool_input_delta"}
    BY <1>1, <2>1 DEF Accepts
  <2>3. /\ open'.fragments = open.fragments \o e.delta.text
        /\ open'.fragment_count = open.fragment_count + 1
    BY <1>1, <2>2 DEF Absorbed, OpenBlocks
  <2>4. PICK f : f = Fragments(stream, k, Len(stream) + 1)  OBVIOUS
  <2>5. \A n \in (k + 1)..Len(stream) : stream[n].delta.text \in Text
    BY <1>1, DeltaTexts
  <2>6. f \in Seq(Text) /\ Fragments(stream', k, Len(stream) + 2) = Append(f, e.delta.text)
    BY <1>1, <1>3, <2>4, <2>5, FragmentsAppend
  <2>7. Len(stream') + 1 = Len(stream) + 2  BY <1>2
  <2>8. Concat(Append(f, e.delta.text)) = Concat(f) \o e.delta.text
    <3>1. PICK x : x = e.delta.text  OBVIOUS
    <3>2. Concat(Append(f, x)) = Concat(f) \o x
      BY <1>3, <2>6, <3>1, ConcatAppend DEF Text
    <3>. QED BY <3>1, <3>2
  <2>9. open.fragments = Concat(f) /\ open.fragment_count = Len(stream) - k
    BY <1>7, <2>4 DEF OpenSince
  <2>10. open'.fragments = Concat(Fragments(stream', k, Len(stream') + 1))
    BY <2>3, <2>6, <2>7, <2>8, <2>9
  <2>11. open'.fragment_count = Len(stream') - k  BY <1>2, <1>4, <2>3, <2>9
  <2>. QED BY <2>10, <2>11
<1>8. IsStart(stream'[k]) /\ open'.kind = OpenKind(stream'[k].block)
      /\ open'.input = InputOf(stream'[k].block)
  BY <1>4, <1>6 DEF OpenSince
<1>. QED BY <1>4, <1>5, <1>7, <1>8 DEF OpenSince

(* A tool block that closes has the input its fragments spell. *)
LEMMA StopIsExact ==
  ASSUME TypeOK, NEW e \in Events, ReadBlockStop(e), NEW k \in 1..Len(stream), OpenSince(k),
         ToolInputsExact(stream, lenient)
  PROVE  ToolInputsExact(stream', lenient)
<1>1. /\ IsStop(e) /\ stream' = Append(stream, e)
      /\ open.kind \in {"Tool", "CustomTool"} => ToolInputValid(open)
      /\ stream \in Seq(Events) /\ lenient \in BOOLEAN
  BY DEF ReadBlockStop, ReadsLegal, Reads, Legal, IsStop, TypeOK
<1>2. PICK t : t = Append(stream, e)  OBVIOUS
<1>3. /\ Len(stream) \in Nat /\ k \in Nat
      /\ \A n \in 1..Len(stream) : t[n] = stream[n]
  BY <1>1, <1>2, AppendFacts
<1>4. ASSUME NEW i \in 1..Len(stream), IsToolUnit(t, i, Len(stream) + 1)
      PROVE  InputExact(stream[i].block.text, Fragments(t, i, Len(stream) + 1), lenient)
  <2>1. /\ IsStart(stream[i]) /\ stream[i].block.kind \in ToolKinds
        /\ \A n \in (i + 1)..Len(stream) : IsDelta(stream[n])
    BY <1>3, <1>4 DEF IsToolUnit
  <2>2. i = k
    <3>1. ~(i < k)
      <4>1. i < k => k \in (i + 1)..Len(stream)  BY <1>3
      <4>. QED BY <4>1, <2>1 DEF OpenSince, IsStart, IsDelta
    <3>2. ~(k < i)
      <4>1. k < i => i \in (k + 1)..Len(stream)  BY <1>3
      <4>. QED BY <4>1, <2>1 DEF OpenSince, IsStart, IsDelta
    <3>. QED BY <3>1, <3>2, <1>3
  <2>3. /\ open.kind \in {"Tool", "CustomTool"} /\ open.input = stream[k].block.text
        /\ open.fragment_count = Len(stream) - k
        /\ open.fragments = Concat(Fragments(stream, k, Len(stream) + 1))
    BY <2>1, <2>2 DEF OpenSince, OpenKind, ToolKinds, InputOf
  <2>4. PICK f : f = Fragments(stream, k, Len(stream) + 1)  OBVIOUS
  <2>5. \A n \in (k + 1)..Len(stream) : stream[n].delta.text \in Text
    BY <1>1, DeltaTexts
  <2>6. f \in Seq(Text) /\ Len(f) = Len(stream) - k
        /\ Fragments(t, k, Len(stream) + 1) = f
    BY <1>1, <1>2, <2>4, <2>5, FragmentsAppend
  <2>7. f = <<>> <=> open.fragment_count = 0  BY <2>3, <2>6
  <2>8. ToolInputValid(open)  BY <1>1, <2>3
  <2>9. InputExact(stream[k].block.text, f, lenient)
    BY <2>3, <2>4, <2>7, <2>8 DEF ToolInputValid, InputExact
  <2>. QED BY <2>2, <2>6, <2>9
<1>. QED BY <1>1, <1>2, <1>4, InputsAppend

(* Every step keeps what the open block gathered equal to its fragments. *)
LEMMA StepGathered == IInv /\ Gathered /\ [Next]_vars => Gathered'
<1> SUFFICES ASSUME IInv, Gathered, [Next]_vars
             PROVE  Gathered'
  OBVIOUS
<1>0. TypeOK /\ Linked  BY DEF IInv
<1>1. ASSUME NEW e \in Events, ReadsLegal(e), ~IsStop(e)
      PROVE  ToolInputsExact(stream', lenient')
  <2>1. /\ stream \in Seq(Events) /\ lenient \in BOOLEAN /\ lenient' = lenient
        /\ stream' = Append(stream, e) /\ ToolInputsExact(stream, lenient)
    BY <1>0, <1>1 DEF ReadsLegal, Reads, TypeOK, Gathered
  <2>. QED BY <1>1, <2>1, NoStopNoUnit
<1>2. ASSUME NEW e \in Events, ReadMessageStart(e)
      PROVE  Gathered'
  <2>1. ReadsLegal(e) /\ ~IsStop(e) /\ phase = "NeedStart" /\ open' = open /\ verdict = "reading"
    BY <1>2 DEF ReadMessageStart, ReadsLegal, Reads, Legal, IsStop
  <2>2. open = Closed
    BY <1>0, <2>1 DEF Linked, AtStart, BetweenBlocks, InBlock, AfterDelta, AfterDone
  <2>. QED BY <1>1, <2>1, <2>2 DEF Gathered
<1>3. ASSUME NEW e \in Events, ReadBlockStart(e)
      PROVE  Gathered'
  <2>1. ReadsLegal(e) /\ ~IsStop(e)  BY <1>3 DEF ReadBlockStart, IsStop
  <2>. QED BY <1>0, <1>1, <1>3, <2>1, StartGathers DEF Gathered
<1>4. ASSUME NEW e \in Events, ReadBlockDelta(e)
      PROVE  Gathered'
  <2>1. ReadsLegal(e) /\ ~IsStop(e) /\ open # Closed /\ verdict = "reading"
    BY <1>4 DEF ReadBlockDelta, ReadsLegal, Reads, Legal, IsStop
  <2>2. PICK k \in 1..Len(stream) : OpenSince(k)  BY <2>1 DEF Gathered
  <2>3. k \in 1..Len(stream') /\ OpenSince(k)'
    BY <1>0, <1>4, <2>2, DeltaGathers
  <2>. QED BY <1>1, <2>1, <2>3 DEF Gathered
<1>5. ASSUME NEW e \in Events, ReadBlockStop(e)
      PROVE  Gathered'
  <2>1. /\ open # Closed /\ verdict = "reading" /\ open' = Closed /\ lenient' = lenient
    BY <1>5 DEF ReadBlockStop, ReadsLegal, Reads, Legal
  <2>2. PICK k \in 1..Len(stream) : OpenSince(k)  BY <2>1 DEF Gathered
  <2>3. ToolInputsExact(stream', lenient)
    BY <1>0, <1>5, <2>1, <2>2, StopIsExact DEF Gathered
  <2>. QED BY <2>1, <2>3 DEF Gathered
<1>6. ASSUME NEW e \in Events, ReadMessageDelta(e)
      PROVE  Gathered'
  <2>1. ReadsLegal(e) /\ ~IsStop(e) /\ open = Closed /\ open' = open
    BY <1>6 DEF ReadMessageDelta, ReadsLegal, Legal, IsStop
  <2>. QED BY <1>1, <2>1 DEF Gathered
<1>7. ASSUME NEW e \in Events, ReadMessageDone(e)
      PROVE  Gathered'
  <2>1. ReadsLegal(e) /\ ~IsStop(e) /\ phase = "NeedMessageDone" /\ open' = open /\ verdict = "reading"
    BY <1>7 DEF ReadMessageDone, ReadsLegal, Reads, Legal, IsStop
  <2>2. open = Closed
    BY <1>0, <2>1 DEF Linked, AtStart, BetweenBlocks, InBlock, AfterDelta, AfterDone
  <2>. QED BY <1>1, <2>1, <2>2 DEF Gathered
<1>8. ASSUME NEW e \in Events, Violate(e)
      PROVE  Gathered'
  BY <1>8 DEF Violate, Gathered
<1>9. ASSUME stream' = stream, open' = open, lenient' = lenient,
             verdict = "violation" => verdict' = "violation"
      PROVE  Gathered'
  BY <1>9 DEF Gathered, OpenSince
<1>10. CASE EndOfStream  BY <1>9, <1>10 DEF EndOfStream
<1>11. CASE UNCHANGED vars  BY <1>9, <1>11 DEF vars
<1>. QED BY <1>2, <1>3, <1>4, <1>5, <1>6, <1>7, <1>8, <1>10, <1>11 DEF Next

(* The converse of AcceptedFamily: the grammar's deltas are accepted. *)
LEMMA FamilyAccepted ==
  ASSUME NEW o, NEW d, DeltaFamily(d) = Family(o.kind), ~o.signature_seen
  PROVE  Accepts(o, d)
BY DEF Accepts, DeltaFamily, Family

(* The grammar's blocks are startable. *)
LEMMA GoodIsStartable ==
  ASSUME NEW e, IsStart(e), EventOK(e)
  PROVE  StartableBlock(e.block)
BY DEF EventOK, StartableBlock, ApplyPatchKinds

(* A stop that leaves the tool inputs exact passes validate_tool_input. *)
LEMMA ExactIsValid ==
  ASSUME TypeOK, NEW e \in Events, IsStop(e), NEW k \in 1..Len(stream), OpenSince(k),
         ToolInputsExact(Append(stream, e), lenient), open.kind \in {"Tool", "CustomTool"}
  PROVE  ToolInputValid(open)
<1>1. PICK t : t = Append(stream, e)  OBVIOUS
<1>2. /\ stream \in Seq(Events) /\ lenient \in BOOLEAN
      /\ Len(stream) \in Nat /\ k \in Nat /\ t[Len(stream) + 1] = e
      /\ \A n \in 1..Len(stream) : t[n] = stream[n]
  BY <1>1, AppendFacts DEF TypeOK
<1>3. stream[k].block.kind \in ToolKinds  BY DEF OpenSince, OpenKind, ToolKinds
<1>4. IsToolUnit(t, k, Len(stream) + 1)
  <2>1. \A n \in (k + 1)..((Len(stream) + 1) - 1) : IsDelta(t[n])
    BY <1>2 DEF OpenSince
  <2>2. k < Len(stream) + 1 /\ t[k] = stream[k]  BY <1>2
  <2>. QED BY <1>2, <1>3, <2>1, <2>2 DEF IsToolUnit, OpenSince
<1>5. PICK f : f = Fragments(stream, k, Len(stream) + 1)  OBVIOUS
<1>6. \A n \in (k + 1)..Len(stream) : stream[n].delta.text \in Text
  BY <1>2, DeltaTexts
<1>7. f \in Seq(Text) /\ Len(f) = Len(stream) - k
      /\ Fragments(t, k, Len(stream) + 1) = f
  BY <1>1, <1>2, <1>5, <1>6, FragmentsAppend
<1>8. InputExact(stream[k].block.text, f, lenient)
  BY <1>1, <1>2, <1>4, <1>7, InputsAppend
<1>9. /\ open.input = stream[k].block.text
      /\ open.fragment_count = Len(stream) - k
      /\ open.fragments = Concat(f)
  BY <1>3, <1>5 DEF OpenSince, InputOf
<1>10. f = <<>> <=> open.fragment_count = 0  BY <1>7, <1>9
<1>. QED BY <1>8, <1>9, <1>10 DEF ToolInputValid, InputExact

(* An event that is good by itself, may follow the last one read and keeps
   the tool inputs exact is legal: the checker raises no false alarm. *)
LEMMA AdmittedIsLegal ==
  ASSUME TypeOK, Linked, Gathered, verdict = "reading", NEW e \in Events,
         Admits(stream, e), EventOK(e), ToolInputsExact(Append(stream, e), lenient)
  PROVE  Legal(e)
<1> USE DEF AtStart, BetweenBlocks, InBlock, AfterDelta, AfterDone
<1>0. AtStart \/ BetweenBlocks \/ InBlock \/ AfterDelta \/ AfterDone
  BY DEF Linked
<1>1. CASE AtStart  BY <1>1 DEF Admits, Legal
<1>2. CASE BetweenBlocks
  <2>1. OpensAt(e, next_index)
    BY <1>2 DEF Admits, Follows, IsStart, IsDelta, IsStop
  <2>2. CASE IsStart(e) /\ e.index = next_index
    BY <1>2, <2>2, GoodIsStartable DEF Legal, IsStart
  <2>3. CASE e.type = "message_delta"  BY <1>2, <2>3 DEF Legal, EventOK
  <2>. QED BY <2>1, <2>2, <2>3 DEF OpensAt
<1>3. CASE InBlock
  <2>1. Follows(Last(stream), e)  BY <1>3 DEF Admits
  <2>2. Continues(e, open.index, Family(open.kind))
    BY <1>3, <2>1 DEF Follows, IsStart, IsDelta, IsStop
  <2>3. IsDelta(e) => ~open.signature_seen
    BY <1>3, <2>1 DEF Follows, IsStart, IsDelta, IsStop
  <2>4. CASE IsDelta(e) /\ e.index = open.index /\ DeltaFamily(e.delta) = Family(open.kind)
    <3>1. Accepts(open, e.delta)  BY <2>3, <2>4, FamilyAccepted
    <3>. QED BY <1>3, <2>4, <3>1 DEF Legal, IsDelta
  <2>5. CASE IsStop(e) /\ e.index = open.index
    <3>1. PICK k \in 1..Len(stream) : OpenSince(k)  BY <1>3 DEF Gathered
    <3>2. open.kind \in {"Tool", "CustomTool"} => ToolInputValid(open)
      BY <2>5, <3>1, ExactIsValid
    <3>. QED BY <1>3, <2>5, <3>2 DEF Legal, IsStop
  <2>. QED BY <2>2, <2>4, <2>5 DEF Continues
<1>4. CASE AfterDelta
  BY <1>4 DEF Admits, Follows, Legal, IsStart, IsDelta, IsStop
<1>5. CASE AfterDone  BY <1>5 DEF Admits, Follows, IsStart, IsDelta, IsStop
<1>. QED BY <1>0, <1>1, <1>2, <1>3, <1>4, <1>5

(* A stream that is refused was not exact and complete. *)
LEMMA StepRefused == IInv /\ Gathered /\ Refused /\ [Next]_vars => Refused'
<1> SUFFICES ASSUME IInv, Gathered, Refused, [Next]_vars
             PROVE  Refused'
  OBVIOUS
<1>0. TypeOK /\ Linked  BY DEF IInv
<1>1. ASSUME NEW e \in Events, Violate(e)
      PROVE  Refused'
  <2>1. /\ stream' = Append(stream, e) /\ lenient' = lenient /\ verdict = "reading" /\ ~Legal(e)
        /\ stream \in Seq(Events)
    BY <1>0, <1>1 DEF Violate, Reads, TypeOK
  <2>2. SUFFICES ASSUME WellFormed(Append(stream, e)),
                        ToolInputsExact(Append(stream, e), lenient)
                 PROVE  FALSE
    BY <2>1 DEF Refused, Complete
  <2>3. Admits(stream, e) /\ EventOK(e)  BY <2>1, <2>2, WellFormedAppend
  <2>. QED BY <1>0, <2>1, <2>2, <2>3, AdmittedIsLegal
<1>2. ASSUME NEW e \in Events, ReadsLegal(e)
      PROVE  Refused'
  BY <1>2 DEF ReadsLegal, Reads, Refused
<1>3. CASE EndOfStream
  <2>1. /\ verdict = "reading" /\ stream' = stream
        /\ verdict' = "violation" => phase # "Done"
    BY <1>3 DEF EndOfStream
  <2>2. phase # "Done" => (stream = <<>> \/ Last(stream).type # "message_done")
    BY <1>0, <2>1 DEF Linked, AtStart, BetweenBlocks, InBlock, AfterDelta, AfterDone,
                      IsStart, IsDelta, IsStop
  <2>. QED BY <2>1, <2>2 DEF Refused, Complete, Last
<1>4. CASE UNCHANGED vars  BY <1>4 DEF vars, Refused
<1>. QED
  BY <1>1, <1>2, <1>3, <1>4 DEF Next, ReadMessageStart, ReadBlockStart, ReadBlockDelta,
     ReadBlockStop, ReadMessageDelta, ReadMessageDone

(* ExactInv holds initially. *)
LEMMA InitExact == Init => ExactInv
<1> SUFFICES ASSUME Init
             PROVE  ExactInv
  OBVIOUS
<1>1. ToolInputsExact(<<>>, lenient)  BY DEF ToolInputsExact
<1>2. Gathered /\ Refused  BY <1>1 DEF Init, Gathered, Refused
<1>. QED BY <1>2, InitIInv DEF ExactInv

(* No miss and no false alarm, whatever the events are and however long
   the stream: the checker lets exactly the streams of the grammar whose
   finished tool blocks have the input their fragments spell through. *)
THEOREM CheckerExact == Spec => []AcceptsExactlyTheGrammar
<1>1. Init => ExactInv  BY InitExact
<1>2. ExactInv /\ [Next]_vars => ExactInv'
  BY StepIInv, StepGathered, StepRefused DEF ExactInv
<1>3. ExactInv => AcceptsExactlyTheGrammar
  BY DEF ExactInv, Gathered, Refused, AcceptsExactlyTheGrammar
<1>. QED BY <1>1, <1>2, <1>3, PTL DEF Spec
=============================================================================
