----------------------- MODULE CcStreamDecoder_proofs ------------------------
(***************************************************************************)
(* Theorems about CcStreamDecoder, for every set of chunks and any number  *)
(* of calls.                                                               *)
(***************************************************************************)
EXTENDS CcStreamDecoder, IrStream_proofs, FiniteSetTheorems, TLAPS

-----------------------------------------------------------------------------
(* Types *)

TypeOK == dec \in Decoders /\ failed \in BOOLEAN

(* The value of an Option that is not None. *)
LEMMA SomeTypes ==
  ASSUME NEW S, NEW o \in Option(S), o # None
  PROVE  o[1] \in S
BY DEF Option, None

(* It is all that there is. *)
LEMMA SomeOnly ==
  ASSUME NEW S, NEW o \in Option(S), o # None
  PROVE  \E x \in S : o = <<x>> /\ x = o[1]
<1>1. o \in Seq(S) /\ Len(o) <= 1 /\ Len(o) \in Nat  BY DEF Option
<1>2. Len(o) # 0  BY <1>1 DEF None
<1>3. Len(o) = 1
  <2>1. PICK n : n = Len(o)  OBVIOUS
  <2>2. n \in Nat /\ n <= 1 /\ n # 0 => n = 1  OBVIOUS
  <2>. QED BY <1>1, <1>2, <2>1, <2>2
<1>4. PICK x : x = o[1]  OBVIOUS
<1>5. x \in S  BY <1>1, <1>3, <1>4
<1>6. o = <<x>>  BY <1>1, <1>3, <1>4
<1>. QED BY <1>4, <1>5, <1>6

(* The first element of a sequence stays the first one. *)
LEMMA FirstStays ==
  ASSUME NEW S, NEW s \in Seq(S), NEW x \in S
  PROVE  /\ Append(s, x) # <<>>
         /\ s = <<>> => Append(s, x)[1] = x
         /\ s # <<>> => Append(s, x)[1] = s[1]
<1>1. PICK t, n : t = Append(s, x) /\ n = Len(s)  OBVIOUS
<1>2. n \in Nat /\ Len(t) = n + 1 /\ t[n + 1] = x /\ \A k \in 1..n : t[k] = s[k]
  BY <1>1
<1>3. s = <<>> <=> n = 0  BY <1>1
<1>4. t # <<>>  BY <1>2
<1>5. n # 0 => 1 \in 1..n  BY <1>2
<1>. QED BY <1>1, <1>2, <1>3, <1>4, <1>5

(* What the provider sends has the form of the wire. *)
LEMMA ChunkTypes ==
  ASSUME NEW chunk \in Chunks
  PROVE  /\ chunk.choice # None => chunk.choice[1] \in NativeChoices
         /\ chunk.usage # None => chunk.usage[1] \in WireUsages
<1>1. chunk.choice \in Option(NativeChoices) /\ chunk.usage \in Option(WireUsages)
  BY DecoderAssumption DEF WireChunks
<1>. QED BY <1>1, SomeTypes

(* A call that nothing is known of yet. *)
LEMMA NewCallType == NewCall \in CallRecords
<1>1. PICK empty : empty = ""  OBVIOUS
<1>2. PICK text, none : text = <<>> /\ none = <<>>  OBVIOUS
<1>3. empty \in Tokens /\ text \in Text /\ none \in Seq(Text)
  <2>1. empty \in Tokens  BY <1>1, NoToken
  <2>2. text \in Text /\ none \in Seq(Text)  BY <1>2 DEF Text
  <2>. QED BY <2>1, <2>2
<1>4. NewCall = [id |-> empty, name |-> text, fragments |-> none, skipped |-> FALSE,
                 custom |-> FALSE]
  BY <1>1, <1>2 DEF NewCall
<1>. QED BY <1>3, <1>4 DEF CallRecords

(* A payload adds texts to a call. *)
LEMMA PayloadType ==
  ASSUME NEW record \in CallRecords, NEW payload \in Option(NativePayloads)
  PROVE  AddPayload(record, payload) \in CallRecords
<1>1. CASE record.skipped \/ payload = None  BY <1>1 DEF AddPayload
<1>2. CASE ~record.skipped /\ payload # None
  <2>1. PICK p : p = payload[1]  OBVIOUS
  <2>2. p.name \in Text /\ p.text \in Option(Text)
    BY <1>2, <2>1, SomeTypes DEF NativePayloads
  <2>3. PICK name, fragments : name = record.name \o p.name /\ fragments = record.fragments \o p.text
    OBVIOUS
  <2>4. record.name \in Seq(Tokens) /\ p.name \in Seq(Tokens)
    BY <2>2 DEF CallRecords, Text
  <2>5. name \in Text  BY <2>3, <2>4 DEF Text
  <2>6. record.fragments \in Seq(Text) /\ p.text \in Seq(Text)
    BY <2>2 DEF CallRecords, Option
  <2>7. fragments \in Seq(Text)  BY <2>3, <2>6
  <2>8. AddPayload(record, payload) = [record EXCEPT !.name = name, !.fragments = fragments]
    BY <1>2, <2>1, <2>3 DEF AddPayload, CallRecords
  <2>. QED BY <2>5, <2>7, <2>8 DEF CallRecords
<1>. QED BY <1>1, <1>2

(* Replacing one element of a sequence. *)
LEMMA ReplaceType ==
  ASSUME NEW S, NEW s \in Seq(S), NEW i \in 1..Len(s), NEW x \in S
  PROVE  [s EXCEPT ![i] = x] \in Seq(S)
OBVIOUS

(* What a delta of a call makes of the record old: the id and the category
   stay once they are known, and the payload is added. *)
Adds(old, call, new) ==
  /\ call.id = "" \/ old.id \in {"", call.id}
  /\ new.id = IF call.id = "" THEN old.id ELSE call.id
  /\ new.custom <=> old.custom \/ IsCustomCall(call)
  /\ ~new.skipped =>
       LET payload == IF new.custom THEN call.custom ELSE call.function
       IN  IF payload = None THEN new.name = old.name /\ new.fragments = old.fragments
           ELSE /\ new.name = old.name \o payload[1].name
                /\ new.fragments = old.fragments \o payload[1].text

(* A call is recorded in its slot, where old was: its loss, and new there. *)
RecordedAs(d, call, calls, losses, old, new) ==
  /\ call.index <= Len(d.tool_calls)
  /\ calls = IF call.index = Len(d.tool_calls)
             THEN Append(d.tool_calls, NewCall) ELSE d.tool_calls
  /\ call.index + 1 \in 1..Len(calls) /\ old = calls[call.index + 1]
  /\ new.skipped <=> old.skipped \/ IsUnsupported(call)
  /\ Adds(old, call, new)
  /\ losses = d.losses \o CallLosses(old, call)
  /\ RecordCall(d, call) = [d EXCEPT !.tool_calls = [calls EXCEPT ![call.index + 1] = new],
                                     !.losses = losses]

(* A call that is not refused is recorded in its slot, a new one at first. *)
LEMMA RecordShape ==
  ASSUME NEW d \in Decoders, NEW call \in NativeCalls, ~CallRejected(d, call)
  PROVE  \E calls \in Seq(CallRecords), losses \in Seq({"tool_call", "finish_reason"} \X Nat),
            old \in CallRecords, new \in CallRecords :
           RecordedAs(d, call, calls, losses, old, new)
<1>1. PICK i, old_calls : i = call.index + 1 /\ old_calls = d.tool_calls
  OBVIOUS
<1>2. /\ old_calls \in Seq(CallRecords) /\ d.losses \in Seq({"tool_call", "finish_reason"} \X Nat)
      /\ call.index \in Nat /\ call.id \in Tokens
      /\ call.function \in Option(NativePayloads) /\ call.custom \in Option(NativePayloads)
  BY <1>1 DEF Decoders, NativeCalls
<1>3. call.index <= Len(old_calls)
  <2>1. ~(call.index > Len(d.tool_calls))  BY Zenon DEF CallRejected
  <2>. QED BY <1>1, <1>2, <2>1
<1>4. PICK calls : calls = IF call.index = Len(old_calls)
                           THEN Append(old_calls, NewCall) ELSE old_calls
  OBVIOUS
<1>5. calls \in Seq(CallRecords) /\ i \in 1..Len(calls)
  <2>1. CASE call.index = Len(old_calls)  BY <1>1, <1>2, <1>4, <2>1, NewCallType
  <2>2. CASE call.index # Len(old_calls)  BY <1>1, <1>2, <1>3, <1>4, <2>2
  <2>. QED BY <2>1, <2>2
<1>6. PICK old : old = calls[i]  OBVIOUS
<1>7. old \in CallRecords  BY <1>5, <1>6
<1>8. PICK id, isCustom, isSkipped :
        /\ id = IF call.id = "" THEN old.id ELSE call.id
        /\ isCustom = (old.custom \/ IsCustomCall(call))
        /\ isSkipped = (old.skipped \/ IsUnsupported(call))
  OBVIOUS
<1>9. PICK named : named = [old EXCEPT !.id = id, !.custom = isCustom, !.skipped = isSkipped]
  OBVIOUS
<1>10. named \in CallRecords
  <2>1. id \in Tokens
    <3>1. id = old.id \/ id = call.id  BY <1>8, Zenon
    <3>. QED BY <1>2, <1>7, <3>1 DEF CallRecords
  <2>2. isCustom \in BOOLEAN /\ isSkipped \in BOOLEAN  BY <1>8, Zenon
  <2>. QED BY <1>7, <1>9, <2>1, <2>2 DEF CallRecords
<1>11. PICK payload : payload = IF named.custom THEN call.custom ELSE call.function
  OBVIOUS
<1>12. payload \in Option(NativePayloads)  BY <1>2, <1>11
<1>13. PICK new : new = AddPayload(named, payload)  OBVIOUS
<1>14. new \in CallRecords  BY <1>10, <1>12, <1>13, PayloadType
<1>15. PICK new_calls, losses : /\ new_calls = [calls EXCEPT ![i] = new]
                                /\ losses = d.losses \o CallLosses(old, call)
  OBVIOUS
<1>16. new_calls \in Seq(CallRecords)  BY <1>5, <1>14, <1>15, ReplaceType
<1>17. losses \in Seq({"tool_call", "finish_reason"} \X Nat)
  <2>1. CallLosses(old, call) \in Seq({"tool_call", "finish_reason"} \X Nat)
    <3>1. PICK loss : loss = <<"tool_call", call.index>>  OBVIOUS
    <3>2. loss \in {"tool_call", "finish_reason"} \X Nat  BY <1>2, <3>1
    <3>3. CallLosses(old, call) = <<loss>> \/ CallLosses(old, call) = <<>>
      BY <3>1, Zenon DEF CallLosses
    <3>4. PICK R : R = {"tool_call", "finish_reason"} \X Nat  OBVIOUS
    <3>5. <<loss>> \in Seq(R) /\ <<>> \in Seq(R)  BY <3>2, <3>4
    <3>. QED BY <3>3, <3>4, <3>5
  <2>. QED BY <1>2, <1>15, <2>1
<1>18. RecordCall(d, call) = [d EXCEPT !.tool_calls = new_calls, !.losses = losses]
  BY <1>1, <1>4, <1>6, <1>8, <1>9, <1>11, <1>13, <1>15, ZenonT(60) DEF RecordCall
<1>19. new.skipped <=> old.skipped \/ IsUnsupported(call)
  <2>1. named.skipped = isSkipped  BY <1>7, <1>9 DEF CallRecords
  <2>2. new.skipped = named.skipped  BY <1>10, <1>13 DEF AddPayload, CallRecords
  <2>. QED BY <1>8, <2>1, <2>2
<1>20. calls = IF call.index = Len(d.tool_calls) THEN Append(d.tool_calls, NewCall) ELSE d.tool_calls
  BY <1>1, <1>4
<1>21. Adds(old, call, new)
  <2>1. PICK name, fragments : name = old.name /\ fragments = old.fragments
    OBVIOUS
  <2>2. /\ named.id = id /\ named.custom = isCustom /\ named.name = name
        /\ named.fragments = fragments /\ named.skipped = isSkipped
    BY <1>7, <1>9, <2>1 DEF CallRecords
  <2>3. /\ new.id = id /\ new.custom = isCustom /\ new.skipped = isSkipped
        /\ ~new.skipped =>
             IF payload = None THEN new.name = name /\ new.fragments = fragments
             ELSE /\ new.name = name \o payload[1].name
                  /\ new.fragments = fragments \o payload[1].text
    <3>1. CASE named.skipped \/ payload = None
      <4>1. new = named  BY <1>13, <3>1 DEF AddPayload
      <4>. QED BY <2>2, <3>1, <4>1
    <3>2. CASE ~named.skipped /\ payload # None
      <4>1. PICK n, fs : n = name \o payload[1].name /\ fs = fragments \o payload[1].text
        OBVIOUS
      <4>2. new = [named EXCEPT !.name = n, !.fragments = fs]
        BY <1>10, <1>13, <2>2, <3>2, <4>1 DEF AddPayload, CallRecords
      <4>. QED BY <1>10, <2>2, <3>2, <4>1, <4>2 DEF CallRecords
    <3>. QED BY <3>1, <3>2
  <2>4. call.id = "" \/ old.id \in {"", call.id}
    <3>1. CASE call.index = Len(old_calls)
      <4>1. old = NewCall  BY <1>1, <1>2, <1>4, <1>6, <3>1
      <4>. QED BY <4>1 DEF NewCall
    <3>2. CASE call.index # Len(old_calls)
      <4>1. call.index < Len(d.tool_calls) /\ d.tool_calls[call.index + 1] = old
        BY <1>1, <1>2, <1>3, <1>4, <1>6, <3>2
      <4>. QED BY <4>1, Zenon DEF CallRejected
    <3>. QED BY <3>1, <3>2
  <2>5. payload = IF new.custom THEN call.custom ELSE call.function
    BY <1>11, <2>2, <2>3
  <2>6. new.custom <=> old.custom \/ IsCustomCall(call)  BY <1>8, <2>3
  <2>. QED BY <1>8, <2>1, <2>3, <2>4, <2>5, <2>6, Zenon DEF Adds
<1>22. RecordedAs(d, call, calls, losses, old, new)
  BY <1>1, <1>3, <1>5, <1>6, <1>15, <1>18, <1>19, <1>20, <1>21 DEF RecordedAs
<1>. QED BY <1>5, <1>7, <1>14, <1>17, <1>22

LEMMA RecordType ==
  ASSUME NEW d \in Decoders, NEW call \in NativeCalls, ~CallRejected(d, call)
  PROVE  /\ RecordCall(d, call) \in Decoders
         /\ \E calls \in Seq(CallRecords), losses \in Seq({"tool_call", "finish_reason"} \X Nat) :
              RecordCall(d, call) = [d EXCEPT !.tool_calls = calls, !.losses = losses]
<1>1. PICK calls \in Seq(CallRecords), losses \in Seq({"tool_call", "finish_reason"} \X Nat),
           old \in CallRecords, new \in CallRecords : RecordedAs(d, call, calls, losses, old, new)
  BY RecordShape
<1>2. PICK i, new_calls : i = call.index + 1 /\ new_calls = [calls EXCEPT ![i] = new]
  OBVIOUS
<1>3. new_calls \in Seq(CallRecords)  BY <1>1, <1>2, ReplaceType DEF RecordedAs
<1>4. RecordCall(d, call) = [d EXCEPT !.tool_calls = new_calls, !.losses = losses]
  BY <1>1, <1>2 DEF RecordedAs
<1>5. [d EXCEPT !.tool_calls = new_calls, !.losses = losses] \in Decoders
  BY <1>3 DEF Decoders
<1>. QED BY <1>3, <1>4, <1>5

-----------------------------------------------------------------------------
(* Recursion over the numbers up to n *)

(* f starts with a and goes on by step, inside S. *)
Recurs(f, S, a, n, step) ==
  f \in [0..n -> S] /\ f[0] = a /\ \A m \in 1..n : f[m] = step[<<m, f[m - 1]>>]

(* A function with a recursive definition of this form exists. *)
LEMMA Recursion ==
  ASSUME NEW S, NEW a, NEW n, NEW step, a \in S, n \in Nat, step \in [(1..n) \X S -> S]
  PROVE  \E f : Recurs(f, S, a, n, step)
<1> DEFINE Good(m, f) == /\ f \in [0..m -> S] /\ f[0] = a
                         /\ \A k \in 1..m : f[k] = step[<<k, f[k - 1]>>]
           T == {m \in Nat : m <= n => \E f : Good(m, f)}
<1>1. 0 \in T
  <2>1. PICK f : f = [k \in 0..0 |-> a]  OBVIOUS
  <2>2. Good(0, f)  BY <2>1
  <2>. QED BY <2>2
<1>2. ASSUME NEW m \in Nat, m \in T
      PROVE  m + 1 \in T
  <2>1. SUFFICES ASSUME m + 1 <= n
                 PROVE  \E f : Good(m + 1, f)
    OBVIOUS
  <2>2. PICK f : Good(m, f)  BY <1>2, <2>1
  <2>3. PICK x : x = step[<<m + 1, f[m]>>]  OBVIOUS
  <2>4. x \in S
    <3>1. f[m] \in S /\ m + 1 \in 1..n  BY <2>1, <2>2
    <3>. QED BY <2>3, <3>1
  <2>5. PICK g : g = [k \in 0..(m + 1) |-> IF k = m + 1 THEN x ELSE f[k]]
    OBVIOUS
  <2>6. /\ g \in [0..(m + 1) -> S] /\ g[m + 1] = x
        /\ \A k \in 0..m : g[k] = f[k]
    <3>1. \A k \in 0..(m + 1) : k = m + 1 \/ k \in 0..m  OBVIOUS
    <3>. QED BY <2>2, <2>4, <2>5, <3>1
  <2>7. ASSUME NEW k \in 1..(m + 1)
        PROVE  g[k] = step[<<k, g[k - 1]>>]
    <3>1. CASE k = m + 1
      <4>1. g[m] = f[m] /\ k - 1 = m  BY <2>6, <3>1
      <4>. QED BY <2>3, <2>6, <3>1, <4>1
    <3>2. CASE k # m + 1
      <4>1. k \in 1..m /\ k \in 0..m /\ k - 1 \in 0..m  BY <3>2
      <4>. QED BY <2>2, <2>6, <4>1
    <3>. QED BY <3>1, <3>2
  <2>8. g[0] = a  BY <2>2, <2>6
  <2>. QED BY <2>6, <2>7, <2>8
<1> HIDE DEF T
<1>3. n \in T  BY <1>1, <1>2, SetInduction
<1>. QED BY <1>3 DEF T, Recurs

(* What its values have in common, by induction. *)
LEMMA Iteration ==
  ASSUME NEW S, NEW n \in Nat, NEW f, f[0] \in S,
         \A m \in 1..n : f[m - 1] \in S => f[m] \in S
  PROVE  \A m \in 0..n : f[m] \in S
<1> DEFINE T == {m \in Nat : m <= n => f[m] \in S}
<1>1. 0 \in T  OBVIOUS
<1>2. ASSUME NEW m \in Nat, m \in T
      PROVE  m + 1 \in T
  <2>1. m + 1 <= n => m + 1 \in 1..n /\ (m + 1) - 1 = m /\ m <= n  OBVIOUS
  <2>. QED BY <1>2, <2>1
<1> HIDE DEF T
<1>3. \A m \in Nat : m \in T  BY <1>1, <1>2, SetInduction
<1>. QED BY <1>3 DEF T

-----------------------------------------------------------------------------
(* What a call does to the decoder, step by step *)

(* What the decoder remembers of the last event of the stream, before
   flush: which block is open, and which index the next one takes. *)
Placed(d) ==
  /\ ~d.started => /\ d.events = <<>> /\ d.next_ir_index = 0 /\ d.stop = "none"
                   /\ ~d.text_open /\ ~d.thinking_open
  /\ d.started /\ ~d.text_open /\ ~d.thinking_open => AtBoundary(d.events, d.next_ir_index)
  /\ d.text_open => /\ ~d.thinking_open /\ d.text_index + 1 = d.next_ir_index
                    /\ InsideBlock(d.events, d.text_index, "text", FALSE)
  /\ d.thinking_open => /\ ~d.text_open /\ d.thinking_index + 1 = d.next_ir_index
                        /\ InsideBlock(d.events, d.thinking_index, "thinking", FALSE)

(* The stream is legal, goes on, and stands where the decoder thinks. *)
Standing(d) == Kept(d.events) /\ ~Terminated(d.events) /\ Placed(d)

(* The indexes of the blocks rise and stay below the next one, and the
   stream has no end yet. *)
Rising(s, n) ==
  /\ \A k \in 1..Len(s) : s[k].type # "message_done" /\ (IsStart(s[k]) => s[k].index < n)
  /\ \A j, k \in 1..Len(s) :
       j < k /\ IsStart(s[j]) /\ IsStart(s[k]) => s[j].index < s[k].index

Counted(d) == Rising(d.events, d.next_ir_index)

(* d is what a step of a call may make of c: it hands over more events and
   takes more indexes, and keeps both invariants. *)
Advances(c, d) ==
  /\ d \in Decoders
  /\ d.next_ir_index >= c.next_ir_index /\ d.flushed = c.flushed
  /\ c.started => d.started
  /\ IsPrefix(c.events, d.events)
  /\ Counted(c) => Counted(d)
  /\ Standing(c) => Standing(d)

(* IsPrefix, element by element. *)
LEMMA PrefixMeans ==
  ASSUME NEW S, NEW s \in Seq(S), NEW t \in Seq(S)
  PROVE  IsPrefix(s, t) <=> Len(s) <= Len(t) /\ \A i \in 1..Len(s) : t[i] = s[i]
<1>1. Len(s) \in Nat /\ Len(t) \in Nat  OBVIOUS
<1>2. SubSeq(s, 1, Len(s)) = [i \in 1..Len(s) |-> s[i]]  OBVIOUS
<1>3. Len(s) <= Len(t) => SubSeq(t, 1, Len(s)) = [i \in 1..Len(s) |-> t[i]]
  OBVIOUS
<1>4. [i \in 1..Len(s) |-> s[i]] = [i \in 1..Len(s) |-> t[i]]
        <=> \A i \in 1..Len(s) : t[i] = s[i]
  <2>1. ASSUME [i \in 1..Len(s) |-> s[i]] = [i \in 1..Len(s) |-> t[i]],
               NEW i \in 1..Len(s)
        PROVE  t[i] = s[i]
    <3>1. PICK f, g : f = [j \in 1..Len(s) |-> s[j]] /\ g = [j \in 1..Len(s) |-> t[j]]
      OBVIOUS
    <3>2. f = g /\ f[i] = s[i] /\ g[i] = t[i]  BY <2>1, <3>1
    <3>. QED BY <3>2
  <2>. QED BY <2>1
<1>. QED BY <1>1, <1>2, <1>3, <1>4 DEF IsPrefix

LEMMA PrefixTrans ==
  ASSUME NEW S, NEW s \in Seq(S), NEW t \in Seq(S), NEW u \in Seq(S),
         IsPrefix(s, t), IsPrefix(t, u)
  PROVE  IsPrefix(s, u)
<1>1. /\ Len(s) <= Len(t) /\ \A i \in 1..Len(s) : t[i] = s[i]
      /\ Len(t) <= Len(u) /\ \A i \in 1..Len(t) : u[i] = t[i]
  BY PrefixMeans
<1>2. Len(s) \in Nat /\ Len(t) \in Nat /\ Len(u) \in Nat  OBVIOUS
<1>3. Len(s) <= Len(u) /\ \A i \in 1..Len(s) : u[i] = s[i]  BY <1>1, <1>2
<1>. QED BY <1>3, PrefixMeans

(* Steps follow each other. *)
LEMMA AdvancesTrans ==
  ASSUME NEW b \in Decoders, NEW c, NEW d, Advances(b, c), Advances(c, d)
  PROVE  Advances(b, d)
<1>1. /\ b.next_ir_index \in Nat /\ c.next_ir_index \in Nat /\ d.next_ir_index \in Nat
      /\ b.events \in Seq(IrEvents) /\ c.events \in Seq(IrEvents) /\ d.events \in Seq(IrEvents)
  BY DEF Advances, Decoders
<1>2. d.next_ir_index >= b.next_ir_index  BY <1>1 DEF Advances
<1>3. IsPrefix(b.events, d.events)
  <2>1. IsPrefix(b.events, c.events) /\ IsPrefix(c.events, d.events)
    BY DEF Advances
  <2>2. PICK s, t, u : s = b.events /\ t = c.events /\ u = d.events  OBVIOUS
  <2>3. /\ s \in Seq(IrEvents) /\ t \in Seq(IrEvents) /\ u \in Seq(IrEvents)
        /\ IsPrefix(s, t) /\ IsPrefix(t, u)
    BY <1>1, <2>1, <2>2
  <2>4. IsPrefix(s, u)  BY <2>3, PrefixTrans
  <2>. QED BY <2>2, <2>4
<1>. QED BY <1>2, <1>3 DEF Advances

(* The indexes of a stream that goes on by a batch with at most one block. *)
LEMMA RisingBatch ==
  ASSUME NEW S, NEW s \in Seq(S), NEW u \in Seq(S), NEW n \in Nat, NEW m \in Nat, m >= n,
         Rising(s, n),
         \A k \in 1..Len(s) : IsStart(s[k]) => s[k].index \in Nat,
         \A k \in 1..Len(u) : /\ u[k].type # "message_done"
                              /\ IsStart(u[k]) => k = 1 /\ u[k].index = n /\ m > n
  PROVE  Rising(s \o u, m)
<1>1. PICK t, l : t = s \o u /\ l = Len(s)  OBVIOUS
<1>2. /\ l \in Nat /\ Len(u) \in Nat /\ Len(t) = l + Len(u)
      /\ \A i \in 1..l : t[i] = s[i]
      /\ \A j \in 1..Len(u) : t[l + j] = u[j]
  BY <1>1, BatchFacts
<1>3. \A k \in 1..Len(t) : k \in 1..l \/ \E j \in 1..Len(u) : k = l + j
  <2>1. ASSUME NEW k \in 1..Len(t), k \notin 1..l
        PROVE  \E j \in 1..Len(u) : k = l + j
    <3>1. k - l \in 1..Len(u) /\ k = l + (k - l)  BY <1>2, <2>1
    <3>. QED BY <3>1
  <2>. QED BY <2>1
<1>4. ASSUME NEW k \in 1..l
      PROVE  /\ t[k] = s[k] /\ t[k].type # "message_done"
             /\ IsStart(t[k]) => t[k].index < n /\ t[k].index \in Nat
  BY <1>1, <1>2 DEF Rising
<1>5. ASSUME NEW k \in 1..Len(t), k \notin 1..l
      PROVE  /\ t[k].type # "message_done"
             /\ IsStart(t[k]) => k = l + 1 /\ t[k].index = n /\ m > n
  <2>1. PICK j \in 1..Len(u) : k = l + j  BY <1>3, <1>5
  <2>2. t[k] = u[j]  BY <1>2, <2>1
  <2>. QED BY <2>1, <2>2
<1>6. ASSUME NEW k \in 1..Len(t)
      PROVE  t[k].type # "message_done" /\ (IsStart(t[k]) => t[k].index < m)
  <2>1. CASE k \in 1..l  BY <1>4, <2>1
  <2>2. CASE k \notin 1..l  BY <1>5, <2>2
  <2>. QED BY <2>1, <2>2
<1>7. ASSUME NEW j \in 1..Len(t), NEW k \in 1..Len(t), j < k, IsStart(t[j]), IsStart(t[k])
      PROVE  t[j].index < t[k].index
  <2>1. CASE k \in 1..l
    <3>1. j \in 1..l  BY <1>2, <1>7, <2>1
    <3>. QED BY <1>1, <1>4, <1>7, <2>1, <3>1 DEF Rising
  <2>2. CASE k \notin 1..l
    <3>1. k = l + 1 /\ t[k].index = n  BY <1>5, <1>7, <2>2
    <3>2. j \in 1..l  BY <1>2, <1>7, <3>1
    <3>. QED BY <1>4, <1>7, <3>1, <3>2
  <2>. QED BY <2>1, <2>2
<1>. QED BY <1>1, <1>6, <1>7 DEF Rising

(* A step that hands over a batch with at most one block. *)
LEMMA BatchAdvances ==
  ASSUME NEW c \in Decoders, NEW d \in Decoders, NEW u \in Seq(IrEvents),
         d.events = c.events \o u, d.next_ir_index >= c.next_ir_index,
         d.flushed = c.flushed, c.started => d.started,
         \A k \in 1..Len(u) :
           /\ u[k].type \notin {"message_delta", "message_done"}
           /\ IsStart(u[k]) => /\ k = 1 /\ u[k].index = c.next_ir_index
                               /\ d.next_ir_index > c.next_ir_index,
         Standing(c) => Kept(c.events \o u) /\ Placed(d)
  PROVE  Advances(c, d)
<1>1. PICK s, n, m : s = c.events /\ n = c.next_ir_index /\ m = d.next_ir_index
  OBVIOUS
<1>2. s \in Seq(IrEvents) /\ n \in Nat /\ m \in Nat /\ m >= n
  BY <1>1 DEF Decoders
<1>3. IsPrefix(s, s \o u)  BY <1>2, BatchPrefix
<1>4. Counted(c) => Counted(d)
  <2>1. \A e \in IrEvents : IsStart(e) => e.index \in Nat
    BY DEF IrEvents, IsStart
  <2>2. \A k \in 1..Len(s) : IsStart(s[k]) => s[k].index \in Nat  BY <1>2, <2>1
  <2>3. \A k \in 1..Len(u) : /\ u[k].type # "message_done"
                             /\ IsStart(u[k]) => k = 1 /\ u[k].index = n /\ m > n
    BY <1>1
  <2>4. Rising(s, n) => Rising(s \o u, m)  BY <1>2, <2>2, <2>3, RisingBatch
  <2>. QED BY <1>1, <2>4 DEF Counted
<1>5. ~Terminated(u)  BY DEF Terminated
<1>6. Terminated(s \o u) <=> Terminated(s) \/ Terminated(u)
  BY <1>2, TerminatedBatch
<1>. QED BY <1>1, <1>2, <1>3, <1>4, <1>5, <1>6 DEF Advances, Standing

(* A step that hands over nothing and moves no block. *)
LEMMA QuietAdvances ==
  ASSUME NEW c \in Decoders, NEW d \in Decoders,
         d.events = c.events, d.next_ir_index = c.next_ir_index, d.flushed = c.flushed,
         d.started = c.started, d.text_open = c.text_open,
         d.thinking_open = c.thinking_open, d.text_index = c.text_index,
         d.thinking_index = c.thinking_index, ~c.started => d.stop = c.stop
  PROVE  Advances(c, d)
<1>1. PICK u : u = <<>>  OBVIOUS
<1>2. c.events \in Seq(IrEvents) /\ c.next_ir_index \in Nat  BY DEF Decoders
<1>3. u \in Seq(IrEvents) /\ Len(u) = 0 /\ c.events \o u = c.events
  BY <1>1, <1>2
<1>4. Standing(c) => Kept(c.events \o u) /\ Placed(d)
  BY <1>3 DEF Standing, Placed
<1>5. \A k \in 1..Len(u) : FALSE  BY <1>3
<1>6. d.next_ir_index >= c.next_ir_index  BY <1>2
<1>. QED BY <1>3, <1>4, <1>5, <1>6, BatchAdvances

LEMMA Stays ==
  ASSUME NEW d \in Decoders
  PROVE  Advances(d, d)
BY QuietAdvances

(* A step that hands over one event. *)
LEMMA EmitAdvances ==
  ASSUME NEW c \in Decoders, NEW d \in Decoders, NEW e \in IrEvents,
         d.events = Append(c.events, e), d.next_ir_index >= c.next_ir_index,
         d.flushed = c.flushed, c.started => d.started,
         e.type \notin {"message_delta", "message_done"},
         IsStart(e) => /\ e.index = c.next_ir_index /\ d.next_ir_index > c.next_ir_index
                       /\ e.block.kind \notin ToolKinds,
         EventOK(e),
         Placed(c) => Admits(c.events, e) /\ Placed(d)
  PROVE  Advances(c, d)
<1>1. PICK u, s : u = <<e>> /\ s = c.events  OBVIOUS
<1>2. s \in Seq(IrEvents)  BY <1>1 DEF Decoders
<1>3. u \in Seq(IrEvents) /\ Len(u) = 1 /\ u[1] = e /\ Append(s, e) = s \o u
  BY <1>1, <1>2
<1>4. Standing(c) => Kept(s \o u) /\ Placed(d)
  <2>1. Kept(s) /\ Admits(s, e) => Kept(s \o <<e>>)  BY <1>2, KeptSingle
  <2>. QED BY <1>1, <2>1 DEF Standing
<1>5. \A k \in 1..Len(u) : k = 1  BY <1>3
<1>. QED BY <1>1, <1>3, <1>4, <1>5, BatchAdvances, ZenonT(60)

(* The same for the start of a block. *)
LEMMA StartAdvances ==
  ASSUME NEW c \in Decoders, NEW d \in Decoders, NEW e \in IrEvents,
         d.events = Append(c.events, e), d.next_ir_index = c.next_ir_index + 1,
         d.flushed = c.flushed, d.started,
         IsStart(e), e.index = c.next_ir_index, e.block.kind \notin ToolKinds,
         EventOK(e), Placed(c) => Admits(c.events, e) /\ Placed(d)
  PROVE  Advances(c, d)
<1>1. c.next_ir_index \in Nat  BY DEF Decoders
<1>2. d.next_ir_index >= c.next_ir_index /\ d.next_ir_index > c.next_ir_index
  BY <1>1
<1>3. e.type \notin {"message_delta", "message_done"}  BY DEF IsStart
<1>. QED BY <1>2, <1>3, EmitAdvances

(* Deltas are not starts, and so on. *)
LEMMA EventFacts ==
  /\ \A i, b : /\ IsStart(BlockStart(i, b)) /\ BlockStart(i, b).index = i
               /\ BlockStart(i, b).block = b
               /\ BlockStart(i, b).type \notin {"message_start", "message_delta", "message_done"}
               /\ ~IsStop(BlockStart(i, b)) /\ ~IsDelta(BlockStart(i, b))
  /\ \A i, d : /\ IsDelta(BlockDelta(i, d)) /\ BlockDelta(i, d).index = i
               /\ BlockDelta(i, d).delta = d
               /\ BlockDelta(i, d).type \notin {"message_start", "message_delta", "message_done"}
               /\ ~IsStop(BlockDelta(i, d)) /\ ~IsStart(BlockDelta(i, d))
               /\ EventOK(BlockDelta(i, d))
  /\ \A i : /\ IsStop(BlockStop(i)) /\ BlockStop(i).index = i
            /\ BlockStop(i).type \notin {"message_start", "message_delta", "message_done"}
            /\ ~IsStart(BlockStop(i)) /\ ~IsDelta(BlockStop(i))
            /\ EventOK(BlockStop(i))
  /\ MessageStart.type = "message_start" /\ ~IsStart(MessageStart) /\ EventOK(MessageStart)
<1>1. \A i, b : /\ IsStart(BlockStart(i, b)) /\ BlockStart(i, b).index = i
                /\ BlockStart(i, b).block = b
                /\ BlockStart(i, b).type \notin {"message_start", "message_delta", "message_done"}
                /\ ~IsStop(BlockStart(i, b)) /\ ~IsDelta(BlockStart(i, b))
  BY DEF BlockStart, IsStart, IsStop, IsDelta
<1>2. \A i, d : /\ IsDelta(BlockDelta(i, d)) /\ BlockDelta(i, d).index = i
                /\ BlockDelta(i, d).delta = d
                /\ BlockDelta(i, d).type \notin {"message_start", "message_delta", "message_done"}
                /\ ~IsStop(BlockDelta(i, d)) /\ ~IsStart(BlockDelta(i, d))
  BY DEF BlockDelta, IsStart, IsStop, IsDelta
<1>3. \A i : /\ IsStop(BlockStop(i)) /\ BlockStop(i).index = i
             /\ BlockStop(i).type \notin {"message_start", "message_delta", "message_done"}
             /\ ~IsStart(BlockStop(i)) /\ ~IsDelta(BlockStop(i))
  BY DEF BlockStop, IsStart, IsStop, IsDelta
<1>4. MessageStart.type = "message_start" /\ ~IsStart(MessageStart)
  BY DEF MessageStart, IsStart
<1>5. \A e : ~IsStart(e) /\ e.type # "message_delta" => EventOK(e)
  BY DEF EventOK
<1>6. /\ \A i, d : EventOK(BlockDelta(i, d))
      /\ \A i : EventOK(BlockStop(i))
      /\ EventOK(MessageStart)
  BY <1>2, <1>3, <1>4, <1>5
<1>. QED BY <1>1, <1>2, <1>3, <1>4, <1>6

(* The message starts, once. *)
LEMMA BeginAdvances ==
  ASSUME NEW d \in Decoders
  PROVE  Advances(d, Begin(d)) /\ Begin(d).started
<1>1. CASE d.started  BY <1>1, Stays DEF Begin
<1>2. CASE ~d.started
  <2>1. PICK e, c : e = MessageStart /\ c = Begin(d)  OBVIOUS
  <2>2. e \in IrEvents /\ e.type = "message_start" /\ ~IsStart(e) /\ EventOK(e)
    BY <2>1, EventTypes, EventFacts
  <2>3. c = [d EXCEPT !.started = TRUE, !.events = Append(d.events, e)]
    BY <1>2, <2>1 DEF Begin, Emit, Decoders
  <2>4. PICK events : events = Append(d.events, e)  OBVIOUS
  <2>5. d.events \in Seq(IrEvents) /\ events \in Seq(IrEvents)
    BY <2>2, <2>4 DEF Decoders
  <2>6. c = [d EXCEPT !.started = TRUE, !.events = events]  BY <2>3, <2>4
  <2>7. c \in Decoders  BY <2>5, <2>6 DEF Decoders
  <2>8. /\ c.started /\ c.events = events /\ c.next_ir_index = d.next_ir_index
        /\ c.flushed = d.flushed /\ c.text_open = d.text_open
        /\ c.thinking_open = d.thinking_open
    BY <2>6 DEF Decoders
  <2>9. Placed(d) => Admits(d.events, e) /\ Placed(c)
    <3>1. SUFFICES ASSUME Placed(d)
                   PROVE  Admits(d.events, e) /\ Placed(c)
      OBVIOUS
    <3>2. d.events = <<>> /\ d.next_ir_index = 0 /\ ~d.text_open /\ ~d.thinking_open
      BY <1>2, <3>1 DEF Placed
    <3>3. Admits(d.events, e)  BY <2>2, <3>2 DEF Admits
    <3>4. AtBoundary(events, 0)
      <4>1. events # <<>> /\ Last(events) = e  BY <2>2, <2>4, <2>5, AppendFacts
      <4>. QED BY <2>2, <4>1 DEF AtBoundary
    <3>. QED BY <2>8, <3>2, <3>3, <3>4 DEF Placed
  <2>10. d.next_ir_index \in Nat  BY DEF Decoders
  <2>. QED BY <2>1, <2>2, <2>4, <2>7, <2>8, <2>9, <2>10, EmitAdvances
<1>. QED BY <1>1, <1>2

(* Closing a channel ends its block, if it is open. *)
LEMMA CloseTextAdvances ==
  ASSUME NEW d \in Decoders
  PROVE  /\ Advances(d, CloseText(d)) /\ ~CloseText(d).text_open
         /\ CloseText(d).thinking_open = d.thinking_open /\ CloseText(d).stop = d.stop
         /\ CloseText(d).tool_calls = d.tool_calls
<1>1. CASE ~d.text_open  BY <1>1, Stays DEF CloseText
<1>2. CASE d.text_open
  <2>1. PICK e, c, events : /\ e = BlockStop(d.text_index) /\ c = CloseText(d)
                            /\ events = Append(d.events, e)
    OBVIOUS
  <2>2. /\ d.text_index \in Nat /\ d.next_ir_index \in Nat /\ d.events \in Seq(IrEvents)
    BY DEF Decoders
  <2>3. /\ e \in IrEvents /\ IsStop(e) /\ e.index = d.text_index /\ ~IsStart(e) /\ EventOK(e)
        /\ e.type \notin {"message_start", "message_delta", "message_done"}
    BY <2>1, <2>2, EventTypes, EventFacts
  <2>4. events \in Seq(IrEvents) /\ events # <<>> /\ Last(events) = e
    BY <2>1, <2>2, <2>3, AppendFacts
  <2>5. c = [d EXCEPT !.text_open = FALSE, !.events = events]
    BY <1>2, <2>1 DEF CloseText, Emit, Decoders
  <2>6. c \in Decoders  BY <2>4, <2>5 DEF Decoders
  <2>7. /\ c.started = d.started /\ c.events = events /\ c.next_ir_index = d.next_ir_index
        /\ c.flushed = d.flushed /\ ~c.text_open /\ c.thinking_open = d.thinking_open
        /\ c.stop = d.stop /\ c.tool_calls = d.tool_calls
    BY <2>5 DEF Decoders
  <2>8. Placed(d) => Admits(d.events, e) /\ Placed(c)
    <3>1. SUFFICES ASSUME Placed(d)
                   PROVE  Admits(d.events, e) /\ Placed(c)
      OBVIOUS
    <3>2. /\ d.started /\ ~d.thinking_open /\ d.text_index + 1 = d.next_ir_index
          /\ InsideBlock(d.events, d.text_index, "text", FALSE)
      BY <1>2, <3>1 DEF Placed
    <3>3. Continues(e, d.text_index, "text")  BY <2>3 DEF Continues
    <3>4. Admits(d.events, e)  BY <2>3, <3>2, <3>3, InsideAdmits
    <3>5. AtBoundary(events, d.next_ir_index)
      BY <2>3, <2>4, <3>2 DEF AtBoundary
    <3>. QED BY <2>7, <3>2, <3>4, <3>5 DEF Placed
  <2>9. Advances(d, c)  BY <2>1, <2>2, <2>3, <2>6, <2>7, <2>8, EmitAdvances
  <2>. QED BY <2>1, <2>7, <2>9
<1>. QED BY <1>1, <1>2

LEMMA CloseThinkingAdvances ==
  ASSUME NEW d \in Decoders
  PROVE  /\ Advances(d, CloseThinking(d)) /\ ~CloseThinking(d).thinking_open
         /\ CloseThinking(d).text_open = d.text_open /\ CloseThinking(d).stop = d.stop
         /\ CloseThinking(d).tool_calls = d.tool_calls
<1>1. CASE ~d.thinking_open  BY <1>1, Stays DEF CloseThinking
<1>2. CASE d.thinking_open
  <2>1. PICK e, c, events : /\ e = BlockStop(d.thinking_index) /\ c = CloseThinking(d)
                            /\ events = Append(d.events, e)
    OBVIOUS
  <2>2. /\ d.thinking_index \in Nat /\ d.next_ir_index \in Nat /\ d.events \in Seq(IrEvents)
    BY DEF Decoders
  <2>3. /\ e \in IrEvents /\ IsStop(e) /\ e.index = d.thinking_index /\ ~IsStart(e) /\ EventOK(e)
        /\ e.type \notin {"message_start", "message_delta", "message_done"}
    BY <2>1, <2>2, EventTypes, EventFacts
  <2>4. events \in Seq(IrEvents) /\ events # <<>> /\ Last(events) = e
    BY <2>1, <2>2, <2>3, AppendFacts
  <2>5. c = [d EXCEPT !.thinking_open = FALSE, !.events = events]
    BY <1>2, <2>1 DEF CloseThinking, Emit, Decoders
  <2>6. c \in Decoders  BY <2>4, <2>5 DEF Decoders
  <2>7. /\ c.started = d.started /\ c.events = events /\ c.next_ir_index = d.next_ir_index
        /\ c.flushed = d.flushed /\ ~c.thinking_open /\ c.text_open = d.text_open
        /\ c.stop = d.stop /\ c.tool_calls = d.tool_calls
    BY <2>5 DEF Decoders
  <2>8. Placed(d) => Admits(d.events, e) /\ Placed(c)
    <3>1. SUFFICES ASSUME Placed(d)
                   PROVE  Admits(d.events, e) /\ Placed(c)
      OBVIOUS
    <3>2. /\ d.started /\ ~d.text_open /\ d.thinking_index + 1 = d.next_ir_index
          /\ InsideBlock(d.events, d.thinking_index, "thinking", FALSE)
      BY <1>2, <3>1 DEF Placed
    <3>3. Continues(e, d.thinking_index, "thinking")  BY <2>3 DEF Continues
    <3>4. Admits(d.events, e)  BY <2>3, <3>2, <3>3, InsideAdmits
    <3>5. AtBoundary(events, d.next_ir_index)
      BY <2>3, <2>4, <3>2 DEF AtBoundary
    <3>. QED BY <2>7, <3>2, <3>4, <3>5 DEF Placed
  <2>9. Advances(d, c)  BY <2>1, <2>2, <2>3, <2>6, <2>7, <2>8, EmitAdvances
  <2>. QED BY <2>1, <2>7, <2>9
<1>. QED BY <1>1, <1>2

(* Opening a channel starts its block, when the other one is closed. *)
LEMMA TextBlockType == TextBlock \in Blocks /\ TextBlock.kind = "text"
<1>1. PICK empty, none : empty = "" /\ none = <<>>  OBVIOUS
<1>2. empty \in Tokens /\ none \in Text  BY <1>1, NoToken, Zenon
<1>3. "text" \in StreamedKinds  BY DEF StreamedKinds
<1>4. PICK kind : kind = "text"  OBVIOUS
<1>5. TextBlock = Block(kind, empty, none, none)
  BY <1>1, <1>4, Zenon DEF TextBlock
<1>6. Block(kind, empty, none, none) \in Blocks  BY <1>2, <1>3, <1>4, BlockTypes
<1>7. Block(kind, empty, none, none).kind = kind  BY DEF Block
<1>. QED BY <1>4, <1>5, <1>6, <1>7

LEMMA ThinkingBlockType == ThinkingBlock \in Blocks /\ ThinkingBlock.kind = "thinking"
<1>1. PICK empty, none : empty = "" /\ none = <<>>  OBVIOUS
<1>2. empty \in Tokens /\ none \in Text  BY <1>1, NoToken, Zenon
<1>3. "thinking" \in StreamedKinds  BY DEF StreamedKinds
<1>4. PICK kind : kind = "thinking"  OBVIOUS
<1>5. ThinkingBlock = Block(kind, empty, none, none)
  BY <1>1, <1>4, Zenon DEF ThinkingBlock
<1>6. Block(kind, empty, none, none) \in Blocks  BY <1>2, <1>3, <1>4, BlockTypes
<1>7. Block(kind, empty, none, none).kind = kind  BY DEF Block
<1>. QED BY <1>4, <1>5, <1>6, <1>7

LEMMA OpenTextAdvances ==
  ASSUME NEW d \in Decoders, ~d.thinking_open, d.started
  PROVE  /\ Advances(d, OpenText(d)) /\ OpenText(d).text_open /\ OpenText(d).started
<1>1. CASE d.text_open  BY <1>1, Stays DEF OpenText
<1>2. CASE ~d.text_open
  <2>1. PICK b : b = TextBlock  OBVIOUS
  <2>2. b \in Blocks /\ b.kind = "text"  BY <2>1, TextBlockType
  <2>3. PICK n, m : n = d.next_ir_index /\ m = n + 1  OBVIOUS
  <2>4. n \in Nat /\ m \in Nat /\ m > n /\ d.events \in Seq(IrEvents)
    BY <2>3 DEF Decoders
  <2>5. PICK e, c, events : /\ e = BlockStart(n, b) /\ c = OpenText(d)
                            /\ events = Append(d.events, e)
    OBVIOUS
  <2>6. /\ e \in IrEvents /\ IsStart(e) /\ e.index = n /\ e.block = b
        /\ e.type \notin {"message_start", "message_delta", "message_done"}
    BY <2>2, <2>4, <2>5, EventTypes, EventFacts
  <2>7. EventOK(e) /\ e.block.kind \notin ToolKinds
    <3>1. "text" \in StreamedKinds \ ({"custom_tool_use"} \union ApplyPatchKinds)
      BY DEF StreamedKinds, ApplyPatchKinds
    <3>2. "text" \notin ToolKinds  BY DEF ToolKinds
    <3>. QED BY <2>2, <2>6, <3>1, <3>2, StartOK
  <2>8. events \in Seq(IrEvents) /\ events # <<>> /\ Last(events) = e
    BY <2>4, <2>5, <2>6, AppendFacts
  <2>9. c = [d EXCEPT !.text_open = TRUE, !.text_index = n, !.next_ir_index = m,
                      !.events = events]
    BY <1>2, <2>1, <2>3, <2>5 DEF OpenText, Emit, Decoders
  <2>10. c \in Decoders  BY <2>4, <2>8, <2>9 DEF Decoders
  <2>11. /\ c.started = d.started /\ c.events = events /\ c.next_ir_index = m
         /\ c.flushed = d.flushed /\ c.text_open /\ c.text_index = n
         /\ c.thinking_open = d.thinking_open
    BY <2>9 DEF Decoders
  <2>12. Placed(d) => Admits(d.events, e) /\ Placed(c)
    <3>1. SUFFICES ASSUME Placed(d)
                   PROVE  Admits(d.events, e) /\ Placed(c)
      OBVIOUS
    <3>2. AtBoundary(d.events, n)  BY <1>2, <2>3, <3>1 DEF Placed
    <3>3. Admits(d.events, e)  BY <2>6, <3>2, BoundaryAdmits DEF OpensAt
    <3>4. InsideBlock(events, n, "text", FALSE)
      BY <2>2, <2>6, <2>8 DEF InsideBlock, BlockFamily
    <3>. QED BY <2>3, <2>11, <3>3, <3>4 DEF Placed
  <2>13. Advances(d, c)
    <3>1. c.events = Append(d.events, e) /\ c.next_ir_index = d.next_ir_index + 1
      BY <2>3, <2>5, <2>11
    <3>2. c.flushed = d.flushed /\ c.started  BY <2>11
    <3>3. IsStart(e) /\ e.index = d.next_ir_index  BY <2>3, <2>6
    <3>. QED BY <2>6, <2>7, <2>10, <2>12, <3>1, <3>2, <3>3, StartAdvances
  <2>. QED BY <2>5, <2>11, <2>13
<1>. QED BY <1>1, <1>2

LEMMA OpenThinkingAdvances ==
  ASSUME NEW d \in Decoders, ~d.text_open, d.started
  PROVE  /\ Advances(d, OpenThinking(d)) /\ OpenThinking(d).thinking_open /\ OpenThinking(d).started
<1>1. CASE d.thinking_open  BY <1>1, Stays DEF OpenThinking
<1>2. CASE ~d.thinking_open
  <2>1. PICK b : b = ThinkingBlock  OBVIOUS
  <2>2. b \in Blocks /\ b.kind = "thinking"  BY <2>1, ThinkingBlockType
  <2>3. PICK n, m : n = d.next_ir_index /\ m = n + 1  OBVIOUS
  <2>4. n \in Nat /\ m \in Nat /\ m > n /\ d.events \in Seq(IrEvents)
    BY <2>3 DEF Decoders
  <2>5. PICK e, c, events : /\ e = BlockStart(n, b) /\ c = OpenThinking(d)
                            /\ events = Append(d.events, e)
    OBVIOUS
  <2>6. /\ e \in IrEvents /\ IsStart(e) /\ e.index = n /\ e.block = b
        /\ e.type \notin {"message_start", "message_delta", "message_done"}
    BY <2>2, <2>4, <2>5, EventTypes, EventFacts
  <2>7. EventOK(e) /\ e.block.kind \notin ToolKinds
    <3>1. "thinking" \in StreamedKinds \ ({"custom_tool_use"} \union ApplyPatchKinds)
      BY DEF StreamedKinds, ApplyPatchKinds
    <3>2. "thinking" \notin ToolKinds  BY DEF ToolKinds
    <3>. QED BY <2>2, <2>6, <3>1, <3>2, StartOK
  <2>8. events \in Seq(IrEvents) /\ events # <<>> /\ Last(events) = e
    BY <2>4, <2>5, <2>6, AppendFacts
  <2>9. c = [d EXCEPT !.thinking_open = TRUE, !.thinking_index = n, !.next_ir_index = m,
                      !.events = events]
    BY <1>2, <2>1, <2>3, <2>5 DEF OpenThinking, Emit, Decoders
  <2>10. c \in Decoders  BY <2>4, <2>8, <2>9 DEF Decoders
  <2>11. /\ c.started = d.started /\ c.events = events /\ c.next_ir_index = m
         /\ c.flushed = d.flushed /\ c.thinking_open /\ c.thinking_index = n
         /\ c.text_open = d.text_open
    BY <2>9 DEF Decoders
  <2>12. Placed(d) => Admits(d.events, e) /\ Placed(c)
    <3>1. SUFFICES ASSUME Placed(d)
                   PROVE  Admits(d.events, e) /\ Placed(c)
      OBVIOUS
    <3>2. AtBoundary(d.events, n)  BY <1>2, <2>3, <3>1 DEF Placed
    <3>3. Admits(d.events, e)  BY <2>6, <3>2, BoundaryAdmits DEF OpensAt
    <3>4. InsideBlock(events, n, "thinking", FALSE)
      BY <2>2, <2>6, <2>8 DEF InsideBlock, BlockFamily
    <3>. QED BY <2>3, <2>11, <3>3, <3>4 DEF Placed
  <2>13. Advances(d, c)
    <3>1. c.events = Append(d.events, e) /\ c.next_ir_index = d.next_ir_index + 1
      BY <2>3, <2>5, <2>11
    <3>2. c.flushed = d.flushed /\ c.started  BY <2>11
    <3>3. IsStart(e) /\ e.index = d.next_ir_index  BY <2>3, <2>6
    <3>. QED BY <2>6, <2>7, <2>10, <2>12, <3>1, <3>2, <3>3, StartAdvances
  <2>. QED BY <2>5, <2>11, <2>13
<1>. QED BY <1>1, <1>2

(* A fragment of an open channel continues its block. *)
LEMMA TextDeltaAdvances ==
  ASSUME NEW d \in Decoders, d.text_open, NEW text \in Text
  PROVE  Advances(d, Emit(d, BlockDelta(d.text_index, Delta("text_delta", text))))
<1>1. PICK x, e : x = Delta("text_delta", text) /\ e = BlockDelta(d.text_index, x)
  OBVIOUS
<1>2. PICK c, events : c = Emit(d, e) /\ events = Append(d.events, e)  OBVIOUS
<1>3. d.text_index \in Nat /\ d.next_ir_index \in Nat /\ d.events \in Seq(IrEvents)
  BY DEF Decoders
<1>4. x \in Deltas /\ x.type = "text_delta" /\ DeltaFamily(x) = "text"
  BY <1>1 DEF Delta, Deltas, DeltaTypes, DeltaFamily
<1>5. /\ e \in IrEvents /\ IsDelta(e) /\ e.index = d.text_index /\ e.delta = x
      /\ ~IsStart(e) /\ EventOK(e)
      /\ e.type \notin {"message_start", "message_delta", "message_done"}
  BY <1>1, <1>3, <1>4, EventTypes, EventFacts
<1>6. events \in Seq(IrEvents) /\ events # <<>> /\ Last(events) = e
  BY <1>2, <1>3, <1>5, AppendFacts
<1>7. c = [d EXCEPT !.events = events]  BY <1>2 DEF Emit
<1>8. c \in Decoders  BY <1>6, <1>7 DEF Decoders
<1>9. /\ c.started = d.started /\ c.events = events /\ c.next_ir_index = d.next_ir_index
      /\ c.flushed = d.flushed /\ c.text_open /\ c.text_index = d.text_index
      /\ c.thinking_open = d.thinking_open
  BY <1>7 DEF Decoders
<1>10. Placed(d) => Admits(d.events, e) /\ Placed(c)
  <2>1. SUFFICES ASSUME Placed(d)
                 PROVE  Admits(d.events, e) /\ Placed(c)
    OBVIOUS
  <2>2. /\ d.started /\ ~d.thinking_open /\ d.text_index + 1 = d.next_ir_index
        /\ InsideBlock(d.events, d.text_index, "text", FALSE)
    BY <2>1 DEF Placed
  <2>3. Continues(e, d.text_index, "text")  BY <1>4, <1>5 DEF Continues
  <2>4. Admits(d.events, e)  BY <2>2, <2>3, InsideAdmits
  <2>5. InsideBlock(events, d.text_index, "text", FALSE)
    BY <1>4, <1>5, <1>6 DEF InsideBlock
  <2>. QED BY <1>9, <2>2, <2>4, <2>5 DEF Placed
<1>11. Advances(d, c)  BY <1>2, <1>3, <1>5, <1>8, <1>9, <1>10, EmitAdvances
<1>. QED BY <1>1, <1>2, <1>11

LEMMA ThinkingDeltaAdvances ==
  ASSUME NEW d \in Decoders, d.thinking_open, NEW text \in Text
  PROVE  Advances(d, Emit(d, BlockDelta(d.thinking_index, Delta("thinking_delta", text))))
<1>1. PICK x, e : x = Delta("thinking_delta", text) /\ e = BlockDelta(d.thinking_index, x)
  OBVIOUS
<1>2. PICK c, events : c = Emit(d, e) /\ events = Append(d.events, e)  OBVIOUS
<1>3. d.thinking_index \in Nat /\ d.next_ir_index \in Nat /\ d.events \in Seq(IrEvents)
  BY DEF Decoders
<1>4. x \in Deltas /\ x.type = "thinking_delta" /\ DeltaFamily(x) = "thinking"
  BY <1>1 DEF Delta, Deltas, DeltaTypes, DeltaFamily
<1>5. /\ e \in IrEvents /\ IsDelta(e) /\ e.index = d.thinking_index /\ e.delta = x
      /\ ~IsStart(e) /\ EventOK(e)
      /\ e.type \notin {"message_start", "message_delta", "message_done"}
  BY <1>1, <1>3, <1>4, EventTypes, EventFacts
<1>6. events \in Seq(IrEvents) /\ events # <<>> /\ Last(events) = e
  BY <1>2, <1>3, <1>5, AppendFacts
<1>7. c = [d EXCEPT !.events = events]  BY <1>2 DEF Emit
<1>8. c \in Decoders  BY <1>6, <1>7 DEF Decoders
<1>9. /\ c.started = d.started /\ c.events = events /\ c.next_ir_index = d.next_ir_index
      /\ c.flushed = d.flushed /\ c.thinking_open /\ c.thinking_index = d.thinking_index
      /\ c.text_open = d.text_open
  BY <1>7 DEF Decoders
<1>10. Placed(d) => Admits(d.events, e) /\ Placed(c)
  <2>1. SUFFICES ASSUME Placed(d)
                 PROVE  Admits(d.events, e) /\ Placed(c)
    OBVIOUS
  <2>2. /\ d.started /\ ~d.text_open /\ d.thinking_index + 1 = d.next_ir_index
        /\ InsideBlock(d.events, d.thinking_index, "thinking", FALSE)
    BY <2>1 DEF Placed
  <2>3. Continues(e, d.thinking_index, "thinking")  BY <1>4, <1>5 DEF Continues
  <2>4. Admits(d.events, e)  BY <2>2, <2>3, InsideAdmits
  <2>5. InsideBlock(events, d.thinking_index, "thinking", FALSE)
    BY <1>4, <1>5, <1>6 DEF InsideBlock
  <2>. QED BY <1>9, <2>2, <2>4, <2>5 DEF Placed
<1>11. Advances(d, c)  BY <1>2, <1>3, <1>5, <1>8, <1>9, <1>10, EmitAdvances
<1>. QED BY <1>1, <1>2, <1>11

(* The usage is noted. *)
LEMMA WithUsageAdvances ==
  ASSUME NEW d \in Decoders, NEW chunk \in Chunks
  PROVE  Advances(d, WithUsage(d, chunk))
<1>1. CASE chunk.usage = None  BY <1>1, Stays DEF WithUsage
<1>2. CASE chunk.usage # None
  <2>1. PICK usage, c : /\ usage = Usage(chunk.usage[1].prompt, chunk.usage[1].completion)
                        /\ c = WithUsage(d, chunk)
    OBVIOUS
  <2>2. usage \in Usages
    BY <1>2, <2>1, ChunkTypes DEF WireUsages, Usage, Usages
  <2>3. c = [d EXCEPT !.usage = usage]  BY <1>2, <2>1 DEF WithUsage
  <2>4. c \in Decoders  BY <2>2, <2>3 DEF Decoders
  <2>5. /\ c.events = d.events /\ c.next_ir_index = d.next_ir_index /\ c.flushed = d.flushed
        /\ c.started = d.started /\ c.text_open = d.text_open
        /\ c.thinking_open = d.thinking_open /\ c.text_index = d.text_index
        /\ c.thinking_index = d.thinking_index /\ c.stop = d.stop
    BY <2>3 DEF Decoders
  <2>6. Advances(d, c)  BY <2>4, <2>5, QuietAdvances
  <2>. QED BY <2>1, <2>6
<1>. QED BY <1>1, <1>2

(* The tool calls of a chunk, up to the first one that is refused. *)
LEMMA RecordAdvances ==
  ASSUME NEW d \in Decoders, NEW call \in NativeCalls, ~CallRejected(d, call)
  PROVE  Advances(d, RecordCall(d, call)) /\ RecordCall(d, call).started = d.started
<1>1. PICK c : c = RecordCall(d, call)  OBVIOUS
<1>2. PICK calls \in Seq(CallRecords), losses \in Seq({"tool_call", "finish_reason"} \X Nat) :
        RecordCall(d, call) = [d EXCEPT !.tool_calls = calls, !.losses = losses]
  BY RecordType
<1>3. c \in Decoders  BY <1>1, RecordType
<1>4. /\ c.events = d.events /\ c.next_ir_index = d.next_ir_index /\ c.flushed = d.flushed
      /\ c.started = d.started /\ c.text_open = d.text_open
      /\ c.thinking_open = d.thinking_open /\ c.text_index = d.text_index
      /\ c.thinking_index = d.thinking_index /\ c.stop = d.stop
  BY <1>1, <1>2 DEF Decoders
<1>5. Advances(d, c)  BY <1>3, <1>4, QuietAdvances
<1>. QED BY <1>1, <1>4, <1>5

(* One turn of the loop over the tool calls of a chunk. *)
RecordNext(before, call) ==
  IF ~before.ok \/ CallRejected(before.dec, call)
  THEN [before EXCEPT !.ok = FALSE]
  ELSE [dec |-> RecordCall(before.dec, call), ok |-> TRUE]

(* Where the loop can be that started from d. *)
Recordings(d) == {r \in [dec : Decoders, ok : BOOLEAN] : Advances(d, r.dec)}

LEMMA RecordNextKeeps ==
  ASSUME NEW d \in Decoders, NEW r \in Recordings(d), NEW call \in NativeCalls
  PROVE  RecordNext(r, call) \in Recordings(d)
<1>1. r \in [dec : Decoders, ok : BOOLEAN] /\ Advances(d, r.dec)
  BY DEF Recordings
<1>2. CASE ~r.ok \/ CallRejected(r.dec, call)
  <2>1. PICK q : q = [r EXCEPT !.ok = FALSE]  OBVIOUS
  <2>2. q \in [dec : Decoders, ok : BOOLEAN] /\ q.dec = r.dec  BY <1>1, <2>1
  <2>3. q \in Recordings(d)  BY <1>1, <2>2 DEF Recordings
  <2>. QED BY <1>2, <2>1, <2>3 DEF RecordNext
<1>3. CASE r.ok /\ ~CallRejected(r.dec, call)
  <2>1. PICK b, c : b = r.dec /\ c = RecordCall(r.dec, call)  OBVIOUS
  <2>2. b \in Decoders  BY <1>1, <2>1
  <2>3. c \in Decoders /\ Advances(b, c)
    BY <1>3, <2>1, <2>2, RecordType, RecordAdvances
  <2>4. Advances(d, c)  BY <1>1, <2>1, <2>3, AdvancesTrans
  <2>5. PICK q : q = [dec |-> c, ok |-> TRUE]  OBVIOUS
  <2>6. q \in [dec : Decoders, ok : BOOLEAN] /\ q.dec = c  BY <2>3, <2>5
  <2>7. q \in Recordings(d)  BY <2>4, <2>6 DEF Recordings
  <2>. QED BY <1>3, <2>1, <2>5, <2>7 DEF RecordNext
<1>. QED BY <1>2, <1>3

(* The function of the loop, and its existence. *)
RecordLoop(f, d, calls) ==
  f = [n \in 0..Len(calls) |->
         IF n = 0 THEN [dec |-> d, ok |-> TRUE] ELSE RecordNext(f[n - 1], calls[n])]

LEMMA RecordLoopExists ==
  ASSUME NEW d \in Decoders, NEW calls \in Seq(NativeCalls)
  PROVE  \E f : RecordLoop(f, d, calls)
<1>1. PICK S, a, n : S = Recordings(d) /\ a = [dec |-> d, ok |-> TRUE] /\ n = Len(calls)
  OBVIOUS
<1>2. a \in S
  <2>1. a \in [dec : Decoders, ok : BOOLEAN] /\ a.dec = d  BY <1>1
  <2>. QED BY <1>1, <2>1, Stays DEF Recordings
<1>3. n \in Nat  BY <1>1
<1>4. PICK step : step = [x \in (1..n) \X S |-> RecordNext(x[2], calls[x[1]])]
  OBVIOUS
<1>5. ASSUME NEW k \in 1..n, NEW r \in S
      PROVE  step[<<k, r>>] = RecordNext(r, calls[k]) /\ RecordNext(r, calls[k]) \in S
  <2>1. calls[k] \in NativeCalls  BY <1>1
  <2>2. <<k, r>> \in (1..n) \X S /\ <<k, r>>[1] = k /\ <<k, r>>[2] = r  OBVIOUS
  <2>3. step[<<k, r>>] = RecordNext(r, calls[k])  BY <1>4, <2>2
  <2>. QED BY <1>1, <2>1, <2>3, RecordNextKeeps
<1>6. step \in [(1..n) \X S -> S]
  <2>1. ASSUME NEW x \in (1..n) \X S
        PROVE  RecordNext(x[2], calls[x[1]]) \in S
    <3>1. x[1] \in 1..n /\ x[2] \in S  BY <2>1
    <3>. QED BY <1>5, <3>1
  <2>. QED BY <1>4, <2>1
<1>7. PICK f : f \in [0..n -> S] /\ f[0] = a /\ \A m \in 1..n : f[m] = step[<<m, f[m - 1]>>]
  <2>1. \E f : Recurs(f, S, a, n, step)  BY <1>2, <1>3, <1>6, Recursion
  <2>. QED BY <2>1 DEF Recurs
<1>8. ASSUME NEW m \in 0..n
      PROVE  f[m] = IF m = 0 THEN a ELSE RecordNext(f[m - 1], calls[m])
  <2>1. CASE m = 0  BY <1>7, <2>1
  <2>2. CASE m # 0
    <3>1. m \in 1..n /\ m - 1 \in 0..n  BY <1>3, <2>2
    <3>2. f[m - 1] \in S  BY <1>7, <3>1
    <3>. QED BY <1>5, <1>7, <2>2, <3>1, <3>2
  <2>. QED BY <2>1, <2>2
<1>9. f = [m \in 0..n |-> IF m = 0 THEN a ELSE RecordNext(f[m - 1], calls[m])]
  <2>1. PICK g : g = [m \in 0..n |-> IF m = 0 THEN a ELSE RecordNext(f[m - 1], calls[m])]
    OBVIOUS
  <2>2. \A m \in 0..n : f[m] = g[m]  BY <1>8, <2>1
  <2>. QED BY <1>7, <2>1, <2>2
<1>10. RecordLoop(f, d, calls)  BY <1>1, <1>9 DEF RecordLoop
<1>. QED BY <1>10

(* The loop, as the sequence of the states it goes through. *)
LEMMA RecordLoopRuns ==
  ASSUME NEW d \in Decoders, NEW calls \in Seq(NativeCalls)
  PROVE  \E f : /\ RecordToolCalls(d, calls) = f[Len(calls)]
                /\ f[0] = [dec |-> d, ok |-> TRUE]
                /\ \A m \in 1..Len(calls) : f[m] = RecordNext(f[m - 1], calls[m])
                /\ \A m \in 0..Len(calls) : f[m] \in Recordings(d)
<1>1. PICK f : f = CHOOSE g : RecordLoop(g, d, calls)  OBVIOUS
<1>2. RecordToolCalls(d, calls) = f[Len(calls)]
  BY <1>1 DEF RecordToolCalls, RecordLoop, RecordNext
<1>3. RecordLoop(f, d, calls)
  <2>1. \E g : RecordLoop(g, d, calls)  BY RecordLoopExists
  <2>. QED BY <1>1, <2>1, Zenon
<1>4. PICK S, a, n : S = Recordings(d) /\ a = [dec |-> d, ok |-> TRUE] /\ n = Len(calls)
  OBVIOUS
<1>5. n \in Nat /\ f = [m \in 0..n |-> IF m = 0 THEN a ELSE RecordNext(f[m - 1], calls[m])]
  <2>1. n \in Nat  BY <1>4
  <2>2. f = [m \in 0..n |-> IF m = 0 THEN a ELSE RecordNext(f[m - 1], calls[m])]
    BY <1>3, <1>4, Zenon DEF RecordLoop
  <2>. QED BY <2>1, <2>2
<1>6. \A m \in 0..n : f[m] = IF m = 0 THEN a ELSE RecordNext(f[m - 1], calls[m])
  <2>1. PICK g : g = [m \in 0..n |-> IF m = 0 THEN a ELSE RecordNext(f[m - 1], calls[m])]
    OBVIOUS
  <2>2. \A m \in 0..n : g[m] = IF m = 0 THEN a ELSE RecordNext(f[m - 1], calls[m])
    BY <2>1
  <2>. QED BY <1>5, <2>1, <2>2
<1>7. f[0] \in S
  <2>1. a \in [dec : Decoders, ok : BOOLEAN] /\ a.dec = d  BY <1>4
  <2>2. a \in S  BY <1>4, <2>1, Stays DEF Recordings
  <2>. QED BY <1>5, <1>6, <2>2
<1>8. ASSUME NEW m \in 1..n, f[m - 1] \in S
      PROVE  f[m] \in S
  <2>1. calls[m] \in NativeCalls  BY <1>4
  <2>2. f[m] = RecordNext(f[m - 1], calls[m])  BY <1>5, <1>6
  <2>. QED BY <1>4, <1>8, <2>1, <2>2, RecordNextKeeps
<1>9. \A m \in 0..n : f[m] \in S  BY <1>5, <1>7, <1>8, Iteration
<1>10. f[0] = a /\ \A m \in 1..n : f[m] = RecordNext(f[m - 1], calls[m])
  BY <1>5, <1>6
<1>. QED BY <1>2, <1>4, <1>9, <1>10

LEMMA RecordToolCallsAdvances ==
  ASSUME NEW d \in Decoders, NEW calls \in Seq(NativeCalls)
  PROVE  RecordToolCalls(d, calls) \in Recordings(d)
<1>1. PICK f : /\ RecordToolCalls(d, calls) = f[Len(calls)]
               /\ \A m \in 0..Len(calls) : f[m] \in Recordings(d)
  BY RecordLoopRuns
<1>2. Len(calls) \in 0..Len(calls)  OBVIOUS
<1>. QED BY <1>1, <1>2

(* The reasoning of a chunk goes to the thinking channel. *)
LEMMA AddReasoningAdvances ==
  ASSUME NEW d \in Decoders, d.started, NEW reasoning \in Option(Text)
  PROVE  Advances(d, AddReasoning(d, reasoning)) /\ AddReasoning(d, reasoning).started
<1>1. CASE reasoning \in {None, Some(<<>>)}  BY <1>1, Stays DEF AddReasoning
<1>2. CASE reasoning \notin {None, Some(<<>>)}
  <2>1. PICK text, closed, opened, c :
          /\ text = reasoning[1] /\ closed = CloseText(d) /\ opened = OpenThinking(closed)
          /\ c = Emit(opened, BlockDelta(opened.thinking_index, Delta("thinking_delta", text)))
    OBVIOUS
  <2>2. text \in Text
    <3>1. reasoning # None  BY <1>2
    <3>. QED BY <2>1, <3>1, SomeTypes
  <2>3. Advances(d, closed) /\ ~closed.text_open  BY <2>1, CloseTextAdvances
  <2>4. closed \in Decoders /\ closed.started  BY <2>3 DEF Advances
  <2>5. Advances(closed, opened) /\ opened.thinking_open /\ opened.started
    BY <2>1, <2>3, <2>4, OpenThinkingAdvances
  <2>6. opened \in Decoders  BY <2>5 DEF Advances
  <2>7. Advances(opened, c)  BY <2>1, <2>2, <2>5, <2>6, ThinkingDeltaAdvances
  <2>8. Advances(d, c)
    <3>1. Advances(d, opened)  BY <2>3, <2>5, AdvancesTrans
    <3>. QED BY <2>7, <3>1, AdvancesTrans
  <2>9. c.started  BY <2>5, <2>7 DEF Advances
  <2>10. AddReasoning(d, reasoning) = c  BY <1>2, <2>1, Zenon DEF AddReasoning
  <2>. QED BY <2>8, <2>9, <2>10
<1>. QED BY <1>1, <1>2

(* The content of a chunk goes to the text channel. *)
LEMMA AddContentAdvances ==
  ASSUME NEW d \in Decoders, d.started, NEW content \in Option(Text)
  PROVE  Advances(d, AddContent(d, content)) /\ AddContent(d, content).started
<1>1. CASE content = None  BY <1>1, Stays DEF AddContent
<1>2. CASE content # None
  <2>1. PICK text, closed, opened, c :
          /\ text = content[1] /\ closed = CloseThinking(d) /\ opened = OpenText(closed)
          /\ c = Emit(opened, BlockDelta(opened.text_index, Delta("text_delta", text)))
    OBVIOUS
  <2>2. text \in Text  BY <1>2, <2>1, SomeTypes
  <2>3. Advances(d, closed) /\ ~closed.thinking_open
    BY <2>1, CloseThinkingAdvances
  <2>4. closed \in Decoders /\ closed.started  BY <2>3 DEF Advances
  <2>5. Advances(closed, opened) /\ opened.text_open /\ opened.started
    BY <2>1, <2>3, <2>4, OpenTextAdvances
  <2>6. opened \in Decoders  BY <2>5 DEF Advances
  <2>7. Advances(opened, c)  BY <2>1, <2>2, <2>5, <2>6, TextDeltaAdvances
  <2>8. Advances(d, c)
    <3>1. Advances(d, opened)  BY <2>3, <2>5, AdvancesTrans
    <3>. QED BY <2>7, <3>1, AdvancesTrans
  <2>9. c.started  BY <2>5, <2>7 DEF Advances
  <2>10. AddContent(d, content) = c  BY <1>2, <2>1, Zenon DEF AddContent
  <2>. QED BY <2>8, <2>9, <2>10
<1>. QED BY <1>1, <1>2

(* The finish_reason is noted. *)
LEMMA FinishAdvances ==
  ASSUME NEW d \in Decoders, d.started, NEW finish
  PROVE  Advances(d, Finish(d, finish))
<1>1. CASE finish = "absent"  BY <1>1, Stays DEF Finish
<1>2. CASE finish # "absent"
  <2>1. PICK stop, c, losses : /\ stop = StopOf(finish) /\ c = Finish(d, finish)
                               /\ losses = IF stop = "other"
                                           THEN Append(d.losses, <<"finish_reason", 0>>)
                                           ELSE d.losses
    OBVIOUS
  <2>2. stop \in StopReasons
    <3>1. stop \in {"end_turn", "max_tokens", "refusal", "tool_use", "other"}
      BY <2>1 DEF StopOf
    <3>. QED BY <3>1 DEF StopReasons
  <2>3. losses \in Seq({"tool_call", "finish_reason"} \X Nat)
    BY <2>1 DEF Decoders
  <2>4. c = [d EXCEPT !.stop = stop, !.finish_seen = TRUE, !.losses = losses]
    BY <1>2, <2>1 DEF Finish
  <2>5. c \in Decoders  BY <2>2, <2>3, <2>4 DEF Decoders
  <2>6. /\ c.events = d.events /\ c.next_ir_index = d.next_ir_index /\ c.flushed = d.flushed
        /\ c.started = d.started /\ c.text_open = d.text_open
        /\ c.thinking_open = d.thinking_open /\ c.text_index = d.text_index
        /\ c.thinking_index = d.thinking_index
    BY <2>4 DEF Decoders
  <2>7. Advances(d, c)  BY <2>5, <2>6, QuietAdvances
  <2>. QED BY <2>1, <2>7
<1>. QED BY <1>1, <1>2

(* A whole chunk with a choice. *)
LEMMA StreamedAdvances ==
  ASSUME dec \in Decoders, NEW chunk \in Chunks, chunk.choice # None
  PROVE  /\ Advances(dec, Recorded(chunk).dec)
         /\ Advances(dec, Streamed(chunk)) /\ Streamed(chunk).started
<1>1. PICK choice : choice = chunk.choice[1]  OBVIOUS
<1>2. /\ choice.tool_calls \in Seq(NativeCalls) /\ choice.reasoning \in Option(Text)
      /\ choice.content \in Option(Text)
  BY <1>1, ChunkTypes DEF NativeChoices
<1>3. PICK noted, begun, recorded : /\ noted = WithUsage(dec, chunk) /\ begun = Begin(noted)
                                    /\ recorded = RecordToolCalls(begun, choice.tool_calls).dec
  OBVIOUS
<1>4. Advances(dec, noted)  BY <1>3, WithUsageAdvances
<1>5. noted \in Decoders  BY <1>4 DEF Advances
<1>6. Advances(noted, begun) /\ begun.started  BY <1>3, <1>5, BeginAdvances
<1>7. begun \in Decoders  BY <1>6 DEF Advances
<1>8. Advances(begun, recorded)
  BY <1>2, <1>3, <1>7, RecordToolCallsAdvances DEF Recordings
<1>9. recorded \in Decoders /\ recorded.started  BY <1>6, <1>8 DEF Advances
<1>10. PICK reasoned, c : /\ reasoned = AddReasoning(recorded, choice.reasoning)
                          /\ c = AddContent(reasoned, choice.content)
  OBVIOUS
<1>11. Advances(recorded, reasoned) /\ reasoned.started
  BY <1>2, <1>9, <1>10, AddReasoningAdvances
<1>12. reasoned \in Decoders  BY <1>11 DEF Advances
<1>13. Advances(reasoned, c) /\ c.started
  BY <1>2, <1>10, <1>11, <1>12, AddContentAdvances
<1>14. Advances(dec, begun)  BY <1>4, <1>6, AdvancesTrans
<1>15. Advances(dec, recorded)  BY <1>8, <1>14, AdvancesTrans
<1>16. Advances(dec, reasoned)  BY <1>11, <1>15, AdvancesTrans
<1>17. Advances(dec, c)  BY <1>13, <1>16, AdvancesTrans
<1>18. Recorded(chunk).dec = recorded /\ Streamed(chunk) = c
  BY <1>1, <1>3, <1>10 DEF Recorded, Streamed
<1>. QED BY <1>13, <1>15, <1>17, <1>18

-----------------------------------------------------------------------------
(* The replay of the tool calls *)

(* The block of a tool call with an id and a name is a legal batch. *)
LEMMA ToolUnitLegal ==
  ASSUME NEW i \in Nat, NEW call \in CallRecords, Identified(call.id, call.name)
  PROVE  /\ ToolUnit(i, call) \in Seq(IrEvents) /\ ToolUnit(i, call) # <<>>
         /\ LegalBatch(ToolUnit(i, call))
         /\ \A k \in 1..Len(ToolUnit(i, call)) :
              /\ ToolUnit(i, call)[k].type \notin {"message_delta", "message_done"}
              /\ IsStart(ToolUnit(i, call)[k]) => k = 1 /\ ToolUnit(i, call)[k].index = i
         /\ ToolUnit(i, call)[1].type = "content_block_start" /\ ToolUnit(i, call)[1].index = i
         /\ IsStop(Last(ToolUnit(i, call))) /\ Last(ToolUnit(i, call)).index = i
<1>1. PICK parts, n, u, input :
        /\ parts = call.fragments /\ n = Len(parts) /\ u = ToolUnit(i, call)
        /\ input = Concat(parts)
  OBVIOUS
<1>2. /\ parts \in Seq(Text) /\ n \in Nat /\ call.id \in Tokens /\ call.name \in Text
      /\ call.custom \in BOOLEAN
  BY <1>1 DEF CallRecords
<1>3. input \in Text
  <2>1. parts \in Seq(Seq(Tokens))  BY <1>2 DEF Text
  <2>2. Concat(parts) \in Seq(Tokens)  BY <2>1, ConcatText
  <2>. QED BY <1>1, <2>2 DEF Text
<1>4. PICK kind, type, id, name :
        /\ kind = IF call.custom THEN "custom_tool_use" ELSE "tool_use"
        /\ type = IF call.custom THEN "custom_tool_input_delta" ELSE "input_json_delta"
        /\ id = call.id /\ name = call.name
  OBVIOUS
<1>5. PICK none, b : none = <<>> /\ b = Block(kind, id, name, input)  OBVIOUS
<1>6. /\ kind \in StreamedKinds /\ kind \in ToolKinds /\ type \in DeltaTypes
      /\ kind = "custom_tool_use" \/ kind \in StreamedKinds \ ({"custom_tool_use"} \union ApplyPatchKinds)
  BY <1>4 DEF StreamedKinds, ToolKinds, DeltaTypes, ApplyPatchKinds
<1>7. /\ b \in Blocks /\ b.kind = kind /\ b.id = id /\ b.name = name /\ b.text = input
  <2>1. b \in Blocks  BY <1>2, <1>3, <1>4, <1>5, <1>6, BlockTypes
  <2>. QED BY <1>5, <2>1 DEF Block
<1>8. \A t : DeltaFamily(Delta(type, t)) = BlockFamily(b)
  BY <1>4, <1>7 DEF DeltaFamily, BlockFamily, Delta
<1>9. PICK start, stop : start = BlockStart(i, b) /\ stop = BlockStop(i)
  OBVIOUS
<1>10. /\ start \in IrEvents /\ IsStart(start) /\ start.index = i /\ start.block = b
       /\ start.type = "content_block_start"
       /\ stop \in IrEvents /\ IsStop(stop) /\ stop.index = i /\ ~IsStart(stop)
       /\ stop.type \notin {"message_delta", "message_done"}
  BY <1>7, <1>9, EventTypes, EventFacts DEF IsStart
<1>11. EventOK(start)
  <2>1. \/ start.block.kind \in StreamedKinds \ ({"custom_tool_use"} \union ApplyPatchKinds)
        \/ /\ start.block.kind = "custom_tool_use"
           /\ Identified(start.block.id, start.block.name)
    BY <1>4, <1>6, <1>7, <1>10
  <2>. QED BY <1>10, <2>1, StartOK
<1>12. u = [k \in 1..(n + 2) |->
              IF k = 1 THEN start ELSE IF k = n + 2 THEN stop
              ELSE BlockDelta(i, Delta(type, parts[k - 1]))]
  <2>1. b = IF call.custom THEN CustomToolUseBlock(call.id, call.name, input)
                           ELSE ToolUseBlock(call.id, call.name, input)
    <3>1. CASE call.custom  BY <1>4, <1>5, <3>1, Zenon DEF CustomToolUseBlock
    <3>2. CASE ~call.custom  BY <1>4, <1>5, <3>2, Zenon DEF ToolUseBlock
    <3>. QED BY <3>1, <3>2
  <2>. QED BY <1>1, <1>4, <1>9, <2>1, Zenon DEF ToolUnit
<1>13. ASSUME NEW j \in 1..n
       PROVE  /\ u[j + 1] \in IrEvents /\ IsDelta(u[j + 1]) /\ u[j + 1].index = i
              /\ DeltaFamily(u[j + 1].delta) = BlockFamily(b)
              /\ u[j + 1].delta.text = parts[j]
              /\ ~IsStart(u[j + 1])
              /\ u[j + 1].type \notin {"message_delta", "message_done"}
  <2>1. PICK t, x, e : t = parts[j] /\ x = Delta(type, t) /\ e = BlockDelta(i, x)
    OBVIOUS
  <2>2. t \in Text  BY <1>1, <1>2, <2>1
  <2>3. x \in Deltas /\ x.text = t /\ DeltaFamily(x) = BlockFamily(b)
    <3>1. DeltaFamily(x) = BlockFamily(b)  BY <1>8, <2>1
    <3>. QED BY <1>6, <2>1, <2>2, <3>1 DEF Delta, Deltas
  <2>4. /\ e \in IrEvents /\ IsDelta(e) /\ e.index = i /\ e.delta = x /\ ~IsStart(e)
        /\ e.type \notin {"message_delta", "message_done"}
    BY <2>1, <2>3, EventTypes, EventFacts
  <2>5. u[j + 1] = e
    <3>1. PICK k : k = j + 1  OBVIOUS
    <3>2. k \in 1..(n + 2) /\ k # 1 /\ k # n + 2 /\ k - 1 = j  BY <1>2, <3>1
    <3>. QED BY <1>12, <2>1, <3>1, <3>2
  <2>. QED BY <2>1, <2>3, <2>4, <2>5
<1>14. u[1] = start /\ u[n + 2] = stop  BY <1>2, <1>12
<1>15. \A k \in 1..(n + 2) : k = 1 \/ k = n + 2 \/ \E j \in 1..n : k = j + 1
  <2>1. ASSUME NEW k \in 1..(n + 2), k # 1, k # n + 2
        PROVE  \E j \in 1..n : k = j + 1
    <3>1. k - 1 \in 1..n /\ k = (k - 1) + 1  BY <1>2, <2>1
    <3>. QED BY <3>1
  <2>. QED BY <2>1
<1>16. ASSUME NEW k \in 1..(n + 2)
       PROVE  /\ u[k] \in IrEvents /\ u[k].type \notin {"message_delta", "message_done"}
              /\ IsStart(u[k]) => k = 1 /\ u[k].index = i
  <2>1. CASE k = 1  BY <1>10, <1>14, <2>1
  <2>2. CASE k = n + 2  BY <1>10, <1>14, <2>2
  <2>3. CASE k # 1 /\ k # n + 2
    <3>1. PICK j \in 1..n : k = j + 1  BY <1>15, <2>3
    <3>. QED BY <1>13, <3>1
  <2>. QED BY <2>1, <2>2, <2>3
<1>17. u \in Seq(IrEvents) /\ Len(u) = n + 2 /\ u # <<>>
  <2>1. u \in [1..(n + 2) -> IrEvents]
    <3>1. DOMAIN u = 1..(n + 2) /\ u = [k \in 1..(n + 2) |-> u[k]]  BY <1>12
    <3>. QED BY <1>16, <3>1
  <2>. QED BY <1>2, <2>1
<1>18. InputExact(b.text, parts, FALSE)
  <2>1. parts = <<>> => input = <<>>  BY <1>1, ConcatEmpty
  <2>. QED BY <1>1, <1>7, <2>1 DEF InputExact
<1>19. LegalBatch(u)
  <2>1. \A j \in 1..n : /\ IsDelta(u[j + 1]) /\ u[j + 1].index = u[1].index
                        /\ DeltaFamily(u[j + 1].delta) = BlockFamily(u[1].block)
                        /\ u[j + 1].delta.text = parts[j]
    BY <1>10, <1>13, <1>14
  <2>2. /\ IsStart(u[1]) /\ u[1].block.kind \in ToolKinds /\ EventOK(u[1])
        /\ IsStop(u[n + 2]) /\ u[n + 2].index = u[1].index
        /\ InputExact(u[1].block.text, parts, FALSE)
    BY <1>6, <1>7, <1>10, <1>11, <1>14, <1>18
  <2>. QED BY <1>1, <1>2, <1>17, <2>1, <2>2, UnitOfParts
<1>20. Last(u) = stop  BY <1>14, <1>17 DEF Last
<1>. QED BY <1>1, <1>10, <1>14, <1>16, <1>17, <1>19, <1>20

(* One call is replayed, between the other blocks. *)
LEMMA ReplayCallAdvances ==
  ASSUME NEW d \in Decoders, ~d.text_open, ~d.thinking_open, d.stop # "none",
         NEW call \in CallRecords, Replayable(call)
  PROVE  /\ Advances(d, ReplayCall(d, call))
         /\ ~ReplayCall(d, call).text_open /\ ~ReplayCall(d, call).thinking_open
         /\ ReplayCall(d, call).stop = d.stop
<1>1. CASE call.skipped  BY <1>1, Stays DEF ReplayCall
<1>2. CASE ~call.skipped
  <2>1. Identified(call.id, call.name)
    BY <1>2, Zenon DEF Replayable, Identified, HasId
  <2>2. PICK n, m, u, c : /\ n = d.next_ir_index /\ m = n + 1 /\ u = ToolUnit(n, call)
                          /\ c = ReplayCall(d, call)
    OBVIOUS
  <2>3. n \in Nat /\ m \in Nat /\ m > n /\ d.events \in Seq(IrEvents)
    BY <2>2 DEF Decoders
  <2>4. /\ u \in Seq(IrEvents) /\ u # <<>> /\ LegalBatch(u)
        /\ u[1].type = "content_block_start" /\ u[1].index = n
        /\ IsStop(Last(u)) /\ Last(u).index = n
    BY <2>1, <2>2, <2>3, ToolUnitLegal, SMTT(60)
  <2>5. \A k \in 1..Len(u) : /\ u[k].type \notin {"message_delta", "message_done"}
                             /\ IsStart(u[k]) => k = 1 /\ u[k].index = n
    <3>1. \A k \in 1..Len(ToolUnit(n, call)) :
            /\ ToolUnit(n, call)[k].type \notin {"message_delta", "message_done"}
            /\ IsStart(ToolUnit(n, call)[k]) => k = 1 /\ ToolUnit(n, call)[k].index = n
      BY <2>1, <2>3, ToolUnitLegal
    <3>. QED BY <2>2, <3>1
  <2>6. PICK events : events = d.events \o u  OBVIOUS
  <2>7. events \in Seq(IrEvents)  BY <2>3, <2>4, <2>6
  <2>8. c = [d EXCEPT !.events = events, !.next_ir_index = m]
    BY <1>2, <2>2, <2>6 DEF ReplayCall
  <2>9. c \in Decoders  BY <2>3, <2>7, <2>8 DEF Decoders
  <2>10. /\ c.started = d.started /\ c.events = events /\ c.next_ir_index = m
         /\ c.flushed = d.flushed /\ ~c.text_open /\ ~c.thinking_open /\ c.stop = d.stop
    BY <2>8 DEF Decoders
  <2>11. Standing(d) => Kept(d.events \o u) /\ Placed(c)
    <3>1. SUFFICES ASSUME Standing(d)
                   PROVE  Kept(d.events \o u) /\ Placed(c)
      OBVIOUS
    <3>2. Kept(d.events) /\ d.started /\ AtBoundary(d.events, n)
      BY <2>2, <3>1 DEF Standing, Placed
    <3>3. Admits(d.events, u[1])
      BY <2>4, <3>2, BoundaryAdmits DEF OpensAt, IsStart
    <3>4. Kept(d.events \o u)  BY <2>3, <2>4, <3>2, <3>3, KeptBatch
    <3>5. AtBoundary(events, m)
      <4>1. events # <<>> /\ Last(events) = Last(u)
        BY <2>3, <2>4, <2>6, BatchFacts
      <4>. QED BY <2>2, <2>4, <4>1 DEF AtBoundary
    <3>. QED BY <2>10, <3>2, <3>4, <3>5 DEF Placed
  <2>12. Advances(d, c)
    <3>1. c.events = d.events \o u /\ c.next_ir_index >= d.next_ir_index
      BY <2>2, <2>3, <2>6, <2>10
    <3>2. \A k \in 1..Len(u) :
            /\ u[k].type \notin {"message_delta", "message_done"}
            /\ IsStart(u[k]) => /\ k = 1 /\ u[k].index = d.next_ir_index
                                /\ c.next_ir_index > d.next_ir_index
      BY <2>2, <2>3, <2>5, <2>10
    <3>3. c.flushed = d.flushed /\ (d.started => c.started)  BY <2>10
    <3>. QED BY <2>4, <2>9, <2>11, <3>1, <3>2, <3>3, BatchAdvances
  <2>. QED BY <2>2, <2>10, <2>12
<1>. QED BY <1>1, <1>2

(* Where the loop over the calls can be that started from d. *)
Replays(d) ==
  {c \in Decoders : /\ Advances(d, c) /\ ~c.text_open /\ ~c.thinking_open
                    /\ c.stop = d.stop}

LEMMA ReplayKeeps ==
  ASSUME NEW d \in Decoders, d.stop # "none", NEW c \in Replays(d),
         NEW call \in CallRecords, Replayable(call)
  PROVE  ReplayCall(c, call) \in Replays(d)
<1>1. PICK q : q = ReplayCall(c, call)  OBVIOUS
<1>2. /\ c \in Decoders /\ Advances(d, c) /\ ~c.text_open /\ ~c.thinking_open
      /\ c.stop = d.stop
  BY DEF Replays
<1>3. Advances(c, q) /\ ~q.text_open /\ ~q.thinking_open /\ q.stop = c.stop
  BY <1>1, <1>2, ReplayCallAdvances
<1>4. q \in Decoders  BY <1>3 DEF Advances
<1>5. Advances(d, q)  BY <1>2, <1>3, AdvancesTrans
<1>. QED BY <1>1, <1>2, <1>3, <1>4, <1>5 DEF Replays

(* The function of the loop, and its existence. *)
ReplayLoop(f, d, n) ==
  f = [m \in 0..n |-> IF m = 0 THEN d ELSE ReplayCall(f[m - 1], d.tool_calls[m])]

LEMMA ReplayLoopExists ==
  ASSUME NEW d \in Decoders, ~d.text_open, ~d.thinking_open, d.stop # "none",
         NEW n \in Nat, n <= Len(d.tool_calls),
         \A k \in 1..n : Replayable(d.tool_calls[k])
  PROVE  \E f : ReplayLoop(f, d, n)
<1>1. PICK S, calls : S = Replays(d) /\ calls = d.tool_calls  OBVIOUS
<1>2. d \in S  BY <1>1, Stays DEF Replays
<1>3. \A k \in 1..n : calls[k] \in CallRecords /\ Replayable(calls[k])
  BY <1>1 DEF Decoders
<1>4. PICK step : step = [x \in (1..n) \X S |-> ReplayCall(x[2], calls[x[1]])]
  OBVIOUS
<1>5. ASSUME NEW k \in 1..n, NEW c \in S
      PROVE  step[<<k, c>>] = ReplayCall(c, calls[k]) /\ ReplayCall(c, calls[k]) \in S
  <2>1. <<k, c>> \in (1..n) \X S /\ <<k, c>>[1] = k /\ <<k, c>>[2] = c  OBVIOUS
  <2>2. step[<<k, c>>] = ReplayCall(c, calls[k])  BY <1>4, <2>1
  <2>. QED BY <1>1, <1>3, <2>2, ReplayKeeps
<1>6. step \in [(1..n) \X S -> S]
  <2>1. ASSUME NEW x \in (1..n) \X S
        PROVE  ReplayCall(x[2], calls[x[1]]) \in S
    <3>1. x[1] \in 1..n /\ x[2] \in S  BY <2>1
    <3>. QED BY <1>5, <3>1
  <2>. QED BY <1>4, <2>1
<1>7. PICK f : f \in [0..n -> S] /\ f[0] = d /\ \A m \in 1..n : f[m] = step[<<m, f[m - 1]>>]
  <2>1. \E f : Recurs(f, S, d, n, step)  BY <1>2, <1>6, Recursion
  <2>. QED BY <2>1 DEF Recurs
<1>8. ASSUME NEW m \in 0..n
      PROVE  f[m] = IF m = 0 THEN d ELSE ReplayCall(f[m - 1], calls[m])
  <2>1. CASE m = 0  BY <1>7, <2>1
  <2>2. CASE m # 0
    <3>1. m \in 1..n /\ m - 1 \in 0..n  BY <2>2
    <3>2. f[m - 1] \in S  BY <1>7, <3>1
    <3>. QED BY <1>5, <1>7, <2>2, <3>1, <3>2
  <2>. QED BY <2>1, <2>2
<1>9. f = [m \in 0..n |-> IF m = 0 THEN d ELSE ReplayCall(f[m - 1], calls[m])]
  <2>1. PICK g : g = [m \in 0..n |-> IF m = 0 THEN d ELSE ReplayCall(f[m - 1], calls[m])]
    OBVIOUS
  <2>2. \A m \in 0..n : f[m] = g[m]  BY <1>8, <2>1
  <2>. QED BY <1>7, <2>1, <2>2
<1>10. ReplayLoop(f, d, n)  BY <1>1, <1>9 DEF ReplayLoop
<1>. QED BY <1>10

(* The loop, as the sequence of the states it goes through. *)
LEMMA ReplayLoopRuns ==
  ASSUME NEW d \in Decoders, ~d.text_open, ~d.thinking_open, d.stop # "none",
         NEW n \in Nat, n <= Len(d.tool_calls),
         \A k \in 1..n : Replayable(d.tool_calls[k])
  PROVE  \E f : /\ ReplayCalls(d, n) = f[n] /\ f[0] = d
                /\ \A m \in 1..n : f[m] = ReplayCall(f[m - 1], d.tool_calls[m])
                /\ \A m \in 0..n : f[m] \in Replays(d)
<1>1. PICK f : f = CHOOSE g : ReplayLoop(g, d, n)  OBVIOUS
<1>2. ReplayCalls(d, n) = f[n]  BY <1>1 DEF ReplayCalls, ReplayLoop
<1>3. ReplayLoop(f, d, n)
  <2>1. \E g : ReplayLoop(g, d, n)  BY ReplayLoopExists
  <2>. QED BY <1>1, <2>1, Zenon
<1>4. PICK S, calls : S = Replays(d) /\ calls = d.tool_calls  OBVIOUS
<1>5. f = [m \in 0..n |-> IF m = 0 THEN d ELSE ReplayCall(f[m - 1], calls[m])]
  BY <1>3, <1>4, Zenon DEF ReplayLoop
<1>6. \A m \in 0..n : f[m] = IF m = 0 THEN d ELSE ReplayCall(f[m - 1], calls[m])
  <2>1. PICK g : g = [m \in 0..n |-> IF m = 0 THEN d ELSE ReplayCall(f[m - 1], calls[m])]
    OBVIOUS
  <2>2. \A m \in 0..n : g[m] = IF m = 0 THEN d ELSE ReplayCall(f[m - 1], calls[m])
    BY <2>1
  <2>. QED BY <1>5, <2>1, <2>2
<1>7. f[0] \in S
  <2>1. d \in S  BY <1>4, Stays DEF Replays
  <2>. QED BY <1>6, <2>1
<1>8. ASSUME NEW m \in 1..n, f[m - 1] \in S
      PROVE  f[m] \in S
  <2>1. calls[m] \in CallRecords /\ Replayable(calls[m])  BY <1>4 DEF Decoders
  <2>2. f[m] = ReplayCall(f[m - 1], calls[m])  BY <1>6
  <2>. QED BY <1>4, <1>8, <2>1, <2>2, ReplayKeeps
<1>9. \A m \in 0..n : f[m] \in S  BY <1>7, <1>8, Iteration
<1>10. f[0] = d /\ \A m \in 1..n : f[m] = ReplayCall(f[m - 1], calls[m])
  <2>1. 0 \in 0..n /\ \A m \in 1..n : m \in 0..n /\ m # 0  OBVIOUS
  <2>. QED BY <1>6, <2>1, Zenon
<1>. QED BY <1>2, <1>4, <1>9, <1>10

LEMMA ReplayCallsAdvances ==
  ASSUME NEW d \in Decoders, ~d.text_open, ~d.thinking_open, d.stop # "none",
         NEW n \in Nat, n <= Len(d.tool_calls),
         \A k \in 1..n : Replayable(d.tool_calls[k])
  PROVE  ReplayCalls(d, n) \in Replays(d)
<1>1. PICK f : ReplayCalls(d, n) = f[n] /\ \A m \in 0..n : f[m] \in Replays(d)
  BY ReplayLoopRuns
<1>. QED BY <1>1

-----------------------------------------------------------------------------
(* The end of the stream *)

(* flush closes both channels. *)
LEMMA CloseChannelsFacts ==
  ASSUME dec \in Decoders, NEW c, c = CloseChannels(dec)
  PROVE  /\ c \in Decoders /\ ~c.text_open /\ ~c.thinking_open /\ c.flushed
         /\ c.stop = dec.stop /\ c.tool_calls = dec.tool_calls
         /\ c.next_ir_index >= dec.next_ir_index /\ IsPrefix(dec.events, c.events)
         /\ Standing(dec) => Standing(c)
         /\ Counted(dec) => Counted(c)
<1>1. PICK d, b : d = [dec EXCEPT !.flushed = TRUE] /\ b = CloseThinking(d)
  OBVIOUS
<1>2. d \in Decoders  BY <1>1 DEF Decoders
<1>3. /\ d.flushed /\ d.events = dec.events /\ d.next_ir_index = dec.next_ir_index
      /\ d.started = dec.started /\ d.text_open = dec.text_open
      /\ d.thinking_open = dec.thinking_open /\ d.text_index = dec.text_index
      /\ d.thinking_index = dec.thinking_index /\ d.stop = dec.stop
      /\ d.tool_calls = dec.tool_calls
  BY <1>1 DEF Decoders
<1>4. Advances(d, b) /\ ~b.thinking_open /\ b.stop = d.stop /\ b.tool_calls = d.tool_calls
  BY <1>1, <1>2, CloseThinkingAdvances
<1>5. b \in Decoders  BY <1>4 DEF Advances
<1>6. c = CloseText(b)  BY <1>1 DEF CloseChannels
<1>7. /\ Advances(b, c) /\ ~c.text_open /\ c.thinking_open = b.thinking_open
      /\ c.stop = b.stop /\ c.tool_calls = b.tool_calls
  BY <1>5, <1>6, CloseTextAdvances
<1>8. Advances(d, c)  BY <1>2, <1>4, <1>7, AdvancesTrans
<1>9. Standing(dec) => Standing(d)  BY <1>3 DEF Standing, Placed
<1>10. Counted(dec) => Counted(d)  BY <1>3 DEF Counted
<1>11. /\ c \in Decoders /\ c.flushed = d.flushed /\ c.next_ir_index >= d.next_ir_index
       /\ IsPrefix(d.events, c.events)
       /\ Standing(d) => Standing(c)
       /\ Counted(d) => Counted(c)
  BY <1>8 DEF Advances
<1>. QED BY <1>3, <1>4, <1>7, <1>9, <1>10, <1>11

(* The body of NothingAfterTheEnd, for any stream. *)
EndsOnce(s) ==
  /\ \A k \in 1..Len(s) : s[k].type = "message_done" => k = Len(s)
  /\ \A j, k \in 1..Len(s) :
       j < k /\ IsStart(s[j]) /\ IsStart(s[k]) => s[j].index < s[k].index

LEMMA RisingEndsOnce ==
  ASSUME NEW s, NEW n, Rising(s, n)
  PROVE  EndsOnce(s)
BY DEF Rising, EndsOnce

(* The terminal pair, and nothing else, ends a stream. *)
LEMMA TerminalEndsOnce ==
  ASSUME NEW S, NEW s \in Seq(S), NEW n, Rising(s, n), NEW x \in S, NEW y \in S,
         x.type = "message_delta", y.type = "message_done"
  PROVE  EndsOnce(Append(Append(s, x), y))
<1>1. PICK r, t, l : r = Append(s, x) /\ t = Append(r, y) /\ l = Len(s)  OBVIOUS
<1>2. /\ r \in Seq(S) /\ l \in Nat /\ Len(r) = l + 1 /\ r[l + 1] = x
      /\ \A i \in 1..l : r[i] = s[i]
  BY <1>1, AppendFacts
<1>3. /\ Len(t) = l + 2 /\ t[l + 2] = y
      /\ \A i \in 1..(l + 1) : t[i] = r[i]
  <2>1. /\ Len(t) = Len(r) + 1 /\ t[Len(r) + 1] = y
        /\ \A i \in 1..Len(r) : t[i] = r[i]
    BY <1>1, <1>2, AppendFacts
  <2>2. Len(r) = l + 1 /\ Len(r) + 1 = l + 2  BY <1>2
  <2>. QED BY <2>1, <2>2
<1>4. ASSUME NEW k \in 1..Len(t)
      PROVE  \/ k \in 1..l /\ t[k] = s[k]
             \/ k = l + 1 /\ t[k] = x
             \/ k = l + 2 /\ t[k] = y
  <2>1. k \in 1..l \/ k = l + 1 \/ k = l + 2  BY <1>2, <1>3
  <2>2. 1..l \subseteq 1..(l + 1) /\ l + 1 \in 1..(l + 1)  BY <1>2
  <2>. QED BY <1>2, <1>3, <2>1, <2>2
<1>5. ~IsStart(x) /\ ~IsStart(y)  BY DEF IsStart
<1>6. ASSUME NEW k \in 1..Len(t), t[k].type = "message_done"
      PROVE  k = Len(t)
  <2>1. k \notin 1..l \/ t[k] # s[k]  BY <1>1, <1>6 DEF Rising
  <2>. QED BY <1>3, <1>4, <1>6, <2>1
<1>7. ASSUME NEW j \in 1..Len(t), NEW k \in 1..Len(t), j < k, IsStart(t[j]), IsStart(t[k])
      PROVE  t[j].index < t[k].index
  <2>1. j \in 1..l /\ t[j] = s[j] /\ k \in 1..l /\ t[k] = s[k]
    BY <1>4, <1>5, <1>7
  <2>. QED BY <1>1, <1>7, <2>1 DEF Rising
<1>. QED BY <1>1, <1>6, <1>7 DEF EndsOnce

(* flush ends a stream that stands between blocks. *)
LEMMA TerminateFacts ==
  ASSUME NEW d \in Decoders, ~d.text_open, ~d.thinking_open, d.stop # "none",
         NEW c, c = Terminate(d)
  PROVE  /\ c \in Decoders /\ c.flushed = d.flushed
         /\ IsPrefix(d.events, c.events)
         /\ Counted(d) => EndsOnce(c.events)
         /\ Standing(d) => Promise(c.events) /\ Terminated(c.events)
<1>1. PICK none : none = <<>>  OBVIOUS
<1>2. PICK x, y, s : /\ x = MessageDelta(d.stop, none, d.usage) /\ y = MessageDone
                     /\ s = d.events
  OBVIOUS
<1>3. s \in Seq(IrEvents)  BY <1>2 DEF Decoders
<1>4. /\ x \in IrEvents /\ y \in IrEvents /\ x.type = "message_delta"
      /\ y.type = "message_done" /\ x.stop_sequence = none
  <2>1. d.stop \in StopReasons /\ d.usage \in Usages /\ none \in Text
    BY <1>1 DEF Decoders, Text
  <2>2. x \in IrEvents /\ y \in IrEvents  BY <1>2, <2>1, EventTypes
  <2>. QED BY <1>2, <2>2 DEF MessageDelta, MessageDone
<1>5. PICK events : events = Append(Append(s, x), y)  OBVIOUS
<1>6. events \in Seq(IrEvents) /\ events = s \o <<x, y>>  BY <1>3, <1>4, <1>5
<1>7. c = [d EXCEPT !.events = events]
  BY <1>1, <1>2, <1>5 DEF Terminate, Emit, Decoders
<1>8. c \in Decoders /\ c.flushed = d.flushed /\ c.events = events
  BY <1>6, <1>7 DEF Decoders
<1>9. IsPrefix(s, events)
  <2>1. <<x, y>> \in Seq(IrEvents)  BY <1>4
  <2>2. IsPrefix(s, s \o <<x, y>>)  BY <1>3, <2>1, BatchPrefix
  <2>. QED BY <1>6, <2>2
<1>10. Counted(d) => EndsOnce(events)
  BY <1>2, <1>3, <1>4, <1>5, TerminalEndsOnce DEF Counted
<1>11. ASSUME Standing(d)
       PROVE  Promise(events) /\ Terminated(events)
  <2>1. Kept(s) /\ d.started /\ AtBoundary(s, d.next_ir_index)
    BY <1>2, <1>11 DEF Standing, Placed
  <2>2. Admits(s, x)  BY <1>4, <2>1, BoundaryAdmits DEF OpensAt
  <2>3. x.stop_sequence # <<>> => x.stop_reason = "stop_sequence"  BY <1>1, <1>4
  <2>4. Promise(s \o <<x, y>>) /\ Terminated(s \o <<x, y>>)
    BY <1>3, <1>4, <2>1, <2>2, <2>3, TerminalBatch
  <2>. QED BY <1>6, <2>4
<1>. QED BY <1>2, <1>8, <1>9, <1>10, <1>11

-----------------------------------------------------------------------------
(* The invariants, and the steps of feed and flush *)

(* Until flush the indexes rise and the stream has no end, also after an
   error. *)
CountInv ==
  /\ EndsOnce(dec.events)
  /\ ~dec.flushed => Counted(dec)

(* Until a call fails the stream stands where the decoder thinks, and it
   is complete exactly when the decoder was flushed. *)
ContractInv ==
  ~failed => IF dec.flushed THEN Complete(dec.events) ELSE Standing(dec)

(* The contract of IrProducer speaks of the grammar of IrStream. *)
LEMMA PromisedMeans ==
  ASSUME NEW s
  PROVE  /\ Promised!Promise(s) <=> Promise(s)
         /\ Promised!Terminated(s) <=> Terminated(s)
<1>1. \A e : /\ Promised!IsStart(e) <=> IsStart(e)
             /\ Promised!IsDelta(e) <=> IsDelta(e)
             /\ Promised!IsStop(e) <=> IsStop(e)
  BY DEF Promised!IsStart, Promised!IsDelta, Promised!IsStop, IsStart, IsDelta, IsStop
<1>2. \A e, f : Promised!Follows(e, f) <=> Follows(e, f)
  <2>1. \A d : Promised!DeltaFamily(d) = DeltaFamily(d)
    BY DEF Promised!DeltaFamily, DeltaFamily
  <2>2. \A b : Promised!BlockFamily(b) = BlockFamily(b)
    BY DEF Promised!BlockFamily, BlockFamily
  <2>3. \A f, i, fam : Promised!Continues(f, i, fam) <=> Continues(f, i, fam)
    BY <1>1, <2>1 DEF Promised!Continues, Continues
  <2>4. \A f, i : Promised!OpensAt(f, i) <=> OpensAt(f, i)
    BY <1>1 DEF Promised!OpensAt, OpensAt
  <2>. QED BY <1>1, <2>1, <2>2, <2>3, <2>4 DEF Promised!Follows, Follows
<1>3. \A e : Promised!EventOK(e) <=> EventOK(e)
  BY <1>1 DEF Promised!EventOK, EventOK, Promised!StreamedKinds, StreamedKinds,
              Promised!ApplyPatchKinds, ApplyPatchKinds, Promised!AtomicKinds, AtomicKinds,
              Promised!ToolKinds, ToolKinds
<1>4. Promised!WellFormed(s) <=> WellFormed(s)
  BY <1>2, <1>3 DEF Promised!WellFormed, WellFormed, Promised!InOrder, InOrder
<1>5. \A k, m : Promised!IsToolUnit(s, k, m) <=> IsToolUnit(s, k, m)
  BY <1>1 DEF Promised!IsToolUnit, IsToolUnit, Promised!ToolKinds, ToolKinds
<1>6. \A input, fs, lax : Promised!InputExact(input, fs, lax) <=> InputExact(input, fs, lax)
  <2>1. \A ss : Promised!Concat(ss) = Concat(ss)
    BY DEF Promised!Concat, Concat, Promised!FlattenSeq, FlattenSeq
  <2>. QED BY <2>1 DEF Promised!InputExact, InputExact
<1>7. Promised!ToolInputsExact(s, FALSE) <=> ToolInputsExact(s, FALSE)
  <2>1. \A k, m : Promised!Fragments(s, k, m) = Fragments(s, k, m)
    BY DEF Promised!Fragments, Fragments
  <2>. QED BY <1>5, <1>6, <2>1 DEF Promised!ToolInputsExact, ToolInputsExact
<1>8. Promised!ToolBlocksWhole(s) <=> ToolBlocksWhole(s)
  BY <1>1, <1>5 DEF Promised!ToolBlocksWhole, ToolBlocksWhole, Promised!ToolKinds, ToolKinds
<1>9. Promised!Terminated(s) <=> Terminated(s)
  BY DEF Promised!Terminated, Terminated
<1>. QED BY <1>4, <1>7, <1>8, <1>9 DEF Promised!Promise, Promise, Promised!Complete, Complete

(* A step of the contract, and the invariants after it. *)
Honest ==
  /\ TypeOK' /\ CountInv' /\ ContractInv'
  /\ [Promised!Next]_<<dec.events, failed>>

(* What a step of the decoder has to show for it to be one of the contract. *)
LEMMA DeliverHonest ==
  ASSUME NEW s \in Seq(IrEvents), NEW t \in Seq(IrEvents), s = dec.events, t = dec'.events,
         ~failed, failed' = failed, ~Terminated(s), IsPrefix(s, t), Promise(t)
  PROVE  [Promised!Next]_<<dec.events, failed>>
<1>1. Promised!IsPrefix(dec.events, dec'.events)
  BY DEF IsPrefix, Promised!IsPrefix
<1>2. Promised!Deliver  BY <1>1, PromisedMeans DEF Promised!Deliver
<1>. QED BY <1>2 DEF Promised!Next

(* A call of feed that succeeds. *)
LEMMA SucceedsHonest ==
  ASSUME TypeOK, CountInv, ContractInv, ~dec.flushed,
         NEW d, Advances(dec, d), NEW chunk, Succeeds(chunk, d)
  PROVE  Honest
<1>1. dec' = d /\ failed' = failed  BY DEF Succeeds
<1>2. /\ d \in Decoders /\ ~d.flushed /\ IsPrefix(dec.events, d.events)
      /\ Counted(dec) => Counted(d)
      /\ Standing(dec) => Standing(d)
  BY DEF Advances
<1>3. TypeOK'  BY <1>1, <1>2 DEF TypeOK
<1>4. Counted(d)  BY <1>2 DEF CountInv
<1>5. EndsOnce(d.events)  BY <1>4, RisingEndsOnce DEF Counted
<1>6. CountInv'  BY <1>1, <1>4, <1>5 DEF CountInv
<1>7. CASE failed
  BY <1>1, <1>3, <1>6, <1>7 DEF Honest, ContractInv, Promised!Next, Promised!AfterFailure
<1>8. CASE ~failed
  <2>1. Standing(dec) /\ Standing(d)  BY <1>2, <1>8 DEF ContractInv
  <2>2. ContractInv'  BY <1>1, <1>2, <2>1 DEF ContractInv
  <2>3. Promise(d.events)  BY <2>1 DEF Standing, Promise, Kept
  <2>4. dec.events \in Seq(IrEvents) /\ d.events \in Seq(IrEvents) /\ ~Terminated(dec.events)
    BY <1>2, <2>1 DEF TypeOK, Decoders, Standing
  <2>5. [Promised!Next]_<<dec.events, failed>>
    BY <1>1, <1>2, <1>8, <2>3, <2>4, DeliverHonest
  <2>. QED BY <1>3, <1>6, <2>2, <2>5 DEF Honest
<1>. QED BY <1>7, <1>8

(* A call of feed that fails: indexes may be taken, nothing is handed over. *)
LEMMA FailsHonest ==
  ASSUME TypeOK, CountInv, NEW d, Advances(dec, d), NEW chunk, Fails(chunk, d)
  PROVE  Honest
<1>1. PICK events : events = dec.events  OBVIOUS
<1>2. dec' = [d EXCEPT !.events = events] /\ failed'  BY <1>1 DEF Fails
<1>3. /\ d \in Decoders /\ d.flushed = dec.flushed /\ d.next_ir_index >= dec.next_ir_index
      /\ events \in Seq(IrEvents) /\ dec.next_ir_index \in Nat /\ d.next_ir_index \in Nat
  BY <1>1 DEF Advances, TypeOK, Decoders
<1>4. /\ dec' \in Decoders /\ dec'.events = events /\ dec'.flushed = dec.flushed
      /\ dec'.next_ir_index = d.next_ir_index
  BY <1>2, <1>3 DEF Decoders
<1>5. TypeOK'
  <2>1. failed' \in BOOLEAN  BY <1>2 DEF Fails
  <2>. QED BY <1>4, <2>1 DEF TypeOK
<1>6. Counted(dec) => Counted(dec')
  <2>1. \A e \in IrEvents : IsStart(e) => e.index \in Nat
    BY DEF IrEvents, IsStart
  <2>2. \A k \in 1..Len(events) : IsStart(events[k]) => events[k].index \in Nat
    BY <1>3, <2>1
  <2>3. PICK n, m : n = dec.next_ir_index /\ m = d.next_ir_index  OBVIOUS
  <2>4. Rising(events, n) => Rising(events, m)  BY <1>3, <2>2, <2>3 DEF Rising
  <2>. QED BY <1>1, <1>4, <2>3, <2>4 DEF Counted
<1>7. CountInv'  BY <1>1, <1>4, <1>6 DEF CountInv
<1>8. ContractInv' /\ Promised!Fail
  BY <1>1, <1>2, <1>4 DEF ContractInv, Promised!Fail
<1>. QED BY <1>5, <1>7, <1>8 DEF Honest, Promised!Next

(* feed, by its ways out. *)
LEMMA FeedHonest ==
  ASSUME TypeOK, CountInv, ContractInv, NEW chunk \in Chunks, Feed(chunk)
  PROVE  Honest
<1>1. dec \in Decoders  BY DEF TypeOK
<1>2. CASE FeedUnreadable(chunk)
  BY <1>1, <1>2, Stays, FailsHonest DEF FeedUnreadable
<1>3. CASE FeedUsageOnly(chunk)
  <2>1. Advances(dec, WithUsage(dec, chunk))  BY <1>1, WithUsageAdvances
  <2>. QED BY <1>3, <2>1, SucceedsHonest DEF FeedUsageOnly, Readable
<1>4. CASE FeedRestart(chunk)
  <2>1. Advances(dec, WithUsage(dec, chunk))  BY <1>1, WithUsageAdvances
  <2>. QED BY <1>4, <2>1, FailsHonest DEF FeedRestart
<1>5. CASE FeedBadCall(chunk)
  <2>1. Fails(chunk, Recorded(chunk).dec) /\ chunk.choice # None
    BY <1>5 DEF FeedBadCall
  <2>. QED BY <1>1, <2>1, StreamedAdvances, FailsHonest
<1>6. CASE FeedBadFinish(chunk)
  <2>1. Fails(chunk, Streamed(chunk)) /\ chunk.choice # None
    BY <1>6 DEF FeedBadFinish
  <2>. QED BY <1>1, <2>1, StreamedAdvances, FailsHonest
<1>7. CASE FeedChoice(chunk)
  <2>1. PICK c, d : c = Streamed(chunk) /\ d = Finish(c, chunk.choice[1].finish_reason)
    OBVIOUS
  <2>2. Succeeds(chunk, d) /\ chunk.choice # None /\ ~dec.flushed
    BY <1>7, <2>1 DEF FeedChoice, Readable
  <2>3. Advances(dec, c) /\ c.started  BY <1>1, <2>1, <2>2, StreamedAdvances
  <2>4. c \in Decoders  BY <2>3 DEF Advances
  <2>5. Advances(c, d)  BY <2>1, <2>3, <2>4, FinishAdvances
  <2>6. Advances(dec, d)  BY <1>1, <2>3, <2>5, AdvancesTrans
  <2>. QED BY <2>2, <2>6, SucceedsHonest
<1>. QED BY <1>2, <1>3, <1>4, <1>5, <1>6, <1>7 DEF Feed

(* flush, by its ways out. *)
LEMMA FlushHonest ==
  ASSUME TypeOK, CountInv, ContractInv, Flush
  PROVE  Honest
<1>1. PICK c, calls, total : c = CloseChannels(dec) /\ calls = dec.tool_calls /\ total = Len(calls)
  OBVIOUS
<1>2. /\ dec \in Decoders /\ dec.events \in Seq(IrEvents) /\ total \in Nat
      /\ dec.next_ir_index \in Nat
  BY <1>1 DEF TypeOK, Decoders
<1>3. /\ c \in Decoders /\ ~c.text_open /\ ~c.thinking_open /\ c.flushed
      /\ c.stop = dec.stop /\ c.tool_calls = calls
      /\ c.next_ir_index >= dec.next_ir_index /\ IsPrefix(dec.events, c.events)
      /\ Standing(dec) => Standing(c)
      /\ Counted(dec) => Counted(c)
  BY <1>1, <1>2, CloseChannelsFacts
<1>4. CASE FlushTooEarlyOrTwice
  <2>1. dec' = dec /\ failed' = TRUE  BY <1>4 DEF FlushTooEarlyOrTwice
  <2>. QED BY <2>1 DEF Honest, TypeOK, CountInv, ContractInv, Promised!Next, Promised!Fail
<1>5. CASE FlushUnidentified
  <2>1. PICK n \in 1..total :
          /\ \A m \in 1..(n - 1) : Replayable(calls[m])
          /\ dec' = [ReplayCalls(c, n - 1) EXCEPT !.events = dec.events]
    BY <1>1, <1>5 DEF FlushUnidentified
  <2>2. PICK k, d, events : k = n - 1 /\ d = ReplayCalls(c, k) /\ events = dec.events
    OBVIOUS
  <2>3. k \in Nat /\ k <= total /\ (\A m \in 1..k : Replayable(calls[m])) /\ c.stop # "none"
    BY <1>2, <1>3, <1>5, <2>1, <2>2 DEF FlushUnidentified
  <2>4. d \in Replays(c)  BY <1>1, <1>3, <2>2, <2>3, ReplayCallsAdvances
  <2>5. d \in Decoders /\ d.flushed  BY <1>3, <2>4 DEF Replays, Advances
  <2>6. dec' = [d EXCEPT !.events = events]  BY <2>1, <2>2
  <2>7. dec' \in Decoders /\ dec'.events = dec.events /\ dec'.flushed
    BY <1>2, <2>2, <2>5, <2>6 DEF Decoders
  <2>8. failed' = TRUE  BY <1>5 DEF FlushUnidentified
  <2>. QED BY <2>7, <2>8 DEF Honest, TypeOK, CountInv, ContractInv, Promised!Next, Promised!Fail
<1>6. CASE FlushComplete
  <2>1. /\ ~dec.flushed /\ dec.stop # "none"
        /\ \A m \in 1..total : Replayable(calls[m])
        /\ dec' = Terminate(ReplayCalls(c, total)) /\ failed' = failed
    BY <1>1, <1>6 DEF FlushComplete
  <2>2. PICK d, e : d = ReplayCalls(c, total) /\ e = Terminate(d)  OBVIOUS
  <2>3. d \in Replays(c)
    <3>1. total <= Len(c.tool_calls)  BY <1>1, <1>2, <1>3
    <3>. QED BY <1>2, <1>3, <2>1, <2>2, <3>1, ReplayCallsAdvances
  <2>4. /\ d \in Decoders /\ Advances(c, d) /\ ~d.text_open /\ ~d.thinking_open
        /\ d.stop # "none"
    BY <1>3, <2>1, <2>3 DEF Replays
  <2>5. /\ d.flushed /\ IsPrefix(c.events, d.events)
        /\ Standing(c) => Standing(d)
        /\ Counted(c) => Counted(d)
    BY <1>3, <2>4 DEF Advances
  <2>6. /\ e \in Decoders /\ e.flushed = d.flushed
        /\ IsPrefix(d.events, e.events)
        /\ Counted(d) => EndsOnce(e.events)
        /\ Standing(d) => Promise(e.events) /\ Terminated(e.events)
    BY <2>2, <2>4, TerminateFacts
  <2>7. dec' = e /\ e.flushed  BY <2>1, <2>2, <2>5, <2>6
  <2>8. TypeOK'  BY <2>1, <2>6, <2>7 DEF TypeOK
  <2>9. CountInv'
    <3>1. EndsOnce(e.events)  BY <1>3, <2>1, <2>5, <2>6 DEF CountInv
    <3>. QED BY <2>7, <3>1 DEF CountInv
  <2>10. CASE failed
    BY <2>1, <2>8, <2>9, <2>10 DEF Honest, ContractInv, Promised!Next, Promised!AfterFailure
  <2>11. CASE ~failed
    <3>1. Standing(dec)  BY <2>1, <2>11 DEF ContractInv
    <3>2. Promise(e.events) /\ Terminated(e.events)  BY <1>3, <2>5, <2>6, <3>1
    <3>3. Complete(e.events)  BY <3>2 DEF Promise
    <3>4. ContractInv'  BY <2>7, <3>3 DEF ContractInv
    <3>5. PICK s, r, q, t : s = dec.events /\ r = c.events /\ q = d.events /\ t = e.events
      OBVIOUS
    <3>6. s \in Seq(IrEvents) /\ r \in Seq(IrEvents) /\ q \in Seq(IrEvents) /\ t \in Seq(IrEvents)
      BY <1>2, <1>3, <2>4, <2>6, <3>5 DEF Decoders
    <3>7. IsPrefix(s, t)
      <4>1. IsPrefix(s, r) /\ IsPrefix(r, q) /\ IsPrefix(q, t)
        BY <1>3, <2>5, <2>6, <3>5
      <4>. QED BY <3>6, <4>1, PrefixTrans
    <3>8. ~Terminated(s)  BY <3>1, <3>5 DEF Standing
    <3>9. [Promised!Next]_<<dec.events, failed>>
      BY <2>1, <2>7, <2>11, <3>2, <3>5, <3>6, <3>7, <3>8, DeliverHonest
    <3>. QED BY <2>8, <2>9, <3>4, <3>9 DEF Honest
  <2>. QED BY <2>10, <2>11
<1>. QED BY <1>4, <1>5, <1>6 DEF Flush

LEMMA InitHonest ==
  ASSUME Init
  PROVE  TypeOK /\ CountInv /\ ContractInv /\ Promised!Init
<1>1. PICK calls, losses, events, usage : /\ calls = <<>> /\ losses = <<>> /\ events = <<>>
                                          /\ usage = NoUsage
  OBVIOUS
<1>2. dec = [started |-> FALSE, text_open |-> FALSE, text_index |-> 0, thinking_open |-> FALSE,
             thinking_index |-> 0, next_ir_index |-> 0, finish_seen |-> FALSE,
             stop |-> "none", usage |-> usage, flushed |-> FALSE, tool_calls |-> calls,
             losses |-> losses, events |-> events]
  BY <1>1 DEF Init, NewDecoder
<1>3. /\ calls \in Seq(CallRecords) /\ losses \in Seq({"tool_call", "finish_reason"} \X Nat)
      /\ events \in Seq(IrEvents) /\ usage \in Usages
  BY <1>1 DEF NoUsage, Usage, Usages
<1>4. dec \in Decoders  BY <1>2, <1>3 DEF Decoders
<1>5. /\ dec.events = events /\ ~dec.started /\ ~dec.flushed /\ dec.next_ir_index = 0
      /\ dec.stop = "none" /\ ~dec.text_open /\ ~dec.thinking_open
  BY <1>2
<1>6. Kept(events) /\ ~Terminated(events) /\ Rising(events, 0)
  BY <1>1 DEF Kept, WellFormed, InOrder, ToolBlocksWhole, ToolInputsExact, Terminated, Rising
<1>7. CountInv  BY <1>5, <1>6, RisingEndsOnce DEF CountInv, Counted
<1>8. ContractInv  BY <1>1, <1>5, <1>6 DEF ContractInv, Standing, Placed
<1>9. failed = FALSE  BY DEF Init
<1>. QED BY <1>1, <1>4, <1>5, <1>7, <1>8, <1>9 DEF TypeOK, Promised!Init

LEMMA NextHonest ==
  ASSUME TypeOK, CountInv, ContractInv, [Next]_vars
  PROVE  Honest
<1>1. ASSUME NEW chunk \in Chunks, Feed(chunk)
      PROVE  Honest
  BY <1>1, FeedHonest
<1>2. CASE Flush  BY <1>2, FlushHonest
<1>3. CASE UNCHANGED vars
  BY <1>3 DEF vars, Honest, TypeOK, CountInv, ContractInv
<1>. QED BY <1>1, <1>2, <1>3 DEF Next

-----------------------------------------------------------------------------
(* What the elements of a sequence spell *)

Spelled(F, s) == Concat([k \in 1..Len(s) |-> F[s[k]]])

LEMMA SpelledEmpty ==
  ASSUME NEW F
  PROVE  Spelled(F, <<>>) = <<>>
<1>1. PICK empty : empty = <<>>  OBVIOUS
<1>2. [k \in 1..Len(empty) |-> F[empty[k]]] = <<>>  BY <1>1
<1>. QED BY <1>1, <1>2, ConcatEmpty DEF Spelled

LEMMA SpelledType ==
  ASSUME NEW S, NEW T, NEW F \in [S -> Seq(T)], NEW s \in Seq(S)
  PROVE  Spelled(F, s) \in Seq(T)
<1>1. PICK f : f = [k \in 1..Len(s) |-> F[s[k]]]  OBVIOUS
<1>2. \A k \in 1..Len(s) : F[s[k]] \in Seq(T)  OBVIOUS
<1>3. f \in Seq(Seq(T))  BY <1>1, <1>2
<1>. QED BY <1>1, <1>3, ConcatText DEF Spelled

LEMMA SpelledGrows ==
  ASSUME NEW S, NEW T, NEW F \in [S -> Seq(T)], NEW s \in Seq(S), NEW e \in S
  PROVE  Spelled(F, Append(s, e)) = Spelled(F, s) \o F[e]
<1>1. PICK t, l : t = Append(s, e) /\ l = Len(s)  OBVIOUS
<1>2. /\ t \in Seq(S) /\ l \in Nat /\ Len(t) = l + 1 /\ t[l + 1] = e
      /\ \A k \in 1..l : t[k] = s[k]
  BY <1>1
<1>3. PICK f, g : /\ f = [k \in 1..l |-> F[s[k]]]
                  /\ g = [k \in 1..(l + 1) |-> F[t[k]]]
  OBVIOUS
<1>4. /\ \A k \in 1..l : F[s[k]] \in Seq(T)
      /\ \A k \in 1..(l + 1) : F[t[k]] \in Seq(T)
  BY <1>1, <1>2
<1>5. /\ f \in [1..l -> Seq(T)] /\ g \in [1..(l + 1) -> Seq(T)]
      /\ g[l + 1] = F[e]
      /\ \A k \in 1..l : g[k] = f[k]
  BY <1>2, <1>3, <1>4
<1>6. Concat(g) = Concat(f) \o g[l + 1]
  <2>1. /\ l \in Nat /\ f \in [1..l -> Seq(T)] /\ g \in [1..(l + 1) -> Seq(T)]
        /\ \A k \in 1..l : g[k] = f[k]
    BY <1>2, <1>5
  <2>. QED BY <2>1, ConcatGrows, Zenon
<1>7. Spelled(F, t) = Concat(g) /\ Spelled(F, s) = Concat(f)
  BY <1>1, <1>2, <1>3 DEF Spelled
<1>. QED BY <1>1, <1>5, <1>6, <1>7

(* A batch that spells nothing adds nothing. *)
LEMMA SpelledBatch ==
  ASSUME NEW S, NEW T, NEW F \in [S -> Seq(T)], NEW s \in Seq(S), NEW u \in Seq(S),
         \A k \in 1..Len(u) : F[u[k]] = <<>>
  PROVE  Spelled(F, s \o u) = Spelled(F, s)
<1>1. PICK l, p : l = Len(u) /\ p = Spelled(F, s)  OBVIOUS
<1>2. l \in Nat /\ p \in Seq(T)  BY <1>1, SpelledType
<1>3. PICK q : q = [m \in Nat |-> s \o SubSeq(u, 1, m)]  OBVIOUS
<1>4. \A m \in Nat : q[m] = s \o SubSeq(u, 1, m)  BY <1>3
<1>5. q[0] = s /\ q[l] = s \o u
  <2>1. SubSeq(u, 1, 0) = <<>> /\ s \o <<>> = s  OBVIOUS
  <2>2. SubSeq(u, 1, l) = u  BY <1>1
  <2>3. q[0] = s \o SubSeq(u, 1, 0) /\ q[l] = s \o SubSeq(u, 1, l)
    BY <1>2, <1>4
  <2>. QED BY <2>1, <2>2, <2>3
<1>6. ASSUME NEW m \in Nat, m + 1 <= l
      PROVE  /\ q[m] \in Seq(S) /\ u[m + 1] \in S
             /\ q[m + 1] = Append(q[m], u[m + 1]) /\ F[u[m + 1]] = <<>>
  <2>1. PICK v, w, e : v = SubSeq(u, 1, m) /\ w = SubSeq(u, 1, m + 1) /\ e = u[m + 1]
    OBVIOUS
  <2>2. v \in Seq(S) /\ e \in S /\ w = Append(v, e) /\ m + 1 \in 1..Len(u)
    BY <1>1, <1>6, <2>1
  <2>3. q[m] = s \o v /\ q[m + 1] = s \o w
    <3>1. m + 1 \in Nat  OBVIOUS
    <3>. QED BY <1>4, <2>1, <3>1
  <2>4. s \o v \in Seq(S) /\ s \o w = Append(s \o v, e)  BY <2>2
  <2>. QED BY <2>1, <2>2, <2>3, <2>4
<1> DEFINE Steps == {m \in Nat : m <= l => Spelled(F, q[m]) = p}
<1>7. 0 \in Steps  BY <1>1, <1>5
<1>8. ASSUME NEW m \in Nat, m \in Steps
      PROVE  m + 1 \in Steps
  <2>1. SUFFICES ASSUME m + 1 <= l
                 PROVE  Spelled(F, q[m + 1]) = p
    OBVIOUS
  <2>2. Spelled(F, q[m]) = p  BY <1>2, <1>8, <2>1
  <2>3. PICK r, e : r = q[m] /\ e = u[m + 1]  OBVIOUS
  <2>4. /\ r \in Seq(S) /\ e \in S /\ q[m + 1] = Append(r, e)
        /\ F[e] = <<>>
    BY <1>6, <2>1, <2>3
  <2>5. Spelled(F, q[m + 1]) = p \o <<>>
    <3>1. Spelled(F, Append(r, e)) = Spelled(F, r) \o F[e]
      BY <2>4, SpelledGrows, Zenon
    <3>. QED BY <2>2, <2>3, <2>4, <3>1
  <2>6. p \o <<>> = p  BY <1>2
  <2>. QED BY <2>5, <2>6
<1> HIDE DEF Steps
<1>9. l \in Steps  BY <1>2, <1>7, <1>8, SetInduction
<1>10. Spelled(F, q[l]) = p  BY <1>2, <1>9 DEF Steps
<1>. QED BY <1>1, <1>5, <1>10

-----------------------------------------------------------------------------
(* The fragments of text and reasoning *)

(* The fragments of a stream, and those of the chunks fed. *)
PassedIn(s) == Concat([k \in 1..Len(s) |-> FragmentsIn(s[k])])
ArrivedIn(s) == Concat([k \in 1..Len(s) |-> FragmentsOf(s[k].chunk)])

(* Which events carry a fragment. *)
LEMMA FragmentFacts ==
  /\ \A e : ~IsDelta(e) => FragmentsIn(e) = <<>>
  /\ \A i, x : FragmentsIn(BlockDelta(i, x)) =
                 IF x.type \in {"text_delta", "thinking_delta"} THEN <<x>> ELSE <<>>
  /\ \A e \in IrEvents : FragmentsIn(e) \in Seq(Deltas)
<1>1. \A e : ~IsDelta(e) => FragmentsIn(e) = <<>>  BY DEF FragmentsIn
<1>2. \A i, x : FragmentsIn(BlockDelta(i, x)) =
                  IF x.type \in {"text_delta", "thinking_delta"} THEN <<x>> ELSE <<>>
  <2>1. TAKE i, x
  <2>2. IsDelta(BlockDelta(i, x)) /\ BlockDelta(i, x).delta = x  BY EventFacts
  <2>. QED BY <2>2 DEF FragmentsIn
<1>3. \A e \in IrEvents : FragmentsIn(e) \in Seq(Deltas)
  <2>1. TAKE e \in IrEvents
  <2>2. IsDelta(e) => e.delta \in Deltas  BY DEF IrEvents, IsDelta
  <2>3. PICK none, x : none = <<>> /\ x = e.delta  OBVIOUS
  <2>4. none \in Seq(Deltas) /\ (x \in Deltas => <<x>> \in Seq(Deltas))  BY <2>3
  <2>5. FragmentsIn(e) = none \/ (IsDelta(e) /\ FragmentsIn(e) = <<x>>)
    BY <2>3 DEF FragmentsIn
  <2>. QED BY <2>2, <2>3, <2>4, <2>5
<1>. QED BY <1>1, <1>2, <1>3

(* The fragments of a stream are deltas; another event adds its own, and a
   batch without fragments adds none. *)
LEMMA PassedIsSpelled ==
  \E F \in [IrEvents -> Seq(Deltas)] :
    /\ \A e \in IrEvents : F[e] = FragmentsIn(e)
    /\ \A s \in Seq(IrEvents) : PassedIn(s) = Spelled(F, s)
<1>1. PICK F : F = [e \in IrEvents |-> FragmentsIn(e)]  OBVIOUS
<1>2. F \in [IrEvents -> Seq(Deltas)] /\ \A e \in IrEvents : F[e] = FragmentsIn(e)
  BY <1>1, FragmentFacts
<1>3. ASSUME NEW s \in Seq(IrEvents)
      PROVE  PassedIn(s) = Spelled(F, s)
  <2>1. [k \in 1..Len(s) |-> FragmentsIn(s[k])] = [k \in 1..Len(s) |-> F[s[k]]]
    BY <1>2
  <2>. QED BY <2>1 DEF PassedIn, Spelled
<1>. QED BY <1>2, <1>3

LEMMA PassedType ==
  ASSUME NEW s \in Seq(IrEvents)
  PROVE  PassedIn(s) \in Seq(Deltas)
BY PassedIsSpelled, SpelledType

LEMMA PassedGrows ==
  ASSUME NEW s \in Seq(IrEvents), NEW e \in IrEvents
  PROVE  PassedIn(Append(s, e)) = PassedIn(s) \o FragmentsIn(e)
<1>1. PICK F \in [IrEvents -> Seq(Deltas)] :
        /\ \A x \in IrEvents : F[x] = FragmentsIn(x)
        /\ \A t \in Seq(IrEvents) : PassedIn(t) = Spelled(F, t)
  BY PassedIsSpelled
<1>2. Append(s, e) \in Seq(IrEvents)  OBVIOUS
<1>. QED BY <1>1, <1>2, SpelledGrows

LEMMA PassedBatch ==
  ASSUME NEW s \in Seq(IrEvents), NEW u \in Seq(IrEvents),
         \A k \in 1..Len(u) : FragmentsIn(u[k]) = <<>>
  PROVE  PassedIn(s \o u) = PassedIn(s)
<1>1. PICK F \in [IrEvents -> Seq(Deltas)] :
        /\ \A x \in IrEvents : F[x] = FragmentsIn(x)
        /\ \A t \in Seq(IrEvents) : PassedIn(t) = Spelled(F, t)
  BY PassedIsSpelled
<1>2. s \o u \in Seq(IrEvents) /\ \A k \in 1..Len(u) : F[u[k]] = <<>>  BY <1>1
<1>3. Spelled(F, s \o u) = Spelled(F, s)  BY <1>2, SpelledBatch
<1>. QED BY <1>1, <1>2, <1>3

(* d hands over the fragments fs after those of c, and neither a loss nor
   a call changes. *)
PassesOn(c, d, fs) ==
  /\ PassedIn(d.events) = PassedIn(c.events) \o fs
  /\ d.tool_calls = c.tool_calls /\ d.losses = c.losses

LEMMA SamePasses ==
  ASSUME NEW c \in Decoders, NEW d, d.events = c.events, d.tool_calls = c.tool_calls,
         d.losses = c.losses
  PROVE  PassesOn(c, d, <<>>)
<1>1. PICK p : p = PassedIn(c.events)  OBVIOUS
<1>2. p \in Seq(Deltas)  BY <1>1, PassedType DEF Decoders
<1>3. p \o <<>> = p  BY <1>2
<1>. QED BY <1>1, <1>3 DEF PassesOn

LEMMA EmitPasses ==
  ASSUME NEW c \in Decoders, NEW d, NEW e \in IrEvents, d.events = Append(c.events, e),
         d.tool_calls = c.tool_calls, d.losses = c.losses
  PROVE  PassesOn(c, d, FragmentsIn(e))
<1>1. c.events \in Seq(IrEvents)  BY DEF Decoders
<1>. QED BY <1>1, PassedGrows DEF PassesOn

LEMMA PassesTrans ==
  ASSUME NEW b \in Decoders, NEW c, NEW d, NEW fs \in Seq(Deltas), NEW gs \in Seq(Deltas),
         PassesOn(b, c, fs), PassesOn(c, d, gs)
  PROVE  PassesOn(b, d, fs \o gs)
<1>1. PICK p : p = PassedIn(b.events)  OBVIOUS
<1>2. p \in Seq(Deltas)  BY <1>1, PassedType DEF Decoders
<1>3. (p \o fs) \o gs = p \o (fs \o gs)  BY <1>2
<1>. QED BY <1>1, <1>3 DEF PassesOn

(* The same when the second one hands over nothing, or the first. *)
LEMMA ThenPasses ==
  ASSUME NEW b \in Decoders, NEW c, NEW d, NEW fs \in Seq(Deltas)
  PROVE  /\ PassesOn(b, c, fs) /\ PassesOn(c, d, <<>>) => PassesOn(b, d, fs)
         /\ PassesOn(b, c, <<>>) /\ PassesOn(c, d, fs) => PassesOn(b, d, fs)
<1>1. PICK none : none = <<>>  OBVIOUS
<1>2. none \in Seq(Deltas) /\ fs \o none = fs /\ none \o fs = fs  BY <1>1
<1>3. PassesOn(b, c, fs) /\ PassesOn(c, d, none) => PassesOn(b, d, fs \o none)
  BY <1>2, PassesTrans
<1>4. PassesOn(b, c, none) /\ PassesOn(c, d, fs) => PassesOn(b, d, none \o fs)
  BY <1>2, PassesTrans
<1>. QED BY <1>1, <1>2, <1>3, <1>4

(* Closing and opening a channel, and starting the message. *)
LEMMA BeginPasses ==
  ASSUME NEW d \in Decoders
  PROVE  PassesOn(d, Begin(d), <<>>)
<1>1. CASE d.started  BY <1>1, SamePasses DEF Begin
<1>2. CASE ~d.started
  <2>1. PICK e, c : e = MessageStart /\ c = Begin(d)  OBVIOUS
  <2>2. e \in IrEvents /\ ~IsDelta(e)
    BY <2>1, EventTypes, EventFacts DEF IsDelta
  <2>3. /\ c.events = Append(d.events, e) /\ c.tool_calls = d.tool_calls
        /\ c.losses = d.losses
    BY <1>2, <2>1 DEF Begin, Emit, Decoders
  <2>. QED BY <2>1, <2>2, <2>3, EmitPasses, FragmentFacts
<1>. QED BY <1>1, <1>2

LEMMA ClosePasses ==
  ASSUME NEW d \in Decoders
  PROVE  PassesOn(d, CloseText(d), <<>>) /\ PassesOn(d, CloseThinking(d), <<>>)
<1>1. ASSUME d.text_open
      PROVE  PassesOn(d, CloseText(d), <<>>)
  <2>1. PICK e, c : e = BlockStop(d.text_index) /\ c = CloseText(d)  OBVIOUS
  <2>2. d.text_index \in Nat  BY DEF Decoders
  <2>3. e \in IrEvents /\ ~IsDelta(e)  BY <2>1, <2>2, EventTypes, EventFacts
  <2>4. /\ c.events = Append(d.events, e) /\ c.tool_calls = d.tool_calls
        /\ c.losses = d.losses
    BY <1>1, <2>1 DEF CloseText, Emit, Decoders
  <2>. QED BY <2>1, <2>3, <2>4, EmitPasses, FragmentFacts
<1>2. ASSUME d.thinking_open
      PROVE  PassesOn(d, CloseThinking(d), <<>>)
  <2>1. PICK e, c : e = BlockStop(d.thinking_index) /\ c = CloseThinking(d)
    OBVIOUS
  <2>2. d.thinking_index \in Nat  BY DEF Decoders
  <2>3. e \in IrEvents /\ ~IsDelta(e)  BY <2>1, <2>2, EventTypes, EventFacts
  <2>4. /\ c.events = Append(d.events, e) /\ c.tool_calls = d.tool_calls
        /\ c.losses = d.losses
    BY <1>2, <2>1 DEF CloseThinking, Emit, Decoders
  <2>. QED BY <2>1, <2>3, <2>4, EmitPasses, FragmentFacts
<1>3. /\ ~d.text_open => CloseText(d) = d
      /\ ~d.thinking_open => CloseThinking(d) = d
  BY DEF CloseText, CloseThinking
<1>. QED BY <1>1, <1>2, <1>3, SamePasses

LEMMA OpenPasses ==
  ASSUME NEW d \in Decoders
  PROVE  PassesOn(d, OpenText(d), <<>>) /\ PassesOn(d, OpenThinking(d), <<>>)
<1>1. PICK n, m, b, e : /\ n = d.next_ir_index /\ m = n + 1
                        /\ b = TextBlock /\ e = BlockStart(n, b)
  OBVIOUS
<1>2. PICK h, x : h = ThinkingBlock /\ x = BlockStart(n, h)  OBVIOUS
<1>3. n \in Nat  BY <1>1 DEF Decoders
<1>4. b \in Blocks /\ h \in Blocks
  BY <1>1, <1>2, TextBlockType, ThinkingBlockType
<1>5. e \in IrEvents /\ ~IsDelta(e) /\ x \in IrEvents /\ ~IsDelta(x)
  BY <1>1, <1>2, <1>3, <1>4, EventTypes, EventFacts
<1>6. ASSUME ~d.text_open
      PROVE  PassesOn(d, OpenText(d), <<>>)
  <2>1. PICK c, events : c = OpenText(d) /\ events = Append(d.events, e)
    OBVIOUS
  <2>2. c = [d EXCEPT !.text_open = TRUE, !.text_index = n, !.next_ir_index = m,
                      !.events = events]
    BY <1>1, <1>6, <2>1 DEF OpenText, Emit, Decoders
  <2>3. c.events = events /\ c.tool_calls = d.tool_calls /\ c.losses = d.losses
    BY <2>2 DEF Decoders
  <2>. QED BY <1>5, <2>1, <2>3, EmitPasses, FragmentFacts
<1>7. ASSUME ~d.thinking_open
      PROVE  PassesOn(d, OpenThinking(d), <<>>)
  <2>1. PICK c, events : c = OpenThinking(d) /\ events = Append(d.events, x)
    OBVIOUS
  <2>2. c = [d EXCEPT !.thinking_open = TRUE, !.thinking_index = n, !.next_ir_index = m,
                      !.events = events]
    BY <1>1, <1>2, <1>7, <2>1 DEF OpenThinking, Emit, Decoders
  <2>3. c.events = events /\ c.tool_calls = d.tool_calls /\ c.losses = d.losses
    BY <2>2 DEF Decoders
  <2>. QED BY <1>5, <2>1, <2>3, EmitPasses, FragmentFacts
<1>8. /\ d.text_open => OpenText(d) = d
      /\ d.thinking_open => OpenThinking(d) = d
  BY DEF OpenText, OpenThinking
<1>. QED BY <1>6, <1>7, <1>8, SamePasses

(* A fragment of either channel is passed on. *)
LEMMA DeltaPasses ==
  ASSUME NEW d \in Decoders, NEW i \in Nat, NEW text \in Text,
         NEW type \in {"text_delta", "thinking_delta"}
  PROVE  PassesOn(d, Emit(d, BlockDelta(i, Delta(type, text))), <<Delta(type, text)>>)
<1>1. PICK x, e : x = Delta(type, text) /\ e = BlockDelta(i, x)  OBVIOUS
<1>2. x \in Deltas /\ x.type = type  BY <1>1 DEF Delta, Deltas, DeltaTypes
<1>3. e \in IrEvents /\ FragmentsIn(e) = <<x>>
  BY <1>1, <1>2, EventTypes, FragmentFacts
<1>4. PICK c, events : c = Emit(d, e) /\ events = Append(d.events, e)  OBVIOUS
<1>5. c = [d EXCEPT !.events = events]  BY <1>4 DEF Emit
<1>6. c.events = events /\ c.tool_calls = d.tool_calls /\ c.losses = d.losses
  BY <1>5 DEF Decoders
<1>7. PassesOn(d, c, FragmentsIn(e))  BY <1>3, <1>4, <1>6, EmitPasses
<1>. QED BY <1>1, <1>3, <1>4, <1>7

(* The two channels of a chunk. *)
ReasoningOf(reasoning) ==
  IF reasoning \in {None, Some(<<>>)} THEN <<>> ELSE <<Delta("thinking_delta", reasoning[1])>>

ContentOf(content) == IF content = None THEN <<>> ELSE <<Delta("text_delta", content[1])>>

LEMMA AddReasoningPasses ==
  ASSUME NEW d \in Decoders, d.started, NEW reasoning \in Option(Text)
  PROVE  /\ PassesOn(d, AddReasoning(d, reasoning), ReasoningOf(reasoning))
         /\ ReasoningOf(reasoning) \in Seq(Deltas)
<1>1. CASE reasoning \in {None, Some(<<>>)}
  <2>1. AddReasoning(d, reasoning) = d /\ ReasoningOf(reasoning) = <<>>
    BY <1>1 DEF AddReasoning, ReasoningOf
  <2>. QED BY <2>1, SamePasses
<1>2. CASE reasoning \notin {None, Some(<<>>)}
  <2>1. PICK text, closed, opened, x, c :
          /\ text = reasoning[1] /\ closed = CloseText(d) /\ opened = OpenThinking(closed)
          /\ x = Delta("thinking_delta", text)
          /\ c = Emit(opened, BlockDelta(opened.thinking_index, x))
    OBVIOUS
  <2>2. text \in Text
    <3>1. reasoning # None  BY <1>2
    <3>. QED BY <2>1, <3>1, SomeTypes
  <2>3. Advances(d, closed) /\ ~closed.text_open /\ PassesOn(d, closed, <<>>)
    BY <2>1, CloseTextAdvances, ClosePasses
  <2>4. closed \in Decoders /\ closed.started  BY <2>3 DEF Advances
  <2>5. Advances(closed, opened) /\ PassesOn(closed, opened, <<>>)
    BY <2>1, <2>3, <2>4, OpenThinkingAdvances, OpenPasses
  <2>6. opened \in Decoders /\ opened.thinking_index \in Nat
    BY <2>5 DEF Advances, Decoders
  <2>7. PassesOn(opened, c, <<x>>)  BY <2>1, <2>2, <2>6, DeltaPasses
  <2>8. <<x>> \in Seq(Deltas)
    <3>1. x \in Deltas  BY <2>1, <2>2 DEF Delta, Deltas, DeltaTypes
    <3>. QED BY <3>1
  <2>9. PassesOn(closed, c, <<x>>)  BY <2>4, <2>5, <2>7, <2>8, ThenPasses
  <2>10. PassesOn(d, c, <<x>>)  BY <2>3, <2>8, <2>9, ThenPasses
  <2>11. AddReasoning(d, reasoning) = c /\ ReasoningOf(reasoning) = <<x>>
    BY <1>2, <2>1, Zenon DEF AddReasoning, ReasoningOf
  <2>. QED BY <2>8, <2>10, <2>11
<1>. QED BY <1>1, <1>2

LEMMA AddContentPasses ==
  ASSUME NEW d \in Decoders, d.started, NEW content \in Option(Text)
  PROVE  /\ PassesOn(d, AddContent(d, content), ContentOf(content))
         /\ ContentOf(content) \in Seq(Deltas)
<1>1. CASE content = None
  <2>1. AddContent(d, content) = d /\ ContentOf(content) = <<>>
    BY <1>1 DEF AddContent, ContentOf
  <2>. QED BY <2>1, SamePasses
<1>2. CASE content # None
  <2>1. PICK text, closed, opened, x, c :
          /\ text = content[1] /\ closed = CloseThinking(d) /\ opened = OpenText(closed)
          /\ x = Delta("text_delta", text)
          /\ c = Emit(opened, BlockDelta(opened.text_index, x))
    OBVIOUS
  <2>2. text \in Text  BY <1>2, <2>1, SomeTypes
  <2>3. Advances(d, closed) /\ ~closed.thinking_open /\ PassesOn(d, closed, <<>>)
    BY <2>1, CloseThinkingAdvances, ClosePasses
  <2>4. closed \in Decoders /\ closed.started  BY <2>3 DEF Advances
  <2>5. Advances(closed, opened) /\ PassesOn(closed, opened, <<>>)
    BY <2>1, <2>3, <2>4, OpenTextAdvances, OpenPasses
  <2>6. opened \in Decoders /\ opened.text_index \in Nat
    BY <2>5 DEF Advances, Decoders
  <2>7. PassesOn(opened, c, <<x>>)  BY <2>1, <2>2, <2>6, DeltaPasses
  <2>8. <<x>> \in Seq(Deltas)
    <3>1. x \in Deltas  BY <2>1, <2>2 DEF Delta, Deltas, DeltaTypes
    <3>. QED BY <3>1
  <2>9. PassesOn(closed, c, <<x>>)  BY <2>4, <2>5, <2>7, <2>8, ThenPasses
  <2>10. PassesOn(d, c, <<x>>)  BY <2>3, <2>8, <2>9, ThenPasses
  <2>11. AddContent(d, content) = c /\ ContentOf(content) = <<x>>
    BY <1>2, <2>1, Zenon DEF AddContent, ContentOf
  <2>. QED BY <2>8, <2>10, <2>11
<1>. QED BY <1>1, <1>2

-----------------------------------------------------------------------------
(* What the deltas of a call tell of it *)

(* The deltas of a call are those among the deltas that carry its index. *)
LEMMA CallDeltasGrow ==
  ASSUME NEW s \in Seq(NativeCalls), NEW call \in NativeCalls, NEW i
  PROVE  /\ CallDeltasOf(s, i) \in Seq(NativeCalls)
         /\ call.index = i =>
              CallDeltasOf(Append(s, call), i) = Append(CallDeltasOf(s, i), call)
         /\ call.index # i => CallDeltasOf(Append(s, call), i) = CallDeltasOf(s, i)
<1>1. PICK F : F = [x \in NativeCalls |-> IF x.index = i THEN <<x>> ELSE <<>>]
  OBVIOUS
<1>2. /\ F \in [NativeCalls -> Seq(NativeCalls)]
      /\ \A x \in NativeCalls : F[x] = IF x.index = i THEN <<x>> ELSE <<>>
  BY <1>1
<1>3. \A t \in Seq(NativeCalls) : CallDeltasOf(t, i) = Spelled(F, t)
  <2>1. TAKE t \in Seq(NativeCalls)
  <2>2. [k \in 1..Len(t) |-> IF t[k].index = i THEN <<t[k]>> ELSE <<>>]
          = [k \in 1..Len(t) |-> F[t[k]]]
    BY <1>2
  <2>. QED BY <2>2 DEF CallDeltasOf, Spelled
<1>4. PICK p, q : p = CallDeltasOf(s, i) /\ q = CallDeltasOf(Append(s, call), i)
  OBVIOUS
<1>5. p \in Seq(NativeCalls)  BY <1>2, <1>3, <1>4, SpelledType
<1>6. q = p \o F[call]
  <2>1. Spelled(F, Append(s, call)) = Spelled(F, s) \o F[call]
    BY <1>2, SpelledGrows
  <2>2. Append(s, call) \in Seq(NativeCalls)  OBVIOUS
  <2>. QED BY <1>3, <1>4, <2>1, <2>2
<1>7. p \o <<call>> = Append(p, call) /\ p \o <<>> = p  BY <1>5
<1>. QED BY <1>2, <1>4, <1>5, <1>6, <1>7

(* A call that no delta carries the index of has none. *)
LEMMA NoDeltas ==
  ASSUME NEW s \in Seq(NativeCalls), NEW i, \A k \in 1..Len(s) : s[k].index # i
  PROVE  CallDeltasOf(s, i) = <<>>
<1>1. PICK none : none = <<>>  OBVIOUS
<1>2. PICK F : F = [x \in NativeCalls |-> IF x.index = i THEN <<x>> ELSE none]
  OBVIOUS
<1>3. F \in [NativeCalls -> Seq(NativeCalls)]  BY <1>1, <1>2
<1>4. \A k \in 1..Len(s) : F[s[k]] = none  BY <1>2
<1>5. CallDeltasOf(s, i) = Spelled(F, s)
  <2>1. [k \in 1..Len(s) |-> IF s[k].index = i THEN <<s[k]>> ELSE <<>>]
          = [k \in 1..Len(s) |-> F[s[k]]]
    BY <1>1, <1>2
  <2>. QED BY <2>1 DEF CallDeltasOf, Spelled
<1>6. none \in Seq(NativeCalls) /\ none \o s = s  BY <1>1
<1>7. Spelled(F, none \o s) = Spelled(F, none)
  BY <1>1, <1>3, <1>4, <1>6, SpelledBatch
<1>. QED BY <1>1, <1>5, <1>6, <1>7, SpelledEmpty

(* The ids that the deltas name. *)
LEMMA IdsGrow ==
  ASSUME NEW ds \in Seq(NativeCalls), NEW call \in NativeCalls
  PROVE  /\ IdsOf(ds) \in Seq(Tokens)
         /\ call.id = "" => IdsOf(Append(ds, call)) = IdsOf(ds)
         /\ call.id # "" => IdsOf(Append(ds, call)) = Append(IdsOf(ds), call.id)
<1>1. PICK empty, F : /\ empty = ""
                      /\ F = [x \in NativeCalls |-> IF x.id = empty THEN <<>> ELSE <<x.id>>]
  OBVIOUS
<1>2. /\ F \in [NativeCalls -> Seq(Tokens)]
      /\ \A x \in NativeCalls : F[x] = IF x.id = empty THEN <<>> ELSE <<x.id>>
  <2>1. \A x \in NativeCalls : x.id \in Tokens  BY DEF NativeCalls
  <2>2. \A id \in Tokens : <<id>> \in Seq(Tokens)  OBVIOUS
  <2>3. PICK none : none = <<>>  OBVIOUS
  <2>4. none \in Seq(Tokens)  BY <2>3
  <2>5. \A x \in NativeCalls : (IF x.id = empty THEN none ELSE <<x.id>>) \in Seq(Tokens)
    BY <2>1, <2>2, <2>4
  <2>. QED BY <1>1, <2>3, <2>5
<1>3. \A t \in Seq(NativeCalls) : IdsOf(t) = Spelled(F, t)
  <2>1. TAKE t \in Seq(NativeCalls)
  <2>2. [k \in 1..Len(t) |-> IF t[k].id = empty THEN <<>> ELSE <<t[k].id>>]
          = [k \in 1..Len(t) |-> F[t[k]]]
    BY <1>2
  <2>. QED BY <1>1, <2>2 DEF IdsOf, Spelled
<1>4. PICK p, q : p = IdsOf(ds) /\ q = IdsOf(Append(ds, call))  OBVIOUS
<1>5. p \in Seq(Tokens)  BY <1>2, <1>3, <1>4, SpelledType
<1>6. q = p \o F[call]
  <2>1. Spelled(F, Append(ds, call)) = Spelled(F, ds) \o F[call]
    BY <1>2, SpelledGrows
  <2>2. Append(ds, call) \in Seq(NativeCalls)  OBVIOUS
  <2>. QED BY <1>3, <1>4, <2>1, <2>2
<1>7. PICK id : id = call.id  OBVIOUS
<1>8. id \in Tokens  BY <1>7 DEF NativeCalls
<1>9. p \o <<id>> = Append(p, id) /\ p \o <<>> = p  BY <1>5, <1>8
<1>. QED BY <1>1, <1>2, <1>4, <1>5, <1>6, <1>7, <1>9

(* Once a call is custom it stays custom. *)
LEMMA CustomGrows ==
  ASSUME NEW ds \in Seq(NativeCalls), NEW call \in NativeCalls
  PROVE  /\ SaidCustom(Append(ds, call), Len(ds) + 1)
              <=> SaidCustom(ds, Len(ds)) \/ IsCustomCall(call)
         /\ \A k \in 1..Len(ds) : SaidCustom(Append(ds, call), k) <=> SaidCustom(ds, k)
<1>1. PICK t, n : t = Append(ds, call) /\ n = Len(ds)  OBVIOUS
<1>2. /\ n \in Nat /\ t[n + 1] = call /\ n + 1 \in 1..(n + 1)
      /\ \A k \in 1..n : t[k] = ds[k] /\ k \in 1..(n + 1)
      /\ \A k \in 1..(n + 1) : k \in 1..n \/ k = n + 1
      /\ \A k \in 1..n : \A m \in 1..k : m \in 1..n
  BY <1>1
<1>3. SaidCustom(t, n + 1) <=> \E m \in 1..(n + 1) : IsCustomCall(t[m])
  BY DEF SaidCustom
<1>4. SaidCustom(ds, n) <=> \E m \in 1..n : IsCustomCall(ds[m])
  BY DEF SaidCustom
<1>5. \A k \in 1..n : SaidCustom(t, k) <=> SaidCustom(ds, k)
  BY <1>2 DEF SaidCustom
<1>. QED BY <1>1, <1>2, <1>3, <1>4, <1>5

(* The payload of a delta counts in the form of the category so far. *)
LEMMA PayloadsGrow ==
  ASSUME NEW ds \in Seq(NativeCalls), NEW call \in NativeCalls, NEW payload,
         payload = IF SaidCustom(ds, Len(ds)) \/ IsCustomCall(call)
                   THEN call.custom ELSE call.function
  PROVE  /\ PayloadsOf(ds) \in Seq(NativePayloads)
         /\ PayloadsOf(Append(ds, call)) = PayloadsOf(ds) \o payload
<1>1. PICK t, l, T : t = Append(ds, call) /\ l = Len(ds) /\ T = NativePayloads
  OBVIOUS
<1>2. /\ t \in Seq(NativeCalls) /\ l \in Nat /\ Len(t) = l + 1 /\ t[l + 1] = call
      /\ \A k \in 1..l : t[k] = ds[k]
  BY <1>1
<1>3. PICK f, g :
        /\ f = [k \in 1..l |-> IF SaidCustom(ds, k) THEN ds[k].custom ELSE ds[k].function]
        /\ g = [k \in 1..(l + 1) |-> IF SaidCustom(t, k) THEN t[k].custom ELSE t[k].function]
  OBVIOUS
<1>4. \A x \in NativeCalls : x.custom \in Seq(T) /\ x.function \in Seq(T)
  BY <1>1 DEF NativeCalls, Option
<1>5. /\ \A k \in 1..l : ds[k] \in NativeCalls
      /\ \A k \in 1..(l + 1) : t[k] \in NativeCalls
  BY <1>1, <1>2
<1>6. f \in [1..l -> Seq(T)] /\ g \in [1..(l + 1) -> Seq(T)]
  BY <1>3, <1>4, <1>5
<1>7. g[l + 1] = payload
  <2>1. SaidCustom(t, l + 1) <=> SaidCustom(ds, Len(ds)) \/ IsCustomCall(call)
    BY <1>1, CustomGrows
  <2>2. l + 1 \in 1..(l + 1)  BY <1>2
  <2>. QED BY <1>2, <1>3, <2>1, <2>2
<1>8. \A k \in 1..l : g[k] = f[k]
  <2>1. TAKE k \in 1..l
  <2>2. SaidCustom(t, k) <=> SaidCustom(ds, k)  BY <1>1, CustomGrows
  <2>3. k \in 1..(l + 1)  BY <1>2
  <2>. QED BY <1>2, <1>3, <2>2, <2>3
<1>9. Concat(g) = Concat(f) \o g[l + 1]  BY <1>2, <1>6, <1>8, ConcatGrows, Zenon
<1>10. Concat(f) \in Seq(T)
  <2>1. f \in Seq(Seq(T))
    <3>1. PICK R : R = Seq(T)  OBVIOUS
    <3>2. f \in [1..l -> R] /\ l \in Nat  BY <1>2, <1>6, <3>1
    <3>3. f \in Seq(R)  BY <3>2
    <3>. QED BY <3>1, <3>3
  <2>. QED BY <2>1, ConcatText
<1>11. PayloadsOf(t) = Concat(g) /\ PayloadsOf(ds) = Concat(f)
  BY <1>1, <1>2, <1>3 DEF PayloadsOf
<1>. QED BY <1>1, <1>7, <1>9, <1>10, <1>11

(* What one more payload adds to the name and to the fragments. *)
LEMMA NamesGrow ==
  ASSUME NEW ps \in Seq(NativePayloads), NEW x \in NativePayloads
  PROVE  /\ NameIn(Append(ps, x)) = NameIn(ps) \o x.name /\ NameIn(ps) \in Text
         /\ TextsIn(Append(ps, x)) = TextsIn(ps) \o x.text /\ TextsIn(ps) \in Seq(Text)
<1>1. PICK F, G : F = [y \in NativePayloads |-> y.name] /\ G = [y \in NativePayloads |-> y.text]
  OBVIOUS
<1>2. F \in [NativePayloads -> Seq(Tokens)] /\ G \in [NativePayloads -> Seq(Text)]
  <2>1. \A y \in NativePayloads : y.name \in Seq(Tokens) /\ y.text \in Seq(Text)
    BY DEF NativePayloads, Option, Text
  <2>. QED BY <1>1, <2>1
<1>3. \A t \in Seq(NativePayloads) : NameIn(t) = Spelled(F, t) /\ TextsIn(t) = Spelled(G, t)
  <2>1. TAKE t \in Seq(NativePayloads)
  <2>2. /\ [k \in 1..Len(t) |-> t[k].name] = [k \in 1..Len(t) |-> F[t[k]]]
        /\ [k \in 1..Len(t) |-> t[k].text] = [k \in 1..Len(t) |-> G[t[k]]]
    BY <1>1
  <2>. QED BY <2>2 DEF NameIn, TextsIn, Spelled
<1>4. F[x] = x.name /\ G[x] = x.text /\ Append(ps, x) \in Seq(NativePayloads)
  BY <1>1
<1>5. /\ Spelled(F, Append(ps, x)) = Spelled(F, ps) \o F[x]
      /\ Spelled(F, ps) \in Seq(Tokens)
  BY <1>2, SpelledGrows, SpelledType
<1>6. /\ Spelled(G, Append(ps, x)) = Spelled(G, ps) \o G[x]
      /\ Spelled(G, ps) \in Seq(Text)
  BY <1>2, SpelledGrows, SpelledType
<1>. QED BY <1>3, <1>4, <1>5, <1>6 DEF Text

(* A record says of its call what the deltas ds say, as long as the call
   is supported. *)
FilledWith(record, ds) ==
  ~record.skipped =>
    /\ IF IdsOf(ds) = <<>> THEN record.id = "" ELSE record.id = IdsOf(ds)[1] /\ record.id # ""
    /\ record.custom <=> SaidCustom(ds, Len(ds))
    /\ record.name = NameIn(PayloadsOf(ds))
    /\ record.fragments = TextsIn(PayloadsOf(ds))

(* A new record says nothing yet. *)
LEMMA NewCallFilled == FilledWith(NewCall, <<>>)
<1>1. PICK empty : empty = <<>>  OBVIOUS
<1>2. Len(empty) = 0 /\ 1..0 = {}  BY <1>1
<1>3. IdsOf(empty) = <<>> /\ PayloadsOf(empty) = <<>>
  <2>1. /\ [k \in 1..Len(empty) |-> IF empty[k].id = "" THEN <<>> ELSE <<empty[k].id>>] = <<>>
        /\ [k \in 1..Len(empty) |-> IF SaidCustom(empty, k) THEN empty[k].custom
                                    ELSE empty[k].function] = <<>>
    BY <1>1
  <2>. QED BY <2>1, ConcatEmpty DEF IdsOf, PayloadsOf
<1>4. NameIn(empty) = <<>> /\ TextsIn(empty) = <<>>
  <2>1. /\ [k \in 1..Len(empty) |-> empty[k].name] = <<>>
        /\ [k \in 1..Len(empty) |-> empty[k].text] = <<>>
    BY <1>1
  <2>. QED BY <2>1, ConcatEmpty DEF NameIn, TextsIn
<1>5. ~SaidCustom(empty, 0)  BY <1>2 DEF SaidCustom
<1>. QED BY <1>1, <1>2, <1>3, <1>4, <1>5 DEF FilledWith, NewCall

(* A delta that is recorded keeps the record true. *)
LEMMA FillsUp ==
  ASSUME NEW old \in CallRecords, NEW new \in CallRecords, NEW call \in NativeCalls,
         NEW ds \in Seq(NativeCalls), FilledWith(old, ds), Adds(old, call, new),
         new.skipped <=> old.skipped \/ IsUnsupported(call)
  PROVE  FilledWith(new, Append(ds, call))
<1>1. SUFFICES ASSUME ~new.skipped
               PROVE  FilledWith(new, Append(ds, call))
  BY DEF FilledWith
<1>2. PICK t, n, ids, payload, ps :
        /\ t = Append(ds, call) /\ n = Len(ds) /\ ids = IdsOf(ds)
        /\ payload = (IF new.custom THEN call.custom ELSE call.function)
        /\ ps = PayloadsOf(ds)
  OBVIOUS
<1>3. /\ IF ids = <<>> THEN old.id = "" ELSE old.id = ids[1] /\ old.id # ""
      /\ old.custom <=> SaidCustom(ds, n)
      /\ old.name = NameIn(ps) /\ old.fragments = TextsIn(ps)
  BY <1>1, <1>2 DEF FilledWith
<1>4. /\ call.id = "" \/ old.id \in {"", call.id}
      /\ new.id = IF call.id = "" THEN old.id ELSE call.id
      /\ new.custom <=> old.custom \/ IsCustomCall(call)
      /\ IF payload = None THEN new.name = old.name /\ new.fragments = old.fragments
         ELSE /\ new.name = old.name \o payload[1].name
              /\ new.fragments = old.fragments \o payload[1].text
  BY <1>1, <1>2, Zenon DEF Adds
<1>5. Len(t) = n + 1 /\ n \in Nat  BY <1>2
<1>6. new.custom <=> SaidCustom(t, Len(t))
  BY <1>2, <1>3, <1>4, <1>5, CustomGrows
<1>7. IF IdsOf(t) = <<>> THEN new.id = "" ELSE new.id = IdsOf(t)[1] /\ new.id # ""
  <2>1. /\ ids \in Seq(Tokens)
        /\ call.id = "" => IdsOf(t) = ids
        /\ call.id # "" => IdsOf(t) = Append(ids, call.id)
    BY <1>2, IdsGrow
  <2>2. CASE call.id = ""  BY <1>3, <1>4, <2>1, <2>2
  <2>3. CASE call.id # ""
    <3>1. PICK id : id = call.id  OBVIOUS
    <3>0. id \in Tokens  BY <3>1 DEF NativeCalls
    <3>2. /\ Append(ids, id) # <<>>
          /\ ids = <<>> => Append(ids, id)[1] = id
          /\ ids # <<>> => Append(ids, id)[1] = ids[1]
      BY <2>1, <3>0, FirstStays
    <3>3. new.id = id /\ id # "" /\ IdsOf(t) = Append(ids, id)
      BY <1>4, <2>1, <2>3, <3>1
    <3>4. ids # <<>> => ids[1] = id  BY <1>3, <1>4, <2>3, <3>1
    <3>. QED BY <3>2, <3>3, <3>4
  <2>. QED BY <2>2, <2>3
<1>8. ps \in Seq(NativePayloads) /\ PayloadsOf(t) = ps \o payload
  <2>1. payload = IF SaidCustom(ds, Len(ds)) \/ IsCustomCall(call)
                  THEN call.custom ELSE call.function
    BY <1>2, <1>3, <1>4
  <2>. QED BY <1>2, <2>1, PayloadsGrow
<1>9. new.name = NameIn(PayloadsOf(t)) /\ new.fragments = TextsIn(PayloadsOf(t))
  <2>1. CASE payload = None
    <3>1. ps \o <<>> = ps  BY <1>8
    <3>2. PayloadsOf(t) = ps  BY <1>8, <2>1, <3>1 DEF None
    <3>. QED BY <1>3, <1>4, <2>1, <3>2
  <2>2. CASE payload # None
    <3>1. PICK x : x = payload[1]  OBVIOUS
    <3>2. payload \in Option(NativePayloads)  BY <1>2 DEF NativeCalls
    <3>3. payload = <<x>> /\ x \in NativePayloads  BY <2>2, <3>1, <3>2, SomeOnly
    <3>4. ps \o <<x>> = Append(ps, x)  BY <1>8, <3>3
    <3>5. PayloadsOf(t) = Append(ps, x)  BY <1>8, <3>3, <3>4
    <3>6. NameIn(Append(ps, x)) = NameIn(ps) \o x.name
          /\ TextsIn(Append(ps, x)) = TextsIn(ps) \o x.text
      BY <1>8, <3>3, NamesGrow
    <3>. QED BY <1>3, <1>4, <2>2, <3>1, <3>5, <3>6
  <2>. QED BY <2>1, <2>2
<1>. QED BY <1>2, <1>6, <1>7, <1>9 DEF FilledWith

-----------------------------------------------------------------------------
(* The losses of tool calls *)

(* The call deltas of the chunks fed, and which calls are unsupported. *)
DeltasIn(s) == Concat([k \in 1..Len(s) |-> CallsOf(s[k].chunk)])
Lacks(s, i) == \E k \in 1..Len(s) : s[k].index = i /\ IsUnsupported(s[k])

(* The calls collected and the losses noted after the call deltas s: every
   native index has its slot, which knows whether the call is unsupported,
   every slot has the record of a call that some delta told of, and each
   unsupported call has one loss. *)
Slotted(calls, s) ==
  /\ \A k \in 1..Len(s) : s[k].index < Len(calls)
  /\ \A i \in 1..Len(calls) : calls[i].skipped <=> Lacks(s, i - 1)

NotedOnce(losses, s) ==
  /\ \A i \in Nat : Lacks(s, i) <=> \E k \in 1..Len(losses) : losses[k] = <<"tool_call", i>>
  /\ \A j, k \in 1..Len(losses) :
       losses[j][1] = "tool_call" /\ losses[k] = losses[j] => j = k

Filled(calls, s) ==
  \A i \in 1..Len(calls) :
    /\ \E k \in 1..Len(s) : s[k].index = i - 1
    /\ FilledWith(calls[i], CallDeltasOf(s, i - 1))

Booked(d, s) ==
  Slotted(d.tool_calls, s) /\ Filled(d.tool_calls, s) /\ NotedOnce(d.losses, s)

(* One more delta may make one more call unsupported. *)
LEMMA LacksGrows ==
  ASSUME NEW s \in Seq(NativeCalls), NEW call \in NativeCalls
  PROVE  \A i : Lacks(Append(s, call), i) <=>
                  Lacks(s, i) \/ (call.index = i /\ IsUnsupported(call))
<1>1. PICK t, n : t = Append(s, call) /\ n = Len(s)  OBVIOUS
<1>2. /\ n \in Nat /\ Len(t) = n + 1 /\ t[n + 1] = call
      /\ \A k \in 1..n : t[k] = s[k]
      /\ \A k \in 1..(n + 1) : k \in 1..n \/ k = n + 1
      /\ \A k \in 1..n : k \in 1..(n + 1)
      /\ n + 1 \in 1..(n + 1)
  BY <1>1
<1>3. TAKE i
<1>4. ASSUME NEW k \in 1..(n + 1), t[k].index = i, IsUnsupported(t[k])
      PROVE  Lacks(s, i) \/ (call.index = i /\ IsUnsupported(call))
  <2>1. CASE k = n + 1  BY <1>2, <1>4, <2>1
  <2>2. CASE k \in 1..n  BY <1>1, <1>2, <1>4, <2>2 DEF Lacks
  <2>. QED BY <1>2, <2>1, <2>2
<1>5. ASSUME NEW k \in 1..n, s[k].index = i, IsUnsupported(s[k])
      PROVE  Lacks(t, i)
  <2>1. k \in 1..Len(t) /\ t[k] = s[k]  BY <1>2
  <2>. QED BY <1>5, <2>1 DEF Lacks
<1>6. ASSUME call.index = i, IsUnsupported(call)
      PROVE  Lacks(t, i)
  BY <1>2, <1>6 DEF Lacks
<1>7. Lacks(t, i) => \E k \in 1..(n + 1) : t[k].index = i /\ IsUnsupported(t[k])
  BY <1>2 DEF Lacks
<1>8. Lacks(s, i) => \E k \in 1..n : s[k].index = i /\ IsUnsupported(s[k])
  BY <1>1 DEF Lacks
<1>. QED BY <1>1, <1>4, <1>5, <1>6, <1>7, <1>8

(* A call delta that is recorded: its slot, and its loss. *)
LEMMA RecordBooks ==
  ASSUME NEW d \in Decoders, NEW call \in NativeCalls, ~CallRejected(d, call),
         NEW s \in Seq(NativeCalls), Booked(d, s)
  PROVE  /\ Booked(RecordCall(d, call), Append(s, call))
         /\ RecordCall(d, call).events = d.events /\ RecordCall(d, call).usage = d.usage
<1>1. PICK c, t, x : c = RecordCall(d, call) /\ t = Append(s, call) /\ x = d.tool_calls
  OBVIOUS
<1>2. PICK calls \in Seq(CallRecords), losses \in Seq({"tool_call", "finish_reason"} \X Nat),
           old \in CallRecords, new \in CallRecords : RecordedAs(d, call, calls, losses, old, new)
  BY RecordShape
<1>3. PICK h, i, new_calls : /\ h = call.index /\ i = h + 1
                             /\ new_calls = [calls EXCEPT ![i] = new]
  OBVIOUS
<1>4. /\ h \in Nat /\ x \in Seq(CallRecords) /\ h <= Len(x) /\ i \in 1..Len(calls)
      /\ calls = IF h = Len(x) THEN Append(x, NewCall) ELSE x
      /\ old = calls[i]
      /\ new.skipped <=> old.skipped \/ IsUnsupported(call)
      /\ Adds(old, call, new)
      /\ losses = d.losses \o CallLosses(old, call)
  BY <1>1, <1>2, <1>3 DEF RecordedAs, Decoders, NativeCalls
<1>5. c = [d EXCEPT !.tool_calls = new_calls, !.losses = losses]
  BY <1>1, <1>2, <1>3 DEF RecordedAs
<1>6. /\ c.tool_calls = new_calls /\ c.losses = losses /\ c.events = d.events
      /\ c.usage = d.usage
  BY <1>5 DEF Decoders
<1>7. \A j : Lacks(t, j) <=> Lacks(s, j) \/ (h = j /\ IsUnsupported(call))
  BY <1>1, <1>3, LacksGrows
<1>8. Slotted(x, s) /\ Filled(x, s)  BY <1>1 DEF Booked
<1>9. old.skipped <=> Lacks(s, h)
  <2>1. CASE h = Len(x)
    <3>1. old = NewCall  BY <1>3, <1>4, <2>1
    <3>2. ~old.skipped  BY <3>1 DEF NewCall
    <3>3. ASSUME NEW k \in 1..Len(s), s[k].index = h
          PROVE  FALSE
      <4>1. s[k].index < Len(x)  BY <1>8 DEF Slotted
      <4>. QED BY <1>4, <2>1, <3>3, <4>1
    <3>4. ~Lacks(s, h)  BY <3>3 DEF Lacks
    <3>. QED BY <3>2, <3>4
  <2>2. CASE h # Len(x)
    <3>1. i \in 1..Len(x) /\ old = x[i] /\ i - 1 = h  BY <1>3, <1>4, <2>2
    <3>. QED BY <1>8, <3>1 DEF Slotted
  <2>. QED BY <2>1, <2>2
<1>10. Slotted(new_calls, t)
  <2>1. Len(new_calls) = Len(calls) /\ Len(x) <= Len(calls) /\ Len(calls) \in Nat
    BY <1>3, <1>4
  <2>2. ASSUME NEW k \in 1..Len(t)
        PROVE  t[k].index < Len(new_calls)
    <3>1. CASE k = Len(s) + 1
      <4>1. t[k] = call  BY <1>1, <3>1
      <4>. QED BY <1>3, <1>4, <2>1, <4>1
    <3>2. CASE k # Len(s) + 1
      <4>1. k \in 1..Len(s) /\ t[k] = s[k]  BY <1>1, <3>2
      <4>2. s[k].index < Len(x)  BY <1>8, <4>1 DEF Slotted
      <4>3. PICK e : e = s[k]  OBVIOUS
      <4>4. e \in NativeCalls  BY <4>1, <4>3
      <4>5. e.index \in Nat  BY <4>4 DEF NativeCalls
      <4>6. Len(x) \in Nat  BY <1>4
      <4>. QED BY <2>1, <4>1, <4>2, <4>3, <4>5, <4>6
    <3>. QED BY <3>1, <3>2
  <2>3. ASSUME NEW k \in 1..Len(new_calls)
        PROVE  new_calls[k].skipped <=> Lacks(t, k - 1)
    <3>1. CASE k = i
      <4>1. new_calls[k] = new /\ k - 1 = h  BY <1>3, <1>4, <3>1
      <4>. QED BY <1>4, <1>7, <1>9, <4>1
    <3>2. CASE k # i
      <4>0. k \in 1..Len(calls)  BY <2>1
      <4>1. new_calls[k] = calls[k] /\ k \in 1..Len(calls)  BY <1>3, <3>2, <4>0
      <4>2. k \in 1..Len(x) /\ calls[k] = x[k] /\ k - 1 # h
        BY <1>3, <1>4, <3>2, <4>1
      <4>3. x[k].skipped <=> Lacks(s, k - 1)  BY <1>8, <4>2 DEF Slotted
      <4>. QED BY <1>7, <4>1, <4>2, <4>3
    <3>. QED BY <3>1, <3>2
  <2>. QED BY <2>2, <2>3 DEF Slotted
<1>11. PICK l, loss : l = d.losses /\ loss = <<"tool_call", h>>  OBVIOUS
<1>12. /\ NotedOnce(l, s) /\ l \in Seq({"tool_call", "finish_reason"} \X Nat)
       /\ losses = l \o CallLosses(old, call)
  BY <1>4, <1>11 DEF Booked, Decoders
<1>13. NotedOnce(losses, t)
  <2>1. CASE IsUnsupported(call) /\ ~old.skipped
    <3>1. losses = Append(l, loss)
      <4>1. CallLosses(old, call) = <<loss>>
        BY <1>3, <1>11, <2>1, Zenon DEF CallLosses
      <4>2. l \o <<loss>> = Append(l, loss)  BY <1>12
      <4>. QED BY <1>12, <4>1, <4>2
    <3>2. PICK n : n = Len(l)  OBVIOUS
    <3>3. /\ n \in Nat /\ Len(losses) = n + 1 /\ losses[n + 1] = loss
          /\ \A k \in 1..n : losses[k] = l[k] /\ k \in 1..(n + 1)
          /\ \A k \in 1..(n + 1) : k \in 1..n \/ k = n + 1
          /\ n + 1 \in 1..(n + 1)
      BY <1>12, <3>1, <3>2
    <3>4. \A k \in 1..n : l[k] # loss
      <4>1. ~Lacks(s, h)  BY <1>9, <2>1
      <4>. QED BY <1>4, <1>11, <1>12, <3>2, <4>1 DEF NotedOnce
    <3>5. ASSUME NEW j \in Nat
          PROVE  Lacks(t, j) <=> \E k \in 1..Len(losses) : losses[k] = <<"tool_call", j>>
      <4>1. Lacks(t, j) <=> Lacks(s, j) \/ h = j  BY <1>7, <2>1
      <4>2. Lacks(s, j) <=> \E k \in 1..n : l[k] = <<"tool_call", j>>
        BY <1>12, <3>2 DEF NotedOnce
      <4>3. loss = <<"tool_call", j>> <=> h = j  BY <1>11
      <4>4. (\E k \in 1..Len(losses) : losses[k] = <<"tool_call", j>>) <=>
              (\E k \in 1..n : l[k] = <<"tool_call", j>>) \/ loss = <<"tool_call", j>>
        BY <3>3
      <4>. QED BY <4>1, <4>2, <4>3, <4>4
    <3>6. ASSUME NEW j \in 1..Len(losses), NEW k \in 1..Len(losses),
                 losses[j][1] = "tool_call", losses[k] = losses[j]
          PROVE  j = k
      <4>1. CASE j \in 1..n /\ k \in 1..n
        <5>1. l[j][1] = "tool_call" /\ l[k] = l[j]  BY <3>3, <3>6, <4>1
        <5>. QED BY <1>12, <3>2, <4>1, <5>1 DEF NotedOnce
      <4>2. CASE j = n + 1 \/ k = n + 1  BY <3>3, <3>4, <3>6, <4>2
      <4>. QED BY <3>3, <4>1, <4>2
    <3>. QED BY <3>5, <3>6 DEF NotedOnce
  <2>2. CASE ~(IsUnsupported(call) /\ ~old.skipped)
    <3>1. losses = l
      <4>1. CallLosses(old, call) = <<>>  BY <2>2 DEF CallLosses
      <4>2. l \o <<>> = l  BY <1>12
      <4>. QED BY <1>12, <4>1, <4>2
    <3>2. \A j : Lacks(t, j) <=> Lacks(s, j)  BY <1>7, <1>9, <2>2
    <3>. QED BY <1>12, <3>1, <3>2 DEF NotedOnce
  <2>. QED BY <2>1, <2>2
<1>14. \A j : /\ CallDeltasOf(s, j) \in Seq(NativeCalls)
              /\ h = j => CallDeltasOf(t, j) = Append(CallDeltasOf(s, j), call)
              /\ h # j => CallDeltasOf(t, j) = CallDeltasOf(s, j)
  BY <1>1, <1>3, CallDeltasGrow
<1>15. FilledWith(old, CallDeltasOf(s, h))
  <2>1. CASE h = Len(x)
    <3>1. old = NewCall  BY <1>3, <1>4, <2>1
    <3>2. \A k \in 1..Len(s) : s[k].index # h
      <4>1. TAKE k \in 1..Len(s)
      <4>2. s[k].index < Len(x)  BY <1>8 DEF Slotted
      <4>. QED BY <1>4, <2>1, <4>2
    <3>3. CallDeltasOf(s, h) = <<>>  BY <3>2, NoDeltas
    <3>. QED BY <3>1, <3>3, NewCallFilled
  <2>2. CASE h # Len(x)
    <3>1. i \in 1..Len(x) /\ old = x[i] /\ i - 1 = h  BY <1>3, <1>4, <2>2
    <3>2. FilledWith(x[i], CallDeltasOf(s, i - 1))  BY <1>8, <3>1 DEF Filled
    <3>. QED BY <3>1, <3>2
  <2>. QED BY <2>1, <2>2
<1>16. FilledWith(new, CallDeltasOf(t, h))
  <2>1. PICK ds : ds = CallDeltasOf(s, h)  OBVIOUS
  <2>2. ds \in Seq(NativeCalls) /\ FilledWith(old, ds) /\ CallDeltasOf(t, h) = Append(ds, call)
    BY <1>14, <1>15, <2>1
  <2>3. FilledWith(new, Append(ds, call))  BY <1>4, <2>2, FillsUp
  <2>. QED BY <2>2, <2>3
<1>17. Filled(new_calls, t)
  <2>1. Len(new_calls) = Len(calls) /\ Len(calls) \in Nat  BY <1>3, <1>4
  <2>2. PICK n : n = Len(s)  OBVIOUS
  <2>3. /\ n \in Nat /\ Len(t) = n + 1 /\ t[n + 1] = call /\ n + 1 \in 1..(n + 1)
        /\ \A k \in 1..n : t[k] = s[k] /\ k \in 1..(n + 1)
    BY <1>1, <2>2
  <2>4. SUFFICES ASSUME NEW k \in 1..Len(new_calls)
                 PROVE  /\ \E m \in 1..Len(t) : t[m].index = k - 1
                        /\ FilledWith(new_calls[k], CallDeltasOf(t, k - 1))
    BY DEF Filled
  <2>5. CASE k = i
    <3>1. new_calls[k] = new /\ k - 1 = h  BY <1>3, <1>4, <2>5
    <3>2. t[n + 1].index = k - 1  BY <1>3, <2>3, <3>1
    <3>. QED BY <1>16, <2>3, <3>1, <3>2
  <2>6. CASE k # i
    <3>1. k \in 1..Len(calls)  BY <2>1
    <3>2. new_calls[k] = calls[k]  BY <1>3, <2>6, <3>1
    <3>3. k \in 1..Len(x) /\ calls[k] = x[k] /\ k - 1 # h
      BY <1>3, <1>4, <2>6, <3>1
    <3>4. (\E m \in 1..n : s[m].index = k - 1) /\ FilledWith(x[k], CallDeltasOf(s, k - 1))
      BY <1>8, <2>2, <3>3 DEF Filled
    <3>5. \E m \in 1..Len(t) : t[m].index = k - 1  BY <2>3, <3>4
    <3>6. CallDeltasOf(t, k - 1) = CallDeltasOf(s, k - 1)  BY <1>14, <3>3
    <3>. QED BY <3>2, <3>3, <3>4, <3>5, <3>6
  <2>. QED BY <2>5, <2>6
<1>. QED BY <1>1, <1>6, <1>10, <1>13, <1>17 DEF Booked

(* The loop over the call deltas of a chunk, when none is refused. *)
LEMMA RecordToolCallsBooks ==
  ASSUME NEW d \in Decoders, NEW calls \in Seq(NativeCalls), RecordToolCalls(d, calls).ok,
         NEW s \in Seq(NativeCalls), Booked(d, s)
  PROVE  /\ Booked(RecordToolCalls(d, calls).dec, s \o calls)
         /\ RecordToolCalls(d, calls).dec.events = d.events
         /\ RecordToolCalls(d, calls).dec.usage = d.usage
<1>1. PICK f : /\ RecordToolCalls(d, calls) = f[Len(calls)]
               /\ f[0] = [dec |-> d, ok |-> TRUE]
               /\ \A m \in 1..Len(calls) : f[m] = RecordNext(f[m - 1], calls[m])
               /\ \A m \in 0..Len(calls) : f[m] \in Recordings(d)
  BY RecordLoopRuns
<1>2. PICK n : n = Len(calls)  OBVIOUS
<1>3. PICK q : q = [m \in Nat |-> s \o SubSeq(calls, 1, m)]  OBVIOUS
<1>4. \A m \in Nat : q[m] = s \o SubSeq(calls, 1, m)  BY <1>3
<1>5. q[0] = s /\ q[n] = s \o calls
  <2>1. SubSeq(calls, 1, 0) = <<>> /\ s \o <<>> = s  OBVIOUS
  <2>2. SubSeq(calls, 1, n) = calls  BY <1>2
  <2>3. q[0] = s \o SubSeq(calls, 1, 0) /\ q[n] = s \o SubSeq(calls, 1, n)
    BY <1>2, <1>4
  <2>. QED BY <2>1, <2>2, <2>3
<1>6. ASSUME NEW m \in Nat, m + 1 <= n
      PROVE  /\ q[m] \in Seq(NativeCalls) /\ calls[m + 1] \in NativeCalls
             /\ q[m + 1] = Append(q[m], calls[m + 1])
  <2>1. PICK v, w, e : v = SubSeq(calls, 1, m) /\ w = SubSeq(calls, 1, m + 1) /\ e = calls[m + 1]
    OBVIOUS
  <2>2. v \in Seq(NativeCalls) /\ e \in NativeCalls /\ w = Append(v, e)
    BY <1>2, <1>6, <2>1
  <2>3. q[m] = s \o v /\ q[m + 1] = s \o w
    <3>1. m + 1 \in Nat  OBVIOUS
    <3>. QED BY <1>4, <2>1, <3>1
  <2>4. s \o v \in Seq(NativeCalls) /\ s \o w = Append(s \o v, e)  BY <2>2
  <2>. QED BY <2>1, <2>2, <2>3, <2>4
<1> DEFINE T == {m \in Nat : m <= n /\ f[m].ok =>
                               /\ Booked(f[m].dec, q[m]) /\ f[m].dec.events = d.events
                               /\ f[m].dec.usage = d.usage}
<1>7. 0 \in T
  <2>1. f[0].dec = d  BY <1>1
  <2>. QED BY <1>5, <2>1
<1>8. ASSUME NEW m \in Nat, m \in T
      PROVE  m + 1 \in T
  <2>1. SUFFICES ASSUME m + 1 <= n, f[m + 1].ok
                 PROVE  /\ Booked(f[m + 1].dec, q[m + 1]) /\ f[m + 1].dec.events = d.events
                        /\ f[m + 1].dec.usage = d.usage
    OBVIOUS
  <2>2. PICK b, call, r : b = f[m].dec /\ call = calls[m + 1] /\ r = q[m]
    OBVIOUS
  <2>3. r \in Seq(NativeCalls) /\ call \in NativeCalls /\ q[m + 1] = Append(r, call)
    BY <1>6, <2>1, <2>2
  <2>4. f[m] \in [dec : Decoders, ok : BOOLEAN] /\ f[m + 1] = RecordNext(f[m], call)
    <3>1. m \in 0..Len(calls) /\ m + 1 \in 1..Len(calls) /\ (m + 1) - 1 = m
      BY <1>2, <2>1
    <3>2. f[m] \in Recordings(d) /\ f[m + 1] = RecordNext(f[(m + 1) - 1], calls[m + 1])
      BY <1>1, <3>1
    <3>. QED BY <2>2, <3>1, <3>2 DEF Recordings
  <2>5. f[m].ok /\ ~CallRejected(b, call) /\ f[m + 1].dec = RecordCall(b, call)
    <3>1. CASE ~f[m].ok \/ CallRejected(b, call)
      <4>1. f[m + 1] = [f[m] EXCEPT !.ok = FALSE]
        BY <2>2, <2>4, <3>1 DEF RecordNext
      <4>2. ~f[m + 1].ok  BY <2>4, <4>1
      <4>. QED BY <2>1, <4>2
    <3>2. CASE f[m].ok /\ ~CallRejected(b, call)
      <4>1. f[m + 1] = [dec |-> RecordCall(b, call), ok |-> TRUE]
        BY <2>2, <2>4, <3>2 DEF RecordNext
      <4>. QED BY <3>2, <4>1
    <3>. QED BY <3>1, <3>2
  <2>6. b \in Decoders  BY <2>2, <2>4
  <2>7. Booked(b, r) /\ b.events = d.events /\ b.usage = d.usage
    <3>1. m <= n  BY <1>2, <2>1
    <3>. QED BY <1>8, <2>2, <2>5, <3>1
  <2>8. /\ Booked(RecordCall(b, call), Append(r, call)) /\ RecordCall(b, call).events = b.events
        /\ RecordCall(b, call).usage = b.usage
    BY <2>3, <2>5, <2>6, <2>7, RecordBooks
  <2>. QED BY <2>3, <2>5, <2>7, <2>8
<1> HIDE DEF T
<1>9. n \in Nat  BY <1>2
<1>10. n \in T  BY <1>7, <1>8, <1>9, SetInduction
<1>11. f[n].ok /\ n <= n  BY <1>1, <1>2, <1>9
<1>12. Booked(f[n].dec, q[n]) /\ f[n].dec.events = d.events /\ f[n].dec.usage = d.usage
  BY <1>10, <1>11 DEF T
<1>. QED BY <1>1, <1>2, <1>5, <1>12

-----------------------------------------------------------------------------
(* What came in and what came out *)

(* The chunks fed, what was passed of them, and the calls they told of. *)
HistoryInv ==
  /\ fed \in Seq([chunk : Chunks, ok : BOOLEAN])
  /\ ~failed => PassedIn(dec.events) = ArrivedIn(fed) /\ Booked(dec, DeltasIn(fed))

LEMMA FragmentsType ==
  ASSUME NEW chunk \in Chunks
  PROVE  /\ FragmentsOf(chunk) \in Seq(Deltas) /\ CallsOf(chunk) \in Seq(NativeCalls)
         /\ chunk.choice = None => FragmentsOf(chunk) = <<>> /\ CallsOf(chunk) = <<>>
         /\ chunk.choice # None =>
              /\ FragmentsOf(chunk) = ReasoningOf(chunk.choice[1].reasoning)
                                      \o ContentOf(chunk.choice[1].content)
              /\ CallsOf(chunk) = chunk.choice[1].tool_calls
<1>1. PICK choice, none : choice = chunk.choice[1] /\ none = <<>>  OBVIOUS
<1>2. none \in Seq(Deltas) /\ none \in Seq(NativeCalls)  BY <1>1
<1>3. CASE chunk.choice = None
  <2>1. FragmentsOf(chunk) = none /\ CallsOf(chunk) = none
    BY <1>1, <1>3 DEF FragmentsOf, CallsOf
  <2>. QED BY <1>1, <1>2, <1>3, <2>1
<1>4. CASE chunk.choice # None
  <2>1. /\ choice.reasoning \in Option(Text) /\ choice.content \in Option(Text)
        /\ choice.tool_calls \in Seq(NativeCalls)
    BY <1>1, <1>4, ChunkTypes DEF NativeChoices
  <2>2. FragmentsOf(chunk) = ReasoningOf(choice.reasoning) \o ContentOf(choice.content)
    BY <1>1, <1>4, Zenon DEF FragmentsOf, ReasoningOf, ContentOf
  <2>3. \A type \in {"text_delta", "thinking_delta"}, text \in Text :
          <<Delta(type, text)>> \in Seq(Deltas)
    <3>1. TAKE type \in {"text_delta", "thinking_delta"}, text \in Text
    <3>2. PICK x : x = Delta(type, text)  OBVIOUS
    <3>3. x \in Deltas  BY <3>2 DEF Delta, Deltas, DeltaTypes
    <3>. QED BY <3>2, <3>3
  <2>4. ReasoningOf(choice.reasoning) \in Seq(Deltas)
    <3>1. CASE choice.reasoning \in {None, Some(<<>>)}
      <4>1. ReasoningOf(choice.reasoning) = none  BY <1>1, <3>1 DEF ReasoningOf
      <4>. QED BY <1>2, <4>1
    <3>2. CASE choice.reasoning \notin {None, Some(<<>>)}
      <4>1. choice.reasoning[1] \in Text
        <5>1. choice.reasoning # None  BY <3>2
        <5>. QED BY <2>1, <5>1, SomeTypes
      <4>2. ReasoningOf(choice.reasoning) = <<Delta("thinking_delta", choice.reasoning[1])>>
        BY <3>2, Zenon DEF ReasoningOf
      <4>. QED BY <2>3, <4>1, <4>2
    <3>. QED BY <3>1, <3>2
  <2>5. ContentOf(choice.content) \in Seq(Deltas)
    <3>1. CASE choice.content = None
      <4>1. ContentOf(choice.content) = none  BY <1>1, <3>1 DEF ContentOf
      <4>. QED BY <1>2, <4>1
    <3>2. CASE choice.content # None
      <4>1. choice.content[1] \in Text  BY <2>1, <3>2, SomeTypes
      <4>2. ContentOf(choice.content) = <<Delta("text_delta", choice.content[1])>>
        BY <3>2, Zenon DEF ContentOf
      <4>. QED BY <2>3, <4>1, <4>2
    <3>. QED BY <3>1, <3>2
  <2>6. CallsOf(chunk) = choice.tool_calls  BY <1>1, <1>4 DEF CallsOf
  <2>7. FragmentsOf(chunk) \in Seq(Deltas)  BY <2>2, <2>4, <2>5
  <2>. QED BY <1>1, <1>4, <2>1, <2>2, <2>6, <2>7
<1>. QED BY <1>3, <1>4

(* One more chunk. *)
LEMMA HistoryGrows ==
  ASSUME NEW s \in Seq([chunk : Chunks, ok : BOOLEAN]), NEW chunk \in Chunks, NEW ok \in BOOLEAN,
         NEW t, t = Append(s, [chunk |-> chunk, ok |-> ok])
  PROVE  /\ t \in Seq([chunk : Chunks, ok : BOOLEAN])
         /\ ArrivedIn(t) = ArrivedIn(s) \o FragmentsOf(chunk) /\ ArrivedIn(s) \in Seq(Deltas)
         /\ DeltasIn(t) = DeltasIn(s) \o CallsOf(chunk) /\ DeltasIn(s) \in Seq(NativeCalls)
<1>1. PICK l, R, r : /\ l = Len(s) /\ R = [chunk : Chunks, ok : BOOLEAN]
                     /\ r = [chunk |-> chunk, ok |-> ok]
  OBVIOUS
<1>2. r \in R /\ r.chunk = chunk /\ \A x \in R : x.chunk \in Chunks  BY <1>1
<1>3. s \in Seq(R) /\ t = Append(s, r)  BY <1>1
<1>4. /\ t \in Seq(R) /\ l \in Nat /\ Len(t) = l + 1 /\ t[l + 1] = r
      /\ \A k \in 1..l : t[k] = s[k]
  BY <1>1, <1>2, <1>3
<1>5. PICK f, g : /\ f = [k \in 1..l |-> FragmentsOf(s[k].chunk)]
                  /\ g = [k \in 1..(l + 1) |-> FragmentsOf(t[k].chunk)]
  OBVIOUS
<1>6. PICK p, q : /\ p = [k \in 1..l |-> CallsOf(s[k].chunk)]
                  /\ q = [k \in 1..(l + 1) |-> CallsOf(t[k].chunk)]
  OBVIOUS
<1>7. /\ \A k \in 1..l : s[k].chunk \in Chunks
      /\ \A k \in 1..(l + 1) : t[k].chunk \in Chunks
  <2>1. l = Len(s)  BY <1>1
  <2>2. /\ \A k \in 1..l : s[k] \in R
        /\ \A k \in 1..(l + 1) : t[k] \in R
    BY <1>3, <1>4, <2>1
  <2>. QED BY <1>2, <2>2
<1>8. /\ f \in [1..l -> Seq(Deltas)] /\ g \in [1..(l + 1) -> Seq(Deltas)]
      /\ g[l + 1] = FragmentsOf(chunk)
      /\ \A k \in 1..l : g[k] = f[k]
  BY <1>2, <1>4, <1>5, <1>7, FragmentsType
<1>9. /\ p \in [1..l -> Seq(NativeCalls)] /\ q \in [1..(l + 1) -> Seq(NativeCalls)]
      /\ q[l + 1] = CallsOf(chunk)
      /\ \A k \in 1..l : q[k] = p[k]
  BY <1>2, <1>4, <1>6, <1>7, FragmentsType
<1>10. Concat(g) = Concat(f) \o g[l + 1] /\ Concat(f) \in Seq(Deltas)
  <2>1. f \in Seq(Seq(Deltas))  BY <1>4, <1>8
  <2>. QED BY <1>4, <1>8, <2>1, ConcatGrows, ConcatText
<1>11. Concat(q) = Concat(p) \o q[l + 1] /\ Concat(p) \in Seq(NativeCalls)
  <2>1. p \in Seq(Seq(NativeCalls))  BY <1>4, <1>9
  <2>. QED BY <1>4, <1>9, <2>1, ConcatGrows, ConcatText
<1>12. ArrivedIn(t) = Concat(g) /\ ArrivedIn(s) = Concat(f)
  BY <1>1, <1>4, <1>5 DEF ArrivedIn
<1>13. DeltasIn(t) = Concat(q) /\ DeltasIn(s) = Concat(p)
  BY <1>1, <1>4, <1>6 DEF DeltasIn
<1>. QED BY <1>1, <1>4, <1>8, <1>9, <1>10, <1>11, <1>12, <1>13

LEMMA CallDeltasType ==
  ASSUME NEW s \in Seq([chunk : Chunks, ok : BOOLEAN])
  PROVE  DeltasIn(s) \in Seq(NativeCalls)
<1>1. PICK R, F : /\ R = [chunk : Chunks, ok : BOOLEAN]
                  /\ F = [x \in R |-> CallsOf(x.chunk)]
  OBVIOUS
<1>2. F \in [R -> Seq(NativeCalls)]
  <2>1. \A x \in R : x.chunk \in Chunks  BY <1>1
  <2>. QED BY <1>1, <2>1, FragmentsType
<1>3. DeltasIn(s) = Spelled(F, s)
  <2>1. \A x \in R : F[x] = CallsOf(x.chunk)  BY <1>1
  <2>2. s \in Seq(R)  BY <1>1
  <2>3. [k \in 1..Len(s) |-> CallsOf(s[k].chunk)] = [k \in 1..Len(s) |-> F[s[k]]]
    BY <2>1, <2>2
  <2>. QED BY <2>3 DEF DeltasIn, Spelled
<1>4. s \in Seq(R)  BY <1>1
<1>5. Spelled(F, s) \in Seq(NativeCalls)  BY <1>2, <1>4, SpelledType, Zenon
<1>. QED BY <1>3, <1>5

(* The usage and the finish_reason hand nothing over; the loss of an
   unknown finish_reason is not one of a call. *)
LEMMA WithUsagePasses ==
  ASSUME NEW d \in Decoders, NEW chunk \in Chunks
  PROVE  PassesOn(d, WithUsage(d, chunk), <<>>)
<1>1. PICK c : c = WithUsage(d, chunk)  OBVIOUS
<1>2. c.events = d.events /\ c.tool_calls = d.tool_calls /\ c.losses = d.losses
  BY <1>1 DEF WithUsage, Decoders
<1>. QED BY <1>1, <1>2, SamePasses

LEMMA FinishBooks ==
  ASSUME NEW d \in Decoders, NEW finish, NEW s, Booked(d, s)
  PROVE  Booked(Finish(d, finish), s) /\ Finish(d, finish).events = d.events
<1>1. PICK c, l, loss, stop, losses :
        /\ c = Finish(d, finish) /\ l = d.losses /\ loss = <<"finish_reason", 0>>
        /\ stop = StopOf(finish)
        /\ losses = IF stop = "other" THEN Append(l, loss) ELSE l
  OBVIOUS
<1>2. CASE finish = "absent"  BY <1>2 DEF Finish
<1>3. CASE finish # "absent"
  <2>1. c = [d EXCEPT !.stop = stop, !.finish_seen = TRUE, !.losses = losses]
    BY <1>1, <1>3 DEF Finish
  <2>2. c.events = d.events /\ c.tool_calls = d.tool_calls /\ c.losses = losses
    BY <2>1 DEF Decoders
  <2>3. NotedOnce(l, s) /\ l \in Seq({"tool_call", "finish_reason"} \X Nat)
    BY <1>1 DEF Booked, Decoders
  <2>4. NotedOnce(losses, s)
    <3>1. CASE losses = l  BY <2>3, <3>1
    <3>2. CASE losses = Append(l, loss)
      <4>1. PICK n : n = Len(l)  OBVIOUS
      <4>2. /\ n \in Nat /\ Len(losses) = n + 1 /\ losses[n + 1] = loss
            /\ \A k \in 1..n : losses[k] = l[k] /\ k \in 1..(n + 1)
            /\ \A k \in 1..(n + 1) : k \in 1..n \/ k = n + 1
            /\ n + 1 \in 1..(n + 1)
        BY <2>3, <3>2, <4>1
      <4>3. loss[1] # "tool_call" /\ \A j \in Nat : loss # <<"tool_call", j>>
        BY <1>1
      <4>4. ASSUME NEW j \in Nat
            PROVE  Lacks(s, j) <=> \E k \in 1..Len(losses) : losses[k] = <<"tool_call", j>>
        <5>1. Lacks(s, j) <=> \E k \in 1..n : l[k] = <<"tool_call", j>>
          BY <2>3, <4>1 DEF NotedOnce
        <5>. QED BY <4>2, <4>3, <5>1
      <4>5. ASSUME NEW j \in 1..Len(losses), NEW k \in 1..Len(losses),
                   losses[j][1] = "tool_call", losses[k] = losses[j]
            PROVE  j = k
        <5>1. j \in 1..n /\ k \in 1..n  BY <4>2, <4>3, <4>5
        <5>2. l[j][1] = "tool_call" /\ l[k] = l[j]  BY <4>2, <4>5, <5>1
        <5>. QED BY <2>3, <4>1, <5>1, <5>2 DEF NotedOnce
      <4>. QED BY <4>4, <4>5 DEF NotedOnce
    <3>. QED BY <1>1, <3>1, <3>2
  <2>. QED BY <1>1, <2>2, <2>4 DEF Booked
<1>. QED BY <1>2, <1>3

(* The books follow a step that passes fragments on. *)
LEMMA PassesKeepBooks ==
  ASSUME NEW c, NEW d, NEW fs, PassesOn(c, d, fs), NEW s
  PROVE  Booked(c, s) => Booked(d, s)
BY DEF PassesOn, Booked

(* A chunk with a choice that is taken: its fragments are passed on, its
   call deltas are booked. *)
LEMMA ChoicePasses ==
  ASSUME dec \in Decoders, NEW chunk \in Chunks, chunk.choice # None, Recorded(chunk).ok,
         NEW s \in Seq(NativeCalls), Booked(dec, s)
  PROVE  /\ PassedIn(Streamed(chunk).events) = PassedIn(dec.events) \o FragmentsOf(chunk)
         /\ Booked(Streamed(chunk), s \o CallsOf(chunk))
<1>1. PICK choice : choice = chunk.choice[1]  OBVIOUS
<1>2. /\ choice.tool_calls \in Seq(NativeCalls) /\ choice.reasoning \in Option(Text)
      /\ choice.content \in Option(Text)
  BY <1>1, ChunkTypes DEF NativeChoices
<1>3. PICK noted, begun, recorded : /\ noted = WithUsage(dec, chunk) /\ begun = Begin(noted)
                                    /\ recorded = RecordToolCalls(begun, choice.tool_calls).dec
  OBVIOUS
<1>4. noted \in Decoders /\ PassesOn(dec, noted, <<>>)
  BY <1>3, WithUsageAdvances, WithUsagePasses DEF Advances
<1>5. begun \in Decoders /\ begun.started /\ PassesOn(noted, begun, <<>>)
  BY <1>3, <1>4, BeginAdvances, BeginPasses DEF Advances
<1>6. recorded \in Decoders /\ recorded.started
  <2>1. Advances(begun, recorded)
    BY <1>2, <1>3, <1>5, RecordToolCallsAdvances DEF Recordings
  <2>. QED BY <1>5, <2>1 DEF Advances
<1>7. PICK none, fs, gs : /\ none = <<>> /\ fs = ReasoningOf(choice.reasoning)
                          /\ gs = ContentOf(choice.content)
  OBVIOUS
<1>8. none \in Seq(Deltas)  BY <1>7
<1>9. PassesOn(dec, begun, none)  BY <1>4, <1>5, <1>7, <1>8, ThenPasses
<1>10. Booked(begun, s)  BY <1>9, PassesKeepBooks
<1>11. RecordToolCalls(begun, choice.tool_calls).ok  BY <1>1, <1>3 DEF Recorded
<1>12. Booked(recorded, s \o choice.tool_calls) /\ recorded.events = begun.events
  BY <1>2, <1>3, <1>5, <1>10, <1>11, RecordToolCallsBooks
<1>13. PICK reasoned, c : /\ reasoned = AddReasoning(recorded, choice.reasoning)
                          /\ c = AddContent(reasoned, choice.content)
  OBVIOUS
<1>14. /\ reasoned \in Decoders /\ reasoned.started /\ PassesOn(recorded, reasoned, fs)
       /\ fs \in Seq(Deltas)
  BY <1>2, <1>6, <1>7, <1>13, AddReasoningAdvances, AddReasoningPasses DEF Advances
<1>15. PassesOn(reasoned, c, gs) /\ gs \in Seq(Deltas)
  BY <1>2, <1>7, <1>13, <1>14, AddContentPasses
<1>16. PassesOn(recorded, c, fs \o gs)  BY <1>6, <1>14, <1>15, PassesTrans
<1>17. Booked(c, s \o choice.tool_calls)  BY <1>12, <1>16, PassesKeepBooks
<1>18. PassedIn(c.events) = PassedIn(dec.events) \o (fs \o gs)
  <2>1. PassedIn(c.events) = PassedIn(recorded.events) \o (fs \o gs)
    BY <1>16 DEF PassesOn
  <2>2. PassedIn(begun.events) = PassedIn(dec.events) \o none
    BY <1>9 DEF PassesOn
  <2>3. PICK p : p = PassedIn(dec.events)  OBVIOUS
  <2>4. p \in Seq(Deltas)  BY <2>3, PassedType DEF Decoders
  <2>5. p \o none = p  BY <1>7, <2>4
  <2>. QED BY <1>12, <2>1, <2>2, <2>3, <2>5
<1>19. Streamed(chunk) = c  BY <1>1, <1>3, <1>13 DEF Recorded, Streamed
<1>20. FragmentsOf(chunk) = fs \o gs /\ CallsOf(chunk) = choice.tool_calls
  BY <1>1, <1>7, FragmentsType
<1>. QED BY <1>17, <1>18, <1>19, <1>20

(* The replay of a call hands over no fragment of text or reasoning. *)
LEMMA ReplayCallPasses ==
  ASSUME NEW d \in Decoders, NEW call \in CallRecords, Replayable(call)
  PROVE  PassesOn(d, ReplayCall(d, call), <<>>)
<1>1. CASE call.skipped  BY <1>1, SamePasses DEF ReplayCall
<1>2. CASE ~call.skipped
  <2>1. Identified(call.id, call.name)
    BY <1>2, Zenon DEF Replayable, Identified, HasId
  <2>2. PICK n, m, u, c : /\ n = d.next_ir_index /\ m = n + 1 /\ u = ToolUnit(n, call)
                          /\ c = ReplayCall(d, call)
    OBVIOUS
  <2>3. n \in Nat /\ d.events \in Seq(IrEvents)  BY <2>2 DEF Decoders
  <2>4. u \in Seq(IrEvents)  BY <2>1, <2>2, <2>3, ToolUnitLegal
  <2>5. PICK l, start, type, parts :
          /\ parts = call.fragments /\ l = Len(parts)
          /\ start = (IF call.custom THEN CustomToolUseBlock(call.id, call.name, Concat(parts))
                                     ELSE ToolUseBlock(call.id, call.name, Concat(parts)))
          /\ type = (IF call.custom THEN "custom_tool_input_delta" ELSE "input_json_delta")
    OBVIOUS
  <2>6. l \in Nat  BY <2>5 DEF CallRecords
  <2>7. u = [k \in 1..(l + 2) |->
               IF k = 1 THEN BlockStart(n, start)
               ELSE IF k = l + 2 THEN BlockStop(n)
               ELSE BlockDelta(n, Delta(type, parts[k - 1]))]
    BY <2>2, <2>5, Zenon DEF ToolUnit
  <2>8. ASSUME NEW k \in 1..Len(u)
        PROVE  FragmentsIn(u[k]) = <<>>
    <3>1. PICK x : x = Delta(type, parts[k - 1])  OBVIOUS
    <3>2. k \in 1..(l + 2)  BY <2>6, <2>7
    <3>3. u[k] = BlockStart(n, start) \/ u[k] = BlockStop(n) \/ u[k] = BlockDelta(n, x)
      BY <2>7, <3>1, <3>2
    <3>4. FragmentsIn(BlockStart(n, start)) = <<>> /\ FragmentsIn(BlockStop(n)) = <<>>
      BY EventFacts, FragmentFacts
    <3>5. x.type \notin {"text_delta", "thinking_delta"}
      BY <2>5, <3>1 DEF Delta
    <3>6. FragmentsIn(BlockDelta(n, x)) = <<>>  BY <3>5, FragmentFacts
    <3>. QED BY <3>3, <3>4, <3>6
  <2>9. PICK events : events = d.events \o u  OBVIOUS
  <2>10. c = [d EXCEPT !.events = events, !.next_ir_index = m]
    BY <1>2, <2>2, <2>9 DEF ReplayCall
  <2>11. c.events = events /\ c.tool_calls = d.tool_calls /\ c.losses = d.losses
    BY <2>10 DEF Decoders
  <2>12. PassedIn(events) = PassedIn(d.events)
    BY <2>3, <2>4, <2>8, <2>9, PassedBatch
  <2>13. PICK p : p = PassedIn(d.events)  OBVIOUS
  <2>14. p \in Seq(Deltas)  BY <2>3, <2>13, PassedType
  <2>15. p \o <<>> = p  BY <2>14
  <2>. QED BY <2>2, <2>11, <2>12, <2>13, <2>15 DEF PassesOn
<1>. QED BY <1>1, <1>2

LEMMA ReplayCallsPasses ==
  ASSUME NEW d \in Decoders, ~d.text_open, ~d.thinking_open, d.stop # "none",
         NEW n \in Nat, n <= Len(d.tool_calls),
         \A k \in 1..n : Replayable(d.tool_calls[k])
  PROVE  PassesOn(d, ReplayCalls(d, n), <<>>)
<1>1. PICK f : /\ ReplayCalls(d, n) = f[n] /\ f[0] = d
               /\ \A m \in 1..n : f[m] = ReplayCall(f[m - 1], d.tool_calls[m])
               /\ \A m \in 0..n : f[m] \in Replays(d)
  BY ReplayLoopRuns
<1>2. PICK none, calls, S : /\ none = <<>> /\ calls = d.tool_calls
                            /\ S = {c \in Decoders : PassesOn(d, c, none)}
  OBVIOUS
<1>3. f[0] \in S  BY <1>1, <1>2, SamePasses
<1>4. ASSUME NEW m \in 1..n, f[m - 1] \in S
      PROVE  f[m] \in S
  <2>1. PICK b, c, call : b = f[m - 1] /\ c = f[m] /\ call = calls[m]  OBVIOUS
  <2>2. b \in Decoders /\ PassesOn(d, b, none)  BY <1>2, <1>4, <2>1
  <2>3. call \in CallRecords /\ Replayable(call)  BY <1>2, <2>1 DEF Decoders
  <2>4. c = ReplayCall(b, call) /\ c \in Decoders
    <3>1. m \in 0..n  OBVIOUS
    <3>. QED BY <1>1, <1>2, <2>1, <3>1 DEF Replays
  <2>5. PassesOn(b, c, none)  BY <1>2, <2>2, <2>3, <2>4, ReplayCallPasses
  <2>6. none \in Seq(Deltas)  BY <1>2
  <2>7. PassesOn(d, c, none)  BY <1>2, <2>2, <2>5, <2>6, ThenPasses
  <2>. QED BY <1>2, <2>1, <2>4, <2>7
<1>5. \A m \in 0..n : f[m] \in S  BY <1>3, <1>4, Iteration
<1>6. n \in 0..n  OBVIOUS
<1>. QED BY <1>1, <1>2, <1>5, <1>6

(* The terminal pair carries no fragment. *)
LEMMA TerminatePasses ==
  ASSUME NEW d \in Decoders, d.stop # "none"
  PROVE  PassesOn(d, Terminate(d), <<>>)
<1>1. PICK none : none = <<>>  OBVIOUS
<1>2. PICK x, y, s, u : /\ x = MessageDelta(d.stop, none, d.usage) /\ y = MessageDone
                        /\ s = d.events /\ u = <<x, y>>
  OBVIOUS
<1>3. s \in Seq(IrEvents)  BY <1>2 DEF Decoders
<1>4. x \in IrEvents /\ y \in IrEvents /\ x.type = "message_delta" /\ y.type = "message_done"
  <2>1. d.stop \in StopReasons /\ d.usage \in Usages /\ none \in Text
    BY <1>1 DEF Decoders, Text
  <2>2. x \in IrEvents /\ y \in IrEvents  BY <1>2, <2>1, EventTypes
  <2>. QED BY <1>2, <2>2 DEF MessageDelta, MessageDone
<1>5. FragmentsIn(x) = <<>> /\ FragmentsIn(y) = <<>>
  BY <1>4, FragmentFacts DEF IsDelta
<1>6. /\ u \in Seq(IrEvents) /\ Append(Append(s, x), y) = s \o u
      /\ \A k \in 1..Len(u) : u[k] = x \/ u[k] = y
  BY <1>2, <1>3, <1>4
<1>7. PICK c, events : c = Terminate(d) /\ events = s \o u  OBVIOUS
<1>8. c = [d EXCEPT !.events = events]
  BY <1>1, <1>2, <1>6, <1>7 DEF Terminate, Emit, Decoders
<1>9. c.events = events /\ c.tool_calls = d.tool_calls /\ c.losses = d.losses
  BY <1>8 DEF Decoders
<1>10. PassedIn(events) = PassedIn(s)
  <2>1. \A k \in 1..Len(u) : FragmentsIn(u[k]) = <<>>  BY <1>5, <1>6
  <2>. QED BY <1>3, <1>6, <1>7, <2>1, PassedBatch
<1>11. PICK p : p = PassedIn(s)  OBVIOUS
<1>12. p \in Seq(Deltas)  BY <1>3, <1>11, PassedType
<1>13. p \o <<>> = p  BY <1>12
<1>. QED BY <1>2, <1>7, <1>9, <1>10, <1>11, <1>13 DEF PassesOn

(* feed and flush keep the history. *)
LEMMA FeedHistory ==
  ASSUME TypeOK, HistoryInv, NEW chunk \in Chunks, Feed(chunk)
  PROVE  HistoryInv'
<1>1. dec \in Decoders /\ fed \in Seq([chunk : Chunks, ok : BOOLEAN])
  BY DEF TypeOK, HistoryInv
<1>2. ASSUME NEW d, Fails(chunk, d)
      PROVE  HistoryInv'
  <2>1. fed' = Append(fed, [chunk |-> chunk, ok |-> FALSE]) /\ failed'
    BY <1>2 DEF Fails
  <2>2. fed' \in Seq([chunk : Chunks, ok : BOOLEAN])
    BY <1>1, <2>1, HistoryGrows
  <2>. QED BY <2>1, <2>2 DEF HistoryInv
<1>3. ASSUME NEW d, Succeeds(chunk, d),
             ~failed => /\ PassedIn(d.events) = PassedIn(dec.events) \o FragmentsOf(chunk)
                        /\ Booked(d, DeltasIn(fed) \o CallsOf(chunk))
      PROVE  HistoryInv'
  <2>1. /\ fed' = Append(fed, [chunk |-> chunk, ok |-> TRUE]) /\ failed' = failed /\ dec' = d
    BY <1>3 DEF Succeeds
  <2>2. /\ fed' \in Seq([chunk : Chunks, ok : BOOLEAN])
        /\ ArrivedIn(fed') = ArrivedIn(fed) \o FragmentsOf(chunk)
        /\ DeltasIn(fed') = DeltasIn(fed) \o CallsOf(chunk)
    BY <1>1, <2>1, HistoryGrows
  <2>3. ~failed => PassedIn(dec.events) = ArrivedIn(fed)  BY DEF HistoryInv
  <2>4. ~failed' => PassedIn(dec'.events) = ArrivedIn(fed') /\ Booked(dec', DeltasIn(fed'))
    BY <1>3, <2>1, <2>2, <2>3
  <2>5. ~failed' => PassedIn(dec.events)' = ArrivedIn(fed)' /\ Booked(dec, DeltasIn(fed))'
    BY <2>4
  <2>. QED BY <2>2, <2>5 DEF HistoryInv
<1>4. CASE FeedUnreadable(chunk)  BY <1>2, <1>4 DEF FeedUnreadable
<1>5. CASE FeedUsageOnly(chunk)
  <2>1. PICK d : d = WithUsage(dec, chunk)  OBVIOUS
  <2>2. Succeeds(chunk, d) /\ chunk.choice = None
    BY <1>5, <2>1 DEF FeedUsageOnly
  <2>3. PassesOn(dec, d, <<>>)  BY <1>1, <2>1, WithUsagePasses
  <2>4. FragmentsOf(chunk) = <<>> /\ CallsOf(chunk) = <<>>
    BY <2>2, FragmentsType
  <2>5. ~failed => Booked(d, DeltasIn(fed))
    BY <2>3, PassesKeepBooks DEF HistoryInv
  <2>6. PICK s : s = DeltasIn(fed)  OBVIOUS
  <2>7. s \in Seq(NativeCalls)  BY <1>1, <2>6, HistoryGrows
  <2>8. s \o <<>> = s  BY <2>7
  <2>. QED BY <1>3, <2>2, <2>3, <2>4, <2>5, <2>6, <2>8 DEF PassesOn
<1>6. CASE FeedRestart(chunk)  BY <1>2, <1>6 DEF FeedRestart
<1>7. CASE FeedBadCall(chunk)  BY <1>2, <1>7 DEF FeedBadCall
<1>8. CASE FeedBadFinish(chunk)  BY <1>2, <1>8 DEF FeedBadFinish
<1>9. CASE FeedChoice(chunk)
  <2>1. PICK c, d, s : /\ c = Streamed(chunk) /\ d = Finish(c, chunk.choice[1].finish_reason)
                       /\ s = DeltasIn(fed)
    OBVIOUS
  <2>2. Succeeds(chunk, d) /\ chunk.choice # None /\ Recorded(chunk).ok
    BY <1>9, <2>1 DEF FeedChoice
  <2>3. s \in Seq(NativeCalls)  BY <1>1, <2>1, HistoryGrows
  <2>4. c \in Decoders  BY <1>1, <2>1, <2>2, StreamedAdvances DEF Advances
  <2>5. ASSUME ~failed
        PROVE  /\ PassedIn(d.events) = PassedIn(dec.events) \o FragmentsOf(chunk)
               /\ Booked(d, DeltasIn(fed) \o CallsOf(chunk))
    <3>1. Booked(dec, s)  BY <2>1, <2>5 DEF HistoryInv
    <3>2. /\ PassedIn(c.events) = PassedIn(dec.events) \o FragmentsOf(chunk)
          /\ Booked(c, s \o CallsOf(chunk))
      BY <1>1, <2>1, <2>2, <2>3, <3>1, ChoicePasses
    <3>3. Booked(d, s \o CallsOf(chunk)) /\ d.events = c.events
      BY <2>1, <2>4, <3>2, FinishBooks
    <3>. QED BY <2>1, <3>2, <3>3
  <2>. QED BY <1>3, <2>2, <2>5
<1>. QED BY <1>4, <1>5, <1>6, <1>7, <1>8, <1>9 DEF Feed

LEMMA FlushHistory ==
  ASSUME TypeOK, HistoryInv, Flush
  PROVE  HistoryInv'
<1>1. dec \in Decoders  BY DEF TypeOK
<1>2. CASE FlushTooEarlyOrTwice \/ FlushUnidentified
  BY <1>2 DEF FlushTooEarlyOrTwice, FlushUnidentified, HistoryInv
<1>3. CASE FlushComplete
  <2>1. PICK none, f, b, c, calls, total :
          /\ none = <<>> /\ f = [dec EXCEPT !.flushed = TRUE] /\ b = CloseThinking(f)
          /\ c = CloseText(b) /\ calls = dec.tool_calls /\ total = Len(calls)
    OBVIOUS
  <2>2. none \in Seq(Deltas) /\ total \in Nat  BY <1>1, <2>1 DEF Decoders
  <2>3. f \in Decoders /\ PassesOn(dec, f, none)
    <3>1. /\ f \in Decoders /\ f.events = dec.events /\ f.tool_calls = dec.tool_calls
          /\ f.losses = dec.losses
      BY <1>1, <2>1 DEF Decoders
    <3>. QED BY <1>1, <2>1, <3>1, SamePasses
  <2>4. b \in Decoders /\ PassesOn(f, b, none)
    BY <2>1, <2>3, CloseThinkingAdvances, ClosePasses DEF Advances
  <2>5. PassesOn(b, c, none)  BY <2>1, <2>4, ClosePasses
  <2>6. c = CloseChannels(dec)  BY <2>1 DEF CloseChannels
  <2>7. /\ c \in Decoders /\ ~c.text_open /\ ~c.thinking_open /\ c.stop = dec.stop
        /\ c.tool_calls = calls
    BY <1>1, <2>1, <2>6, CloseChannelsFacts
  <2>8. PassesOn(dec, c, none)
    <3>1. PassesOn(dec, b, none)  BY <1>1, <2>1, <2>2, <2>3, <2>4, ThenPasses
    <3>. QED BY <1>1, <2>1, <2>2, <2>5, <3>1, ThenPasses
  <2>9. PICK d, e : d = ReplayCalls(c, total) /\ e = Terminate(d)  OBVIOUS
  <2>10. /\ dec.stop # "none" /\ \A m \in 1..total : Replayable(calls[m])
         /\ dec' = e /\ fed' = fed /\ failed' = failed
    BY <1>3, <2>1, <2>6, <2>9 DEF FlushComplete
  <2>11. total <= Len(c.tool_calls)  BY <2>1, <2>2, <2>7
  <2>12. /\ d \in Decoders /\ d.stop # "none" /\ PassesOn(c, d, none)
    BY <2>1, <2>2, <2>7, <2>9, <2>10, <2>11, ReplayCallsAdvances, ReplayCallsPasses DEF Replays
  <2>13. PassesOn(d, e, none)  BY <2>1, <2>9, <2>12, TerminatePasses
  <2>14. PassesOn(dec, e, none)
    <3>1. PassesOn(dec, d, none)  BY <1>1, <2>1, <2>2, <2>8, <2>12, ThenPasses
    <3>. QED BY <1>1, <2>1, <2>2, <2>13, <3>1, ThenPasses
  <2>15. PICK p : p = PassedIn(dec.events)  OBVIOUS
  <2>16. p \in Seq(Deltas)  BY <1>1, <2>15, PassedType DEF Decoders
  <2>17. p \o none = p  BY <2>1, <2>16
  <2>18. PassedIn(e.events) = PassedIn(dec.events)
    BY <2>14, <2>15, <2>17 DEF PassesOn
  <2>19. ~failed => PassedIn(e.events) = ArrivedIn(fed) /\ Booked(e, DeltasIn(fed))
    BY <2>14, <2>18, PassesKeepBooks DEF HistoryInv
  <2>20. ~failed' => PassedIn(dec.events)' = ArrivedIn(fed)' /\ Booked(dec, DeltasIn(fed))'
    BY <2>10, <2>19
  <2>21. fed' \in Seq([chunk : Chunks, ok : BOOLEAN])  BY <2>10 DEF HistoryInv
  <2>. QED BY <2>20, <2>21 DEF HistoryInv
<1>. QED BY <1>2, <1>3 DEF Flush

LEMMA InitHistory == Init => HistoryInv
<1>1. SUFFICES ASSUME Init
               PROVE  HistoryInv
  OBVIOUS
<1>2. dec.events = <<>> /\ dec.tool_calls = <<>> /\ dec.losses = <<>> /\ fed = <<>>
  BY <1>1 DEF Init, NewDecoder
<1>3. PICK empty : empty = <<>>  OBVIOUS
<1>4. PassedIn(empty) = <<>> /\ ArrivedIn(empty) = <<>> /\ DeltasIn(empty) = <<>>
  <2>1. \A f : f = [k \in 1..Len(empty) |-> f[k]] => f = <<>>  BY <1>3
  <2>2. /\ [k \in 1..Len(empty) |-> FragmentsIn(empty[k])] = <<>>
        /\ [k \in 1..Len(empty) |-> FragmentsOf(empty[k].chunk)] = <<>>
        /\ [k \in 1..Len(empty) |-> CallsOf(empty[k].chunk)] = <<>>
    BY <1>3
  <2>. QED BY <2>2, ConcatEmpty DEF PassedIn, ArrivedIn, DeltasIn
<1>5. Booked(dec, empty)
  BY <1>2, <1>3 DEF Booked, Slotted, Filled, NotedOnce, Lacks
<1>6. fed \in Seq([chunk : Chunks, ok : BOOLEAN])  BY <1>2
<1>. QED BY <1>2, <1>3, <1>4, <1>5, <1>6 DEF HistoryInv

LEMMA NextHistory == TypeOK /\ HistoryInv /\ [Next]_vars => HistoryInv'
<1>1. SUFFICES ASSUME TypeOK, HistoryInv, [Next]_vars
               PROVE  HistoryInv'
  OBVIOUS
<1>2. ASSUME NEW chunk \in Chunks, Feed(chunk)
      PROVE  HistoryInv'
  BY <1>1, <1>2, FeedHistory
<1>3. CASE Flush  BY <1>1, <1>3, FlushHistory
<1>4. CASE UNCHANGED vars  BY <1>1, <1>4 DEF vars, HistoryInv
<1>. QED BY <1>1, <1>2, <1>3, <1>4 DEF Next

-----------------------------------------------------------------------------
(* The blocks of the tool calls, and the usage *)

BlocksIn(s) == Concat([k \in 1..Len(s) |-> ToolBlockIn(s[k])])

(* Only the start of a tool block shows one. *)
LEMMA ToolBlockFacts ==
  /\ \A e : ~IsStart(e) => ToolBlockIn(e) = <<>>
  /\ \A i : ToolBlockIn(BlockStart(i, TextBlock)) = <<>>
  /\ \A i : ToolBlockIn(BlockStart(i, ThinkingBlock)) = <<>>
  /\ \A i, b : b.kind \in ToolKinds => ToolBlockIn(BlockStart(i, b)) = <<b>>
  /\ \A e \in IrEvents : ToolBlockIn(e) \in Seq(Blocks)
<1>1. \A e : ~IsStart(e) => ToolBlockIn(e) = <<>>  BY DEF ToolBlockIn
<1>2. \A i, b : ToolBlockIn(BlockStart(i, b)) = IF b.kind \in ToolKinds THEN <<b>> ELSE <<>>
  <2>1. TAKE i, b
  <2>2. IsStart(BlockStart(i, b)) /\ BlockStart(i, b).block = b  BY EventFacts
  <2>. QED BY <2>2 DEF ToolBlockIn
<1>3. TextBlock.kind \notin ToolKinds /\ ThinkingBlock.kind \notin ToolKinds
  BY TextBlockType, ThinkingBlockType DEF ToolKinds
<1>4. \A e \in IrEvents : ToolBlockIn(e) \in Seq(Blocks)
  <2>1. TAKE e \in IrEvents
  <2>2. IsStart(e) => e.block \in Blocks  BY DEF IrEvents, IsStart
  <2>3. PICK none, b : none = <<>> /\ b = e.block  OBVIOUS
  <2>4. none \in Seq(Blocks) /\ (b \in Blocks => <<b>> \in Seq(Blocks))  BY <2>3
  <2>5. ToolBlockIn(e) = none \/ (IsStart(e) /\ ToolBlockIn(e) = <<b>>)
    BY <2>3 DEF ToolBlockIn
  <2>. QED BY <2>2, <2>3, <2>4, <2>5
<1>. QED BY <1>1, <1>2, <1>3, <1>4

LEMMA BlocksAreSpelled ==
  \E F \in [IrEvents -> Seq(Blocks)] :
    /\ \A e \in IrEvents : F[e] = ToolBlockIn(e)
    /\ \A s \in Seq(IrEvents) : BlocksIn(s) = Spelled(F, s)
<1>1. PICK F : F = [e \in IrEvents |-> ToolBlockIn(e)]  OBVIOUS
<1>2. F \in [IrEvents -> Seq(Blocks)] /\ \A e \in IrEvents : F[e] = ToolBlockIn(e)
  BY <1>1, ToolBlockFacts
<1>3. ASSUME NEW s \in Seq(IrEvents)
      PROVE  BlocksIn(s) = Spelled(F, s)
  <2>1. [k \in 1..Len(s) |-> ToolBlockIn(s[k])] = [k \in 1..Len(s) |-> F[s[k]]]
    BY <1>2
  <2>. QED BY <2>1 DEF BlocksIn, Spelled
<1>. QED BY <1>2, <1>3

LEMMA BlocksType ==
  ASSUME NEW s \in Seq(IrEvents)
  PROVE  BlocksIn(s) \in Seq(Blocks)
BY BlocksAreSpelled, SpelledType

LEMMA BlocksGrow ==
  ASSUME NEW s \in Seq(IrEvents), NEW e \in IrEvents
  PROVE  BlocksIn(Append(s, e)) = BlocksIn(s) \o ToolBlockIn(e)
<1>1. PICK F \in [IrEvents -> Seq(Blocks)] :
        /\ \A x \in IrEvents : F[x] = ToolBlockIn(x)
        /\ \A t \in Seq(IrEvents) : BlocksIn(t) = Spelled(F, t)
  BY BlocksAreSpelled
<1>2. Append(s, e) \in Seq(IrEvents)  OBVIOUS
<1>. QED BY <1>1, <1>2, SpelledGrows

LEMMA BlocksBatch ==
  ASSUME NEW s \in Seq(IrEvents), NEW u \in Seq(IrEvents),
         \A k \in 1..Len(u) : ToolBlockIn(u[k]) = <<>>
  PROVE  BlocksIn(s \o u) = BlocksIn(s)
<1>1. PICK F \in [IrEvents -> Seq(Blocks)] :
        /\ \A x \in IrEvents : F[x] = ToolBlockIn(x)
        /\ \A t \in Seq(IrEvents) : BlocksIn(t) = Spelled(F, t)
  BY BlocksAreSpelled
<1>2. s \o u \in Seq(IrEvents) /\ \A k \in 1..Len(u) : F[u[k]] = <<>>  BY <1>1
<1>3. Spelled(F, s \o u) = Spelled(F, s)  BY <1>2, SpelledBatch
<1>. QED BY <1>1, <1>2, <1>3

(* d hands over no tool block that c did not, and the usage stays. *)
Quietly(c, d) == BlocksIn(d.events) = BlocksIn(c.events) /\ d.usage = c.usage

LEMMA SameQuietly ==
  ASSUME NEW c, NEW d, d.events = c.events, d.usage = c.usage
  PROVE  Quietly(c, d)
BY DEF Quietly

LEMMA EmitQuietly ==
  ASSUME NEW c \in Decoders, NEW d, NEW e \in IrEvents, d.events = Append(c.events, e),
         ToolBlockIn(e) = <<>>, d.usage = c.usage
  PROVE  Quietly(c, d)
<1>1. PICK s, p : s = c.events /\ p = BlocksIn(s)  OBVIOUS
<1>2. s \in Seq(IrEvents)  BY <1>1 DEF Decoders
<1>3. p \in Seq(Blocks)  BY <1>1, <1>2, BlocksType
<1>4. BlocksIn(Append(s, e)) = p \o <<>>  BY <1>1, <1>2, BlocksGrow
<1>5. p \o <<>> = p  BY <1>3
<1>. QED BY <1>1, <1>4, <1>5 DEF Quietly

LEMMA QuietlyTrans ==
  ASSUME NEW b, NEW c, NEW d, Quietly(b, c), Quietly(c, d)
  PROVE  Quietly(b, d)
BY DEF Quietly

(* The two channels, and the start of the message. *)
LEMMA BeginQuietly ==
  ASSUME NEW d \in Decoders
  PROVE  Quietly(d, Begin(d))
<1>1. CASE d.started  BY <1>1, SameQuietly DEF Begin
<1>2. CASE ~d.started
  <2>1. PICK e, c : e = MessageStart /\ c = Begin(d)  OBVIOUS
  <2>2. e \in IrEvents /\ ToolBlockIn(e) = <<>>
    BY <2>1, EventTypes, EventFacts, ToolBlockFacts
  <2>3. c.events = Append(d.events, e) /\ c.usage = d.usage
    BY <1>2, <2>1 DEF Begin, Emit, Decoders
  <2>. QED BY <2>1, <2>2, <2>3, EmitQuietly
<1>. QED BY <1>1, <1>2

LEMMA CloseQuietly ==
  ASSUME NEW d \in Decoders
  PROVE  Quietly(d, CloseText(d)) /\ Quietly(d, CloseThinking(d))
<1>1. ASSUME d.text_open
      PROVE  Quietly(d, CloseText(d))
  <2>1. PICK e, c : e = BlockStop(d.text_index) /\ c = CloseText(d)  OBVIOUS
  <2>2. d.text_index \in Nat  BY DEF Decoders
  <2>3. e \in IrEvents /\ ToolBlockIn(e) = <<>>
    BY <2>1, <2>2, EventTypes, EventFacts, ToolBlockFacts
  <2>4. c.events = Append(d.events, e) /\ c.usage = d.usage
    BY <1>1, <2>1 DEF CloseText, Emit, Decoders
  <2>. QED BY <2>1, <2>3, <2>4, EmitQuietly
<1>2. ASSUME d.thinking_open
      PROVE  Quietly(d, CloseThinking(d))
  <2>1. PICK e, c : e = BlockStop(d.thinking_index) /\ c = CloseThinking(d)
    OBVIOUS
  <2>2. d.thinking_index \in Nat  BY DEF Decoders
  <2>3. e \in IrEvents /\ ToolBlockIn(e) = <<>>
    BY <2>1, <2>2, EventTypes, EventFacts, ToolBlockFacts
  <2>4. c.events = Append(d.events, e) /\ c.usage = d.usage
    BY <1>2, <2>1 DEF CloseThinking, Emit, Decoders
  <2>. QED BY <2>1, <2>3, <2>4, EmitQuietly
<1>3. /\ ~d.text_open => CloseText(d) = d
      /\ ~d.thinking_open => CloseThinking(d) = d
  BY DEF CloseText, CloseThinking
<1>. QED BY <1>1, <1>2, <1>3, SameQuietly

LEMMA OpenQuietly ==
  ASSUME NEW d \in Decoders
  PROVE  Quietly(d, OpenText(d)) /\ Quietly(d, OpenThinking(d))
<1>1. PICK n, m, e, x : /\ n = d.next_ir_index /\ m = n + 1
                        /\ e = BlockStart(n, TextBlock) /\ x = BlockStart(n, ThinkingBlock)
  OBVIOUS
<1>2. n \in Nat  BY <1>1 DEF Decoders
<1>3. /\ e \in IrEvents /\ ToolBlockIn(e) = <<>>
      /\ x \in IrEvents /\ ToolBlockIn(x) = <<>>
  BY <1>1, <1>2, TextBlockType, ThinkingBlockType, EventTypes, ToolBlockFacts
<1>4. ASSUME ~d.text_open
      PROVE  Quietly(d, OpenText(d))
  <2>1. PICK c, events : c = OpenText(d) /\ events = Append(d.events, e)
    OBVIOUS
  <2>2. c = [d EXCEPT !.text_open = TRUE, !.text_index = n, !.next_ir_index = m,
                      !.events = events]
    BY <1>1, <1>4, <2>1 DEF OpenText, Emit, Decoders
  <2>3. c.events = events /\ c.usage = d.usage  BY <2>2 DEF Decoders
  <2>. QED BY <1>3, <2>1, <2>3, EmitQuietly
<1>5. ASSUME ~d.thinking_open
      PROVE  Quietly(d, OpenThinking(d))
  <2>1. PICK c, events : c = OpenThinking(d) /\ events = Append(d.events, x)
    OBVIOUS
  <2>2. c = [d EXCEPT !.thinking_open = TRUE, !.thinking_index = n, !.next_ir_index = m,
                      !.events = events]
    BY <1>1, <1>5, <2>1 DEF OpenThinking, Emit, Decoders
  <2>3. c.events = events /\ c.usage = d.usage  BY <2>2 DEF Decoders
  <2>. QED BY <1>3, <2>1, <2>3, EmitQuietly
<1>6. /\ d.text_open => OpenText(d) = d
      /\ d.thinking_open => OpenThinking(d) = d
  BY DEF OpenText, OpenThinking
<1>. QED BY <1>4, <1>5, <1>6, SameQuietly

LEMMA DeltaQuietly ==
  ASSUME NEW d \in Decoders, NEW i \in Nat, NEW x \in Deltas
  PROVE  Quietly(d, Emit(d, BlockDelta(i, x)))
<1>1. PICK e, c, events : /\ e = BlockDelta(i, x) /\ c = Emit(d, e)
                          /\ events = Append(d.events, e)
  OBVIOUS
<1>2. e \in IrEvents /\ ToolBlockIn(e) = <<>>
  BY <1>1, EventTypes, EventFacts, ToolBlockFacts
<1>3. c = [d EXCEPT !.events = events]  BY <1>1 DEF Emit
<1>4. c.events = events /\ c.usage = d.usage  BY <1>3 DEF Decoders
<1>. QED BY <1>1, <1>2, <1>4, EmitQuietly

LEMMA AddReasoningQuietly ==
  ASSUME NEW d \in Decoders, d.started, NEW reasoning \in Option(Text)
  PROVE  Quietly(d, AddReasoning(d, reasoning))
<1>1. CASE reasoning \in {None, Some(<<>>)}
  <2>1. AddReasoning(d, reasoning) = d  BY <1>1 DEF AddReasoning
  <2>. QED BY <2>1, SameQuietly
<1>2. CASE reasoning \notin {None, Some(<<>>)}
  <2>1. PICK text, closed, opened, x, c :
          /\ text = reasoning[1] /\ closed = CloseText(d) /\ opened = OpenThinking(closed)
          /\ x = Delta("thinking_delta", text)
          /\ c = Emit(opened, BlockDelta(opened.thinking_index, x))
    OBVIOUS
  <2>2. text \in Text
    <3>1. reasoning # None  BY <1>2
    <3>. QED BY <2>1, <3>1, SomeTypes
  <2>3. x \in Deltas  BY <2>1, <2>2 DEF Delta, Deltas, DeltaTypes
  <2>4. Advances(d, closed) /\ ~closed.text_open /\ Quietly(d, closed)
    BY <2>1, CloseTextAdvances, CloseQuietly
  <2>5. closed \in Decoders /\ closed.started  BY <2>4 DEF Advances
  <2>6. Advances(closed, opened) /\ Quietly(closed, opened)
    BY <2>1, <2>4, <2>5, OpenThinkingAdvances, OpenQuietly
  <2>7. opened \in Decoders /\ opened.thinking_index \in Nat
    BY <2>6 DEF Advances, Decoders
  <2>8. Quietly(opened, c)  BY <2>1, <2>3, <2>7, DeltaQuietly
  <2>9. AddReasoning(d, reasoning) = c  BY <1>2, <2>1, Zenon DEF AddReasoning
  <2>. QED BY <2>4, <2>6, <2>8, <2>9, QuietlyTrans
<1>. QED BY <1>1, <1>2

LEMMA AddContentQuietly ==
  ASSUME NEW d \in Decoders, d.started, NEW content \in Option(Text)
  PROVE  Quietly(d, AddContent(d, content))
<1>1. CASE content = None
  <2>1. AddContent(d, content) = d  BY <1>1 DEF AddContent
  <2>. QED BY <2>1, SameQuietly
<1>2. CASE content # None
  <2>1. PICK text, closed, opened, x, c :
          /\ text = content[1] /\ closed = CloseThinking(d) /\ opened = OpenText(closed)
          /\ x = Delta("text_delta", text)
          /\ c = Emit(opened, BlockDelta(opened.text_index, x))
    OBVIOUS
  <2>2. text \in Text  BY <1>2, <2>1, SomeTypes
  <2>3. x \in Deltas  BY <2>1, <2>2 DEF Delta, Deltas, DeltaTypes
  <2>4. Advances(d, closed) /\ ~closed.thinking_open /\ Quietly(d, closed)
    BY <2>1, CloseThinkingAdvances, CloseQuietly
  <2>5. closed \in Decoders /\ closed.started  BY <2>4 DEF Advances
  <2>6. Advances(closed, opened) /\ Quietly(closed, opened)
    BY <2>1, <2>4, <2>5, OpenTextAdvances, OpenQuietly
  <2>7. opened \in Decoders /\ opened.text_index \in Nat
    BY <2>6 DEF Advances, Decoders
  <2>8. Quietly(opened, c)  BY <2>1, <2>3, <2>7, DeltaQuietly
  <2>9. AddContent(d, content) = c  BY <1>2, <2>1, Zenon DEF AddContent
  <2>. QED BY <2>4, <2>6, <2>8, <2>9, QuietlyTrans
<1>. QED BY <1>1, <1>2

LEMMA FinishQuietly ==
  ASSUME NEW d \in Decoders, NEW finish
  PROVE  Quietly(d, Finish(d, finish)) /\ Finish(d, finish).flushed = d.flushed
<1>1. CASE finish = "absent"  BY <1>1, SameQuietly DEF Finish
<1>2. CASE finish # "absent"
  <2>1. PICK c, stop, losses :
          /\ c = Finish(d, finish) /\ stop = StopOf(finish)
          /\ losses = IF stop = "other" THEN Append(d.losses, <<"finish_reason", 0>>)
                      ELSE d.losses
    OBVIOUS
  <2>2. c = [d EXCEPT !.stop = stop, !.finish_seen = TRUE, !.losses = losses]
    BY <1>2, <2>1 DEF Finish
  <2>3. c.events = d.events /\ c.usage = d.usage /\ c.flushed = d.flushed
    BY <2>2 DEF Decoders
  <2>. QED BY <2>1, <2>3, SameQuietly
<1>. QED BY <1>1, <1>2

(* A chunk with a choice that is taken shows no tool block. *)
LEMMA ChoiceQuietly ==
  ASSUME dec \in Decoders, NEW chunk \in Chunks, chunk.choice # None, Recorded(chunk).ok,
         NEW s \in Seq(NativeCalls), Booked(dec, s)
  PROVE  /\ BlocksIn(Streamed(chunk).events) = BlocksIn(dec.events)
         /\ Streamed(chunk).usage = WithUsage(dec, chunk).usage
         /\ Streamed(chunk).flushed = dec.flushed
<1>1. PICK choice : choice = chunk.choice[1]  OBVIOUS
<1>2. /\ choice.tool_calls \in Seq(NativeCalls) /\ choice.reasoning \in Option(Text)
      /\ choice.content \in Option(Text)
  BY <1>1, ChunkTypes DEF NativeChoices
<1>3. PICK noted, begun, recorded : /\ noted = WithUsage(dec, chunk) /\ begun = Begin(noted)
                                    /\ recorded = RecordToolCalls(begun, choice.tool_calls).dec
  OBVIOUS
<1>4. noted \in Decoders /\ PassesOn(dec, noted, <<>>) /\ noted.events = dec.events
  <2>1. noted.events = dec.events  BY <1>3 DEF WithUsage, Decoders
  <2>. QED BY <1>3, <2>1, WithUsageAdvances, WithUsagePasses DEF Advances
<1>5. /\ begun \in Decoders /\ begun.started /\ PassesOn(noted, begun, <<>>)
      /\ Quietly(noted, begun)
  BY <1>3, <1>4, BeginAdvances, BeginPasses, BeginQuietly DEF Advances
<1>6. recorded \in Decoders /\ recorded.started
  <2>1. Advances(begun, recorded)
    BY <1>2, <1>3, <1>5, RecordToolCallsAdvances DEF Recordings
  <2>. QED BY <1>5, <2>1 DEF Advances
<1>7. Booked(begun, s)
  <2>1. Booked(noted, s)  BY <1>4, PassesKeepBooks
  <2>. QED BY <1>5, <2>1, PassesKeepBooks
<1>8. RecordToolCalls(begun, choice.tool_calls).ok  BY <1>1, <1>3 DEF Recorded
<1>9. recorded.events = begun.events /\ recorded.usage = begun.usage
  BY <1>2, <1>3, <1>5, <1>7, <1>8, RecordToolCallsBooks
<1>10. PICK reasoned, c : /\ reasoned = AddReasoning(recorded, choice.reasoning)
                          /\ c = AddContent(reasoned, choice.content)
  OBVIOUS
<1>11. reasoned \in Decoders /\ reasoned.started /\ Quietly(recorded, reasoned)
  BY <1>2, <1>6, <1>10, AddReasoningAdvances, AddReasoningQuietly DEF Advances
<1>12. Quietly(reasoned, c)  BY <1>2, <1>10, <1>11, AddContentQuietly
<1>13. Streamed(chunk) = c  BY <1>1, <1>3, <1>10 DEF Recorded, Streamed
<1>14. Streamed(chunk).flushed = dec.flushed  BY StreamedAdvances DEF Advances
<1>. QED BY <1>3, <1>4, <1>5, <1>9, <1>11, <1>12, <1>13, <1>14 DEF Quietly

(* The usage of the chunks fed is the last one among them. *)
UsageIn(s) ==
  LET observed == Concat([k \in 1..Len(s) |-> s[k].chunk.usage])
      last == observed[Len(observed)]
  IN  IF observed = <<>> THEN NoUsage ELSE Usage(last.prompt, last.completion)

LEMMA UsageGrows ==
  ASSUME NEW s \in Seq([chunk : Chunks, ok : BOOLEAN]), NEW chunk \in Chunks, NEW ok \in BOOLEAN,
         NEW t, t = Append(s, [chunk |-> chunk, ok |-> ok])
  PROVE  UsageIn(t) = IF chunk.usage = None THEN UsageIn(s)
                      ELSE Usage(chunk.usage[1].prompt, chunk.usage[1].completion)
<1>1. PICK R, F : /\ R = [chunk : Chunks, ok : BOOLEAN]
                  /\ F = [x \in R |-> x.chunk.usage]
  OBVIOUS
<1>2. F \in [R -> Seq(WireUsages)]
  <2>1. \A x \in R : x.chunk.usage \in Seq(WireUsages)
    BY <1>1, DecoderAssumption DEF WireChunks, Option
  <2>. QED BY <1>1, <2>1
<1>3. PICK r : r = [chunk |-> chunk, ok |-> ok]  OBVIOUS
<1>4. r \in R /\ F[r] = chunk.usage /\ s \in Seq(R) /\ t = Append(s, r) /\ t \in Seq(R)
  BY <1>1, <1>3
<1>5. \A q \in Seq(R) : Concat([k \in 1..Len(q) |-> q[k].chunk.usage]) = Spelled(F, q)
  <2>1. TAKE q \in Seq(R)
  <2>2. \A x \in R : F[x] = x.chunk.usage  BY <1>1
  <2>3. [k \in 1..Len(q) |-> q[k].chunk.usage] = [k \in 1..Len(q) |-> F[q[k]]]
    BY <2>2
  <2>. QED BY <2>3 DEF Spelled
<1>6. PICK p, q : p = Spelled(F, s) /\ q = Spelled(F, t)  OBVIOUS
<1>7. p \in Seq(WireUsages) /\ q = p \o chunk.usage
  BY <1>2, <1>4, <1>6, SpelledType, SpelledGrows
<1>8. /\ UsageIn(s) = IF p = <<>> THEN NoUsage ELSE Usage(p[Len(p)].prompt, p[Len(p)].completion)
      /\ UsageIn(t) = IF q = <<>> THEN NoUsage ELSE Usage(q[Len(q)].prompt, q[Len(q)].completion)
  BY <1>4, <1>5, <1>6 DEF UsageIn
<1>9. CASE chunk.usage = None
  <2>1. p \o <<>> = p  BY <1>7
  <2>2. q = p  BY <1>7, <1>9, <2>1 DEF None
  <2>. QED BY <1>8, <1>9, <2>2
<1>10. CASE chunk.usage # None
  <2>1. chunk.usage \in Option(WireUsages)  BY DecoderAssumption DEF WireChunks
  <2>2. PICK u \in WireUsages : chunk.usage = <<u>> /\ u = chunk.usage[1]
    BY <1>10, <2>1, SomeOnly
  <2>3. p \o <<u>> = Append(p, u)  BY <1>7
  <2>4. q # <<>> /\ q[Len(q)] = u
    <3>1. q = Append(p, u)  BY <1>7, <2>2, <2>3
    <3>2. Append(p, u) # <<>> /\ Append(p, u)[Len(Append(p, u))] = u
      BY <1>7, AppendFacts
    <3>. QED BY <3>1, <3>2
  <2>. QED BY <1>8, <1>10, <2>2, <2>4
<1>. QED BY <1>9, <1>10

(* The block that a record is replayed as. *)
BlockOf(call) ==
  Block(IF call.custom THEN "custom_tool_use" ELSE "tool_use", call.id, call.name,
        Concat(call.fragments))

ToldBy(call) == IF call.skipped THEN <<>> ELSE <<BlockOf(call)>>

LEMMA BlockOfType ==
  ASSUME NEW call \in CallRecords
  PROVE  /\ BlockOf(call) \in Blocks /\ BlockOf(call).kind \in ToolKinds
         /\ ToldBy(call) \in Seq(Blocks)
<1>1. PICK kind, id, name, input, b :
        /\ kind = (IF call.custom THEN "custom_tool_use" ELSE "tool_use")
        /\ id = call.id /\ name = call.name /\ input = Concat(call.fragments)
        /\ b = BlockOf(call)
  OBVIOUS
<1>2. id \in Tokens /\ name \in Text /\ call.fragments \in Seq(Text)
  BY <1>1 DEF CallRecords
<1>3. input \in Text
  <2>1. call.fragments \in Seq(Seq(Tokens))  BY <1>2 DEF Text
  <2>2. Concat(call.fragments) \in Seq(Tokens)  BY <2>1, ConcatText
  <2>. QED BY <1>1, <2>2 DEF Text
<1>4. kind \in StreamedKinds /\ kind \in ToolKinds
  BY <1>1 DEF StreamedKinds, ToolKinds
<1>5. PICK none : none = <<>>  OBVIOUS
<1>6. b = Block(kind, id, name, input)  BY <1>1, Zenon DEF BlockOf
<1>7. b \in Blocks
  <2>1. none \in Text  BY <1>5, NoToken
  <2>. QED BY <1>2, <1>3, <1>4, <1>6, <2>1, BlockTypes
<1>8. b.kind = kind  BY <1>6 DEF Block
<1>9. ToldBy(call) = none \/ ToldBy(call) = <<b>>  BY <1>1, <1>5 DEF ToldBy
<1>10. none \in Seq(Blocks) /\ <<b>> \in Seq(Blocks)  BY <1>5, <1>7
<1>. QED BY <1>1, <1>4, <1>7, <1>8, <1>9, <1>10

(* The replay of a call shows its block, unless it was skipped. *)
LEMMA ReplayCallBlocks ==
  ASSUME NEW d \in Decoders, NEW call \in CallRecords, Replayable(call)
  PROVE  /\ BlocksIn(ReplayCall(d, call).events) = BlocksIn(d.events) \o ToldBy(call)
         /\ ReplayCall(d, call).usage = d.usage
<1>1. PICK s, p : s = d.events /\ p = BlocksIn(s)  OBVIOUS
<1>2. s \in Seq(IrEvents)  BY <1>1 DEF Decoders
<1>3. p \in Seq(Blocks)  BY <1>1, <1>2, BlocksType
<1>4. CASE call.skipped
  <2>1. ReplayCall(d, call) = d /\ ToldBy(call) = <<>>
    BY <1>4 DEF ReplayCall, ToldBy
  <2>2. p \o <<>> = p  BY <1>3
  <2>. QED BY <1>1, <2>1, <2>2
<1>5. CASE ~call.skipped
  <2>1. Identified(call.id, call.name)
    BY <1>5, Zenon DEF Replayable, Identified, HasId
  <2>2. PICK n, m, u, c, b : /\ n = d.next_ir_index /\ m = n + 1 /\ u = ToolUnit(n, call)
                             /\ c = ReplayCall(d, call) /\ b = BlockOf(call)
    OBVIOUS
  <2>3. n \in Nat  BY <2>2 DEF Decoders
  <2>4. u \in Seq(IrEvents) /\ u # <<>>  BY <2>1, <2>2, <2>3, ToolUnitLegal
  <2>5. \A k \in 1..Len(u) : IsStart(u[k]) => k = 1
    <3>1. \A k \in 1..Len(ToolUnit(n, call)) :
            /\ ToolUnit(n, call)[k].type \notin {"message_delta", "message_done"}
            /\ IsStart(ToolUnit(n, call)[k]) => k = 1 /\ ToolUnit(n, call)[k].index = n
      BY <2>1, <2>3, ToolUnitLegal
    <3>. QED BY <2>2, <3>1
  <2>6. u[1] = BlockStart(n, b)
    <3>1. PICK l, start, stop, rest :
            /\ l = Len(call.fragments) /\ start = BlockStart(n, b) /\ stop = BlockStop(n)
            /\ rest = [k \in 1..(l + 2) |->
                         BlockDelta(n, Delta(IF call.custom THEN "custom_tool_input_delta"
                                             ELSE "input_json_delta", call.fragments[k - 1]))]
      OBVIOUS
    <3>2. l \in Nat  BY <3>1 DEF CallRecords
    <3>3. b = IF call.custom THEN CustomToolUseBlock(call.id, call.name, Concat(call.fragments))
                             ELSE ToolUseBlock(call.id, call.name, Concat(call.fragments))
      <4>1. CASE call.custom
        BY <2>2, <4>1, Zenon DEF BlockOf, CustomToolUseBlock
      <4>2. CASE ~call.custom  BY <2>2, <4>2, Zenon DEF BlockOf, ToolUseBlock
      <4>. QED BY <4>1, <4>2
    <3>4. u = [k \in 1..(l + 2) |->
                 IF k = 1 THEN start ELSE IF k = l + 2 THEN stop
                 ELSE BlockDelta(n, Delta(IF call.custom THEN "custom_tool_input_delta"
                                          ELSE "input_json_delta", call.fragments[k - 1]))]
      BY <2>2, <3>1, <3>3, Zenon DEF ToolUnit
    <3>5. 1 \in 1..(l + 2)  BY <3>2
    <3>. QED BY <3>1, <3>4, <3>5
  <2>7. PICK v, w : v = Tail(u) /\ w = Append(s, u[1])  OBVIOUS
  <2>8. /\ v \in Seq(IrEvents) /\ w \in Seq(IrEvents) /\ u[1] \in IrEvents
        /\ \A k \in 1..Len(v) : v[k] = u[k + 1] /\ k + 1 \in 1..Len(u) /\ k + 1 # 1
    BY <1>2, <2>4, <2>7
  <2>9. s \o u = w \o v  BY <1>2, <2>4, <2>7
  <2>10. BlocksIn(w) = p \o <<b>>
    <3>1. ToolBlockIn(u[1]) = <<b>>  BY <2>2, <2>6, BlockOfType, ToolBlockFacts
    <3>. QED BY <1>1, <1>2, <2>7, <2>8, <3>1, BlocksGrow
  <2>11. BlocksIn(w \o v) = BlocksIn(w)
    <3>1. \A k \in 1..Len(v) : ToolBlockIn(v[k]) = <<>>
      BY <2>5, <2>8, ToolBlockFacts
    <3>. QED BY <2>8, <3>1, BlocksBatch
  <2>12. PICK events : events = s \o u  OBVIOUS
  <2>13. c = [d EXCEPT !.events = events, !.next_ir_index = m]
    BY <1>1, <1>5, <2>2, <2>12 DEF ReplayCall
  <2>14. c.events = events /\ c.usage = d.usage  BY <2>13 DEF Decoders
  <2>15. ToldBy(call) = <<b>>  BY <1>5, <2>2 DEF ToldBy
  <2>. QED BY <1>1, <2>2, <2>9, <2>10, <2>11, <2>12, <2>14, <2>15
<1>. QED BY <1>4, <1>5

(* The replay of the first calls shows their blocks, in that order. *)
Told(calls) == Concat([k \in 1..Len(calls) |-> ToldBy(calls[k])])

LEMMA ToldIsSpelled ==
  \E F \in [CallRecords -> Seq(Blocks)] :
    /\ \A call \in CallRecords : F[call] = ToldBy(call)
    /\ \A calls \in Seq(CallRecords) : Told(calls) = Spelled(F, calls)
<1>1. PICK F : F = [call \in CallRecords |-> ToldBy(call)]  OBVIOUS
<1>2. /\ F \in [CallRecords -> Seq(Blocks)]
      /\ \A call \in CallRecords : F[call] = ToldBy(call)
  BY <1>1, BlockOfType
<1>3. ASSUME NEW calls \in Seq(CallRecords)
      PROVE  Told(calls) = Spelled(F, calls)
  <2>1. [k \in 1..Len(calls) |-> ToldBy(calls[k])] = [k \in 1..Len(calls) |-> F[calls[k]]]
    BY <1>2
  <2>. QED BY <2>1 DEF Told, Spelled
<1>. QED BY <1>2, <1>3

LEMMA ReplayCallsBlocks ==
  ASSUME NEW d \in Decoders, ~d.text_open, ~d.thinking_open, d.stop # "none",
         \A k \in 1..Len(d.tool_calls) : Replayable(d.tool_calls[k]), BlocksIn(d.events) = <<>>
  PROVE  /\ BlocksIn(ReplayCalls(d, Len(d.tool_calls)).events) = Told(d.tool_calls)
         /\ ReplayCalls(d, Len(d.tool_calls)).usage = d.usage
<1>1. PICK calls, n : calls = d.tool_calls /\ n = Len(calls)  OBVIOUS
<1>2. calls \in Seq(CallRecords) /\ n \in Nat  BY <1>1 DEF Decoders
<1>3. PICK f : /\ ReplayCalls(d, n) = f[n] /\ f[0] = d
               /\ \A m \in 1..n : f[m] = ReplayCall(f[m - 1], calls[m])
               /\ \A m \in 0..n : f[m] \in Replays(d)
  <2>1. n <= Len(d.tool_calls) /\ \A k \in 1..n : Replayable(d.tool_calls[k])
    BY <1>1, <1>2
  <2>. QED BY <1>1, <1>2, <2>1, ReplayLoopRuns
<1>4. PICK F \in [CallRecords -> Seq(Blocks)] :
        /\ \A call \in CallRecords : F[call] = ToldBy(call)
        /\ \A t \in Seq(CallRecords) : Told(t) = Spelled(F, t)
  BY ToldIsSpelled
<1>5. PICK q : q = [m \in Nat |-> SubSeq(calls, 1, m)]  OBVIOUS
<1>6. \A m \in Nat : q[m] = SubSeq(calls, 1, m)  BY <1>5
<1>7. q[0] = <<>> /\ q[n] = calls
  <2>1. SubSeq(calls, 1, 0) = <<>> /\ SubSeq(calls, 1, n) = calls  BY <1>1, <1>2
  <2>2. q[0] = SubSeq(calls, 1, 0) /\ q[n] = SubSeq(calls, 1, n)  BY <1>2, <1>6
  <2>. QED BY <2>1, <2>2
<1>8. ASSUME NEW m \in Nat, m + 1 <= n
      PROVE  /\ q[m] \in Seq(CallRecords) /\ calls[m + 1] \in CallRecords
             /\ q[m + 1] = Append(q[m], calls[m + 1]) /\ Replayable(calls[m + 1])
  <2>1. PICK v, w, e : v = SubSeq(calls, 1, m) /\ w = SubSeq(calls, 1, m + 1) /\ e = calls[m + 1]
    OBVIOUS
  <2>2. v \in Seq(CallRecords) /\ e \in CallRecords /\ w = Append(v, e) /\ m + 1 \in 1..n
    BY <1>1, <1>2, <1>8, <2>1
  <2>3. q[m] = v /\ q[m + 1] = w
    <3>1. m + 1 \in Nat  OBVIOUS
    <3>. QED BY <1>6, <2>1, <3>1
  <2>. QED BY <1>1, <2>1, <2>2, <2>3
<1> DEFINE T == {m \in Nat : m <= n => /\ BlocksIn(f[m].events) = Spelled(F, q[m])
                                       /\ f[m].usage = d.usage}
<1>9. 0 \in T  BY <1>3, <1>7, SpelledEmpty
<1>10. ASSUME NEW m \in Nat, m \in T
       PROVE  m + 1 \in T
  <2>1. SUFFICES ASSUME m + 1 <= n
                 PROVE  /\ BlocksIn(f[m + 1].events) = Spelled(F, q[m + 1])
                        /\ f[m + 1].usage = d.usage
    OBVIOUS
  <2>2. PICK b, call, r : b = f[m] /\ call = calls[m + 1] /\ r = q[m]  OBVIOUS
  <2>3. /\ r \in Seq(CallRecords) /\ call \in CallRecords /\ q[m + 1] = Append(r, call)
        /\ Replayable(call)
    BY <1>8, <2>1, <2>2
  <2>4. b \in Decoders /\ f[m + 1] = ReplayCall(b, call)
    <3>1. m \in 0..n /\ m + 1 \in 1..n /\ (m + 1) - 1 = m  BY <1>2, <2>1
    <3>2. f[m] \in Replays(d) /\ f[m + 1] = ReplayCall(f[(m + 1) - 1], calls[m + 1])
      BY <1>3, <3>1
    <3>. QED BY <2>2, <3>1, <3>2 DEF Replays
  <2>5. BlocksIn(b.events) = Spelled(F, r) /\ b.usage = d.usage
    <3>1. m <= n  BY <1>2, <2>1
    <3>. QED BY <1>10, <2>2, <3>1
  <2>6. /\ BlocksIn(ReplayCall(b, call).events) = BlocksIn(b.events) \o ToldBy(call)
        /\ ReplayCall(b, call).usage = b.usage
    BY <2>3, <2>4, ReplayCallBlocks
  <2>7. Spelled(F, Append(r, call)) = Spelled(F, r) \o F[call]
    BY <1>4, <2>3, SpelledGrows
  <2>. QED BY <1>4, <2>3, <2>4, <2>5, <2>6, <2>7
<1> HIDE DEF T
<1>11. n \in T  BY <1>2, <1>9, <1>10, SetInduction
<1>12. BlocksIn(f[n].events) = Spelled(F, q[n]) /\ f[n].usage = d.usage
  BY <1>2, <1>11 DEF T
<1>. QED BY <1>1, <1>2, <1>3, <1>4, <1>7, <1>12

(* The terminal pair shows none, and carries the usage. *)
LEMMA TerminateBlocks ==
  ASSUME NEW d \in Decoders, d.stop # "none"
  PROVE  /\ BlocksIn(Terminate(d).events) = BlocksIn(d.events)
         /\ Terminate(d).events[Len(Terminate(d).events) - 1].usage = d.usage
         /\ Terminate(d).flushed = d.flushed
<1>1. PICK none : none = <<>>  OBVIOUS
<1>2. PICK x, y, s, n : /\ x = MessageDelta(d.stop, none, d.usage) /\ y = MessageDone
                        /\ s = d.events /\ n = Len(s)
  OBVIOUS
<1>3. s \in Seq(IrEvents) /\ n \in Nat  BY <1>2 DEF Decoders
<1>4. /\ x \in IrEvents /\ y \in IrEvents /\ x.type = "message_delta" /\ y.type = "message_done"
      /\ x.usage = d.usage
  <2>1. d.stop \in StopReasons /\ d.usage \in Usages /\ none \in Text
    BY <1>1 DEF Decoders, Text
  <2>2. x \in IrEvents /\ y \in IrEvents  BY <1>2, <2>1, EventTypes
  <2>. QED BY <1>2, <2>2 DEF MessageDelta, MessageDone
<1>5. ToolBlockIn(x) = <<>> /\ ToolBlockIn(y) = <<>>
  BY <1>4, ToolBlockFacts DEF IsStart
<1>6. PICK t, u : t = Append(s, x) /\ u = Append(t, y)  OBVIOUS
<1>7. /\ t \in Seq(IrEvents) /\ Len(t) = n + 1 /\ t[n + 1] = x
      /\ u \in Seq(IrEvents) /\ Len(u) = n + 2 /\ u[n + 1] = x
  <2>1. t \in Seq(IrEvents) /\ Len(t) = n + 1 /\ t[n + 1] = x
    BY <1>2, <1>3, <1>4, <1>6, AppendFacts
  <2>2. /\ u \in Seq(IrEvents) /\ Len(u) = Len(t) + 1
        /\ \A i \in 1..Len(t) : u[i] = t[i]
    BY <1>4, <1>6, <2>1, AppendFacts
  <2>3. n + 1 \in 1..Len(t) /\ (n + 1) + 1 = n + 2  BY <1>3, <2>1
  <2>. QED BY <2>1, <2>2, <2>3
<1>8. PICK c : c = Terminate(d)  OBVIOUS
<1>9. c = [d EXCEPT !.events = u]
  BY <1>1, <1>2, <1>6, <1>8 DEF Terminate, Emit, Decoders
<1>10. c.events = u /\ c.flushed = d.flushed  BY <1>9 DEF Decoders
<1>11. BlocksIn(u) = BlocksIn(s)
  <2>1. PICK p : p = BlocksIn(s)  OBVIOUS
  <2>2. p \in Seq(Blocks)  BY <1>3, <2>1, BlocksType
  <2>3. p \o <<>> = p  BY <2>2
  <2>4. BlocksIn(t) = p  BY <1>3, <1>4, <1>5, <1>6, <2>1, <2>3, BlocksGrow
  <2>5. BlocksIn(u) = p \o <<>>  BY <1>4, <1>5, <1>6, <1>7, <2>4, BlocksGrow
  <2>. QED BY <2>1, <2>3, <2>5
<1>12. Len(u) - 1 = n + 1  BY <1>3, <1>7
<1>. QED BY <1>2, <1>4, <1>7, <1>8, <1>10, <1>11, <1>12

(* Until a call fails: no tool block before flush, and then those of the
   calls collected, with the usage that was the last one by then. *)
CallsInv ==
  ~failed =>
    IF dec.flushed
    THEN /\ BlocksIn(dec.events) = Told(dec.tool_calls)
         /\ \A k \in 1..Len(dec.tool_calls) : Replayable(dec.tool_calls[k])
         /\ dec.events[Len(dec.events) - 1].usage = UsageIn(fed)
    ELSE BlocksIn(dec.events) = <<>> /\ dec.usage = UsageIn(fed)

LEMMA InitCalls == Init => CallsInv
<1>1. SUFFICES ASSUME Init
               PROVE  CallsInv
  OBVIOUS
<1>2. PICK empty : empty = <<>>  OBVIOUS
<1>3. dec.events = empty /\ dec.usage = NoUsage /\ ~dec.flushed /\ fed = empty
  BY <1>1, <1>2 DEF Init, NewDecoder
<1>4. /\ [k \in 1..Len(empty) |-> ToolBlockIn(empty[k])] = <<>>
      /\ [k \in 1..Len(empty) |-> empty[k].chunk.usage] = <<>>
  BY <1>2
<1>5. BlocksIn(empty) = <<>> /\ UsageIn(empty) = NoUsage
  BY <1>4, ConcatEmpty DEF BlocksIn, UsageIn
<1>. QED BY <1>3, <1>5 DEF CallsInv

LEMMA FeedCalls ==
  ASSUME TypeOK, HistoryInv, CallsInv, NEW chunk \in Chunks, Feed(chunk)
  PROVE  CallsInv'
<1>1. dec \in Decoders /\ fed \in Seq([chunk : Chunks, ok : BOOLEAN])
  BY DEF TypeOK, HistoryInv
<1>2. ASSUME NEW d, Fails(chunk, d)
      PROVE  CallsInv'
  BY <1>2 DEF Fails, CallsInv
<1>3. ASSUME NEW d, Succeeds(chunk, d), Readable(chunk),
             ~failed => /\ BlocksIn(d.events) = BlocksIn(dec.events)
                        /\ d.usage = WithUsage(dec, chunk).usage /\ d.flushed = dec.flushed
      PROVE  CallsInv'
  <2>1. fed' = Append(fed, [chunk |-> chunk, ok |-> TRUE]) /\ failed' = failed /\ dec' = d
    BY <1>3 DEF Succeeds
  <2>2. UsageIn(fed') = IF chunk.usage = None THEN UsageIn(fed)
                        ELSE Usage(chunk.usage[1].prompt, chunk.usage[1].completion)
    BY <1>1, <2>1, UsageGrows
  <2>3. ~dec.flushed  BY <1>3 DEF Readable
  <2>4. ~failed => BlocksIn(dec.events) = <<>> /\ dec.usage = UsageIn(fed)
    BY <2>3 DEF CallsInv
  <2>5. WithUsage(dec, chunk).usage = IF chunk.usage = None THEN dec.usage
                                      ELSE Usage(chunk.usage[1].prompt, chunk.usage[1].completion)
    <3>1. PICK u : u = Usage(chunk.usage[1].prompt, chunk.usage[1].completion)
      OBVIOUS
    <3>2. WithUsage(dec, chunk) = IF chunk.usage = None THEN dec ELSE [dec EXCEPT !.usage = u]
      BY <3>1 DEF WithUsage
    <3>. QED BY <1>1, <3>1, <3>2 DEF Decoders
  <2>6. ~failed' => BlocksIn(dec'.events) = <<>> /\ dec'.usage = UsageIn(fed') /\ ~dec'.flushed
    BY <1>3, <2>1, <2>2, <2>3, <2>4, <2>5
  <2>7. BlocksIn(dec'.events) = BlocksIn(dec.events)' /\ UsageIn(fed') = UsageIn(fed)'
    OBVIOUS
  <2>. QED BY <2>6, <2>7 DEF CallsInv
<1>4. CASE FeedUnreadable(chunk)  BY <1>2, <1>4 DEF FeedUnreadable
<1>5. CASE FeedUsageOnly(chunk)
  <2>1. PICK d : d = WithUsage(dec, chunk)  OBVIOUS
  <2>2. Succeeds(chunk, d) /\ Readable(chunk)  BY <1>5, <2>1 DEF FeedUsageOnly
  <2>3. d.events = dec.events /\ d.flushed = dec.flushed
    BY <1>1, <2>1 DEF WithUsage, Decoders
  <2>. QED BY <1>3, <2>1, <2>2, <2>3
<1>6. CASE FeedRestart(chunk)  BY <1>2, <1>6 DEF FeedRestart
<1>7. CASE FeedBadCall(chunk)  BY <1>2, <1>7 DEF FeedBadCall
<1>8. CASE FeedBadFinish(chunk)  BY <1>2, <1>8 DEF FeedBadFinish
<1>9. CASE FeedChoice(chunk)
  <2>1. PICK c, d, s : /\ c = Streamed(chunk) /\ d = Finish(c, chunk.choice[1].finish_reason)
                       /\ s = DeltasIn(fed)
    OBVIOUS
  <2>2. /\ Succeeds(chunk, d) /\ Readable(chunk) /\ chunk.choice # None
        /\ Recorded(chunk).ok
    BY <1>9, <2>1 DEF FeedChoice
  <2>3. s \in Seq(NativeCalls)  BY <1>1, <2>1, HistoryGrows
  <2>4. c \in Decoders  BY <1>1, <2>1, <2>2, StreamedAdvances DEF Advances
  <2>5. ASSUME ~failed
        PROVE  /\ BlocksIn(d.events) = BlocksIn(dec.events)
               /\ d.usage = WithUsage(dec, chunk).usage /\ d.flushed = dec.flushed
    <3>1. Booked(dec, s)  BY <2>1, <2>5 DEF HistoryInv
    <3>2. /\ BlocksIn(c.events) = BlocksIn(dec.events)
          /\ c.usage = WithUsage(dec, chunk).usage /\ c.flushed = dec.flushed
      BY <1>1, <2>1, <2>2, <2>3, <3>1, ChoiceQuietly
    <3>3. Quietly(c, d) /\ d.flushed = c.flushed  BY <2>1, <2>4, FinishQuietly
    <3>. QED BY <3>2, <3>3 DEF Quietly
  <2>. QED BY <1>3, <2>2, <2>5
<1>. QED BY <1>4, <1>5, <1>6, <1>7, <1>8, <1>9 DEF Feed

LEMMA FlushCalls ==
  ASSUME TypeOK, CallsInv, Flush
  PROVE  CallsInv'
<1>1. dec \in Decoders  BY DEF TypeOK
<1>2. CASE FlushTooEarlyOrTwice \/ FlushUnidentified
  BY <1>2 DEF FlushTooEarlyOrTwice, FlushUnidentified, CallsInv
<1>3. CASE FlushComplete
  <2>1. PICK f, b, c, calls, d, e :
          /\ f = [dec EXCEPT !.flushed = TRUE] /\ b = CloseThinking(f) /\ c = CloseText(b)
          /\ calls = dec.tool_calls /\ d = ReplayCalls(c, Len(calls)) /\ e = Terminate(d)
    OBVIOUS
  <2>2. c = CloseChannels(dec)  BY <2>1 DEF CloseChannels
  <2>3. /\ ~dec.flushed /\ dec.stop # "none" /\ \A m \in 1..Len(calls) : Replayable(calls[m])
        /\ dec' = e /\ fed' = fed /\ failed' = failed
    BY <1>3, <2>1, <2>2 DEF FlushComplete
  <2>4. /\ f \in Decoders /\ Quietly(dec, f)
    <3>1. f \in Decoders /\ f.events = dec.events /\ f.usage = dec.usage
      BY <1>1, <2>1 DEF Decoders
    <3>. QED BY <3>1, SameQuietly
  <2>5. b \in Decoders /\ Quietly(f, b)
    BY <2>1, <2>4, CloseThinkingAdvances, CloseQuietly DEF Advances
  <2>6. Quietly(b, c)  BY <2>1, <2>5, CloseQuietly
  <2>7. Quietly(dec, c)  BY <2>4, <2>5, <2>6, QuietlyTrans
  <2>8. /\ c \in Decoders /\ ~c.text_open /\ ~c.thinking_open /\ c.flushed
        /\ c.stop = dec.stop /\ c.tool_calls = calls
    BY <1>1, <2>1, <2>2, CloseChannelsFacts
  <2>9. PICK n : n = Len(calls)  OBVIOUS
  <2>10. n \in Nat /\ n <= Len(c.tool_calls)  BY <2>8, <2>9 DEF Decoders
  <2>11. /\ d \in Decoders /\ d.stop # "none" /\ PassesOn(c, d, <<>>) /\ d.flushed
    <3>1. d \in Replays(c) /\ PassesOn(c, d, <<>>)
      BY <2>1, <2>3, <2>8, <2>9, <2>10, ReplayCallsAdvances, ReplayCallsPasses
    <3>. QED BY <2>3, <2>8, <3>1 DEF Replays, Advances
  <2>12. PassesOn(d, e, <<>>)  BY <2>1, <2>11, TerminatePasses
  <2>13. e.tool_calls = calls  BY <2>8, <2>11, <2>12 DEF PassesOn
  <2>14. /\ BlocksIn(e.events) = BlocksIn(d.events) /\ e.flushed
         /\ e.events[Len(e.events) - 1].usage = d.usage
    BY <2>1, <2>11, TerminateBlocks
  <2>15. ASSUME ~failed
         PROVE  /\ BlocksIn(e.events) = Told(calls)
                /\ e.events[Len(e.events) - 1].usage = UsageIn(fed)
    <3>1. BlocksIn(dec.events) = <<>> /\ dec.usage = UsageIn(fed)
      BY <2>3, <2>15 DEF CallsInv
    <3>2. BlocksIn(c.events) = <<>> /\ c.usage = UsageIn(fed)
      BY <2>7, <3>1 DEF Quietly
    <3>3. BlocksIn(d.events) = Told(calls) /\ d.usage = c.usage
      BY <2>1, <2>3, <2>8, <3>2, ReplayCallsBlocks
    <3>. QED BY <2>14, <3>2, <3>3
  <2>16. ~failed' => /\ dec'.flushed /\ BlocksIn(dec'.events) = Told(dec'.tool_calls)
                     /\ \A k \in 1..Len(dec'.tool_calls) : Replayable(dec'.tool_calls[k])
                     /\ dec'.events[Len(dec'.events) - 1].usage = UsageIn(fed')
    BY <2>3, <2>13, <2>14, <2>15
  <2>17. /\ BlocksIn(dec'.events) = BlocksIn(dec.events)' /\ UsageIn(fed') = UsageIn(fed)'
         /\ Told(dec'.tool_calls) = Told(dec.tool_calls)'
         /\ (\A k \in 1..Len(dec.tool_calls) : Replayable(dec.tool_calls[k]))'
              <=> \A k \in 1..Len(dec'.tool_calls) : Replayable(dec'.tool_calls[k])
    OBVIOUS
  <2>. QED BY <2>16, <2>17 DEF CallsInv
<1>. QED BY <1>2, <1>3 DEF Flush

LEMMA NextCalls == TypeOK /\ HistoryInv /\ CallsInv /\ [Next]_vars => CallsInv'
<1>1. SUFFICES ASSUME TypeOK, HistoryInv, CallsInv, [Next]_vars
               PROVE  CallsInv'
  OBVIOUS
<1>2. ASSUME NEW chunk \in Chunks, Feed(chunk)
      PROVE  CallsInv'
  BY <1>1, <1>2, FeedCalls
<1>3. CASE Flush  BY <1>1, <1>3, FlushCalls
<1>4. CASE UNCHANGED vars  BY <1>1, <1>4 DEF vars, CallsInv
<1>. QED BY <1>1, <1>2, <1>3, <1>4 DEF Next

-----------------------------------------------------------------------------
(* The theorems *)

(* For every set of chunks and however the calls are ordered, also after
   errors: the fields keep their types, the collected tool calls too. *)
THEOREM DecoderTypeCorrect == Spec => []TypeOK
<1>1. Init => TypeOK /\ CountInv /\ ContractInv  BY InitHonest
<1>2. TypeOK /\ CountInv /\ ContractInv /\ [Next]_vars
        => TypeOK' /\ CountInv' /\ ContractInv'
  BY NextHonest DEF Honest
<1>. QED BY <1>1, <1>2, PTL DEF Spec

(* A caller that goes on after an error may get a stream that is not
   legal; still no block index is used twice, the indexes rise, and
   nothing is handed over after the terminal pair. *)
THEOREM EndIsTheEnd == Spec => []NothingAfterTheEnd
<1>1. Init => TypeOK /\ CountInv /\ ContractInv  BY InitHonest
<1>2. TypeOK /\ CountInv /\ ContractInv /\ [Next]_vars
        => TypeOK' /\ CountInv' /\ ContractInv'
  BY NextHonest DEF Honest
<1>3. CountInv => NothingAfterTheEnd
  BY DEF CountInv, EndsOnce, NothingAfterTheEnd
<1>. QED BY <1>1, <1>2, <1>3, PTL DEF Spec

(* Whatever chunks arrive: what feed and flush hand over until a call
   fails honours the contract of IrProducer.  Text and thinking go out as
   they come, in blocks of their own with contiguous indexes; flush adds
   each tool call whole, with the input its fragments spell, and then the
   terminal pair; nothing that was handed over is taken back. *)
THEOREM DecoderHonoursContract == Spec => HonoursContract
<1>1. Init => TypeOK /\ CountInv /\ ContractInv /\ Promised!Init  BY InitHonest
<1>2. TypeOK /\ CountInv /\ ContractInv /\ [Next]_vars => Honest  BY NextHonest
<1>. QED BY <1>1, <1>2, PTL DEF Spec, HonoursContract, Promised!Spec, Honest
(* Whatever chunks arrive: until a call fails, the text and reasoning
   fragments handed over are those that arrived, in that order. *)
THEOREM FragmentsArrive == Spec => []FragmentsPassInOrder
<1>1. Init => TypeOK /\ CountInv /\ ContractInv /\ HistoryInv
  BY InitHonest, InitHistory
<1>2. TypeOK /\ CountInv /\ ContractInv /\ HistoryInv /\ [Next]_vars
        => TypeOK' /\ CountInv' /\ ContractInv' /\ HistoryInv'
  BY NextHonest, NextHistory DEF Honest
<1>3. HistoryInv => FragmentsPassInOrder
  <2>1. Passed = PassedIn(dec.events) /\ Arrived = ArrivedIn(fed)
    BY DEF Passed, PassedIn, Arrived, ArrivedIn
  <2>. QED BY <2>1 DEF HistoryInv, FragmentsPassInOrder
<1>. QED BY <1>1, <1>2, <1>3, PTL DEF Spec

(* Whatever call deltas arrive, in whatever interleaving: until a call
   fails, the losses name each unsupported call once, and no other. *)
THEOREM UnsupportedCallsLostOnce == Spec => []OneLossPerUnsupportedCall
<1>1. Init => TypeOK /\ CountInv /\ ContractInv /\ HistoryInv
  BY InitHonest, InitHistory
<1>2. TypeOK /\ CountInv /\ ContractInv /\ HistoryInv /\ [Next]_vars
        => TypeOK' /\ CountInv' /\ ContractInv' /\ HistoryInv'
  BY NextHonest, NextHistory DEF Honest
<1>3. TypeOK /\ HistoryInv => OneLossPerUnsupportedCall
  <2>1. SUFFICES ASSUME TypeOK, HistoryInv, ~failed
                 PROVE  OneLossPerUnsupportedCall
    BY DEF OneLossPerUnsupportedCall
  <2>2. PICK l, s, noted : /\ l = dec.losses /\ s = DeltasIn(fed)
                           /\ noted = {k \in 1..Len(l) : l[k][1] = "tool_call"}
    OBVIOUS
  <2>3. /\ l \in Seq({"tool_call", "finish_reason"} \X Nat) /\ NotedOnce(l, s)
        /\ s \in Seq(NativeCalls)
    <3>1. l \in Seq({"tool_call", "finish_reason"} \X Nat) /\ NotedOnce(l, s)
      BY <2>1, <2>2 DEF TypeOK, Decoders, HistoryInv, Booked
    <3>2. s \in Seq(NativeCalls)  BY <2>1, <2>2, CallDeltasType DEF HistoryInv
    <3>. QED BY <3>1, <3>2
  <2>4. AllCallDeltas = s  BY <2>2 DEF AllCallDeltas, DeltasIn
  <2>5. \A i : i \in NativeIndexes /\ Unsupported(i) <=> Lacks(s, i)
    <3>1. TAKE i
    <3>2. Unsupported(i) <=> Lacks(s, i)
      BY <2>4 DEF Unsupported, Lacks, IsUnsupported, KnownKinds
    <3>3. Lacks(s, i) => i \in NativeIndexes  BY <2>4 DEF Lacks, NativeIndexes
    <3>. QED BY <3>2, <3>3
  <2>6. \A i : Lacks(s, i) => i \in Nat
    <3>1. TAKE i
    <3>2. SUFFICES ASSUME Lacks(s, i)
                   PROVE  i \in Nat
      OBVIOUS
    <3>3. PICK k \in 1..Len(s) : s[k].index = i  BY <3>2 DEF Lacks
    <3>4. s[k] \in NativeCalls  BY <2>3
    <3>. QED BY <3>3, <3>4 DEF NativeCalls
  <2>7. \A k \in 1..Len(l) : /\ l[k][2] \in Nat
                             /\ \A i : l[k] = <<"tool_call", i>> <=> l[k][1] = "tool_call" /\ l[k][2] = i
    <3>1. TAKE k \in 1..Len(l)
    <3>2. PICK x : x = l[k]  OBVIOUS
    <3>3. x \in {"tool_call", "finish_reason"} \X Nat  BY <2>3, <3>2
    <3>. QED BY <3>2, <3>3
  <2>8. {l[k][2] : k \in noted} = {i \in NativeIndexes : Unsupported(i)}
    <3>1. ASSUME NEW k \in noted
          PROVE  l[k][2] \in NativeIndexes /\ Unsupported(l[k][2])
      <4>1. k \in 1..Len(l) /\ l[k] = <<"tool_call", l[k][2]>> /\ l[k][2] \in Nat
        BY <2>2, <2>7
      <4>2. Lacks(s, l[k][2])  BY <2>3, <4>1 DEF NotedOnce
      <4>. QED BY <2>5, <4>2
    <3>2. ASSUME NEW i \in NativeIndexes, Unsupported(i)
          PROVE  \E k \in noted : l[k][2] = i
      <4>1. Lacks(s, i) /\ i \in Nat  BY <2>5, <2>6, <3>2
      <4>2. PICK k \in 1..Len(l) : l[k] = <<"tool_call", i>>
        BY <2>3, <4>1 DEF NotedOnce
      <4>. QED BY <2>2, <2>7, <4>2
    <3>. QED BY <3>1, <3>2
  <2>9. ASSUME NEW j \in noted, NEW k \in noted, l[j][2] = l[k][2]
        PROVE  j = k
    <3>1. j \in 1..Len(l) /\ k \in 1..Len(l) /\ l[j][1] = "tool_call"  BY <2>2
    <3>2. l[j] = <<"tool_call", l[j][2]>> /\ l[k] = <<"tool_call", l[k][2]>>
      BY <2>2, <2>7
    <3>. QED BY <2>3, <2>9, <3>1, <3>2 DEF NotedOnce
  <2>. QED BY <2>2, <2>8, <2>9 DEF OneLossPerUnsupportedCall
<1>. QED BY <1>1, <1>2, <1>3, PTL DEF Spec

(* Whatever chunks arrive: until a call fails, no tool call is handed over
   before flush; flush hands over every supported call, in the order of
   the provider's indexes, with the id, the name and the input that its
   own deltas spell, and ends with the last usage observed. *)
THEOREM CallsReplayed == Spec => []CallsReplayedAtFlush
<1>1. Init => TypeOK /\ CountInv /\ ContractInv /\ HistoryInv /\ CallsInv
  BY InitHonest, InitHistory, InitCalls
<1>2. TypeOK /\ CountInv /\ ContractInv /\ HistoryInv /\ CallsInv /\ [Next]_vars
        => TypeOK' /\ CountInv' /\ ContractInv' /\ HistoryInv' /\ CallsInv'
  BY NextHonest, NextHistory, NextCalls DEF Honest
<1>3. TypeOK /\ HistoryInv /\ CallsInv => CallsReplayedAtFlush
  <2>1. SUFFICES ASSUME TypeOK, HistoryInv, CallsInv, ~failed
                 PROVE  CallsReplayedAtFlush
    BY DEF CallsReplayedAtFlush
  <2>2. PICK calls, s, n : calls = dec.tool_calls /\ s = DeltasIn(fed) /\ n = Len(calls)
    OBVIOUS
  <2>3. calls \in Seq(CallRecords) /\ n \in Nat
    BY <2>1, <2>2 DEF TypeOK, Decoders
  <2>4. Slotted(calls, s) /\ Filled(calls, s)
    BY <2>1, <2>2 DEF HistoryInv, Booked
  <2>5. s \in Seq(NativeCalls)  BY <2>1, <2>2, CallDeltasType DEF HistoryInv
  <2>6. AllCallDeltas = s /\ Replayed = BlocksIn(dec.events) /\ LastUsage = UsageIn(fed)
    BY <2>2 DEF AllCallDeltas, DeltasIn, Replayed, BlocksIn, LastUsage, UsageIn
  <2>7. CASE ~dec.flushed
    BY <2>1, <2>6, <2>7 DEF CallsInv, CallsReplayedAtFlush
  <2>8. CASE dec.flushed
    <3>1. /\ Replayed = Told(calls) /\ dec.events[Len(dec.events) - 1].usage = LastUsage
          /\ \A k \in 1..n : Replayable(calls[k])
      BY <2>1, <2>2, <2>6, <2>8 DEF CallsInv
    <3>2. NativeIndexes = 0..(n - 1)
      <4>1. ASSUME NEW k \in 1..Len(s)
            PROVE  s[k].index \in 0..(n - 1)
        <5>1. s[k].index < n  BY <2>2, <2>4 DEF Slotted
        <5>2. PICK e : e = s[k]  OBVIOUS
        <5>3. e \in NativeCalls  BY <2>5, <5>2
        <5>4. e.index \in Nat  BY <5>3 DEF NativeCalls
        <5>. QED BY <2>3, <5>1, <5>2, <5>4
      <4>2. ASSUME NEW i \in 0..(n - 1)
            PROVE  \E k \in 1..Len(s) : s[k].index = i
        <5>1. i + 1 \in 1..Len(calls) /\ (i + 1) - 1 = i  BY <2>2, <2>3
        <5>2. \E k \in 1..Len(s) : s[k].index = (i + 1) - 1
          BY <2>4, <5>1 DEF Filled
        <5>. QED BY <5>1, <5>2
      <4>. QED BY <2>6, <4>1, <4>2 DEF NativeIndexes
    <3>3. Cardinality(NativeIndexes) = n
      <4>1. Cardinality(0..(n - 1)) = IF 0 > n - 1 THEN 0 ELSE (n - 1) - 0 + 1
        BY <2>3, FS_Interval
      <4>. QED BY <2>3, <3>2, <4>1
    <3>4. ASSUME NEW k \in 1..n
          PROVE  ToldBy(calls[k]) = IF Unsupported(k - 1) THEN <<>> ELSE <<ExpectedBlock(k - 1)>>
      <4>1. PICK call, i : call = calls[k] /\ i = k - 1  OBVIOUS
      <4>2. call.skipped <=> Unsupported(i)
        <5>1. call.skipped <=> Lacks(s, i)  BY <2>2, <2>4, <4>1 DEF Slotted
        <5>. QED BY <2>6, <5>1 DEF Unsupported, Lacks, IsUnsupported, KnownKinds
      <4>3. CASE call.skipped  BY <4>1, <4>2, <4>3 DEF ToldBy
      <4>4. CASE ~call.skipped
        <5>1. PICK ds : ds = CallDeltasOf(s, i)  OBVIOUS
        <5>2. FilledWith(call, ds)  BY <2>2, <2>4, <4>1, <5>1 DEF Filled
        <5>3. call.id # ""  BY <3>1, <4>1, <4>4 DEF Replayable
        <5>4. /\ call.id = IdsOf(ds)[1] /\ (call.custom <=> SaidCustom(ds, Len(ds)))
              /\ call.name = NameIn(PayloadsOf(ds)) /\ call.fragments = TextsIn(PayloadsOf(ds))
          BY <4>4, <5>2, <5>3 DEF FilledWith
        <5>5. BlockOf(call) = ExpectedBlock(i)
          BY <2>6, <5>1, <5>4 DEF BlockOf, ExpectedBlock
        <5>. QED BY <4>1, <4>2, <4>4, <5>5 DEF ToldBy
      <4>. QED BY <4>3, <4>4
    <3>5. [k \in 1..n |-> ToldBy(calls[k])]
            = [k \in 1..n |-> IF Unsupported(k - 1) THEN <<>> ELSE <<ExpectedBlock(k - 1)>>]
      BY <3>4
    <3>6. Told(calls) = Concat([k \in 1..n |-> IF Unsupported(k - 1) THEN <<>>
                                               ELSE <<ExpectedBlock(k - 1)>>])
      BY <2>2, <3>5 DEF Told
    <3>. QED BY <2>8, <3>1, <3>2, <3>3, <3>6 DEF CallsReplayedAtFlush
  <2>. QED BY <2>7, <2>8
<1>. QED BY <1>1, <1>2, <1>3, PTL DEF Spec
=============================================================================
