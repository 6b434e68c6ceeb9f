---------------------------- MODULE ReRoundTrip -----------------------------
(***************************************************************************)
(* The two Responses stream converters back to back: a gateway encodes an  *)
(* IR stream with the StreamEncoder, a client decodes what it gets with    *)
(* the StreamDecoder.  What is sent arrives in order, before more is sent: *)
(* neither side reads anything of the other's.                             *)
(***************************************************************************)
EXTENDS ReStreamEncoder

VARIABLES
  dec, fed, failed  \* the client, as in ReStreamDecoder

Client == INSTANCE ReStreamDecoder
            WITH Events <- {}, MaxFeeds <- 0, MaxUnits <- 0, NestedTypes <- {},
                 MixesParts <- FALSE

clientVars == <<dec, fed, failed>>

Encode ==
  /\ ~failed /\ Len(fed) = Len(enc.wire)
  /\ Next
  /\ UNCHANGED clientVars

Deliver ==
  /\ ~failed /\ Len(fed) < Len(enc.wire)
  /\ Client!Feed(enc.wire[Len(fed) + 1])
  /\ UNCHANGED vars

Confirm ==
  /\ ~failed /\ enc.done /\ ~dec.flushed
  /\ Client!Flush
  /\ UNCHANGED vars

TripInit == Init /\ Client!Init

TripNext == Encode \/ Deliver \/ Confirm

TripSpec == TripInit /\ [][TripNext]_<<vars, clientVars>>

-----------------------------------------------------------------------------
(* What a stream says: its blocks in order, each with its whole text. *)

TextOf(s, k) ==
  LET own == SelectSeq(s, LAMBDA e : /\ IsDelta(e)
                                     /\ IsDelta(e) => /\ e.index = s[k].index
                                                      /\ e.delta.type \in {"text_delta", "thinking_delta"})
  IN  s[k].block.text \o Concat([n \in 1..Len(own) |-> own[n].delta.text])

Saying(s, kinds) ==
  LET ks == SetToSortSeq({k \in 1..Len(s) : IsStart(s[k]) /\ s[k].block.kind \in kinds}, <)
  IN  [n \in 1..Len(ks) |->
         LET b == s[ks[n]].block
         IN  [kind |-> b.kind, id |-> b.id, name |-> b.name, text |-> TextOf(s, ks[n])]]

CarriedKinds == EncodableKinds \ {"redacted_thinking"}

(* A summary part arrives without the text it starts with. *)
StartsEmpty == \A k \in 1..Len(applied) :
  IsStart(applied[k]) /\ applied[k].block.kind = "thinking" => applied[k].block.text = <<>>

(* The data of a reasoning item arrives at its end: after the thinking
   that joined the item later. *)
ThinkingGoesFirst ==
  \A n \in 1..(Len(Saying(applied, CarriedKinds)) - 1) :
    Saying(applied, CarriedKinds)[n].kind = "encrypted_content" =>
      Saying(applied, CarriedKinds)[n + 1].kind # "thinking"

(* A custom tool's name has no namespace: see NamespacedCallsReadBack. *)
CustomNamesPlain == \A k \in 1..Len(applied) :
  IsStart(applied[k]) /\ applied[k].block.kind = "custom_tool_use" =>
    Len(applied[k].block.name) = 1

(* The decoder takes a name that starts with its namespace for a whole
   name: ns.ns.f comes back as ns.f. *)
NamesDoNotRepeat == \A k \in 1..Len(applied) :
  IsStart(applied[k]) /\ Len(applied[k].block.name) > 2 =>
    applied[k].block.name[1] # applied[k].block.name[2]

(* What a web search has that the IR does not know is handed on, and
   recorded where it is read. *)
SearchLosses ==
  LET lossy == SelectSeq(Saying(applied, {"web_search_call"}), LAMBDA b : b.text[2] = "lossy")
  IN  [n \in 1..Len(lossy) |-> "action"]

CallKinds == ToolKinds \union {"apply_patch_tool_use"}

(* Responses has no stop reason for tools: a completed response with a
   call in it is one. *)
StopRead ==
  LET stop == applied[Len(SelectSeq(applied, LAMBDA e : e.type # "message_done"))].stop_reason
  IN  IF stop \in {"max_tokens", "refusal"} THEN stop
      ELSE IF Saying(applied, CallKinds) # <<>> THEN "tool_use" ELSE "end_turn"

(* N-S-6, N-S-10: what the encoder sends, the decoder takes, and reads the
   blocks that were written, in order, every part and every input whole,
   with the stop reason and the usage, and without losses of its own but
   one for each lossy web search. *)
ReadBack ==
  (Faultless /\ StartsEmpty /\ ThinkingGoesFirst /\ CustomNamesPlain /\ NamesDoNotRepeat) =>
    /\ ~failed
    /\ dec.terminated =>
         LET final == dec.events[Len(dec.events) - 1]
             written == SelectSeq(applied, LAMBDA e : e.type = "message_delta")[1]
         IN  /\ Saying(dec.events, StreamedKinds) = Saying(applied, CarriedKinds)
             /\ final.stop_reason = StopRead
             /\ final.usage = written.usage
             /\ [n \in 1..Len(dec.losses) |-> dec.losses[n][1]] = SearchLosses

(* src/spec/11-mapping-openai-responses.md, section 3: the name of a call
   is split into namespace and name by the encoder and put together by the
   decoder.  For a custom tool the decoder compares the parts in the
   terminal response with the whole. *)
NamespacedCallsReadBack ==
  Faultless /\ StartsEmpty /\ ThinkingGoesFirst /\ NamesDoNotRepeat => ~failed
=============================================================================
