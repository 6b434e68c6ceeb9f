-------------------------- MODULE CcStreamDecoder ---------------------------
(***************************************************************************)
(* StreamDecoder of src/rust/crates/oxa-chatcompletions/src/streamin.rs:   *)
(* Chat Completions chunks in, IR events out.  Text and reasoning are      *)
(* passed on as they arrive; tool calls are collected per native index and *)
(* replayed by flush, once a finish_reason was seen.                       *)
(*                                                                         *)
(* `dec` is the struct; its field `events` is every event handed to the    *)
(* caller, followed, inside a handler, by the ones built so far.  A call   *)
(* that returns an error hands nothing over but keeps the other changes it *)
(* made before the error, as the code does.                                *)
(***************************************************************************)
EXTENDS IrStream, CcWire, FiniteSets

CONSTANTS
  Chunks,     \* the chunks the provider may send
  MaxFeeds    \* bound: calls of feed considered

ASSUME DecoderAssumption ==
  /\ Chunks \subseteq WireChunks
  /\ MaxFeeds \in Nat

VARIABLES
  dec,        \* the StreamDecoder
  fed,        \* history: the chunks passed to feed, with the outcome
  failed      \* history: some call has returned an error

vars == <<dec, fed, failed>>

NewCall == [id |-> "", name |-> <<>>, fragments |-> <<>>, skipped |-> FALSE,
            custom |-> FALSE]

NewDecoder ==
  [started |-> FALSE, text_open |-> FALSE, text_index |-> 0,
   thinking_open |-> FALSE, thinking_index |-> 0, next_ir_index |-> 0,
   finish_seen |-> FALSE, stop |-> "none", usage |-> NoUsage, flushed |-> FALSE,
   tool_calls |-> <<>>, losses |-> <<>>, events |-> <<>>]

(* What a decoder is made of: the calls it collects and its fields. *)
CallRecords ==
  [id : Tokens, name : Text, fragments : Seq(Text), skipped : BOOLEAN, custom : BOOLEAN]

Decoders ==
  [started : BOOLEAN, text_open : BOOLEAN, text_index : Nat,
   thinking_open : BOOLEAN, thinking_index : Nat, next_ir_index : Nat,
   finish_seen : BOOLEAN, stop : StopReasons \union {"none"}, usage : Usages,
   flushed : BOOLEAN, tool_calls : Seq(CallRecords),
   losses : Seq({"tool_call", "finish_reason"} \X Nat), events : Seq(IrEvents)]

Emit(d, e) == [d EXCEPT !.events = Append(@, e)]

-----------------------------------------------------------------------------
(* record_tool_calls *)

KnownKinds == {"function", "custom"}

IsCustomCall(call) ==
  call.kind = "custom" \/ (call.custom # None /\ call.kind = "absent")

(* A call is refused when it skips a native index or renames a call. *)
CallRejected(d, call) ==
  \/ call.index > Len(d.tool_calls)
  \/ /\ call.index < Len(d.tool_calls)
     /\ call.id # ""
     /\ d.tool_calls[call.index + 1].id \notin {"", call.id}

(* Mutant of AddPayload: a later fragment replaces the name. *)
AddPayloadReplacingName(record, payload) ==
  IF record.skipped \/ payload = None THEN record
  ELSE [record EXCEPT !.name = payload[1].name, !.fragments = @ \o payload[1].text]

(* The payload goes to the record only while the call is supported. *)
AddPayload(record, payload) ==
  IF record.skipped \/ payload = None THEN record
  ELSE [record EXCEPT !.name = @ \o payload[1].name,
                      !.fragments = @ \o payload[1].text]

IsUnsupported(call) == call.kind \notin KnownKinds \union {"absent"}

(* Mutant of CallLosses: a loss for every fragment of the call. *)
CallLossPerDelta(old, call) ==
  IF IsUnsupported(call) THEN <<<<"tool_call", call.index>>>> ELSE <<>>

(* The loss of a call is recorded when it is first found unsupported. *)
CallLosses(old, call) ==
  IF IsUnsupported(call) /\ ~old.skipped THEN <<<<"tool_call", call.index>>>> ELSE <<>>

RecordCall(d, call) ==
  LET calls == IF call.index = Len(d.tool_calls)
               THEN Append(d.tool_calls, NewCall) ELSE d.tool_calls
      old == calls[call.index + 1]
      named == [old EXCEPT !.id = IF call.id = "" THEN @ ELSE call.id,
                           !.custom = @ \/ IsCustomCall(call),
                           !.skipped = @ \/ IsUnsupported(call)]
      new == AddPayload(named, IF named.custom THEN call.custom ELSE call.function)
  IN  [d EXCEPT !.tool_calls = [calls EXCEPT ![call.index + 1] = new],
                !.losses = @ \o CallLosses(old, call)]

(* The loop over delta.tool_calls; it stops at the first refused call and
   keeps what it recorded before. *)
RecordToolCalls(d, calls) ==
  LET after[n \in 0..Len(calls)] ==
        IF n = 0 THEN [dec |-> d, ok |-> TRUE]
        ELSE LET before == after[n - 1]
             IN  IF ~before.ok \/ CallRejected(before.dec, calls[n])
                 THEN [before EXCEPT !.ok = FALSE]
                 ELSE [dec |-> RecordCall(before.dec, calls[n]), ok |-> TRUE]
  IN  after[Len(calls)]

-----------------------------------------------------------------------------
(* The text and reasoning channels *)

CloseText(d) ==
  IF d.text_open
  THEN Emit([d EXCEPT !.text_open = FALSE], BlockStop(d.text_index)) ELSE d

CloseThinking(d) ==
  IF d.thinking_open
  THEN Emit([d EXCEPT !.thinking_open = FALSE], BlockStop(d.thinking_index)) ELSE d

OpenThinking(d) ==
  IF d.thinking_open THEN d
  ELSE Emit([d EXCEPT !.thinking_open = TRUE, !.thinking_index = d.next_ir_index,
                      !.next_ir_index = @ + 1],
            BlockStart(d.next_ir_index, ThinkingBlock))

OpenText(d) ==
  IF d.text_open THEN d
  ELSE Emit([d EXCEPT !.text_open = TRUE, !.text_index = d.next_ir_index,
                      !.next_ir_index = @ + 1],
            BlockStart(d.next_ir_index, TextBlock))

Begin(d) ==
  IF d.started THEN d ELSE Emit([d EXCEPT !.started = TRUE], MessageStart)

AddReasoning(d, reasoning) ==
  IF reasoning \in {None, Some(<<>>)} THEN d
  ELSE LET opened == OpenThinking(CloseText(d))
       IN  Emit(opened, BlockDelta(opened.thinking_index,
                                   Delta("thinking_delta", reasoning[1])))

(* Mutant of AddContent: the thinking block is left open. *)
AddContentBesideThinking(d, content) ==
  IF content = None THEN d
  ELSE LET opened == OpenText(d)
       IN  Emit(opened, BlockDelta(opened.text_index, Delta("text_delta", content[1])))

(* Mutant of AddContent: an empty content is taken for an absent one. *)
AddContentUnlessEmpty(d, content) ==
  IF content \in {None, Some(<<>>)} THEN d
  ELSE LET opened == OpenText(CloseThinking(d))
       IN  Emit(opened, BlockDelta(opened.text_index, Delta("text_delta", content[1])))

AddContent(d, content) ==
  IF content = None THEN d
  ELSE LET opened == OpenText(CloseThinking(d))
       IN  Emit(opened, BlockDelta(opened.text_index,
                                   Delta("text_delta", content[1])))

(* decode_finish_reason *)
StopOf(finish) ==
  CASE finish = "stop" -> "end_turn"
    [] finish = "length" -> "max_tokens"
    [] finish = "content_filter" -> "refusal"
    [] finish = "tool_calls" -> "tool_use"
    [] OTHER -> "other"

Finish(d, finish) ==
  IF finish = "absent" THEN d
  ELSE [d EXCEPT !.stop = StopOf(finish), !.finish_seen = TRUE,
                 !.losses = IF StopOf(finish) = "other"
                            THEN Append(@, <<"finish_reason", 0>>) ELSE @]

-----------------------------------------------------------------------------
(* feed: one disjunct per way out of the handler *)

WithUsage(d, chunk) ==
  IF chunk.usage = None THEN d
  ELSE [d EXCEPT !.usage = Usage(chunk.usage[1].prompt, chunk.usage[1].completion)]

(* The decoder at the point where the tool calls have been recorded. *)
Recorded(chunk) ==
  RecordToolCalls(Begin(WithUsage(dec, chunk)), chunk.choice[1].tool_calls)

(* The decoder at the point where the finish_reason is looked at. *)
Streamed(chunk) ==
  AddContent(AddReasoning(Recorded(chunk).dec, chunk.choice[1].reasoning),
             chunk.choice[1].content)

(* Mutant of Readable: chunks are taken after flush. *)
ReadableAfterFlush(chunk) ==
  chunk.usage # None => (chunk.usage[1].prompt >= 0 /\ chunk.usage[1].completion >= 0)

Readable(chunk) ==
  /\ ~dec.flushed
  /\ chunk.usage # None => (chunk.usage[1].prompt >= 0 /\ chunk.usage[1].completion >= 0)

RoleRepeated(chunk) == dec.started /\ chunk.choice[1].role

FinishRejected(chunk) ==
  /\ chunk.choice[1].finish_reason # "absent"
  /\ dec.finish_seen \/ chunk.choice[1].finish_reason = ""

Succeeds(chunk, d) ==
  /\ dec' = d
  /\ fed' = Append(fed, [chunk |-> chunk, ok |-> TRUE])
  /\ UNCHANGED failed

Fails(chunk, d) ==
  /\ dec' = [d EXCEPT !.events = dec.events]
  /\ fed' = Append(fed, [chunk |-> chunk, ok |-> FALSE])
  /\ failed' = TRUE

FeedUnreadable(chunk) ==
  /\ ~Readable(chunk)
  /\ Fails(chunk, dec)

FeedUsageOnly(chunk) ==
  /\ Readable(chunk) /\ chunk.choice = None
  /\ Succeeds(chunk, WithUsage(dec, chunk))

FeedRestart(chunk) ==
  /\ Readable(chunk) /\ chunk.choice # None
  /\ RoleRepeated(chunk)
  /\ Fails(chunk, WithUsage(dec, chunk))

FeedBadCall(chunk) ==
  /\ Readable(chunk) /\ chunk.choice # None
  /\ ~RoleRepeated(chunk)
  /\ ~Recorded(chunk).ok
  /\ Fails(chunk, Recorded(chunk).dec)

FeedBadFinish(chunk) ==
  /\ Readable(chunk) /\ chunk.choice # None
  /\ ~RoleRepeated(chunk)
  /\ Recorded(chunk).ok
  /\ FinishRejected(chunk)
  /\ Fails(chunk, Streamed(chunk))

FeedChoice(chunk) ==
  /\ Readable(chunk) /\ chunk.choice # None
  /\ ~RoleRepeated(chunk)
  /\ Recorded(chunk).ok
  /\ ~FinishRejected(chunk)
  /\ Succeeds(chunk, Finish(Streamed(chunk), chunk.choice[1].finish_reason))

Feed(chunk) ==
  \/ FeedUnreadable(chunk)
  \/ FeedUsageOnly(chunk)
  \/ FeedRestart(chunk)
  \/ FeedBadCall(chunk)
  \/ FeedBadFinish(chunk)
  \/ FeedChoice(chunk)

-----------------------------------------------------------------------------
(* flush *)

Replayable(call) == call.skipped \/ (call.id # "" /\ call.name # <<>>)

(* The events of a call that was not skipped: start, fragments, stop. *)
ToolUnit(index, call) ==
  LET input == Concat(call.fragments)
      start == IF call.custom THEN CustomToolUseBlock(call.id, call.name, input)
                              ELSE ToolUseBlock(call.id, call.name, input)
      delta == IF call.custom THEN "custom_tool_input_delta" ELSE "input_json_delta"
      n == Len(call.fragments)
  IN  [k \in 1..(n + 2) |->
         IF k = 1 THEN BlockStart(index, start)
         ELSE IF k = n + 2 THEN BlockStop(index)
         ELSE BlockDelta(index, Delta(delta, call.fragments[k - 1]))]

ReplayCall(d, call) ==
  IF call.skipped THEN d
  ELSE [d EXCEPT !.events = @ \o ToolUnit(d.next_ir_index, call),
                 !.next_ir_index = @ + 1]

(* The first n calls, in native index order. *)
ReplayCalls(d, n) ==
  LET after[m \in 0..n] ==
        IF m = 0 THEN d ELSE ReplayCall(after[m - 1], d.tool_calls[m])
  IN  after[n]

(* Mutant of CloseChannels: an open thinking block is forgotten. *)
CloseTextOnly(d) == CloseText([d EXCEPT !.flushed = TRUE])

CloseChannels(d) == CloseText(CloseThinking([d EXCEPT !.flushed = TRUE]))

Terminate(d) ==
  Emit(Emit(d, MessageDelta(d.stop, <<>>, d.usage)),
       MessageDone)

(* Flushed twice, or before a finish_reason: nothing changes. *)
FlushTooEarlyOrTwice ==
  /\ dec.flushed \/ dec.stop = "none"
  /\ failed' = TRUE
  /\ UNCHANGED <<dec, fed>>

(* A call that was not skipped never got its id or name: the loop fails
   there, with the channels closed, the decoder flushed and an index taken
   for every retained call before it. *)
FlushUnidentified ==
  /\ ~dec.flushed /\ dec.stop # "none"
  /\ \E n \in 1..Len(dec.tool_calls) :
       /\ ~Replayable(dec.tool_calls[n])
       /\ \A m \in 1..(n - 1) : Replayable(dec.tool_calls[m])
       /\ dec' = [ReplayCalls(CloseChannels(dec), n - 1) EXCEPT !.events = dec.events]
  /\ failed' = TRUE
  /\ UNCHANGED fed

FlushComplete ==
  /\ ~dec.flushed /\ dec.stop # "none"
  /\ \A n \in 1..Len(dec.tool_calls) : Replayable(dec.tool_calls[n])
  /\ dec' = Terminate(ReplayCalls(CloseChannels(dec), Len(dec.tool_calls)))
  /\ UNCHANGED <<fed, failed>>

Flush == FlushTooEarlyOrTwice \/ FlushUnidentified \/ FlushComplete

-----------------------------------------------------------------------------
Init ==
  /\ dec = NewDecoder
  /\ fed = <<>>
  /\ failed = FALSE

Next ==
  \/ \E chunk \in Chunks : Len(fed) < MaxFeeds /\ Feed(chunk)
  \/ Flush

Spec == Init /\ [][Next]_vars

-----------------------------------------------------------------------------
(* Properties.  They compare what came out with what went in, read off the
   two histories, never with the decoder's own bookkeeping. *)

Promised == INSTANCE IrProducer WITH stream <- dec.events

(* The stream handed over honours the contract of IrProducer: every batch
   continues it legally, tool calls come whole, the terminal pair is last. *)
HonoursContract == Promised!Spec

(* Every non-empty reasoning value and every content value, the empty ones
   included, in the order of arrival. *)
FragmentsOf(chunk) ==
  IF chunk.choice = None THEN <<>>
  ELSE LET c == chunk.choice[1]
       IN  (IF c.reasoning \in {None, Some(<<>>)} THEN <<>>
            ELSE <<Delta("thinking_delta", c.reasoning[1])>>)
           \o (IF c.content = None THEN <<>> ELSE <<Delta("text_delta", c.content[1])>>)

Arrived == Concat([k \in 1..Len(fed) |-> FragmentsOf(fed[k].chunk)])

(* The text and reasoning fragments handed over. *)
FragmentsIn(e) ==
  IF IsDelta(e) /\ e.delta.type \in {"text_delta", "thinking_delta"} THEN <<e.delta>> ELSE <<>>

Passed == Concat([k \in 1..Len(dec.events) |-> FragmentsIn(dec.events[k])])

(* No text or reasoning fragment is lost, doubled, emptied or reordered by
   the block switching of feed, across the two channels. *)
FragmentsPassInOrder == ~failed => Passed = Arrived

CallsOf(chunk) == IF chunk.choice = None THEN <<>> ELSE chunk.choice[1].tool_calls

AllCallDeltas == Concat([k \in 1..Len(fed) |-> CallsOf(fed[k].chunk)])
NativeIndexes == {AllCallDeltas[k].index : k \in 1..Len(AllCallDeltas)}
Unsupported(i) ==
  \E k \in 1..Len(AllCallDeltas) :
    AllCallDeltas[k].index = i /\ AllCallDeltas[k].kind \notin {"function", "custom", "absent"}

(* The deltas of call i among those of s, and the ids they name. *)
CallDeltasOf(s, i) ==
  Concat([k \in 1..Len(s) |-> IF s[k].index = i THEN <<s[k]>> ELSE <<>>])

IdsOf(deltas) ==
  Concat([k \in 1..Len(deltas) |-> IF deltas[k].id = "" THEN <<>> ELSE <<deltas[k].id>>])

(* The payloads a call received in the form of its category: the category
   is custom from the first delta that says so. *)
SaidCustom(deltas, n) == \E m \in 1..n : IsCustomCall(deltas[m])

PayloadsOf(deltas) ==
  Concat([k \in 1..Len(deltas) |->
            IF SaidCustom(deltas, k) THEN deltas[k].custom ELSE deltas[k].function])

NameIn(payloads) == Concat([k \in 1..Len(payloads) |-> payloads[k].name])
TextsIn(payloads) == Concat([k \in 1..Len(payloads) |-> payloads[k].text])

ExpectedBlock(i) ==
  LET deltas == CallDeltasOf(AllCallDeltas, i)
      payloads == PayloadsOf(deltas)
  IN  Block(IF SaidCustom(deltas, Len(deltas)) THEN "custom_tool_use" ELSE "tool_use",
            IdsOf(deltas)[1], NameIn(payloads), Concat(TextsIn(payloads)))

(* The last usage observed, also when it came after the finish_reason, in
   a chunk without choices. *)
LastUsage ==
  LET observed == Concat([k \in 1..Len(fed) |-> fed[k].chunk.usage])
      last == observed[Len(observed)]
  IN  IF observed = <<>> THEN NoUsage ELSE Usage(last.prompt, last.completion)

(* The blocks of the tool calls handed over. *)
ToolBlockIn(e) ==
  IF IsStart(e) /\ e.block.kind \in ToolKinds THEN <<e.block>> ELSE <<>>

Replayed == Concat([k \in 1..Len(dec.events) |-> ToolBlockIn(dec.events[k])])

(* N-S-10, N-S-1: nothing of a tool call is handed over before flush; it
   then replays the supported calls in native index order (no index of the
   provider is left out), each with its own id, name and input, however
   their fragments were interleaved, and ends with the usage that was the
   last one by then. *)
CallsReplayedAtFlush ==
  ~failed =>
    IF ~dec.flushed THEN Replayed = <<>>
    ELSE LET n == Cardinality(NativeIndexes)
         IN  /\ NativeIndexes = 0..(n - 1)
             /\ Replayed = Concat([k \in 1..n |-> IF Unsupported(k - 1) THEN <<>>
                                                  ELSE <<ExpectedBlock(k - 1)>>])
             /\ dec.events[Len(dec.events) - 1].usage = LastUsage

(* N-S-3: one loss per unsupported call, however many of its fragments
   arrive, and none for a supported one. *)
OneLossPerUnsupportedCall ==
  ~failed =>
    LET noted == {k \in 1..Len(dec.losses) : dec.losses[k][1] = "tool_call"}
    IN  /\ {dec.losses[k][2] : k \in noted} = {i \in NativeIndexes : Unsupported(i)}
        /\ \A j, k \in noted : dec.losses[j][2] = dec.losses[k][2] => j = k

(* Even for a caller that goes on after an error: indexes never repeat and
   nothing is handed over after the terminal pair. *)
NothingAfterTheEnd ==
  /\ \A k \in 1..Len(dec.events) :
       dec.events[k].type = "message_done" => k = Len(dec.events)
  /\ \A j, k \in 1..Len(dec.events) :
       j < k /\ IsStart(dec.events[j]) /\ IsStart(dec.events[k]) =>
         dec.events[j].index < dec.events[k].index
=============================================================================
