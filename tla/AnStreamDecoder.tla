-------------------------- MODULE AnStreamDecoder ---------------------------
(***************************************************************************)
(* StreamDecoder of src/rust/crates/oxa-anthropic/src/streamin.rs:         *)
(* Anthropic events in, IR events out.  Text and thinking pass at once;    *)
(* a tool_use block is buffered until its stop decides whether it was a    *)
(* function call or a custom one; unsupported blocks are skipped, so IR    *)
(* indexes and native indexes drift apart.                                 *)
(*                                                                         *)
(* `dec` is the struct.  `open` merges block_open, open_tool,              *)
(* open_thinking and open_redacted, of which at most one variant is open;  *)
(* `events` is every event handed to the caller.  All errors but one leave *)
(* the struct as it was.                                                   *)
(***************************************************************************)
EXTENDS AnWire, FiniteSets

CONSTANTS
  Events,      \* the events the provider may send
  MaxFeeds,    \* bound: successful calls of feed considered
  CitesTools   \* the provider may put a citation on a tool_use block

ASSUME DecoderAssumption ==
  /\ Events \subseteq WireEvents
  /\ MaxFeeds \in Nat
  /\ CitesTools \in BOOLEAN

VARIABLES
  dec,         \* the StreamDecoder
  fed,         \* history: the events feed accepted
  failed       \* history: some call has returned an error

vars == <<dec, fed, failed>>

NewDecoder ==
  [started |-> FALSE, next_index |-> 0, next_ir_index |-> 0, open |-> "none",
   open_index |-> 0, open_ir_index |-> 0, thinking_signature_seen |-> FALSE,
   tool_id |-> "", tool_name |-> <<>>, tool_input |-> <<>>, tool_parts |-> <<>>,
   skipped_open |-> FALSE, skipped |-> {}, delta_seen |-> FALSE,
   stop |-> "none", stop_seq |-> <<>>, usage |-> NoUsage, stopped |-> FALSE,
   flushed |-> FALSE, losses |-> <<>>, events |-> <<>>]

Yields(e, d, events) ==
  /\ dec' = [d EXCEPT !.events = @ \o events]
  /\ fed' = Append(fed, e)
  /\ UNCHANGED failed

Rejects(d) ==
  /\ dec' = d
  /\ failed' = TRUE
  /\ UNCHANGED fed

Lose(d, what) == [d EXCEPT !.losses = Append(@, what)]

Ended == dec.flushed \/ dec.stopped

Receives(e, kind) == e.kind = kind /\ ~Ended

FeedAfterEnd == Ended /\ Rejects(dec)

-----------------------------------------------------------------------------
(* message_start *)

FeedMessageStart(e) ==
  /\ Receives(e, "message_start")
  /\ \/ /\ ~dec.started /\ e.message
        /\ Yields(e, [dec EXCEPT !.started = TRUE], <<MessageStart>>)
     \/ /\ dec.started \/ ~e.message
        /\ Rejects(dec)

-----------------------------------------------------------------------------
(* content_block_start *)

SupportedKinds == {"text", "thinking", "redacted_thinking", "tool_use"}

(* Mutant of BetweenBlocks: an open skipped block is overlooked. *)
BetweenKeptBlocks(d) == d.started /\ d.open = "none"

(* No block is open: a block may start and the message may end. *)
BetweenBlocks(d) == d.started /\ d.open = "none" /\ ~d.skipped_open

StartRejected(d, e) ==
  \/ ~BetweenBlocks(d)
  \/ e.index # d.next_index
  \/ /\ e.block # None
     /\ \/ e.block[1].kind = "tool_use" /\ (e.block[1].id = "" \/ e.block[1].name = <<>>)
        \/ e.block[1].kind = "redacted_thinking" /\ e.block[1].text = <<>>

(* Mutant of Open: the native index is used in the IR. *)
OpenAtNativeIndex(d, kind) ==
  [d EXCEPT !.next_index = @ + 1, !.next_ir_index = @ + 1, !.open = kind,
            !.open_index = d.next_index, !.open_ir_index = d.next_index]

Open(d, kind) ==
  [d EXCEPT !.next_index = @ + 1, !.next_ir_index = @ + 1, !.open = kind,
            !.open_index = d.next_index, !.open_ir_index = d.next_ir_index]

FeedBlockStartRejected(e) ==
  /\ Receives(e, "content_block_start")
  /\ StartRejected(dec, e)
  /\ Rejects(dec)

Starting(e, kind) ==
  /\ Receives(e, "content_block_start")
  /\ ~StartRejected(dec, e)
  /\ e.block # None /\ e.block[1].kind = kind

(* A block without payload or of another kind takes a native index only. *)
FeedSkippedStart(e) ==
  /\ Receives(e, "content_block_start")
  /\ ~StartRejected(dec, e)
  /\ e.block # None => e.block[1].kind \notin SupportedKinds
  /\ Yields(e, Lose([dec EXCEPT !.next_index = @ + 1, !.skipped_open = TRUE,
                                !.skipped = @ \union {e.index}],
                    <<"block", e.index>>), <<>>)

FeedToolStart(e) ==
  /\ Starting(e, "tool_use")
  /\ LET b == e.block[1]
     IN  Yields(e, [Open(dec, "tool") EXCEPT !.tool_id = b.id, !.tool_name = b.name,
                                             !.tool_input = b.text, !.tool_parts = <<>>],
                <<>>)

FeedThinkingStart(e) ==
  /\ Starting(e, "thinking")
  /\ Yields(e, [Open(dec, "thinking") EXCEPT !.thinking_signature_seen = FALSE],
            <<BlockStart(dec.next_ir_index,
                [Block("thinking", "", <<>>, e.block[1].text) EXCEPT
                   !.signature = e.block[1].signature])>>)

FeedRedactedStart(e) ==
  /\ Starting(e, "redacted_thinking")
  /\ Yields(e, Open(dec, "redacted"),
            <<BlockStart(dec.next_ir_index,
                Block("redacted_thinking", "", <<>>, e.block[1].text))>>)

(* Every citation that is decoded names Anthropic as its source. *)
SourcesOf(citations) == IF citations = "valid" THEN <<"anthropic">> ELSE <<>>

FeedTextStart(e) ==
  /\ Starting(e, "text")
  /\ e.block[1].citations # "malformed"
  /\ LET b == e.block[1]
         opened == Open(dec, "text")
     IN  Yields(e, IF b.citations = "unknown" THEN Lose(opened, <<"citation", e.index>>)
                   ELSE opened,
                <<BlockStart(dec.next_ir_index,
                    [Block("text", "", <<>>, b.text) EXCEPT
                       !.citations = SourcesOf(b.citations)])>>)

(* The one error that comes after the changes: the block stays open. *)
FeedTextStartMalformed(e) ==
  /\ Starting(e, "text")
  /\ e.block[1].citations = "malformed"
  /\ Rejects(Open(dec, "text"))

FeedBlockStart(e) ==
  \/ FeedBlockStartRejected(e)
  \/ FeedSkippedStart(e)
  \/ FeedToolStart(e)
  \/ FeedThinkingStart(e)
  \/ FeedRedactedStart(e)
  \/ FeedTextStart(e)
  \/ FeedTextStartMalformed(e)

-----------------------------------------------------------------------------
(* content_block_delta *)

ThinkingDeltas == {"thinking_delta", "signature_delta"}
KnownDeltas == {"text_delta", "citations_delta", "input_json_delta"} \union ThinkingDeltas

(* What the open block makes of a delta. *)
DeltaRejected(d, delta) ==
  \/ d.open \in {"none", "redacted"}
  \/ d.open = "thinking" /\ \/ delta.type \notin ThinkingDeltas
                            \/ d.thinking_signature_seen
                            \/ delta.text = None
  \/ d.open \in {"text", "tool"} /\ delta.type \in ThinkingDeltas
  \/ d.open = "text" /\ delta.type = "input_json_delta"
  \/ d.open = "tool" /\ delta.type = "text_delta"
  \/ /\ d.open \in {"text", "tool"} /\ delta.type = "citations_delta"
     /\ delta.citation \in {"missing", "malformed"}

DeltaAccepted(d, e) ==
  /\ d.started /\ e.delta # None
  /\ \/ e.index \in d.skipped
     \/ e.index = d.open_index /\ ~DeltaRejected(d, e.delta[1])

FeedDeltaRejected(e) ==
  /\ Receives(e, "content_block_delta")
  /\ ~DeltaAccepted(dec, e)
  /\ Rejects(dec)

(* Mutant of FeedSkippedDelta: a loss for every delta of a skipped block. *)
FeedSkippedDeltaWithLoss(e) ==
  /\ Receives(e, "content_block_delta")
  /\ DeltaAccepted(dec, e) /\ e.index \in dec.skipped
  /\ Yields(e, Lose(dec, <<"delta", e.index>>), <<>>)

FeedSkippedDelta(e) ==
  /\ Receives(e, "content_block_delta")
  /\ DeltaAccepted(dec, e) /\ e.index \in dec.skipped
  /\ Yields(e, dec, <<>>)

Continuing(e) ==
  /\ Receives(e, "content_block_delta")
  /\ DeltaAccepted(dec, e) /\ e.index \notin dec.skipped

TextGiven(option) == IF option = None THEN <<>> ELSE option[1]

FeedInputJsonDelta(e) ==
  /\ Continuing(e) /\ e.delta[1].type = "input_json_delta"
  /\ Yields(e, [dec EXCEPT !.tool_parts = Append(@, TextGiven(e.delta[1].text))], <<>>)

FeedPassedDelta(e) ==
  /\ Continuing(e) /\ e.delta[1].type \in {"text_delta"} \union ThinkingDeltas
  /\ LET delta == e.delta[1]
     IN  Yields(e, [dec EXCEPT !.thinking_signature_seen =
                                  @ \/ delta.type = "signature_delta"],
                <<BlockDelta(dec.open_ir_index, Delta(delta.type, TextGiven(delta.text)))>>)

(* A citation is passed on even when the open block is a buffered tool_use. *)
FeedCitation(e) ==
  /\ Continuing(e) /\ e.delta[1].type = "citations_delta"
  /\ \/ /\ e.delta[1].citation = "valid"
        /\ Yields(e, dec, <<BlockDelta(dec.open_ir_index, Delta("citation_delta", SourcesOf("valid")))>>)
     \/ /\ e.delta[1].citation = "unknown"
        /\ Yields(e, Lose(dec, <<"citation", e.index>>), <<>>)

FeedUnknownDelta(e) ==
  /\ Continuing(e) /\ e.delta[1].type \notin KnownDeltas
  /\ Yields(e, Lose(dec, <<"delta", e.index>>), <<>>)

FeedBlockDelta(e) ==
  \/ FeedDeltaRejected(e)
  \/ FeedSkippedDelta(e)
  \/ FeedInputJsonDelta(e)
  \/ FeedPassedDelta(e)
  \/ FeedCitation(e)
  \/ FeedUnknownDelta(e)

-----------------------------------------------------------------------------
(* content_block_stop *)

(* Mutant of FullInput: the input of the start wins over the fragments. *)
FullInputOfStart(d) == IF d.tool_input # <<>> THEN d.tool_input ELSE Concat(d.tool_parts)

FullInput(d) == IF d.tool_parts = <<>> THEN d.tool_input ELSE Concat(d.tool_parts)

(* The whole unit of a tool block, handed over at once. *)
ToolUnit(d) ==
  LET i == d.open_ir_index
      input == FullInput(d)
      parts == IF d.tool_parts = <<>> THEN <<input>> ELSE d.tool_parts
  IN  IF IsWrapped(input)
      THEN <<BlockStart(i, CustomToolUseBlock(d.tool_id, d.tool_name, Unwrap(input))),
             BlockDelta(i, Delta("custom_tool_input_delta", Unwrap(input))),
             BlockStop(i)>>
      ELSE <<BlockStart(i, ToolUseBlock(d.tool_id, d.tool_name, input))>>
           \o [k \in 1..Len(parts) |-> BlockDelta(i, Delta("input_json_delta", parts[k]))]
           \o <<BlockStop(i)>>

StopRejected(d, e) ==
  \/ ~d.started
  \/ /\ e.index \notin d.skipped
     /\ \/ d.open = "none" \/ e.index # d.open_index
        \/ d.open = "tool" /\ d.tool_parts = <<>> /\ d.tool_input = <<>>

FeedStopRejected(e) ==
  /\ Receives(e, "content_block_stop")
  /\ StopRejected(dec, e)
  /\ Rejects(dec)

Stopping(e) == Receives(e, "content_block_stop") /\ ~StopRejected(dec, e)

FeedSkippedStop(e) ==
  /\ Stopping(e)
  /\ e.index \in dec.skipped
  /\ Yields(e, [dec EXCEPT !.skipped = @ \ {e.index}, !.skipped_open = FALSE], <<>>)

FeedToolStop(e) ==
  /\ Stopping(e)
  /\ e.index \notin dec.skipped /\ dec.open = "tool"
  /\ Yields(e, [dec EXCEPT !.open = "none", !.tool_id = "", !.tool_name = <<>>,
                           !.tool_input = <<>>, !.tool_parts = <<>>], ToolUnit(dec))

FeedPlainStop(e) ==
  /\ Stopping(e)
  /\ e.index \notin dec.skipped /\ dec.open # "tool"
  /\ Yields(e, [dec EXCEPT !.open = "none", !.thinking_signature_seen = FALSE],
            <<BlockStop(dec.open_ir_index)>>)

FeedBlockStop(e) ==
  \/ FeedStopRejected(e)
  \/ FeedSkippedStop(e)
  \/ FeedToolStop(e)
  \/ FeedPlainStop(e)

-----------------------------------------------------------------------------
(* message_delta and message_stop *)

KnownStops == {"end_turn", "max_tokens", "stop_sequence", "tool_use", "refusal"}

(* decode_stop_reason *)
StopOf(stop) == IF stop \in KnownStops THEN stop ELSE "other"

TerminalAccepted(d, e) ==
  BetweenBlocks(d) /\ e.delta # None /\ e.delta[1].stop_reason # ""

(* The terminal values are replaced as often as a message_delta comes. *)
TakeTerminal(d, e) ==
  [d EXCEPT !.stop = StopOf(e.delta[1].stop_reason),
            !.stop_seq = e.delta[1].stop_sequence,
            !.usage = IF e.usage = None THEN @ ELSE e.usage[1],
            !.delta_seen = TRUE]

FeedMessageDelta(e) ==
  /\ Receives(e, "message_delta")
  /\ \/ ~TerminalAccepted(dec, e) /\ Rejects(dec)
     \/ /\ TerminalAccepted(dec, e)
        /\ Yields(e, IF StopOf(e.delta[1].stop_reason) = "other"
                     THEN Lose(TakeTerminal(dec, e), <<"stop_reason", -1>>)
                     ELSE TakeTerminal(dec, e), <<>>)

FeedMessageStop(e) ==
  /\ Receives(e, "message_stop")
  /\ \/ /\ ~(BetweenBlocks(dec) /\ dec.delta_seen)
        /\ Rejects(dec)
     \/ /\ BetweenBlocks(dec) /\ dec.delta_seen
        /\ Yields(e, [dec EXCEPT !.stopped = TRUE],
                  <<MessageDelta(dec.stop,
                                 IF dec.stop = "stop_sequence" THEN dec.stop_seq ELSE <<>>,
                                 dec.usage),
                    MessageDone>>)

FeedUnknownEvent(e) ==
  /\ ~Ended
  /\ e.kind \notin KnownEvents
  /\ Yields(e, Lose(dec, <<"event", -1>>), <<>>)

Feed(e) ==
  \/ FeedAfterEnd
  \/ FeedMessageStart(e)
  \/ FeedBlockStart(e)
  \/ FeedBlockDelta(e)
  \/ FeedBlockStop(e)
  \/ FeedMessageDelta(e)
  \/ FeedMessageStop(e)
  \/ FeedUnknownEvent(e)

-----------------------------------------------------------------------------
(* flush *)

FlushRefused ==
  /\ dec.flushed \/ ~dec.stopped
  /\ failed' = TRUE
  /\ UNCHANGED <<dec, fed>>

FlushConfirmed ==
  /\ ~dec.flushed /\ dec.stopped
  /\ dec' = [dec EXCEPT !.flushed = TRUE]
  /\ UNCHANGED <<fed, failed>>

Flush == FlushRefused \/ FlushConfirmed

(* The environment puts a citation on a tool_use block only if CitesTools. *)
CitesOpenTool(e) ==
  /\ e.kind = "content_block_delta" /\ e.delta # None
  /\ e.delta[1].type = "citations_delta" /\ dec.open = "tool"

Init ==
  /\ dec = NewDecoder
  /\ fed = <<>>
  /\ failed = FALSE

Next ==
  \/ \E e \in Events :
       /\ Len(fed) < MaxFeeds
       /\ CitesOpenTool(e) => CitesTools
       /\ Feed(e)
  \/ Flush

Spec == Init /\ [][Next]_vars

-----------------------------------------------------------------------------
(* Properties.  They compare what came out with what went in, read off the
   two histories. *)

LossKinds == {"block", "delta", "citation", "stop_reason", "event"}

Decoders ==
  [started : BOOLEAN, next_index : Nat, next_ir_index : Nat,
   open : {"none", "text", "thinking", "redacted", "tool"},
   open_index : Nat, open_ir_index : Nat, thinking_signature_seen : BOOLEAN,
   tool_id : Tokens, tool_name : Text, tool_input : Text, tool_parts : Seq(Text),
   skipped_open : BOOLEAN, skipped : SUBSET Nat, delta_seen : BOOLEAN,
   stop : StopReasons \union {"none"}, stop_seq : Text, usage : Usages, stopped : BOOLEAN,
   flushed : BOOLEAN, losses : Seq(LossKinds \X Int), events : Seq(IrEvents)]

TypeOK ==
  /\ dec \in Decoders
  /\ dec.next_ir_index \in 0..dec.next_index
  /\ dec.skipped_open <=> dec.skipped # {}
  /\ dec.skipped \subseteq {dec.next_index - 1}
  /\ dec.skipped_open => dec.open = "none"
  /\ dec.open # "none" => /\ dec.open_index = dec.next_index - 1
                          /\ dec.open_ir_index = dec.next_ir_index - 1
  /\ dec.thinking_signature_seen => dec.open = "thinking"
  /\ dec.delta_seen <=> dec.stop # "none"
  /\ dec.flushed => dec.stopped
  /\ dec.stopped => dec.open = "none" /\ dec.delta_seen
  /\ failed \in BOOLEAN

Promised == INSTANCE IrProducer WITH stream <- dec.events

(* The stream handed over honours the contract of IrProducer, as long as
   no citation is put on a tool_use block. *)
HonoursContract == Promised!Spec

StartPositions(Kinds) ==
  {k \in 1..Len(fed) :
     /\ fed[k].kind = "content_block_start"
     /\ fed[k].block # None /\ fed[k].block[1].kind \in Kinds}

(* The stops that came since k. *)
StopsAfter(k) == {m \in (k + 1)..Len(fed) : fed[m].kind = "content_block_stop"}

(* What follows reads a history s: the start of a block that the IR has,
   whether its stop came, and its deltas. *)
KeptStart(e) ==
  /\ e.kind = "content_block_start"
  /\ e.block # None /\ e.block[1].kind \in SupportedKinds

StopBetween(s, k, m) == \E n \in (k + 1)..m : s[n].kind = "content_block_stop"

Closed(s, k) == StopBetween(s, k, Len(s))

DeltasAfter(s, k) ==
  Concat([m \in 1..Len(s) |->
            IF /\ k < m /\ s[m].kind = "content_block_delta"
               /\ ~StopBetween(s, k, m)
            THEN s[m].delta ELSE <<>>])

CarriedBy(delta) ==
  CASE delta.type \in {"text_delta"} \union ThinkingDeltas ->
         <<Delta(delta.type, TextGiven(delta.text))>>
    [] delta.type = "citations_delta" /\ delta.citation = "valid" ->
         <<Delta("citation_delta", SourcesOf("valid"))>>
    [] OTHER -> <<>>

PartsIn(deltas) ==
  Concat([n \in 1..Len(deltas) |-> IF deltas[n].type = "input_json_delta"
                                   THEN <<TextGiven(deltas[n].text)>> ELSE <<>>])

(* A tool block, read the way the whole message is: its input is what the
   fragments spell, or what the start carries when there is none. *)
ToolReading(b, deltas) ==
  LET parts == PartsIn(deltas)
      input == IF parts = <<>> THEN b.text ELSE Concat(parts)
  IN  IF IsWrapped(input)
      THEN [block |-> CustomToolUseBlock(b.id, b.name, Unwrap(input)),
            deltas |-> <<Delta("custom_tool_input_delta", Unwrap(input))>>]
      ELSE [block |-> ToolUseBlock(b.id, b.name, input),
            deltas |-> IF parts = <<>> THEN <<Delta("input_json_delta", input)>>
                       ELSE [n \in 1..Len(parts) |-> Delta("input_json_delta", parts[n])]]

(* A signature counts on a thinking block only, citations on a text block. *)
PlainBlock(b) ==
  LET block == Block(b.kind, "", <<>>, b.text)
  IN  IF b.kind = "text" THEN [block EXCEPT !.citations = SourcesOf(b.citations)]
      ELSE IF b.kind = "thinking" THEN [block EXCEPT !.signature = b.signature]
      ELSE block

PlainReading(b, deltas) ==
  [block |-> PlainBlock(b),
   deltas |-> Concat([n \in 1..Len(deltas) |-> CarriedBy(deltas[n])])]

IrIndex(s, k) == Cardinality({j \in 1..(k - 1) : KeptStart(s[j])})

(* The IR events that stand for the native block started at k: none for a
   tool_use that is still open. *)
UnitOf(s, k) ==
  LET i == IrIndex(s, k)
      b == s[k].block[1]
      tool == b.kind = "tool_use"
      reading == IF tool THEN ToolReading(b, DeltasAfter(s, k)) ELSE PlainReading(b, DeltasAfter(s, k))
  IN  IF tool /\ ~Closed(s, k) THEN <<>>
      ELSE <<BlockStart(i, reading.block)>>
           \o [n \in 1..Len(reading.deltas) |-> BlockDelta(i, reading.deltas[n])]
           \o (IF Closed(s, k) THEN <<BlockStop(i)>> ELSE <<>>)

TerminalsIn(s) ==
  Concat([k \in 1..Len(s) |-> IF s[k].kind = "message_delta" THEN s[k].delta ELSE <<>>])
UsagesIn(s) ==
  Concat([k \in 1..Len(s) |-> IF s[k].kind = "message_delta" THEN s[k].usage ELSE <<>>])

(* The terminal pair reports the last message_delta, and the last usage a
   message_delta carried; a stop sequence only with its stop reason. *)
TerminalPair(s) ==
  LET terminals == TerminalsIn(s)
      usages == UsagesIn(s)
      last == terminals[Len(terminals)]
  IN  <<MessageDelta(StopOf(last.stop_reason),
                     IF last.stop_reason = "stop_sequence" THEN last.stop_sequence ELSE <<>>,
                     IF usages = <<>> THEN NoUsage ELSE usages[Len(usages)]),
        MessageDone>>

(* Everything that comes out because of the event at k. *)
OutputOf(s, k) ==
  CASE s[k].kind = "message_start" -> <<MessageStart>>
    [] KeptStart(s[k]) -> UnitOf(s, k)
    [] s[k].kind = "message_stop" -> TerminalPair(s)
    [] OTHER -> <<>>

(* N-S-2, N-S-10: what comes out is, block by block and in native order,
   what came in: contiguous IR indexes over the blocks that are supported,
   every fragment in its own block, tool inputs whole at their stop; then,
   at message_stop, the terminal values, whichever event they came with. *)
OutputIsBlockwise ==
  ~failed => dec.events = Concat([k \in 1..Len(fed) |-> OutputOf(fed, k)])

(* The delta at k belongs to a block that was skipped. *)
InSkippedBlock(k) ==
  \E j \in 1..(k - 1) :
    /\ fed[j].kind = "content_block_start"
    /\ j \notin StartPositions(SupportedKinds)
    /\ ~\E m \in StopsAfter(j) : m < k

GapsAt(k) ==
  LET e == fed[k]
  IN  CASE e.kind = "content_block_start" ->
             IF k \notin StartPositions(SupportedKinds) THEN <<<<"block", e.index>>>>
             ELSE IF e.block[1].kind = "text" /\ e.block[1].citations = "unknown"
             THEN <<<<"citation", e.index>>>> ELSE <<>>
        [] e.kind = "content_block_delta" ->
             IF InSkippedBlock(k) THEN <<>>
             ELSE IF e.delta[1].type \notin KnownDeltas THEN <<<<"delta", e.index>>>>
             ELSE IF e.delta[1].type = "citations_delta" /\ e.delta[1].citation = "unknown"
             THEN <<<<"citation", e.index>>>> ELSE <<>>
        [] e.kind = "message_delta" ->
             IF e.delta[1].stop_reason \in KnownStops THEN <<>> ELSE <<<<"stop_reason", -1>>>>
        [] e.kind \in {"message_start", "content_block_stop", "message_stop"} -> <<>>
        [] OTHER -> <<<<"event", -1>>>>

(* N-S-3: an ordered list of losses with one entry for everything that was
   dropped, a skipped block counting once however many deltas it has. *)
LossesInOrderOfGaps ==
  ~failed => dec.losses = Concat([k \in 1..Len(fed) |-> GapsAt(k)])
=============================================================================
