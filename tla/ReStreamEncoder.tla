-------------------------- MODULE ReStreamEncoder ---------------------------
(***************************************************************************)
(* StreamEncoder of src/rust/crates/oxa-responses/src/streamout.rs: IR     *)
(* events in, Responses events and losses out.  The IR has one level, the  *)
(* blocks; the encoder invents the one above: consecutive text blocks are  *)
(* the parts of one message item, consecutive thinking blocks those of one *)
(* reasoning item, which also takes one encrypted content.  Such an item   *)
(* is closed when a block comes that does not belong to it.  The terminal  *)
(* event repeats all items.                                                *)
(*                                                                         *)
(* `enc` is the struct; `wire` and `losses` are everything the caller      *)
(* received.  The item under way is the OutputItem it becomes; the block   *)
(* keeps the IR block it started with, which stands for its kind, its tool *)
(* input and for active_apply_patch_call and active_apply_patch_result.    *)
(* The counters of generated ids are one function of the kind of item.     *)
(***************************************************************************)
EXTENDS ReWire, FiniteSets

CONSTANTS
  Events,     \* the IR events the caller may apply
  MaxApplied, \* bound: successful calls of apply considered
  MaxResumed  \* bound: calls that follow the first error, as they are counted

(* Only a text block has citations, only a thinking block a signature. *)
ASSUME EncoderAssumption ==
  /\ Events \subseteq IrEvents
  /\ \A e \in Events : IsStart(e) =>
       /\ e.block.citations # <<>> => e.block.kind = "text"
       /\ e.block.signature # <<>> => e.block.kind = "thinking"
  /\ MaxApplied \in Nat /\ MaxResumed \in Nat

VARIABLES
  enc,        \* the StreamEncoder
  applied,    \* history: the events apply accepted
  refused     \* history: the first event it refused, and after how many
              \* accepted ones; an Option

vars == <<enc, applied, refused>>

NumberedItems == {"message", "reasoning", "function_call", "custom_tool_call"} \union PatchItems

NewEncoder ==
  [started |-> FALSE, delta |-> FALSE, done |-> FALSE, next_block_index |-> 0,
   next_output_index |-> 0, next_item |-> [kind \in NumberedItems |-> 0],
   active_item |-> None, active_block |-> None, completed |-> <<>>,
   event_ordinal |-> 0, wire |-> <<>>, losses |-> <<>>]

Accepted(event, e) ==
  /\ enc' = e
  /\ applied' = Append(applied, event)
  /\ UNCHANGED refused

Refused(event, e) ==
  /\ enc' = e
  /\ refused' = IF refused = None THEN Some([after |-> Len(applied), event |-> event])
                ELSE refused
  /\ UNCHANGED applied

Send(e, events) == [e EXCEPT !.wire = @ \o events]

Lose(e, what) == [e EXCEPT !.losses = Append(@, what)]

(* After the terminal event only message_done is taken. *)
Ended(event) == enc.done \/ (enc.delta /\ event.type # "message_done")

Receives(event, type) == event.type = type /\ ~Ended(event)

(* Every other call is counted, those that fail too. *)
Counted == [enc EXCEPT !.event_ordinal = @ + 1]

ApplyAfterEnd(event) == Ended(event) /\ Refused(event, enc)

ApplyMessageStart(event) ==
  /\ Receives(event, "message_start")
  /\ \/ /\ ~enc.started
        /\ Accepted(event, Send([Counted EXCEPT !.started = TRUE], <<WireCreated(TRUE)>>))
     \/ /\ enc.started
        /\ Refused(event, Counted)

-----------------------------------------------------------------------------
(* Items *)

(* stream_generated_item_id: a prefix and a number per kind of item. *)
GeneratedId(e, kind) == kind \o ToString(e.next_item[kind])

ActiveKind(e) == IF e.active_item = None THEN "none" ELSE e.active_item[1].item.kind

(* open_message_item, open_reasoning_item, open_function_call_item and
   their like: the item takes the next output index and is announced. *)
OpenItem(e, item) ==
  Send([e EXCEPT !.active_item = Some([output_index |-> e.next_output_index, item |-> item]),
                 !.next_output_index = @ + 1,
                 !.next_item = IF item.kind \in NumberedItems
                               THEN [e.next_item EXCEPT ![item.kind] = @ + 1] ELSE @],
       <<WireItem("output_item.added", e.next_output_index, Some(item))>>)

(* close_message_item, close_reasoning_item and the ends of the tool items. *)
CloseItem(e, item) ==
  Send([e EXCEPT !.active_item = None, !.completed = Append(@, item)],
       <<WireItem("output_item.done", e.active_item[1].output_index, Some(item))>>)

Completed(e) == CloseItem(e, [e.active_item[1].item EXCEPT !.status = "completed"])

(* The active item takes another block of this kind. *)
StaysOpen(item, kind) ==
  \/ item.kind = "message" /\ kind = "text"
  \/ item.kind = "reasoning" /\ kind = "thinking"
  \/ item.kind = "reasoning" /\ kind = "encrypted_content" /\ item.cipher = <<>>

MakeRoom(e, kind) ==
  IF e.active_item = None \/ (e.active_item # None /\ StaysOpen(e.active_item[1].item, kind))
  THEN e ELSE Completed(e)

(* ... or opens one for it, if none is left. *)
WithItem(e, kind, of) ==
  LET room == MakeRoom(e, kind)
  IN  IF room.active_item # None THEN room
      ELSE OpenItem(room, [Item(of, GeneratedId(e, of)) EXCEPT !.status = "in_progress"])

-----------------------------------------------------------------------------
(* ContentBlockStart *)

BlockItems ==
  [tool_use |-> "function_call", custom_tool_use |-> "custom_tool_call",
   apply_patch_tool_use |-> "apply_patch_call",
   apply_patch_tool_result |-> "apply_patch_call_output"]

PartKinds == {"text", "thinking"}
EncodableKinds ==
  PartKinds \union DOMAIN BlockItems
    \union {"web_search_call", "encrypted_content", "redacted_thinking"}

StartOutOfOrder(e, event) ==
  ~e.started \/ e.active_block # None \/ event.index # e.next_block_index

(* The text of these blocks is their status and their payload. *)
StatusOf(block) == block.text[1]
PayloadOf(block) == block.text[2]

SearchInvalid(block) ==
  block.id = "" \/ StatusOf(block) = "" \/ PayloadOf(block) \in {"absent", "malformed"}

BlockInvalid(block) ==
  \/ block.kind \notin EncodableKinds
  \/ block.kind \in DOMAIN BlockItems /\ block.id = ""
  \/ block.kind \in ToolKinds /\ block.name = <<>>
  \/ block.kind = "encrypted_content" /\ block.text = <<>>
  \/ block.kind = "web_search_call" /\ SearchInvalid(block)

(* Mutant of ItemInTheWay: a reasoning item is not closed either. *)
ItemInTheWayReasoning(e, kind) ==
  kind # "redacted_thinking" /\ ActiveKind(e) \notin {"none", "message"}

(* A failed stop leaves its item behind: nothing but a redacted block can
   start any more. *)
ItemInTheWay(e, kind) ==
  kind # "redacted_thinking" /\ ActiveKind(e) \notin {"none", "message", "reasoning"}

ApplyStartOutOfOrder(event) ==
  /\ Receives(event, "content_block_start")
  /\ StartOutOfOrder(enc, event)
  /\ Refused(event, Counted)

Begun == [Counted EXCEPT !.next_block_index = @ + 1]

(* The index is used up all the same. *)
ApplyStartInvalid(event) ==
  /\ Receives(event, "content_block_start")
  /\ ~StartOutOfOrder(enc, event)
  /\ BlockInvalid(event.block) \/ ItemInTheWay(enc, event.block.kind)
  /\ Refused(event, Begun)

Starting(event, kinds) ==
  /\ Receives(event, "content_block_start")
  /\ event.block.kind \in kinds
  /\ ~StartOutOfOrder(enc, event)
  /\ ~BlockInvalid(event.block) /\ ~ItemInTheWay(enc, event.block.kind)

(* Mutant of Open: the citations of the start are not remembered. *)
OpenUncited(e, event, content_index) ==
  [e EXCEPT !.active_block = Some(
     [index |-> event.index, source |-> event.block, content_index |-> content_index,
      text |-> event.block.text, fragments |-> <<>>, citation_loss_seen |-> FALSE])]

Open(e, event, content_index) ==
  [e EXCEPT !.active_block = Some(
     [index |-> event.index, source |-> event.block, content_index |-> content_index,
      text |-> event.block.text, fragments |-> <<>>,
      citation_loss_seen |-> event.block.citations # <<>>])]

PartAddedOf(kind) ==
  IF kind = "text" THEN "content_part.added" ELSE "reasoning_summary_part.added"

PartDoneOf(kind) ==
  IF kind = "text" THEN "content_part.done" ELSE "reasoning_summary_part.done"

StartLosses(block, ordinal) ==
  (IF block.citations # <<>> THEN <<<<"citations", ordinal>>>> ELSE <<>>)
    \o (IF block.signature # <<>> THEN <<<<"signature", ordinal>>>> ELSE <<>>)

(* start_text_block and start_thinking_block *)
ApplyPartStart(event) ==
  /\ Starting(event, PartKinds)
  /\ LET b == event.block
         ready == WithItem(Begun, b.kind, IF b.kind = "text" THEN "message" ELSE "reasoning")
         active == ready.active_item[1]
         c == Len(active.item.content)
         filled == [ready EXCEPT !.active_item[1].item.content = Append(@, b.text),
                                 !.losses = @ \o StartLosses(b, enc.event_ordinal)]
     IN  Accepted(event,
           Send(Open(filled, event, c),
                <<WirePart(PartAddedOf(b.kind), active.output_index, active.item.id, c,
                           Some(Part("output_text", b.text)))>>))

ApplyRedactedStart(event) ==
  /\ Starting(event, {"redacted_thinking"})
  /\ Accepted(event, Lose(Open(Begun, event, 0), <<"block", enc.event_ordinal>>))

(* start_encrypted_content_block: the data goes out with the item's end. *)
ApplyEncryptedStart(event) ==
  /\ Starting(event, {"encrypted_content"})
  /\ LET ready == WithItem(Begun, "encrypted_content", "reasoning")
     IN  Accepted(event, Open([ready EXCEPT !.active_item[1].item.cipher = event.block.text],
                              event, 0))

(* Mutant of SplitName: the namespace is forgotten. *)
SplitNameBare(name) ==
  IF Len(name) > 1 THEN [ns |-> "", name |-> Tail(name)] ELSE [ns |-> "", name |-> name]

(* A dotted name is split at its first dot. *)
SplitName(name) ==
  IF Len(name) > 1 THEN [ns |-> name[1], name |-> Tail(name)] ELSE [ns |-> "", name |-> name]

CallItem(e, block) ==
  LET kind == BlockItems[block.kind]
      split == SplitName(block.name)
  IN  [Item(kind, GeneratedId(e, kind)) EXCEPT
         !.call_id = block.id, !.name = split.name, !.ns = split.ns, !.input = Some(<<>>),
         !.status = IF kind = "function_call" THEN "in_progress" ELSE ""]

(* A patch call is announced as under way, a patch result as it ended. *)
PatchItem(e, block) ==
  LET kind == BlockItems[block.kind]
  IN  [Item(kind, GeneratedId(e, kind)) EXCEPT
         !.call_id = block.id, !.payload = PayloadOf(block),
         !.status = IF kind = "apply_patch_call" THEN "in_progress" ELSE StatusOf(block)]

SearchItem(block) ==
  [Item("web_search_call", block.id) EXCEPT !.status = StatusOf(block),
                                            !.payload = PayloadOf(block)]

ItemFor(e, block) ==
  CASE block.kind \in ToolKinds -> CallItem(e, block)
    [] block.kind \in ApplyPatchKinds -> PatchItem(e, block)
    [] OTHER -> SearchItem(block)

(* start_function_call_block, start_custom_tool_call_block and the starts
   of the patch blocks and of a web search: an item of its own. *)
ApplyItemStart(event) ==
  /\ Starting(event, DOMAIN BlockItems \union {"web_search_call"})
  /\ LET room == MakeRoom(Begun, event.block.kind)
     IN  Accepted(event, Open(OpenItem(room, ItemFor(enc, event.block)), event, 0))

ApplyBlockStart(event) ==
  \/ ApplyStartOutOfOrder(event)
  \/ ApplyStartInvalid(event)
  \/ ApplyPartStart(event)
  \/ ApplyRedactedStart(event)
  \/ ApplyEncryptedStart(event)
  \/ ApplyItemStart(event)

-----------------------------------------------------------------------------
(* ContentBlockDelta *)

InBlock(e, event) ==
  e.active_block # None /\ (e.active_block # None => event.index = e.active_block[1].index)

(* Mutant of TakesDelta: a custom tool takes the fragments of the other. *)
TakesDeltaOfCalls(kind, type) ==
  \/ kind = "text" /\ type \in {"text_delta", "citation_delta"}
  \/ kind = "thinking" /\ type \in {"thinking_delta", "signature_delta"}
  \/ kind \in ToolKinds /\ type \in {"input_json_delta", "custom_tool_input_delta"}

TakesDelta(kind, type) ==
  \/ kind = "text" /\ type \in {"text_delta", "citation_delta"}
  \/ kind = "thinking" /\ type \in {"thinking_delta", "signature_delta"}
  \/ kind = "tool_use" /\ type = "input_json_delta"
  \/ kind = "custom_tool_use" /\ type = "custom_tool_input_delta"

DeltaAccepted(e, event) ==
  /\ InBlock(e, event)
  /\ TakesDelta(e.active_block[1].source.kind, event.delta.type)

ApplyDeltaRefused(event) ==
  /\ Receives(event, "content_block_delta")
  /\ ~DeltaAccepted(enc, event)
  /\ Refused(event, Counted)

Continuing(event, types) ==
  /\ Receives(event, "content_block_delta")
  /\ event.delta.type \in types
  /\ DeltaAccepted(enc, event)

ActiveIndex == enc.active_item[1].output_index
ActiveId == enc.active_item[1].item.id

ApplyTextDelta(event) ==
  /\ Continuing(event, {"text_delta", "thinking_delta"})
  /\ LET kind == IF event.delta.type = "text_delta" THEN "output_text.delta"
                 ELSE "reasoning_summary_text.delta"
     IN  Accepted(event,
           Send([Counted EXCEPT !.active_block[1].text = @ \o event.delta.text],
                <<WireText(kind, ActiveIndex, ActiveId, enc.active_block[1].content_index,
                           Some(event.delta.text))>>))

(* One loss per block, however many citations it has. *)
ApplyCitationDelta(event) ==
  /\ Continuing(event, {"citation_delta"})
  /\ \/ /\ enc.active_block[1].citation_loss_seen
        /\ Accepted(event, Counted)
     \/ /\ ~enc.active_block[1].citation_loss_seen
        /\ Accepted(event, Lose([Counted EXCEPT !.active_block[1].citation_loss_seen = TRUE],
                                <<"citations", enc.event_ordinal>>))

ApplySignatureDelta(event) ==
  /\ Continuing(event, {"signature_delta"})
  /\ Accepted(event, Lose(Counted, <<"signature", enc.event_ordinal>>))

InputDeltaKind(block) ==
  IF block.kind = "tool_use" THEN "function_call_arguments.delta"
  ELSE "custom_tool_call_input.delta"

SentInput(text) ==
  WireInput(InputDeltaKind(enc.active_block[1].source), ActiveIndex, ActiveId, Some(text))

ApplyInputDelta(event) ==
  /\ Continuing(event, {"input_json_delta", "custom_tool_input_delta"})
  /\ Accepted(event, Send([Counted EXCEPT !.active_block[1].fragments =
                                            Append(@, event.delta.text)],
                          <<SentInput(event.delta.text)>>))

ApplyBlockDelta(event) ==
  \/ ApplyDeltaRefused(event)
  \/ ApplyTextDelta(event)
  \/ ApplyCitationDelta(event)
  \/ ApplySignatureDelta(event)
  \/ ApplyInputDelta(event)

-----------------------------------------------------------------------------
(* ContentBlockStop *)

ApplyStopRefused(event) ==
  /\ Receives(event, "content_block_stop")
  /\ ~InBlock(enc, event)
  /\ Refused(event, Counted)

Stopping(event, kinds) ==
  /\ Receives(event, "content_block_stop")
  /\ InBlock(enc, event)
  /\ enc.active_block[1].source.kind \in kinds

Closed == [Counted EXCEPT !.active_block = None]

ApplySilentStop(event) ==
  /\ Stopping(event, {"redacted_thinking", "encrypted_content"})
  /\ Accepted(event, Closed)

(* Mutant of PartText: the part keeps the text it started with. *)
PartTextAtStart(block) == block.source.text

PartText(block) == block.text

(* stop_text_block and stop_thinking_block: the item stays open. *)
ApplyPartStop(event) ==
  /\ Stopping(event, PartKinds)
  /\ LET block == enc.active_block[1]
         text == PartText(block)
         done == WirePart(PartDoneOf(block.source.kind), ActiveIndex, ActiveId,
                          block.content_index, Some(Part("output_text", text)))
         kept == [Closed EXCEPT
                    !.active_item[1].item.content[block.content_index + 1] = text]
     IN  Accepted(event, Send(kept,
           IF block.source.kind = "thinking" THEN <<done>>
           ELSE <<WireText("output_text.done", ActiveIndex, ActiveId, block.content_index,
                           Some(text)), done>>))

(* A call without fragments sends its input in one. *)
SentFragments(block) ==
  IF block.fragments = <<>> THEN <<block.source.text>> ELSE block.fragments

InputFits(block) == Concat(SentFragments(block)) = block.source.text

(* The block is gone, its item is not. *)
ApplyInputMismatch(event) ==
  /\ Stopping(event, ToolKinds)
  /\ ~InputFits(enc.active_block[1])
  /\ Refused(event, Closed)

InputDone(item) ==
  IF item.kind = "function_call"
  THEN WireArgumentsDone(ActiveIndex, item.id, item.call_id, item.name, "", item.input[1])
  ELSE WireInput("custom_tool_call_input.done", ActiveIndex, item.id, item.input)

(* stop_function_call_block and stop_custom_tool_call_block *)
ApplyCallStop(event) ==
  /\ Stopping(event, ToolKinds)
  /\ InputFits(enc.active_block[1])
  /\ LET block == enc.active_block[1]
         held == IF block.fragments = <<>> THEN <<SentInput(block.source.text)>> ELSE <<>>
         item == [enc.active_item[1].item EXCEPT
                    !.input = Some(block.source.text),
                    !.status = IF block.source.kind = "tool_use" THEN "completed" ELSE @]
     IN  Accepted(event, CloseItem(Send(Closed, Append(held, InputDone(item))), item))

(* The status of a patch is known at last; a search ends as it began. *)
ApplyItemStop(event) ==
  /\ Stopping(event, ApplyPatchKinds \union {"web_search_call"})
  /\ Accepted(event, CloseItem(Closed, [enc.active_item[1].item EXCEPT
                                          !.status = StatusOf(enc.active_block[1].source)]))

ApplyBlockStop(event) ==
  \/ ApplyStopRefused(event)
  \/ ApplySilentStop(event)
  \/ ApplyPartStop(event)
  \/ ApplyInputMismatch(event)
  \/ ApplyCallStop(event)
  \/ ApplyItemStop(event)

-----------------------------------------------------------------------------
(* MessageDelta and MessageDone *)

TerminalOutOfOrder(e) ==
  \/ ~e.started \/ e.active_block # None
  \/ ActiveKind(e) \notin {"none", "message", "reasoning"}

ItemClosed(e) == IF e.active_item = None THEN e ELSE Completed(e)

(* terminal: the status and the event of a stop reason. *)
FinalResponse(event, output) ==
  CASE event.stop_reason = "max_tokens" ->
         Response("incomplete", "none", "max_output_tokens", output, Some(event.usage))
    [] event.stop_reason = "refusal" ->
         Response("failed", "refusal", "", output, Some(event.usage))
    [] OTHER -> Response("completed", "none", "", output, Some(event.usage))

ApplyTerminalOutOfOrder(event) ==
  /\ Receives(event, "message_delta")
  /\ TerminalOutOfOrder(enc)
  /\ Refused(event, Counted)

(* The item was closed before the stop reason is refused: it is in the
   output of a later terminal event, but its end is never sent. *)
ApplyTerminalRefused(event) ==
  /\ Receives(event, "message_delta")
  /\ ~TerminalOutOfOrder(enc) /\ event.stop_reason = "other"
  /\ Refused(event, [ItemClosed(Counted) EXCEPT !.wire = enc.wire])

ApplyTerminal(event) ==
  /\ Receives(event, "message_delta")
  /\ ~TerminalOutOfOrder(enc) /\ event.stop_reason # "other"
  /\ LET closed == [ItemClosed(Counted) EXCEPT !.delta = TRUE]
         response == FinalResponse(event, closed.completed)
         sent == Send(closed, <<WireTerminal(response.status, Some(response))>>)
     IN  Accepted(event, IF event.stop_reason = "stop_sequence"
                         THEN Lose(sent, <<"stop_sequence", -1>>) ELSE sent)

ApplyMessageDone(event) ==
  /\ Receives(event, "message_done")
  /\ \/ ~enc.delta /\ Refused(event, Counted)
     \/ enc.delta /\ Accepted(event, [Counted EXCEPT !.done = TRUE])

Apply(event) ==
  \/ ApplyAfterEnd(event)
  \/ ApplyMessageStart(event)
  \/ ApplyBlockStart(event)
  \/ ApplyBlockDelta(event)
  \/ ApplyBlockStop(event)
  \/ ApplyTerminalOutOfOrder(event)
  \/ ApplyTerminalRefused(event)
  \/ ApplyTerminal(event)
  \/ ApplyMessageDone(event)

Init ==
  /\ enc = NewEncoder
  /\ applied = <<>>
  /\ refused = None

Next ==
  /\ Len(applied) < MaxApplied
  /\ refused # None => enc.event_ordinal <= refused[1].after + MaxResumed
  /\ \E event \in Events : Apply(event)

Spec == Init /\ [][Next]_vars

-----------------------------------------------------------------------------
(* Properties, stated over what was applied and what was received. *)

Faultless == refused = None

BlockOf(k) == CHOOSE j \in 1..k : IsStart(applied[j]) /\ applied[j].index = applied[k].index

(* What the encoder lets through although the grammar forbids it: deltas
   after the signature of a thinking block. *)
Stray(k) ==
  /\ IsDelta(applied[k])
  /\ \E j \in 1..(k - 1) : /\ IsDelta(applied[j]) /\ applied[j].index = applied[k].index
                           /\ applied[j].delta.type = "signature_delta"

(* N-S-1, N-S-2 but for these: everything the encoder accepts is in
   grammar order, with the exact input of every tool. *)
AcceptsLittleElse ==
  Faultless /\ (\A k \in 1..Len(applied) : ~Stray(k)) =>
    InOrder(applied) /\ ToolInputsExact(applied, TRUE)

(* Why the last event of s may be refused although s is in grammar order. *)
Unencodable(s) ==
  LET e == s[Len(s)]
  IN  \/ IsStart(e) /\ BlockInvalid(e.block)
      \/ IsStop(e) /\ ~ToolInputsExact(s, TRUE)
      \/ e.type = "message_delta" /\ e.stop_reason = "other"

(* The first error has a reason: the grammar, or a block or a stop reason
   that Responses cannot express. *)
RefusesOnlyForCause ==
  ~Faultless =>
    LET s == Append(SubSeq(applied, 1, refused[1].after), refused[1].event)
    IN  ~InOrder(s) \/ Unencodable(s)

(* What a client that receives the stream w hears of the items, and of
   item o: the numbers of its parts, the text of its part c, its input and
   the item its end brings. *)
AnnouncedBy(x) == IF x.kind = "output_item.added" THEN <<x>> ELSE <<>>

PartBegunBy(x, o) ==
  IF x.kind \in PartAdded /\ x.output_index = o THEN <<x.content_index>> ELSE <<>>

TextToldBy(x, o, c) ==
  IF x.kind \in PartAdded \union TextDelta /\ x.output_index = o /\ x.content_index = c
  THEN (IF x.kind \in PartAdded THEN x.part[1].text ELSE x.text[1]) ELSE <<>>

InputDeltas == {"function_call_arguments.delta", "custom_tool_call_input.delta"}

InputToldBy(x, o) ==
  IF x.kind \in InputDeltas /\ x.output_index = o THEN x.text[1] ELSE <<>>

EndToldBy(x, o) ==
  IF x.kind = "output_item.done" /\ x.output_index = o THEN <<x.item[1]>> ELSE <<>>

Announced(w) == Concat([n \in 1..Len(w) |-> AnnouncedBy(w[n])])
PartsBegun(w, o) == Concat([n \in 1..Len(w) |-> PartBegunBy(w[n], o)])
TextReceived(w, o, c) == Concat([n \in 1..Len(w) |-> TextToldBy(w[n], o, c)])
InputReceived(w, o) == Concat([n \in 1..Len(w) |-> InputToldBy(w[n], o)])
EndsReceived(w, o) == Concat([n \in 1..Len(w) |-> EndToldBy(w[n], o)])

(* The stream w tells item o of a response as the response does. *)
Repeated(w, o, item) ==
  LET start == Announced(w)[o + 1].item[1]
  IN  /\ Announced(w)[o + 1].output_index = o
      /\ item = [start EXCEPT !.status = item.status, !.cipher = item.cipher,
                              !.content = item.content, !.input = item.input]
      /\ PartsBegun(w, o) = [c \in 1..Len(item.content) |-> c - 1]
      /\ \A c \in 1..Len(item.content) : item.content[c] = TextReceived(w, o, c - 1)
      /\ item.input # None => item.input[1] = InputReceived(w, o)
      /\ EndsReceived(w, o) = <<item>>

(* The terminal event and the stream tell the same: the output repeats
   every item that was announced, in order and as its end told it, each
   part with the text and each call with the input that the deltas
   spelled. *)
TerminalRepeatsStream ==
  Faultless /\ enc.delta =>
    LET output == enc.wire[Len(enc.wire)].response[1].output
    IN  /\ Len(output) = Len(Announced(enc.wire))
        /\ \A o \in 0..(Len(output) - 1) : Repeated(enc.wire, o, output[o + 1])

GapsAt(k) ==
  LET e == applied[k]
      cites(j) == \/ IsStart(applied[j]) /\ applied[j].block.citations # <<>>
                  \/ IsDelta(applied[j]) /\ applied[j].delta.type = "citation_delta"
  IN  CASE IsStart(e) /\ e.block.kind = "redacted_thinking" -> <<<<"block", k - 1>>>>
        [] IsStart(e) /\ e.block.kind # "redacted_thinking" -> StartLosses(e.block, k - 1)
        [] IsDelta(e) /\ e.delta.type = "signature_delta" -> <<<<"signature", k - 1>>>>
        [] IsDelta(e) /\ e.delta.type = "citation_delta" ->
             IF \E j \in BlockOf(k)..(k - 1) : cites(j) THEN <<>> ELSE <<<<"citations", k - 1>>>>
        [] e.type = "message_delta" /\ e.stop_reason = "stop_sequence" ->
             <<<<"stop_sequence", -1>>>>
        [] OTHER -> <<>>

(* README: semantic gaps are never silent.  One loss per redacted block,
   per signature and per block with citations, at the event that brought
   the first of them, and one for a stop sequence; in the order of the
   gaps. *)
LossesInOrderOfGaps ==
  Faultless => enc.losses = Concat([k \in 1..Len(applied) |-> GapsAt(k)])
=============================================================================
