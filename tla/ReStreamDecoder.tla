--------------------------- MODULE ReStreamDecoder --------------------------
(***************************************************************************)
(* StreamDecoder of src/rust/crates/oxa-responses/src/streamin.rs:         *)
(* Responses events in, IR events out.  The protocol nests: a response has *)
(* items, a message or reasoning item has parts, a part has text; every    *)
(* event names its item, and the terminal event repeats the items.  Parts  *)
(* pass at once, calls are buffered until their item is done, items and    *)
(* parts that the IR does not know are skipped with all that is in them.   *)
(*                                                                         *)
(* `dec` is the struct; apply_patch_call and apply_patch_result, of which  *)
(* at most one is set and which item_type tells apart, are one Option.     *)
(* encrypted_content_loss_recorded is left out: it is reset where an item  *)
(* is added, right before the only place that reads it.  `events` is every *)
(* event handed to the caller.                                             *)
(***************************************************************************)
EXTENDS ReWire, FiniteSets

CONSTANTS
  Events,      \* the events the provider may send
  MaxFeeds,    \* bound: successful calls of feed considered
  MaxUnits,    \* bound: blocks counted and losses recorded, which repeated
               \* failures of feed may raise too
  NestedTypes, \* event types the IR does not know whose names begin like
               \* those of parts, texts and inputs
  MixesParts   \* the provider may send the text of a summary into an output
               \* text part, or the other way round

ASSUME DecoderAssumption ==
  /\ Events \subseteq WireEvents
  /\ \A e \in Events :   \* arguments is a String, empty when there are none
       (e.kind = "output_item.added" /\ e.item # None /\ e.item[1].kind = "function_call") =>
         e.item[1].input # None
  /\ MaxFeeds \in Nat /\ MaxUnits \in Nat
  /\ MixesParts \in BOOLEAN
  /\ NestedTypes \cap KnownEvents = {}

VARIABLES
  dec,         \* the StreamDecoder
  fed,         \* history: the events feed accepted
  failed       \* history: some call has returned an error

vars == <<dec, fed, failed>>

NewDecoder ==
  [started |-> FALSE, terminated |-> FALSE, flushed |-> FALSE,
   next_output_index |-> 0, next_block_index |-> 0, next_content_index |-> 0,
   item_open |-> FALSE, skipped_item |-> FALSE, item_type |-> "", item_id |-> "",
   skipped_call_id |-> "", output_index |-> 0, function_call |-> None,
   apply_patch |-> None, completed_custom_calls |-> <<>>, completed_items |-> <<>>,
   tool_use_seen |-> FALSE, block_open |-> FALSE, skipped_part |-> FALSE,
   block_index |-> 0, content_index |-> 0, text_done |-> FALSE,
   losses |-> <<>>, events |-> <<>>]

Yields(e, d, events) ==
  /\ dec' = [d EXCEPT !.events = @ \o events]
  /\ fed' = Append(fed, e)
  /\ UNCHANGED failed

Rejects(d) ==
  /\ dec' = d
  /\ failed' = TRUE
  /\ UNCHANGED fed

Lose(d, losses) == [d EXCEPT !.losses = @ \o losses]

Ended == dec.flushed \/ dec.terminated

(* Parts, texts and inputs have no place in a patch item, nor has what is
   named like them. *)
PatchForbids(d, e) ==
  /\ d.apply_patch # None
  /\ e.kind \in PartAdded \union PartDone \union TextDelta \union TextDone \union InputEvents
                \union NestedTypes

Receives(e, kinds) == e.kind \in kinds /\ ~Ended /\ ~PatchForbids(dec, e)

FeedAfterEnd == Ended /\ Rejects(dec)

FeedIntoPatch(e) == ~Ended /\ PatchForbids(dec, e) /\ Rejects(dec)

(* Mutant of Active: the item id is not looked at. *)
ActiveByIndex(d, e) == d.started /\ d.item_open /\ e.output_index = d.output_index

(* require_active_item: the event names the open item. *)
Active(d, e) ==
  /\ d.started /\ d.item_open
  /\ e.output_index = d.output_index
  /\ e.item_id = d.item_id

(* The open item or part is one the IR does not know. *)
InSkipped(d) == d.skipped_item \/ d.skipped_part

PartOpen(d) == d.block_open \/ d.skipped_part

-----------------------------------------------------------------------------
(* response.created and response.output_item.added *)

FeedCreated(e) ==
  /\ Receives(e, {"created"})
  /\ \/ /\ ~dec.started /\ e.response
        /\ Yields(e, [dec EXCEPT !.started = TRUE], <<MessageStart>>)
     \/ /\ dec.started \/ ~e.response
        /\ Rejects(dec)

AddRejected(d, e) ==
  ~d.started \/ d.item_open \/ e.output_index # d.next_output_index \/ e.item = None

(* Opening an item overwrites what the last one left. *)
OpenItem(d, e) ==
  [d EXCEPT !.next_output_index = @ + 1, !.item_open = TRUE,
            !.item_type = e.item[1].kind, !.item_id = e.item[1].id,
            !.output_index = e.output_index, !.skipped_call_id = "",
            !.next_content_index = 0, !.function_call = None]

CallItems == {"function_call", "custom_tool_call"}
KnownItems == {"message", "reasoning", "web_search_call"} \union CallItems \union PatchItems

IsKnown(item) ==
  /\ item.kind \in KnownItems
  /\ item.kind = "message" => item.role = "assistant"

(* The item lacks what its kind requires: it stays open all the same. *)
ItemInvalid(item) ==
  \/ item.kind \in PatchItems \union CallItems /\ (item.id = "" \/ item.call_id = "")
  \/ item.kind \in PatchItems /\ item.status = ""
  \/ item.kind = "apply_patch_call" /\ item.payload = "absent"
  \/ item.kind \in CallItems /\ item.name = <<>>
  \/ item.kind = "custom_tool_call" /\ item.input # Some(<<>>)

Call(item) ==
  [call_id |-> item.call_id, name |-> QualifiedName(item.name, item.ns),
   fragments |-> IF item.kind = "function_call" THEN item.input ELSE <<>>,
   arguments_done |-> FALSE, custom |-> item.kind = "custom_tool_call",
   snapshot |-> None]

Adding(e) == Receives(e, {"output_item.added"}) /\ ~AddRejected(dec, e)

FeedAddRejected(e) ==
  /\ Receives(e, {"output_item.added"})
  /\ AddRejected(dec, e)
  /\ Rejects(dec)

FeedAddInvalid(e) ==
  /\ Adding(e) /\ ItemInvalid(e.item[1])
  /\ Rejects(OpenItem(dec, e))

FeedAddSkipped(e) ==
  /\ Adding(e) /\ ~ItemInvalid(e.item[1]) /\ ~IsKnown(e.item[1])
  /\ LET opened == [OpenItem(dec, e) EXCEPT !.skipped_item = TRUE]
         kept == IF e.item[1].kind = "function_call_output"
                 THEN [opened EXCEPT !.skipped_call_id = e.item[1].call_id] ELSE opened
     IN  Yields(e, Lose(kept, <<<<"item", e.output_index>>>>), <<>>)

FeedAddKnown(e) ==
  /\ Adding(e) /\ ~ItemInvalid(e.item[1]) /\ IsKnown(e.item[1])
  /\ LET item == e.item[1]
         opened == OpenItem(dec, e)
         lost == IF item.kind = "reasoning" /\ item.cipher # <<>>
                 THEN <<<<"cipher", e.output_index>>>> ELSE <<>>
     IN  Yields(e, Lose([opened EXCEPT
                           !.function_call = IF item.kind \in CallItems
                                             THEN Some(Call(item)) ELSE @,
                           !.apply_patch = IF item.kind \in PatchItems
                                           THEN Some(item.call_id) ELSE @], lost), <<>>)

FeedItemAdded(e) ==
  \/ FeedAddRejected(e)
  \/ FeedAddInvalid(e)
  \/ FeedAddSkipped(e)
  \/ FeedAddKnown(e)

-----------------------------------------------------------------------------
(* The parts of a message and of a reasoning summary *)

(* Message parts do not belong to a call; summaries are not checked for it. *)
OutsideCall(d, e, kinds) == e.kind \in kinds => d.function_call = None

PartStartRejected(d, e) ==
  \/ ~Active(d, e)
  \/ ~OutsideCall(d, e, {"content_part.added"})
  \/ PartOpen(d)
  \/ e.content_index # d.next_content_index

NextPart(d, e) ==
  [d EXCEPT !.next_content_index = @ + 1, !.content_index = e.content_index]

(* A summary part of a skipped item needs no part. *)
PartMissing(d, e) ==
  e.part = None /\ (d.skipped_item => e.kind = "content_part.added")

FeedPartRejected(e) ==
  /\ Receives(e, PartAdded)
  /\ PartStartRejected(dec, e)
  /\ Rejects(dec)

StartingPart(e) == Receives(e, PartAdded) /\ ~PartStartRejected(dec, e)

FeedPartMissing(e) ==
  /\ StartingPart(e) /\ PartMissing(dec, e)
  /\ Rejects(NextPart(dec, e))

(* Mutant of FeedSkippedPart: a loss for every part of a skipped item. *)
FeedSkippedPartWithLoss(e) ==
  /\ StartingPart(e) /\ ~PartMissing(dec, e)
  /\ ~dec.skipped_item => e.part[1].kind # "output_text"
  /\ Yields(e, Lose([NextPart(dec, e) EXCEPT !.skipped_part = TRUE],
                    <<<<"part", e.output_index, e.content_index>>>>), <<>>)

FeedSkippedPart(e) ==
  /\ StartingPart(e) /\ ~PartMissing(dec, e)
  /\ ~dec.skipped_item => e.part[1].kind # "output_text"
  /\ Yields(e, Lose([NextPart(dec, e) EXCEPT !.skipped_part = TRUE],
                    IF dec.skipped_item THEN <<>>
                    ELSE <<<<"part", e.output_index, e.content_index>>>>), <<>>)

(* Only a message part brings its text along. *)
PartBlock(e) ==
  IF e.kind = "content_part.added" THEN Block("text", "", <<>>, e.part[1].text)
  ELSE ThinkingBlock

FeedPartStart(e) ==
  /\ StartingPart(e) /\ ~PartMissing(dec, e)
  /\ ~dec.skipped_item /\ e.part[1].kind = "output_text"
  /\ Yields(e, [NextPart(dec, e) EXCEPT !.block_open = TRUE, !.text_done = FALSE,
                                        !.block_index = dec.next_block_index,
                                        !.next_block_index = @ + 1],
            <<BlockStart(dec.next_block_index, PartBlock(e))>>)

TextRejected(d, e) ==
  \/ ~Active(d, e)
  \/ ~OutsideCall(d, e, {"output_text.delta", "output_text.done"})
  \/ e.content_index # d.content_index
  \/ ~InSkipped(d) /\ (~d.block_open \/ d.text_done)

FeedTextRejected(e) ==
  /\ Receives(e, TextDelta \union TextDone)
  /\ TextRejected(dec, e)
  /\ Rejects(dec)

FeedSkippedText(e) ==
  /\ Receives(e, TextDelta \union TextDone)
  /\ ~TextRejected(dec, e) /\ InSkipped(dec)
  /\ Yields(e, dec, <<>>)

TextGiven(option) == IF option = None THEN <<>> ELSE option[1]

DeltaOf(e) ==
  Delta(IF e.kind = "output_text.delta" THEN "text_delta" ELSE "thinking_delta",
        TextGiven(e.text))

FeedTextDelta(e) ==
  /\ Receives(e, TextDelta)
  /\ ~TextRejected(dec, e) /\ ~InSkipped(dec)
  /\ Yields(e, dec, <<BlockDelta(dec.block_index, DeltaOf(e))>>)

FeedTextDone(e) ==
  /\ Receives(e, TextDone)
  /\ ~TextRejected(dec, e) /\ ~InSkipped(dec)
  /\ Yields(e, [dec EXCEPT !.text_done = TRUE], <<>>)

PartDoneRejected(d, e) ==
  \/ ~Active(d, e)
  \/ ~OutsideCall(d, e, {"content_part.done"})
  \/ e.part = None
  \/ e.content_index # d.content_index
  \/ ~InSkipped(d) /\ (~d.block_open \/ (e.kind = "content_part.done" /\ ~d.text_done))

FeedPartDone(e) ==
  /\ Receives(e, PartDone)
  /\ \/ PartDoneRejected(dec, e) /\ Rejects(dec)
     \/ /\ ~PartDoneRejected(dec, e) /\ InSkipped(dec)
        /\ Yields(e, [dec EXCEPT !.skipped_part = FALSE], <<>>)
     \/ /\ ~PartDoneRejected(dec, e) /\ ~InSkipped(dec)
        /\ Yields(e, [dec EXCEPT !.block_open = FALSE], <<BlockStop(dec.block_index)>>)

FeedPart(e) ==
  \/ FeedPartRejected(e)
  \/ FeedPartMissing(e)
  \/ FeedSkippedPart(e)
  \/ FeedPartStart(e)
  \/ FeedTextRejected(e)
  \/ FeedSkippedText(e)
  \/ FeedTextDelta(e)
  \/ FeedTextDone(e)
  \/ FeedPartDone(e)

-----------------------------------------------------------------------------
(* The input of a call *)

FunctionInput == {"function_call_arguments.delta", "function_call_arguments.done"}
InputDeltas == {"function_call_arguments.delta", "custom_tool_call_input.delta"}

(* The name fits the one kept: as it is, qualified, or as its last part. *)
NameMatches(kept, name, ns) ==
  \/ QualifiedName(name, ns) = kept
  \/ name = kept
  \/ name # <<>> /\ Len(name) < Len(kept) /\ IsSuffix(name, kept)

(* What an input event has to agree with before it changes the call. *)
InputAgrees(call, e) ==
  CASE e.kind = "function_call_arguments.delta" -> ~call.arguments_done
    [] e.kind = "custom_tool_call_input.delta" -> ~call.arguments_done /\ e.text # None
    [] e.kind = "function_call_arguments.done" ->
         /\ ~call.arguments_done
         /\ e.call_id = call.call_id
         /\ NameMatches(call.name, e.name, e.ns)
         /\ e.text = Concat(call.fragments)
    [] OTHER ->
         /\ e.text # None
         /\ call.fragments # <<>> => Concat(call.fragments) = e.text[1]
         /\ call.snapshot \in {None, e.text}

InputAccepted(d, e) ==
  /\ Active(d, e)
  /\ d.function_call # None
  /\ d.function_call[1].custom <=> e.kind \notin FunctionInput
  /\ InputAgrees(d.function_call[1], e)

(* Absorbed without a look at anything but the item's identity. *)
InputSkipped(d, e) == d.skipped_item /\ e.kind \in FunctionInput

(* Mutant of TakeInput: a fragment goes in front of the others. *)
TakeInputFirst(call, e) ==
  IF e.kind \in InputDeltas
  THEN [call EXCEPT !.fragments = <<TextGiven(e.text)>> \o @]
  ELSE [call EXCEPT !.arguments_done = TRUE,
                    !.snapshot = IF call.custom THEN e.text ELSE @]

TakeInput(call, e) ==
  IF e.kind \in InputDeltas
  THEN [call EXCEPT !.fragments = Append(@, TextGiven(e.text))]
  ELSE [call EXCEPT !.arguments_done = TRUE,
                    !.snapshot = IF call.custom THEN e.text ELSE @]

FeedInput(e) ==
  /\ Receives(e, InputEvents)
  /\ \/ /\ InputSkipped(dec, e) /\ Active(dec, e)
        /\ Yields(e, dec, <<>>)
     \/ /\ InputSkipped(dec, e) => ~Active(dec, e)
        /\ ~InputAccepted(dec, e)
        /\ Rejects(dec)
     \/ /\ ~InputSkipped(dec, e) /\ InputAccepted(dec, e)
        /\ Yields(e, [dec EXCEPT !.function_call = Some(TakeInput(@[1], e))], <<>>)

-----------------------------------------------------------------------------
(* response.output_item.done *)

DoneMatches(d, e) ==
  /\ d.started /\ d.item_open
  /\ e.output_index = d.output_index
  /\ e.item # None
  /\ e.item[1].id = d.item_id /\ e.item[1].kind = d.item_type

SearchValid(item) ==
  item.payload \notin {"absent", "malformed"} /\ item.id # "" /\ item.status # ""

(* Refused before anything changes. *)
DoneRejected(d, e) ==
  \/ ~DoneMatches(d, e)
  \/ d.item_type = "web_search_call" /\ ~SearchValid(e.item[1])
  \/ /\ d.skipped_item /\ d.item_type = "function_call_output"
     /\ e.item[1].call_id # d.skipped_call_id

(* A block that its start and stop event carry whole. *)
Unit(i, block, deltas) ==
  <<BlockStart(i, block)>>
    \o [k \in 1..Len(deltas) |-> BlockDelta(i, deltas[k])]
    \o <<BlockStop(i)>>

(* The block a finished item adds to those of its parts: an Option. *)
ItemBlock(item) ==
  IF item.kind = "reasoning" /\ item.cipher # <<>>
  THEN Some(Block("encrypted_content", "", <<>>, item.cipher))
  ELSE IF item.kind = "web_search_call"
  THEN Some(Block("web_search_call", item.id, <<>>, <<item.status, item.payload>>))
  ELSE None

CountedBlock(d, e) ==
  LET item == e.item[1]
      lost == IF item.kind = "web_search_call" /\ item.payload = "lossy"
              THEN <<<<"action", e.output_index>>>> ELSE <<>>
  IN  Lose([d EXCEPT !.next_block_index = @ + Len(ItemBlock(item))], lost)

(* Mutant of CloseItem: what was skipped stays skipped. *)
CloseItemStillSkipping(d) ==
  [d EXCEPT !.item_open = FALSE, !.item_type = "", !.item_id = "",
            !.skipped_call_id = "", !.function_call = None]

(* close_stream_item *)
CloseItem(d) ==
  [d EXCEPT !.item_open = FALSE, !.item_type = "", !.item_id = "",
            !.skipped_call_id = "", !.skipped_item = FALSE, !.function_call = None]

(* The patch items: the status and the operation decide whether the IR
   gets a block. *)
KnownStatus(kind) ==
  IF kind = "apply_patch_call" THEN {"in_progress", "completed"} ELSE {"completed", "failed"}

PatchLosses(e) ==
  LET item == e.item[1]
      status == item.status \notin KnownStatus(item.kind)
      operation == item.kind = "apply_patch_call" /\ item.payload = "unsupported"
  IN  (IF status THEN <<<<"status", e.output_index>>>> ELSE <<>>)
        \o (IF operation THEN <<<<"operation", e.output_index>>>> ELSE <<>>)

(* Refused after the patch was taken out of the struct. *)
PatchMismatch(d, item) == item.call_id # d.apply_patch[1] \/ item.status = ""

PayloadInvalid(item) ==
  \/ item.payload = "malformed"
  \/ item.kind = "apply_patch_call" /\ item.payload = "absent"

PatchBlock(item) ==
  Block(IF item.kind = "apply_patch_call" THEN "apply_patch_tool_use"
        ELSE "apply_patch_tool_result",
        item.call_id, <<>>, <<item.status, item.payload>>)

(* Mutant of CallAgrees: the arguments are not compared. *)
CallNamed(call, item) ==
  /\ item.input # None
  /\ item.call_id = call.call_id
  /\ NameMatches(call.name, item.name, item.ns)

(* The finished item repeats the call.  It is refused, if it does not,
   after the call was taken and its index counted. *)
CallAgrees(call, item) ==
  /\ item.input # None
  /\ item.call_id = call.call_id
  /\ NameMatches(call.name, item.name, item.ns)
  /\ call.snapshot \in {None, item.input}
  /\ ~(call.custom /\ call.fragments = <<>>) => item.input[1] = Concat(call.fragments)

CallUnit(i, call, item) ==
  LET fragments == IF call.fragments = <<>> THEN item.input ELSE call.fragments
      type == IF call.custom THEN "custom_tool_input_delta" ELSE "input_json_delta"
  IN  Unit(i, Block(IF call.custom THEN "custom_tool_use" ELSE "tool_use",
                    call.call_id, call.name, item.input[1]),
           [k \in 1..Len(fragments) |-> Delta(type, fragments[k])])

Finishing(e) == Receives(e, {"output_item.done"}) /\ ~DoneRejected(dec, e)

FeedDoneRejected(e) ==
  /\ Receives(e, {"output_item.done"})
  /\ DoneRejected(dec, e)
  /\ Rejects(dec)

(* The item's own block is counted although the call fails. *)
FeedDonePartOpen(e) ==
  /\ Finishing(e) /\ PartOpen(dec)
  /\ Rejects(CountedBlock(dec, e))

PatchTaken == [dec EXCEPT !.apply_patch = None]

FeedPatchMismatch(e) ==
  /\ Finishing(e) /\ ~PartOpen(dec)
  /\ dec.apply_patch # None /\ PatchMismatch(dec, e.item[1])
  /\ Rejects(PatchTaken)

(* The loss of the status is recorded before the payload is refused. *)
FeedPatchInvalid(e) ==
  /\ Finishing(e) /\ ~PartOpen(dec)
  /\ dec.apply_patch # None /\ ~PatchMismatch(dec, e.item[1])
  /\ PayloadInvalid(e.item[1])
  /\ Rejects(Lose(PatchTaken, PatchLosses(e)))

FeedPatchDone(e) ==
  /\ Finishing(e) /\ ~PartOpen(dec)
  /\ dec.apply_patch # None /\ ~PatchMismatch(dec, e.item[1])
  /\ ~PayloadInvalid(e.item[1])
  /\ LET item == e.item[1]
         shown == PatchLosses(e) = <<>>
         taken == [Lose(PatchTaken, PatchLosses(e)) EXCEPT
                     !.completed_items = Append(@, item),
                     !.next_block_index = IF shown THEN @ + 1 ELSE @,
                     !.tool_use_seen = @ \/ (shown /\ item.kind = "apply_patch_call")]
     IN  Yields(e, CloseItem(taken),
                IF shown THEN Unit(dec.next_block_index, PatchBlock(item), <<>>) ELSE <<>>)

CallTaken == [dec EXCEPT !.function_call = None, !.next_block_index = @ + 1]

FeedCallMismatch(e) ==
  /\ Finishing(e) /\ ~PartOpen(dec)
  /\ dec.function_call # None /\ ~CallAgrees(dec.function_call[1], e.item[1])
  /\ Rejects(CallTaken)

FeedCallDone(e) ==
  /\ Finishing(e) /\ ~PartOpen(dec)
  /\ dec.function_call # None /\ CallAgrees(dec.function_call[1], e.item[1])
  /\ LET call == dec.function_call[1]
         saved == [call_id |-> call.call_id, name |-> call.name, input |-> e.item[1].input]
         taken == [CallTaken EXCEPT
                     !.tool_use_seen = TRUE,
                     !.completed_custom_calls = IF call.custom THEN Append(@, saved) ELSE @]
     IN  Yields(e, CloseItem(taken), CallUnit(dec.next_block_index, call, e.item[1]))

FeedOtherDone(e) ==
  /\ Finishing(e) /\ ~PartOpen(dec)
  /\ dec.apply_patch = None /\ dec.function_call = None
  /\ LET block == ItemBlock(e.item[1])
     IN  Yields(e, CloseItem(CountedBlock(dec, e)),
                IF block = None THEN <<>> ELSE Unit(dec.next_block_index, block[1], <<>>))

FeedItemDone(e) ==
  \/ FeedDoneRejected(e)
  \/ FeedDonePartOpen(e)
  \/ FeedPatchMismatch(e)
  \/ FeedPatchInvalid(e)
  \/ FeedPatchDone(e)
  \/ FeedCallMismatch(e)
  \/ FeedCallDone(e)
  \/ FeedOtherDone(e)

-----------------------------------------------------------------------------
(* The terminal events *)

(* The custom calls of a response. *)
CustomCalls(output) == SelectSeq(output, LAMBDA it : it.kind = "custom_tool_call")

(* Mutant of CustomRepeated: only the number of the calls is compared. *)
CustomCounted(output, calls) == Len(CustomCalls(output)) = Len(calls)

(* validate_custom_terminal: the terminal response repeats the custom calls
   that were streamed, in order. *)
CustomRepeated(output, calls) ==
  LET got == CustomCalls(output)
  IN  /\ Len(got) = Len(calls)
      /\ \A k \in 1..Len(got) :
           /\ got[k].input # None
           /\ [call_id |-> got[k].call_id, name |-> got[k].name, input |-> got[k].input]
                = calls[k]

(* Every patch item of the terminal response repeats the first one with
   its id that was streamed. *)
PatchesRepeated(output, items) ==
  \A k \in 1..Len(output) :
    output[k].kind \in PatchItems =>
      \E n \in 1..Len(items) :
        /\ items[n].id = output[k].id
        /\ \A m \in 1..(n - 1) : items[m].id # output[k].id
        /\ items[n].call_id = output[k].call_id
        /\ items[n].status = output[k].status
        /\ items[n].payload = output[k].payload

(* decode_status *)
StopOf(response, calls) ==
  IF response.error # "none" THEN (IF response.error = "refusal" THEN "refusal" ELSE "other")
  ELSE IF response.status = "completed" THEN (IF calls THEN "tool_use" ELSE "end_turn")
  ELSE IF response.status = "incomplete" /\ response.reason = "max_output_tokens"
  THEN "max_tokens" ELSE "other"

StatusKnown(response) ==
  response.error # "none" \/ response.status \in {"completed", "incomplete", "failed"}

TerminalAccepted(d, e) ==
  /\ d.started /\ ~d.item_open /\ ~PartOpen(d)
  /\ e.response # None
  /\ CustomRepeated(e.response[1].output, d.completed_custom_calls)
  /\ PatchesRepeated(e.response[1].output, d.completed_items)
  /\ StatusKnown(e.response[1])

FeedTerminal(e) ==
  /\ Receives(e, Terminals)
  /\ \/ ~TerminalAccepted(dec, e) /\ Rejects(dec)
     \/ /\ TerminalAccepted(dec, e)
        /\ LET response == e.response[1]
               stop == StopOf(response, dec.tool_use_seen)
               usage == IF response.usage = None THEN NoUsage ELSE response.usage[1]
           IN  Yields(e, Lose([dec EXCEPT !.terminated = TRUE],
                              IF stop = "other" THEN <<<<"status", -1>>>> ELSE <<>>),
                      <<MessageDelta(stop, <<>>, usage), MessageDone>>)

(* An event of an unknown type: absorbed inside what is skipped, elsewhere
   a loss, provided that what it names is open. *)
HasIdentity(e) == e.output_index # -1 \/ e.item_id # "" \/ e.content_index # -1

IdentityFits(d, e) ==
  HasIdentity(e) =>
    /\ Active(d, e)
    /\ IF InSkipped(d) THEN (~d.skipped_item => e.content_index = d.content_index)
       ELSE e.content_index = (IF d.block_open THEN d.content_index ELSE -1)

FeedUnknown(e) ==
  /\ ~Ended /\ ~PatchForbids(dec, e) /\ e.kind \notin KnownEvents
  /\ \/ ~IdentityFits(dec, e) /\ Rejects(dec)
     \/ /\ IdentityFits(dec, e) /\ InSkipped(dec) /\ HasIdentity(e)
        /\ Yields(e, dec, <<>>)
     \/ /\ IdentityFits(dec, e)
        /\ HasIdentity(e) => ~InSkipped(dec)
        /\ Yields(e, Lose(dec, <<<<"event", -1>>>>), <<>>)

Feed(e) ==
  \/ FeedAfterEnd
  \/ FeedIntoPatch(e)
  \/ FeedCreated(e)
  \/ FeedItemAdded(e)
  \/ FeedPart(e)
  \/ FeedInput(e)
  \/ FeedItemDone(e)
  \/ FeedTerminal(e)
  \/ FeedUnknown(e)

-----------------------------------------------------------------------------
(* flush *)

FlushRefused ==
  /\ dec.flushed \/ ~dec.terminated
  /\ failed' = TRUE
  /\ UNCHANGED <<dec, fed>>

FlushConfirmed ==
  /\ ~dec.flushed /\ dec.terminated
  /\ dec' = [dec EXCEPT !.flushed = TRUE]
  /\ UNCHANGED <<fed, failed>>

Flush == FlushRefused \/ FlushConfirmed

(* The environment: the text of a part is of the part's kind. *)
MixesPart(e) ==
  /\ e.kind \in TextDelta /\ dec.block_open /\ dec.events # <<>>
  /\ LET start == SelectLastInSeq(dec.events, IsStart)
     IN  start # 0 /\ BlockFamily(dec.events[start].block) # DeltaFamily(DeltaOf(e))

Init ==
  /\ dec = NewDecoder
  /\ fed = <<>>
  /\ failed = FALSE

Next ==
  \/ \E e \in Events :
       /\ Len(fed) < MaxFeeds
       /\ dec.next_block_index + Len(dec.losses) <= MaxUnits
       /\ MixesPart(e) => MixesParts
       /\ Feed(e)
  \/ Flush

Spec == Init /\ [][Next]_vars

-----------------------------------------------------------------------------
(* Properties.  They compare what came out with what went in, read off the
   two histories. *)

Calls ==
  [call_id : Tokens, name : Text, fragments : Seq(Text), arguments_done : BOOLEAN,
   custom : BOOLEAN, snapshot : Option(Text)]
SavedCalls == [call_id : Tokens, name : Text, input : Option(Text)]
Losses ==
  ({"item", "cipher", "action", "status", "operation", "event"} \X Int)
    \union ({"part"} \X Int \X Int)

Decoders ==
  [started : BOOLEAN, terminated : BOOLEAN, flushed : BOOLEAN,
   next_output_index : Nat, next_block_index : Nat, next_content_index : Nat,
   item_open : BOOLEAN, skipped_item : BOOLEAN, item_type : Tokens, item_id : Tokens,
   skipped_call_id : Tokens, output_index : Nat, function_call : Option(Calls),
   apply_patch : Option(Tokens), completed_custom_calls : Seq(SavedCalls),
   completed_items : Seq(NativeItems), tool_use_seen : BOOLEAN, block_open : BOOLEAN,
   skipped_part : BOOLEAN, block_index : Nat, content_index : Nat, text_done : BOOLEAN,
   losses : Seq(Losses), events : Seq(IrEvents)]

(* The struct is consistent: nothing is open outside an open item, at most
   one kind of unit is under way, and the indexes in use are the last ones
   given out. *)
TypeOK ==
  /\ dec \in Decoders /\ failed \in BOOLEAN
  /\ dec.flushed => dec.terminated
  /\ dec.terminated \/ dec.item_open => dec.started
  /\ dec.terminated => ~dec.item_open
  /\ dec.item_open => dec.output_index = dec.next_output_index - 1
  /\ ~dec.item_open => /\ ~InSkipped(dec) /\ ~dec.block_open
                       /\ dec.function_call = None /\ dec.apply_patch = None
  /\ dec.skipped_item => /\ dec.function_call = None /\ dec.apply_patch = None
                         /\ ~dec.block_open
  /\ dec.function_call # None => /\ dec.item_type \in CallItems
                                 /\ dec.function_call[1].custom <=>
                                      dec.item_type = "custom_tool_call"
  /\ dec.apply_patch # None => dec.item_type \in PatchItems /\ ~PartOpen(dec)
  /\ PartOpen(dec) => dec.content_index = dec.next_content_index - 1
  /\ dec.block_open => ~dec.skipped_part /\ dec.block_index < dec.next_block_index

Promised == INSTANCE IrProducer WITH stream <- dec.events

(* The stream handed over honours the contract of IrProducer, as long as
   the text of a part is of the part's kind. *)
HonoursContract == Promised!Spec

AddedUpTo(k) == {j \in 1..k : fed[j].kind = "output_item.added"}
AddedAt(k) == Max(AddedUpTo(k))
AddedItem(k) == fed[AddedAt(k)].item[1]

Among(j, k, kinds) == {i \in j..k : fed[i].kind \in kinds}

NestedKinds == PartAdded \union PartDone \union TextDelta \union TextDone \union InputEvents

(* The items come one after the other and the parts of an item too: what
   names an item comes between its start and its end, under its index and
   its id; items and the parts in one are numbered from 0 without gaps. *)
ItemsDoNotInterleave ==
  ~failed => \A k \in 1..Len(fed) :
    LET e == fed[k]
    IN  /\ e.kind = "output_item.added" =>
             /\ e.output_index = Cardinality(AddedUpTo(k - 1))
             /\ AddedUpTo(k - 1) # {} =>
                  Among(AddedAt(k - 1), k - 1, {"output_item.done"}) # {}
        /\ e.kind \in NestedKinds \union {"output_item.done"} =>
             /\ AddedUpTo(k) # {}
             /\ e.output_index = fed[AddedAt(k)].output_index
             /\ Among(AddedAt(k), k - 1, {"output_item.done"}) = {}
        /\ e.kind \in NestedKinds => e.item_id = AddedItem(k).id
        /\ e.kind \in PartAdded =>
             e.content_index = Cardinality(Among(AddedAt(k), k - 1, PartAdded))

IsKeptPart(k) ==
  /\ fed[k].kind \in PartAdded
  /\ IsKnown(AddedItem(k))
  /\ fed[k].part[1].kind = "output_text"

(* The item done at k: the block it stands for when it is not a call. *)
BlockAtDone(k) ==
  LET item == fed[k].item[1]
  IN  IF item.kind \notin PatchItems THEN ItemBlock(item)
      ELSE IF PatchLosses(fed[k]) = <<>> THEN Some(PatchBlock(item)) ELSE None

IsKeptDone(k) ==
  fed[k].kind = "output_item.done" /\ (fed[k].item[1].kind \in CallItems \/ BlockAtDone(k) # None)

IsKept(k) == IsKeptPart(k) \/ IsKeptDone(k)

KeptBefore(k) == Cardinality({j \in 1..(k - 1) : IsKept(j)})

(* The last part that was added before k, and whether it was kept and is
   still open. *)
PartBefore(k) == Max(Among(1, k - 1, PartAdded))

InKeptPart(k) ==
  /\ Among(1, k - 1, PartAdded) # {}
  /\ IsKeptPart(PartBefore(k))
  /\ Among(PartBefore(k), k - 1, PartDone) = {}

InputFragment(e) == IF e.kind \in InputDeltas THEN <<TextGiven(e.text)>> ELSE <<>>

(* The fragments that came since the item of k was added. *)
InputFragments(k) ==
  LET start == AddedAt(k)
  IN  Concat([n \in 1..(k - start) |-> InputFragment(fed[start + n])])

(* A call, read off its item: under the name its start gives, with the
   fragments in order, or its final input when there is none. *)
CallReading(i, k) ==
  LET item == AddedItem(k)
      texts == InputFragments(k)
      name == QualifiedName(item.name, item.ns)
      input == fed[k].item[1].input[1]
      Carrying(type, ts) == [n \in 1..Len(ts) |-> Delta(type, ts[n])]
  IN  IF item.kind = "function_call"
      THEN Unit(i, ToolUseBlock(item.call_id, name, input),
                Carrying("input_json_delta", item.input \o texts))
      ELSE Unit(i, CustomToolUseBlock(item.call_id, name, input),
                Carrying("custom_tool_input_delta", IF texts = <<>> THEN <<input>> ELSE texts))

DoneReading(i, k) ==
  IF fed[k].item[1].kind \in CallItems THEN CallReading(i, k)
  ELSE Unit(i, BlockAtDone(k)[1], <<>>)

(* A call or a patch for the client was handed over before k. *)
CalledBefore(k) ==
  \E j \in 1..(k - 1) :
    IsKeptDone(j) /\ fed[j].item[1].kind \in CallItems \union {"apply_patch_call"}

TerminalPair(k) ==
  LET response == fed[k].response[1]
  IN  <<MessageDelta(StopOf(response, CalledBefore(k)), <<>>,
                     IF response.usage = None THEN NoUsage ELSE response.usage[1]),
        MessageDone>>

(* What comes out because of the event at k. *)
OutputOf(k) ==
  LET e == fed[k]
      i == KeptBefore(k)
  IN  CASE e.kind = "created" -> <<MessageStart>>
        [] IsKeptPart(k) -> <<BlockStart(i, PartBlock(e))>>
        [] e.kind \in TextDelta /\ InKeptPart(k) ->
             <<BlockDelta(KeptBefore(PartBefore(k)), DeltaOf(e))>>
        [] e.kind \in PartDone /\ InKeptPart(k) -> <<BlockStop(KeptBefore(PartBefore(k)))>>
        [] IsKeptDone(k) -> DoneReading(i, k)
        [] e.kind \in Terminals -> TerminalPair(k)
        [] OTHER -> <<>>

(* N-S-2, N-S-10: what comes out is, event by event, what came in:
   contiguous indexes over the parts and items the IR can carry, every
   fragment in the block of its part, calls whole when their item is done,
   and at the end the reason and the usage of the response. *)
OutputIsItemwise ==
  ~failed => dec.events = Concat([k \in 1..Len(fed) |-> OutputOf(k)])

(* The event at k is inside a part that was skipped. *)
InSkippedPart(k) ==
  \E j \in 1..(k - 1) :
    fed[j].kind \in PartAdded /\ ~IsKeptPart(j) /\ Among(j, k - 1, PartDone) = {}

InSkippedItem(k) ==
  /\ AddedUpTo(k) # {} /\ ~IsKnown(AddedItem(k))
  /\ Among(AddedAt(k), k - 1, {"output_item.done"}) = {}

GapsAt(k) ==
  LET e == fed[k]
  IN  CASE e.kind = "output_item.added" ->
             IF ~IsKnown(e.item[1]) THEN <<<<"item", e.output_index>>>> ELSE <<>>
        [] e.kind \in PartAdded ->
             IF IsKeptPart(k) \/ InSkippedItem(k) THEN <<>>
             ELSE <<<<"part", e.output_index, e.content_index>>>>
        [] e.kind = "output_item.done" ->
             IF e.item[1].kind \in PatchItems THEN PatchLosses(e)
             ELSE IF e.item[1].kind = "web_search_call" /\ e.item[1].payload = "lossy"
             THEN <<<<"action", e.output_index>>>> ELSE <<>>
        [] e.kind \in Terminals ->
             IF StopOf(e.response[1], FALSE) = "other" THEN <<<<"status", -1>>>> ELSE <<>>
        [] e.kind \in {"created"} \union (NestedKinds \ PartAdded) -> <<>>
        [] OTHER ->
             IF HasIdentity(e) /\ (InSkippedItem(k) \/ InSkippedPart(k)) THEN <<>>
             ELSE <<<<"event", -1>>>>

(* What may be called a gap or not: the ciphertext that a reasoning item
   announces, a loss to the code although the end of the item hands it
   over, and the text that the part of a summary starts with, which is
   dropped without a loss. *)
Disputed(k) ==
  LET e == fed[k]
  IN  IF e.kind = "output_item.added"
      THEN IF e.item[1].kind = "reasoning" /\ e.item[1].cipher # <<>>
           THEN <<<<"cipher", e.output_index>>>> ELSE <<>>
      ELSE IF /\ e.kind = "reasoning_summary_part.added"
              /\ IsKeptPart(k) /\ e.part[1].text # <<>>
           THEN <<<<"text", e.output_index, e.content_index>>>> ELSE <<>>

(* N-S-3: an ordered list of losses with one entry for everything that was
   dropped, an item or a part counting once whatever is inside, and with
   nothing else but, at its place, what is Disputed. *)
LossesInOrderOfGaps ==
  ~failed =>
    \E told \in SUBSET {k \in 1..Len(fed) : Disputed(k) # <<>>} :
      dec.losses = Concat([k \in 1..Len(fed) |->
                             GapsAt(k) \o (IF k \in told THEN Disputed(k) ELSE <<>>)])

(* The blocks of a stream, and the custom calls among them, in order. *)
BlocksOf(s) == {s[k].block : k \in {k \in 1..Len(s) : IsStart(s[k])}}

CustomOf(e) ==
  IF IsStart(e) /\ e.block.kind = "custom_tool_use"
  THEN <<<<e.block.id, e.block.name, e.block.text>>>> ELSE <<>>

CustomsOf(s) == Concat([k \in 1..Len(s) |-> CustomOf(s[k])])

(* The blocks that make the model wait for results. *)
CallingKinds == ToolKinds \union {"apply_patch_tool_use"}

(* The patch item that ended at k: as a block, or as a loss of that item. *)
PatchTold(k) ==
  LET item == fed[k].item[1]
  IN  \/ \E b \in BlocksOf(dec.events) :
           /\ b.kind \in ApplyPatchKinds
           /\ b.id = item.call_id /\ b.text = <<item.status, item.payload>>
      \/ \E n \in 1..Len(dec.losses) :
           dec.losses[n] \in {"status", "operation"} \X {fed[k].output_index}

(* The final response and the streamed blocks tell the same story: the
   custom calls in it are those handed over, a patch in it is one that was
   streamed and then handed over or recorded as lost, and the stop reason
   is tool_use, for a completed response, exactly when there was a tool
   block. *)
TerminalAgreesWithStream ==
  ~failed /\ dec.terminated =>
    LET output == fed[Len(fed)].response[1].output
        customs == CustomCalls(output)
        final == dec.events[Len(dec.events) - 1]
        calling == \E b \in BlocksOf(dec.events) : b.kind \in CallingKinds
    IN  /\ [k \in 1..Len(customs) |-> <<customs[k].call_id, customs[k].name, customs[k].input[1]>>]
             = CustomsOf(dec.events)
        /\ \A j \in 1..Len(output) :
             output[j].kind \in PatchItems =>
               \E k \in 1..Len(fed) :
                 /\ fed[k].kind = "output_item.done"
                 /\ fed[k].item[1].id = output[j].id
                 /\ fed[k].item[1].call_id = output[j].call_id
                 /\ fed[k].item[1].status = output[j].status
                 /\ fed[k].item[1].payload = output[j].payload
                 /\ PatchTold(k)
        /\ final.stop_reason = "tool_use" => calling
        /\ final.stop_reason = "end_turn" => ~calling
=============================================================================
