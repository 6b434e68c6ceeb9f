-------------------------- MODULE ReRequestDecoder --------------------------
(***************************************************************************)
(* decode_request (src/rust/crates/oxa-responses/src/decode.rs, with the   *)
(* runs of normalize.rs): a Responses request to the IR.  The head of the  *)
(* request, then apply_patch calls paired with their outputs turn by turn, *)
(* then the items, each or each run of them in one step, then the checks   *)
(* of the whole conversation.                                              *)
(***************************************************************************)
EXTENDS ReItems, FiniteSets

VARIABLES
  wire,        \* the request, fixed
  dec          \* the request under construction, and where the decoder is

NewRequest ==
  [phase |-> "head", at |-> 1, system |-> <<>>, messages |-> <<>>, tools |-> <<>>,
   tool_choice |-> [mode |-> "absent"], groups |-> <<>>, params |-> <<>>,
   native |-> <<>>, dropped |-> {}, losses |-> <<>>]

Request(instructions, tools, tool_choice, input, settings) ==
  [instructions |-> instructions, tools |-> tools, tool_choice |-> tool_choice,
   input |-> input, settings |-> settings]

Fail(d) == [d EXCEPT !.phase = "failed"]

-----------------------------------------------------------------------------
(* Tool definitions.  Containers are flattened into dotted names; a name
   may be taken once.  `form` is "plain", or what a definition has: a
   format or a strictness that is not supported, or a deferred loading
   that is one or is not a boolean. *)

Containers == {"namespace", "toolbox"}
NativeTypes == {"web_search", "mcp"}

NoTools(seen) == [failed |-> FALSE, tools |-> <<>>, seen |-> seen, losses |-> <<>>]

Flattened(path) == FlattenSeq([n \in 1..Len(path) |-> path[n].name])

WithTool(t, tool) ==
  IF tool.name \in t.seen THEN [t EXCEPT !.failed = TRUE]
  ELSE [t EXCEPT !.tools = Append(@, tool), !.seen = @ \union {tool.name}]

ToolNotes(def) == IF def.form = "deferred" THEN {"defer_loading"} ELSE {}

(* The name is taken even when the tool is then left out. *)
NamedTool(t, def, path, loss) ==
  LET name == Qualified(Flattened(path), def.name)
  IN  IF \/ def.name = <<>> \/ name \in t.seen
         \/ def.form = "bad_deferred"
         \/ def.form = "bad_strict" /\ def.kind = "function"
      THEN [t EXCEPT !.failed = TRUE]
      ELSE IF def.form = "bad_format" /\ def.kind = "custom"
      THEN [t EXCEPT !.seen = @ \union {name}, !.losses = Append(@, loss)]
      ELSE WithTool(t, Tool(def.kind, name, path, ToolNotes(def)))

NativeTool(t, def, loss) ==
  CASE def.name # <<>> -> WithTool(t, Tool("native", def.name, <<>>, {}))
    [] def.name = <<>> /\ def.kind \in NativeTypes ->
         WithTool(t, Tool("native", <<def.kind>>, <<>>, {}))
    [] OTHER -> [t EXCEPT !.losses = Append(@, loss)]

RECURSIVE DecodeTool(_, _, _, _)
DecodeTool(t, def, path, loss) ==
  CASE def.kind \in Containers ->
         IF def.name = <<>> \/ def.tools = <<>> THEN [t EXCEPT !.failed = TRUE]
         ELSE FoldLeft(LAMBDA u, child :
                         DecodeTool(u, child, Append(path, [kind |-> def.kind, name |-> def.name]), loss),
                       t, def.tools)
    [] def.kind = "apply_patch" ->
         [t EXCEPT !.tools = Append(@, Tool("apply_patch", <<>>, <<>>, {}))]
    [] def.kind \in {"custom", "function"} -> NamedTool(t, def, path, loss)
    [] OTHER -> NativeTool(t, def, loss)

DecodeTools(defs, place, index) ==
  FoldLeft(LAMBDA t, n : DecodeTool(t, defs[n], <<>>, Loss(place, IF index = 0 THEN n ELSE index, "tool")),
           NoTools({}), [n \in 1..Len(defs) |-> n])

-----------------------------------------------------------------------------
(* The head: instructions, tools, tool choice, settings of the cache. *)

(* A string, or an object with a kind; anything else is a loss. *)
DecodeToolChoice(choice) ==
  LET name == Qualified(choice.namespace, choice.name)
      Mode(mode) == [mode |-> mode, name |-> <<>>, kind |-> "", parallel |-> "unset"]
  IN  CASE choice.form = "absent" -> [mode |-> "absent"]
        [] choice.form \in {"auto", "none"} -> Mode(choice.form)
        [] choice.form = "required" -> Mode("any")
        [] choice.form = "apply_patch" -> [Mode("tool") EXCEPT !.kind = "apply_patch"]
        [] choice.form \in {"function", "custom"} /\ name # <<>> ->
             [Mode("tool") EXCEPT !.name = name, !.kind = choice.form]
        [] OTHER -> [mode |-> "lost"]

WithParallel(choice, parallel) ==
  CASE parallel = "absent" -> choice
    [] parallel # "absent" /\ choice.mode \in {"absent", "lost"} ->
         [mode |-> "auto", name |-> <<>>, kind |-> "", parallel |-> parallel]
    [] OTHER -> [choice EXCEPT !.parallel = parallel]

(* A setting of the request: absent, "ok", an "odd" value, or of the wrong
   type ("bad"). *)
Unset ==
  [s \in {"prompt_cache_key", "prompt_cache_options", "parallel_tool_calls", "metadata",
          "reasoning_summary", "reasoning", "format", "verbosity"} |-> "absent"]

BadBefore == {"prompt_cache_key", "prompt_cache_options", "parallel_tool_calls", "metadata"}

DecodeHead(w) ==
  LET tools == DecodeTools(w.tools, "tools", 0)
      choice == DecodeToolChoice(w.tool_choice)
      system == IF w.instructions = <<>> THEN <<>>
                ELSE <<[role |-> "", value |-> w.instructions[1], notes |-> {}]>>
      lost == IF choice.mode = "lost" THEN <<Loss("tool_choice", 0, "tool_choice")>> ELSE <<>>
      final == WithParallel(choice, w.settings["parallel_tool_calls"])
  IN  IF tools.failed \/ \E s \in BadBefore : w.settings[s] = "bad" THEN Fail(NewRequest)
      ELSE [NewRequest EXCEPT
              !.phase = "pairs", !.system = system, !.tools = tools.tools,
              !.tool_choice = IF final.mode = "lost" THEN [mode |-> "absent"] ELSE final,
              !.native = SelectSeq(<<"prompt_cache_key", "prompt_cache_options">>,
                                   LAMBDA s : w.settings[s] # "absent"),
              !.losses = tools.losses \o lost]

BeginRequest ==
  /\ dec.phase = "head"
  /\ dec' = DecodeHead(wire)
  /\ UNCHANGED wire

-----------------------------------------------------------------------------
(* Pairs.  A turn is a run of assistant items and the run of outputs after
   it; additional_tools items may stand in both. *)

RunEnd(items, first, kind) ==
  LET end == SelectInSubSeq(items, first, Len(items),
                            LAMBDA item : Kind(item) \notin {kind, "marker"})
  IN  IF end = 0 THEN Len(items) + 1 ELSE end

Places(items, first, end, kind) ==
  SelectSeq([n \in 1..(end - first) |-> first + n - 1], LAMBDA k : Kind(items[k]) = kind)

ItemCategory(item) ==
  CASE item.type \in {"function_call", "function_call_output"} -> "function"
    [] item.type \in {"custom_tool_call", "custom_tool_call_output"} -> "custom"
    [] item.type \in {"apply_patch_call", "apply_patch_call_output"} -> "apply_patch"
    [] OTHER -> ""

(* What a patch and its result are worth: an operation or a status nobody
   knows loses both, a missing one is an error. *)
PatchCallLosses(item, k) ==
  (IF item.form = "other" THEN <<Loss("input", k, "operation")>> ELSE <<>>)
    \o (IF item.status \notin {"in_progress", "completed"}
        THEN <<Loss("input", k, "status")>> ELSE <<>>)

PatchResultLosses(item, k) ==
  IF item.status \notin {"completed", "failed"} THEN <<Loss("input", k, "status")>> ELSE <<>>

PatchMalformed(call, result) ==
  \/ call.form = "absent" \/ call.status = ""
  \/ result.form = "parts" \/ result.status = ""

OrPaired(losses, k) == IF losses = <<>> THEN <<Loss("input", k, "type")>> ELSE losses

PairLosses(items, k, r) ==
  LET calls == PatchCallLosses(items[k], k)
      results == PatchResultLosses(items[r], r)
  IN  IF calls \o results = <<>> THEN <<>>
      ELSE OrPaired(calls, k) \o OrPaired(results, r)

SameCall(call, result) ==
  call.call_id = result.call_id /\ ItemCategory(call) = ItemCategory(result)

PairTurn(d, items, first) ==
  LET end == RunEnd(items, first, "assistant")
      next == RunEnd(items, end, "output")
      calls == SelectSeq(Places(items, first, end, "assistant"),
                         LAMBDA k : ItemCategory(items[k]) # "")
      results == Places(items, end, next, "output")
      Patched(places) == SelectSeq(places, LAMBDA k : ItemCategory(items[k]) = "apply_patch")
      patches == Patched(calls) \o Patched(results)
      matched == /\ Len(calls) = Len(results)
                 /\ \A n \in 1..Len(calls) : SameCall(items[calls[n]], items[results[n]])
      pairs == [n \in 1..Len(Patched(calls)) |-> <<Patched(calls)[n], Patched(results)[n]>>]
      dropped == SelectSeq(pairs, LAMBDA p : PairLosses(items, p[1], p[2]) # <<>>)
  IN  IF \/ \E n \in 1..Len(patches) : items[patches[n]].call_id = ""
         \/ \E n, m \in 1..Len(calls) : n < m /\ items[calls[n]].call_id = items[calls[m]].call_id
      THEN Fail(d)
      ELSE IF patches = <<>> THEN [d EXCEPT !.at = next]
      ELSE IF ~matched THEN Fail(d)
      ELSE IF \E n \in 1..Len(pairs) : PatchMalformed(items[pairs[n][1]], items[pairs[n][2]])
      THEN Fail(d)
      ELSE [d EXCEPT
              !.at = next,
              !.dropped = @ \union UNION {{dropped[n][1], dropped[n][2]} : n \in 1..Len(dropped)},
              !.losses = @ \o FlattenSeq([n \in 1..Len(dropped) |->
                                            PairLosses(items, dropped[n][1], dropped[n][2])])]

Pair ==
  /\ dec.phase = "pairs"
  /\ dec' = IF dec.at > Len(wire.input) THEN [dec EXCEPT !.phase = "items", !.at = 1]
            ELSE IF wire.input[dec.at].type = "apply_patch_call_output" THEN Fail(dec)
            ELSE IF IsAssistant(wire.input[dec.at]) THEN PairTurn(dec, wire.input, dec.at)
            ELSE [dec EXCEPT !.at = @ + 1]
  /\ UNCHANGED wire

-----------------------------------------------------------------------------
(* Content.  A part is text, an image or a file written in some form, a
   refusal, or something else. *)

PartLoss(k, field) == Gives(<<>>, <<Loss("input", k, field)>>)

FileForms == {"file_id", "file_url", "file_data"}

PartBlock(part, k, isUser) ==
  CASE part.type = "refusal" ->
         IF isUser THEN PartLoss(k, "type")
         ELSE IF part.form = "absent" THEN Fails
         ELSE Gives(<<Block("refusal", "", <<>>, part.value)>>, <<>>)
    [] part.type = "text" -> Gives(<<TextBlock(part.value)>>, <<>>)
    [] part.type = "image" ->
         IF part.form = "bad" THEN PartLoss(k, "image_url")
         ELSE Gives(<<Block("image", part.form, <<>>, part.value)>>, <<>>)
    [] part.type = "file" ->
         IF ~isUser THEN PartLoss(k, "type")
         ELSE IF part.form \notin FileForms THEN Fails
         ELSE Gives(<<Block("document", part.form, <<>>, part.value)>>,
                    [n \in 1..Len(part.extras) |-> Loss("input", k, part.extras[n])])
    [] OTHER -> PartLoss(k, "type")

(* A breakpoint of the prompt cache stays on the block it stands at. *)
Annotated(block, part) ==
  IF part.breakpoint = "ok" /\ block.kind # "refusal"
  THEN [block EXCEPT !.notes = @ \union {"prompt_cache_breakpoint"}] ELSE block

DecodePart(part, k, isUser) ==
  LET given == PartBlock(part, k, isUser)
  IN  IF part.breakpoint = "bad" THEN Fails
      ELSE [given EXCEPT !.blocks = [n \in 1..Len(@) |-> Annotated(@[n], part)]]

DecodeContent(item, k, isUser) ==
  Together([n \in 1..Len(item.parts) |-> DecodePart(item.parts[n], k, isUser)])

DecodeSystem(d, item, k) ==
  LET given == DecodeContent(item, k, FALSE)
      Texts(blocks) == SelectSeq(blocks, LAMBDA b : b.kind = "text")
      others == SelectSeq(given.blocks, LAMBDA b : b.kind # "text")
      role == IF item.role = "developer" THEN "developer" ELSE ""
  IN  IF given.failed THEN Fail(d)
      ELSE [d EXCEPT
              !.at = @ + 1,
              !.system = @ \o [n \in 1..Len(Texts(given.blocks)) |->
                                 [role |-> role, value |-> Texts(given.blocks)[n].value,
                                  notes |-> Texts(given.blocks)[n].notes]],
              !.losses = @ \o given.losses
                           \o [n \in 1..Len(others) |-> Loss("input", k, "content")]]

DecodeUser(d, item, k) ==
  LET given == DecodeContent(item, k, TRUE)
      content == IF given.blocks = <<>> THEN <<TextBlock(<<>>)>> ELSE given.blocks
  IN  IF given.failed THEN Fail(d)
      ELSE [d EXCEPT !.at = @ + 1,
                     !.messages = Append(@, IrMessage("user", content)),
                     !.losses = @ \o given.losses]

-----------------------------------------------------------------------------
(* Runs.  What an item of a run gives goes to one of three places in the
   message: thinking first, then text, then calls (N-R-5). *)

ReasoningBlocks(item, k) ==
  LET Summary(part) ==
        IF part.type # "summary_text" THEN PartLoss(k, "type")
        ELSE Gives(IF part.value = <<>> THEN <<>>
                   ELSE <<Block("thinking", "", <<>>, part.value)>>,
                   [n \in 1..Len(part.extras) |-> Loss("input", k, part.extras[n])])
      cipher == IF item.cipher = <<>> THEN <<>>
                ELSE <<Block("encrypted_content", "", <<>>, item.cipher)>>
  IN  Together(Append([n \in 1..Len(item.parts) |-> Summary(item.parts[n])],
                      Gives(cipher, <<>>)))

(* Mutant of PatchBlocks: a call whose pair was lost is kept. *)
PatchBlocksKept(d, item, k) ==
  Gives(<<Block("apply_patch_tool_use", item.call_id, <<item.status>>, item.value)>>, <<>>)

PatchBlocks(d, item, k) ==
  Gives(IF k \in d.dropped THEN <<>>
        ELSE <<Block("apply_patch_tool_use", item.call_id, <<item.status>>, item.value)>>, <<>>)

CallBlocks(d, item, k) ==
  LET name == Qualified(item.namespace, item.name)
  IN  CASE item.type = "function_call" ->
             Gives(<<Block("tool_use", item.call_id, name, item.value)>>, <<>>)
        [] item.type = "custom_tool_call" ->
             IF item.form = "absent" \/ item.call_id = "" \/ item.name = <<>> THEN Fails
             ELSE Gives(<<Block("custom_tool_use", item.call_id, name, item.value)>>, <<>>)
        [] item.type = "apply_patch_call" -> PatchBlocks(d, item, k)
        [] item.type = "web_search_call" ->
             IF item.form = "bad" \/ item.call_id = "" \/ item.status = "" THEN Fails
             ELSE Gives(<<[Block("web_search_call", item.call_id, <<item.status>>, item.value)
                             EXCEPT !.notes = {item.form} \intersect {"odd"}]>>,
                        IF item.form = "odd" THEN <<Loss("input", k, "action")>> ELSE <<>>)

Slots == <<"thinking", "text", "calls", "results">>

(* Mutant of SlotOf: a reasoning item stays among the content. *)
SlotOfSpeech(item) ==
  CASE item.type \in {"reasoning", "message"} -> "text"
    [] IsOutput(item) -> "results"
    [] OTHER -> "calls"

SlotOf(item) ==
  CASE item.type = "reasoning" -> "thinking"
    [] item.type = "message" -> "text"
    [] IsOutput(item) -> "results"
    [] OTHER -> "calls"

AssistantBlocks(d, item, k) ==
  CASE item.type = "reasoning" -> ReasoningBlocks(item, k)
    [] item.type = "message" -> DecodeContent(item, k, FALSE)
    [] OTHER -> CallBlocks(d, item, k)

(* A custom tool's output may have parts; anything but texts and images is
   lost, and of what else a part has one field is looked at. *)
CustomOutput(item, k) ==
  LET Extra(part, field) == IF field \in Range(part.extras) THEN <<Loss("input", k, field)>> ELSE <<>>
      Piece(part) ==
        CASE part.type = "text" -> Gives(<<TextBlock(part.value)>>, Extra(part, "image_url"))
          [] part.type = "image" /\ part.value # <<>> ->
               Gives(IF part.form = "bad" THEN <<>>
                     ELSE <<Block("image", part.form, <<>>, part.value)>>,
                     (IF part.form = "bad" THEN <<Loss("input", k, "image_url")>> ELSE <<>>)
                       \o Extra(part, "detail"))
          [] OTHER -> PartLoss(k, "type")
  IN  Together([n \in 1..Len(item.parts) |-> Piece(item.parts[n])])

Result(kind, id, content) == [Block(kind, id, <<>>, <<>>) EXCEPT !.content = content]

OutputBlocks(d, item, k) ==
  CASE item.type = "apply_patch_call_output" ->
         IF k \in d.dropped THEN Gives(<<>>, <<>>)
         ELSE Gives(<<Block("apply_patch_tool_result", item.call_id, <<item.status>>, item.value)>>, <<>>)
    [] item.type = "function_call_output" ->
         IF item.form # "text" THEN Fails
         ELSE Gives(<<Result("tool_result", item.call_id, <<TextBlock(item.value)>>)>>, <<>>)
    [] item.type = "custom_tool_call_output" ->
         IF item.form = "absent" \/ item.call_id = "" THEN Fails
         ELSE LET given == IF item.form = "text" THEN Gives(<<TextBlock(item.value)>>, <<>>)
                           ELSE CustomOutput(item, k)
              IN  Gives(<<[Result("custom_tool_result", item.call_id, given.blocks)
                             EXCEPT !.notes = {item.form}]>>, given.losses)

(* The blocks of a run, each with the item it came from, slot by slot. *)
Run(d, items, places) ==
  LET Blocks(k) == IF IsOutput(items[k]) THEN OutputBlocks(d, items[k], k)
                   ELSE AssistantBlocks(d, items[k], k)
      given == [n \in 1..Len(places) |-> Blocks(places[n])]
      InSlot(slot) ==
        FlattenSeq([n \in 1..Len(places) |->
          IF SlotOf(items[places[n]]) # slot THEN <<>>
          ELSE [m \in 1..Len(given[n].blocks) |->
                  [from |-> places[n], block |-> given[n].blocks[m]]]])
  IN  [failed |-> Together(given).failed, losses |-> Together(given).losses,
       blocks |-> FlattenSeq([s \in 1..Len(Slots) |-> InSlot(Slots[s])])]

(* Where the tools change: before the first block of the earliest item
   after the marker; with no such block, before the next message. *)
MarkerPlace(blocks, k) ==
  LET after == {n \in 1..Len(blocks) : blocks[n].from > k}
  IN  IF after = {} THEN 0
      ELSE CHOOSE n \in after : \A m \in after :
             /\ blocks[n].from <= blocks[m].from
             /\ blocks[n].from = blocks[m].from => n <= m

WithGroup(d, items, k, message, content) ==
  LET item == items[k]
      tools == DecodeTools(item.tools, "input", k)
  IN  IF item.role # "developer" \/ item.form = "absent" \/ tools.failed THEN Fail(d)
      ELSE [d EXCEPT
              !.groups = Append(@, ToolChangeGroup(message, content, tools.tools, item.call_id)),
              !.losses = @ \o tools.losses]

(* Mutant of WithMarkers: every marker goes to the next message. *)
WithMarkersAhead(d, items, markers, blocks) ==
  FoldLeft(LAMBDA e, k :
             WithGroup(e, items, k, Len(d.messages) + 1, MarkerPlace(blocks, k)), d, markers)

WithMarkers(d, items, markers, blocks) ==
  FoldLeft(LAMBDA e, k :
             LET place == MarkerPlace(blocks, k)
                 next == IF place = 0 /\ blocks # <<>> THEN 2 ELSE 1
             IN  WithGroup(e, items, k, Len(d.messages) + next, place),
           d, markers)

DecodeRun(d, items, kind, role) ==
  LET end == RunEnd(items, d.at, kind)
      run == Run(d, items, Places(items, d.at, end, kind))
      marked == WithMarkers(d, items, Places(items, d.at, end, "marker"), run.blocks)
      content == [n \in 1..Len(run.blocks) |-> run.blocks[n].block]
  IN  IF run.failed \/ marked.phase = "failed" THEN Fail(d)
      ELSE [marked EXCEPT
              !.at = end,
              !.messages = IF content = <<>> THEN @ ELSE Append(@, IrMessage(role, content)),
              !.losses = @ \o run.losses]

Decoding(kind) ==
  /\ dec.phase = "items" /\ dec.at <= Len(wire.input)
  /\ Kind(wire.input[dec.at]) = kind
  /\ UNCHANGED wire

SystemItem ==
  /\ Decoding("system")
  /\ dec' = DecodeSystem(dec, wire.input[dec.at], dec.at)

UserItem ==
  /\ Decoding("user")
  /\ dec' = DecodeUser(dec, wire.input[dec.at], dec.at)

UnknownRole ==
  /\ Decoding("unknown role")
  /\ dec' = Fail(dec)

AssistantRun ==
  /\ Decoding("assistant")
  /\ dec' = DecodeRun(dec, wire.input, "assistant", "assistant")

OutputRun ==
  /\ Decoding("output")
  /\ dec' = DecodeRun(dec, wire.input, "output", "user")

AdditionalTools ==
  /\ Decoding("marker")
  /\ dec' = [WithGroup(dec, wire.input, dec.at, Len(dec.messages) + 1, 0) EXCEPT !.at = @ + 1]

UnknownItem ==
  /\ Decoding("unknown type")
  /\ dec' = [dec EXCEPT !.at = @ + 1, !.losses = Append(@, Loss("input", dec.at, "type"))]

-----------------------------------------------------------------------------
(* The end: at least one message, the history of the tools, the settings. *)

CallsOf(message) == SelectSeq(message.content, LAMBDA b : b.kind \in CallKinds)
ResultsOf(message) == SelectSeq(message.content, LAMBDA b : b.kind \in ResultKinds)

Signed(blocks) == [n \in 1..Len(blocks) |-> <<blocks[n].id, Category(blocks[n].kind)>>]

PendingAt(messages, m) ==
  IF m > 1 /\ messages[m - 1].role = "assistant" THEN CallsOf(messages[m - 1]) ELSE <<>>

HasKind(message, kinds) == \E n \in 1..Len(message.content) : message.content[n].kind \in kinds

(* Function calls alone are not checked. *)
HistoryInvalid(messages) ==
  LET checked == (CallKinds \union ResultKinds) \ {"tool_use", "tool_result"}
  IN  /\ \E m \in 1..Len(messages) : HasKind(messages[m], checked)
      /\ \/ messages[1].role # "user" /\ ~HasKind(messages[1], {"web_search_call"})
         \/ \E m \in 1..Len(messages) :
              LET calls == CallsOf(messages[m]) 
                  results == ResultsOf(messages[m])
              IN  IF messages[m].role = "assistant"
                  THEN \/ \E n \in 1..Len(calls) : calls[n].id = "" \/ calls[n].name = <<>>
                       \/ \E n, o \in 1..Len(calls) : n < o /\ calls[n].id = calls[o].id
                  ELSE results # <<>> /\ Signed(results) # Signed(PendingAt(messages, m))

(* An odd value is a loss and the setting unset. *)
SettingLosses(w) ==
  LET odd == SelectSeq(<<"reasoning_summary", "reasoning", "format", "verbosity">>,
                       LAMBDA s : w.settings[s] = "odd")
  IN  [n \in 1..Len(odd) |-> Loss("settings", 0, odd[n])]

WithMessage(d) ==
  IF d.messages # <<>> THEN d
  ELSE [d EXCEPT !.messages = <<IrMessage("user", <<TextBlock(<<>>)>>)>>,
                 !.losses = Append(@, Loss("input", 0, "input"))]

FinishRequest ==
  /\ dec.phase = "items" /\ dec.at > Len(wire.input)
  /\ LET d == WithMessage(dec)
     IN  dec' = IF \/ dec.messages = <<>> /\ dec.system = <<>>
                   \/ HistoryInvalid(d.messages)
                   \/ wire.settings["reasoning"] = "bad" \/ wire.settings["format"] = "bad"
                THEN Fail(dec)
                ELSE [d EXCEPT
                        !.phase = "done",
                        !.params = SelectSeq(<<"reasoning", "format", "verbosity">>,
                                             LAMBDA s : wire.settings[s] = "ok"),
                        !.losses = @ \o SettingLosses(wire)]
  /\ UNCHANGED wire

DecodeItems ==
  \/ SystemItem \/ UserItem \/ UnknownRole \/ AssistantRun \/ OutputRun
  \/ AdditionalTools \/ UnknownItem

DecodeNext == BeginRequest \/ Pair \/ DecodeItems \/ FinishRequest
=============================================================================
