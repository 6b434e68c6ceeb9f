-------------------------- MODULE ReRequestEncoder --------------------------
(***************************************************************************)
(* encode_request (src/rust/crates/oxa-responses/src/encode.rs, with the   *)
(* messages of normalize.rs): an IR request to a Responses request.  The   *)
(* head, then the messages one by one with the changes of the tools that   *)
(* stand before and in them, then what stands after the last.              *)
(***************************************************************************)
EXTENDS ReItems, FiniteSets, TLC

VARIABLES
  ir,          \* the request, fixed
  enc          \* the wire request under construction, and where the encoder is

NewWire ==
  [phase |-> "head", at |-> 1, instructions |-> <<>>, tools |-> <<>>,
   tool_choice |-> [mode |-> "absent"], input |-> <<>>, losses |-> <<>>]

EncodeFails(e) == [e EXCEPT !.phase = "failed"]

-----------------------------------------------------------------------------
(* System blocks: the leading ones joined into the instructions, the ones
   from the first developer block on as items of their own; every block an
   item when one has a breakpoint. *)

IsDeveloper(block) == block.role = "developer"

SystemItemOf(block) ==
  Message(IF IsDeveloper(block) THEN "developer" ELSE "system",
          <<[TextPart(block.value) EXCEPT
               !.breakpoint = IF block.notes = {} THEN "absent" ELSE "ok"]>>)

EncodeSystem(blocks) ==
  LET first == SelectInSeq(blocks, IsDeveloper)
      lead == IF \E n \in 1..Len(blocks) : blocks[n].notes # {} THEN 0
              ELSE IF first = 0 THEN Len(blocks) ELSE first - 1
      Text(n) == blocks[n].value
      Rest(n) == SystemItemOf(blocks[lead + n])
  IN  [instructions |-> IF lead = 0 THEN <<>> ELSE <<FlattenSeq([n \in 1..lead |-> Text(n)])>>,
       items |-> [n \in 1..(Len(blocks) - lead) |-> Rest(n)]]

-----------------------------------------------------------------------------
(* Tools.  Neighbours that share the outermost container, or the first
   segment of a dotted name, go into one container; inside it, neighbours
   that share the second one. *)

IsPlainTool(tool) == tool.kind \notin {"native", "apply_patch"}
IsDotted(tool) == Len(tool.name) > 1

SharesOuter(first, next) ==
  /\ IsPlainTool(first) /\ IsPlainTool(next)
  /\ IF first.path # <<>>
     THEN next.path # <<>> /\ next.path[1].name = first.path[1].name
     ELSE IsDotted(first) /\ IsDotted(next) /\ next.name[1] = first.name[1]

SharesInner(first, next) ==
  /\ Len(first.path) >= 2 /\ Len(next.path) >= 2
  /\ first.path[2].name = next.path[2].name

Chunks(tools, inner) ==
  LET Joins(first, next) == IF inner THEN SharesInner(first, next) ELSE SharesOuter(first, next)
  IN  FoldLeft(LAMBDA chunks, tool :
                 IF chunks # <<>> /\ Joins(Head(Last(chunks)), tool)
                 THEN [chunks EXCEPT ![Len(chunks)] = Append(@, tool)]
                 ELSE Append(chunks, <<tool>>),
               <<>>, tools)

ToolForm(tool) == IF "defer_loading" \in tool.notes THEN "deferred" ELSE "plain"

(* Inside a container a tool has the last segment of its name. *)
ChildTool(tool) == ToolDef(tool.kind, <<Last(tool.name)>>, ToolForm(tool), <<>>)

(* With more than one container on the path of the first tool, the others
   are grouped by the second container on theirs, but all go into the one
   on the path of the first; a tool directly in the outer one is skipped. *)
RECURSIVE BuildContainer(_, _)
BuildContainer(path, tools) ==
  LET nested == SelectSeq(Chunks(tools, TRUE), LAMBDA chunk : Len(Head(chunk).path) >= 2)
      Child(n) == IF Len(path) = 1 THEN ChildTool(tools[n]) ELSE BuildContainer(Tail(path), nested[n])
  IN  ToolDef(path[1].kind, path[1].name, "plain",
              [n \in 1..(IF Len(path) = 1 THEN Len(tools) ELSE Len(nested)) |-> Child(n)])

ChunkDef(chunk) ==
  LET tool == Head(chunk)
  IN  CASE IsPlainTool(tool) /\ tool.path # <<>> -> BuildContainer(tool.path, chunk)
        [] IsPlainTool(tool) /\ tool.path = <<>> /\ IsDotted(tool) ->
             BuildContainer(<<[kind |-> "namespace", name |-> <<tool.name[1]>>]>>, chunk)
        [] OTHER -> ToolDef(tool.kind, tool.name, ToolForm(tool), <<>>)

(* A native tool of another provider is lost. *)
IsForeign(tool) == tool.kind = "native" /\ "foreign" \in tool.notes

EncodeTools(tools, place, index) ==
  LET kept == SelectSeq(Chunks(tools, FALSE), LAMBDA chunk : ~IsForeign(Head(chunk)))
      lost == SelectSeq([n \in 1..Len(tools) |-> n], LAMBDA n : IsForeign(tools[n]))
      Def(n) == ChunkDef(kept[n])
      At(n) == Loss(place, IF index = 0 THEN lost[n] ELSE index, "type")
  IN  [tools |-> [n \in 1..Len(kept) |-> Def(n)], losses |-> [n \in 1..Len(lost) |-> At(n)]]

-----------------------------------------------------------------------------
(* The tool choice: dropped when every tool was, or when it names a native
   tool of another provider. *)

(* Mutant of SplitFirst: only the ends of the name are kept. *)
SplitEnds(name) ==
  IF Len(name) > 1 THEN [namespace |-> <<name[1]>>, name |-> <<Last(name)>>]
  ELSE [namespace |-> <<>>, name |-> name]

SplitFirst(name) ==
  IF Len(name) > 1 THEN [namespace |-> <<name[1]>>, name |-> Tail(name)]
  ELSE [namespace |-> <<>>, name |-> name]

NamesForeign(request, choice) ==
  LET named == {n \in 1..Len(request.tools) :
                  request.tools[n].kind = "native" /\ request.tools[n].name = choice.name}
  IN  (choice.kind = "native" \/ named # {}) /\ \A n \in named : IsForeign(request.tools[n])

ChoiceDropped(request, choice, tools) ==
  \/ choice.mode = "any" /\ request.tools # <<>> /\ tools = <<>>
  \/ NamesForeign(request, choice)
  \/ choice.mode = "tool" /\ choice.name = <<>> /\ choice.kind # "apply_patch"

EncodeChoice(choice) ==
  CASE choice.mode \in {"auto", "none"} -> [form |-> choice.mode]
    [] choice.mode = "any" -> [form |-> "required"]
    [] choice.mode = "tool" /\ choice.kind = "apply_patch" -> [form |-> "apply_patch"]
    [] OTHER -> [form |-> IF choice.kind = "custom" THEN "custom" ELSE "function"] @@ SplitFirst(choice.name)

EncodeHead(request) ==
  LET system == EncodeSystem(request.system)
      tools == EncodeTools(request.tools, "tools", 0)
      choice == request.tool_choice
      dropped == choice.mode # "absent" /\ ChoiceDropped(request, choice, tools.tools)
  IN  [NewWire EXCEPT
         !.phase = "messages", !.instructions = system.instructions, !.tools = tools.tools,
         !.tool_choice = IF dropped \/ choice.mode = "absent" THEN [form |-> "absent"]
                         ELSE EncodeChoice(choice),
         !.input = system.items,
         !.losses = tools.losses
                      \o (IF dropped THEN <<Loss("tool_choice", 0, "tool_choice")>> ELSE <<>>)]

-----------------------------------------------------------------------------
(* Content of a user: texts, images and files; a text has no citations. *)

CitationLosses(block, m) ==
  LET sources == SelectSeq(<<"anthropic_citations", "openai_citations">>,
                           LAMBDA note : note \in block.notes)
  IN  [n \in 1..Len(sources) |-> Loss("messages", m, "citations")]

BlockLoss(m, field) == Gives(<<>>, <<Loss("messages", m, field)>>)

Broken(part, block) ==
  IF "prompt_cache_breakpoint" \in block.notes THEN [part EXCEPT !.breakpoint = "ok"] ELSE part

UserPart(block, m) ==
  CASE block.kind = "text" ->
         Gives(<<Broken(TextPart(block.value), block)>>, CitationLosses(block, m))
    [] block.kind = "image" ->
         IF block.id \notin {"url", "data"} THEN BlockLoss(m, "image")
         ELSE Gives(<<Broken([Part("image", block.value) EXCEPT !.form = block.id], block)>>, <<>>)
    [] block.kind = "document" ->
         IF block.id \notin {"file_id", "file_url", "file_data"} THEN BlockLoss(m, "content")
         ELSE Gives(<<Broken([Part("file", block.value) EXCEPT !.form = block.id], block)>>, <<>>)
    [] OTHER -> BlockLoss(m, "content")

ResultText(block, m) ==
  LET Piece(b) == IF b.kind = "text" THEN Gives(b.value, <<>>) ELSE BlockLoss(m, "content")
  IN  Together([n \in 1..Len(block.content) |-> Piece(block.content[n])])

CustomParts(block, m) ==
  LET Piece(b) == IF b.kind \in {"text", "image"} THEN UserPart([b EXCEPT !.notes = {}], m)
                  ELSE BlockLoss(m, "type")
  IN  Together([n \in 1..Len(block.content) |-> Piece(block.content[n])])

ResultItem(block, m) ==
  CASE block.kind = "tool_result" ->
         LET text == ResultText(block, m)
         IN  Gives(<<[Item("function_call_output", block.id) EXCEPT !.form = "text", !.value = text.blocks]>>,
                   text.losses \o (IF "is_error" \in block.notes
                                   THEN <<Loss("messages", m, "is_error")>> ELSE <<>>))
    [] block.kind = "custom_tool_result" ->
         LET parts == CustomParts(block, m)
             item == Item("custom_tool_call_output", block.id)
         IN  IF "text" \in block.notes
             THEN Gives(<<[item EXCEPT !.form = "text", !.value = block.content[1].value]>>, <<>>)
             ELSE Gives(<<[item EXCEPT !.form = "parts", !.parts = parts.blocks]>>, parts.losses)
    [] block.kind = "apply_patch_tool_result" ->
         Gives(<<[Item("apply_patch_call_output", block.id) EXCEPT
                    !.form = "text", !.status = block.name[1], !.value = block.value]>>, <<>>)

(* Results go first (N-R-10). *)
EncodeUser(blocks, m) ==
  LET IsResult(b) == b.kind \in ResultKinds
      results == SelectSeq(blocks, IsResult)
      normal == SelectSeq(blocks, LAMBDA b : ~IsResult(b))
      hoisted == \E i, j \in 1..Len(blocks) : i < j /\ ~IsResult(blocks[i]) /\ IsResult(blocks[j])
      items == Together([n \in 1..Len(results) |-> ResultItem(results[n], m)])
      parts == Together([n \in 1..Len(normal) |-> UserPart(normal[n], m)])
  IN  Gives(items.blocks \o (IF normal = <<>> /\ results # <<>> THEN <<>>
                             ELSE <<Message("user", parts.blocks)>>),
            (IF hoisted THEN <<Loss("messages", m, "ordering")>> ELSE <<>>)
              \o items.losses \o parts.losses)

-----------------------------------------------------------------------------
(* Content of an assistant: reasoning items, one message, the calls. *)

(* Mutant of ReasoningItems: a second cipher replaces the first. *)
ReasoningItemsOpen(blocks) ==
  LET kept == SelectSeq(blocks, LAMBDA b : b.kind \in {"thinking", "encrypted_content"})
      Add(item, b) ==
        IF b.kind = "thinking"
        THEN [item EXCEPT !.parts = Append(@, Part("summary_text", b.value))]
        ELSE [item EXCEPT !.cipher = b.value]
  IN  IF kept = <<>> THEN <<>> ELSE <<FoldLeft(Add, Item("reasoning", ""), kept)>>

(* An encrypted content ends the reasoning item it is in. *)
ReasoningItems(blocks) ==
  LET Open(items) == items # <<>> /\ Last(items).cipher = <<>>
      Reopened(items) == IF Open(items) THEN items ELSE Append(items, Item("reasoning", ""))
      Add(items, b) ==
        LET open == Reopened(items)
        IN  IF b.kind = "thinking"
            THEN [open EXCEPT ![Len(open)].parts = Append(@, Part("summary_text", b.value))]
            ELSE [open EXCEPT ![Len(open)].cipher = b.value]
  IN  FoldLeft(Add, <<>>,
               SelectSeq(blocks, LAMBDA b : \/ b.kind = "thinking"
                                            \/ b.kind = "encrypted_content" /\ b.value # <<>>))

SpeechItem(blocks) ==
  LET speech == SelectSeq(blocks, LAMBDA b : b.kind \in {"text", "refusal"})
      Spoken(b) == IF b.kind = "refusal" THEN Part("refusal", b.value) ELSE TextPart(b.value)
      refused == \E n \in 1..Len(speech) : speech[n].kind = "refusal"
      whole == FlattenSeq([n \in 1..Len(speech) |-> speech[n].value])
  IN  IF speech = <<>> /\ blocks # <<>> THEN <<>>
      ELSE <<Message("assistant",
                     IF refused THEN [n \in 1..Len(speech) |-> Spoken(speech[n])]
                     ELSE <<TextPart(whole)>>)>>

EncodableCalls == CallKinds \union {"web_search_call"}

CallItemOf(block) ==
  LET names == SplitFirst(block.name)
      Call(type) == [Item(type, block.id) EXCEPT !.value = block.value]
      Named(type) == [Call(type) EXCEPT !.namespace = names.namespace, !.name = names.name]
  IN  CASE block.kind = "tool_use" -> Named("function_call")
        [] block.kind = "custom_tool_use" -> Named("custom_tool_call")
        [] block.kind = "apply_patch_tool_use" ->
             [Call("apply_patch_call") EXCEPT !.form = "ok", !.status = block.name[1]]
        [] block.kind = "web_search_call" ->   \* with every field of its action
             [Call("web_search_call") EXCEPT !.form = IF "odd" \in block.notes THEN "odd" ELSE "ok",
                                             !.status = block.name[1]]

AssistantLosses(block, m) ==
  LET Noted(note, field) == IF note \in block.notes THEN <<Loss("messages", m, field)>> ELSE <<>>
  IN  CASE block.kind = "text" -> CitationLosses(block, m)
        [] block.kind = "thinking" -> Noted("signature", "signature")
        [] block.kind = "refusal" -> Noted("category", "category")
        [] block.kind \in EncodableCalls \union {"encrypted_content"} -> <<>>
        [] OTHER -> <<Loss("messages", m, "type")>>

EncodeAssistant(blocks, m) ==
  LET calls == SelectSeq(blocks, LAMBDA b : b.kind \in EncodableCalls)
  IN  Gives(ReasoningItems(blocks) \o SpeechItem(blocks)
              \o [n \in 1..Len(calls) |-> CallItemOf(calls[n])],
            FlattenSeq([n \in 1..Len(blocks) |-> AssistantLosses(blocks[n], m)]))

-----------------------------------------------------------------------------
(* Messages and, at their places, the changes of the tools. *)

Say(e, given) ==
  [e EXCEPT !.input = @ \o given.blocks, !.losses = @ \o given.losses]

GroupsAt(request, m, place) ==
  SelectSeq([g \in 1..Len(request.groups) |-> g],
            LAMBDA g : request.groups[g].message = m /\ request.groups[g].content = place)

(* A group is left out when none of its tools can be sent. *)
WithMarker(e, group, g) ==
  LET sendable == SelectSeq(group.tools, LAMBDA tool : ~IsForeign(tool))
      lost == Len(group.tools) - Len(sendable)
      item == [Item("additional_tools", group.id) EXCEPT
                 !.role = "developer", !.tools = EncodeTools(sendable, "tools", 0).tools]
  IN  Say(e, Gives(IF group.tools # <<>> /\ sendable = <<>> THEN <<>> ELSE <<item>>,
                   [n \in 1..lost |-> Loss("groups", g, "op")]))

WithMarkersAt(e, request, m, place) ==
  FoldLeft(LAMBDA f, g : WithMarker(f, request.groups[g], g), e, GroupsAt(request, m, place))

(* The part of a message between two changes of the tools. *)
WithSegment(e, message, m, first, end) ==
  LET blocks == SubSeq(message.content, first, end - 1)
  IN  Say(e, IF message.role = "user" THEN EncodeUser(blocks, m) ELSE EncodeAssistant(blocks, m))

EncodeMessage(e, request, m) ==
  LET message == request.messages[m]
      Cut(cut, place) ==
        LET before == IF cut.start < place THEN WithSegment(cut.enc, message, m, cut.start, place)
                      ELSE cut.enc
        IN  IF GroupsAt(request, m, place) = <<>> THEN cut
            ELSE [start |-> place, enc |-> WithMarkersAt(before, request, m, place)]
      all == FoldLeft(Cut, [start |-> 1, enc |-> WithMarkersAt(e, request, m, 0)],
                      [place \in 1..(Len(message.content) + 1) |-> place])
  IN  IF all.start <= Len(message.content) \/ message.content = <<>>
      THEN WithSegment(all.enc, message, m, all.start, Len(message.content) + 1)
      ELSE all.enc

(* Errors come before anything is written. *)
GroupMisplaced(request, group) ==
  LET last == Len(request.messages)
  IN  \/ group.message > last + 1
      \/ group.content > 0 /\ group.message > last
      \/ /\ group.content > 0 /\ group.message <= last
         /\ group.content > Len(request.messages[group.message].content) + 1

RequestInvalid(request) ==
  \/ \E n \in 1..Len(request.groups) : GroupMisplaced(request, request.groups[n])
  \/ \E m \in 1..Len(request.messages) : \E n \in 1..Len(request.messages[m].content) :
       LET b == request.messages[m].content[n]
       IN  \/ b.kind \in {"custom_tool_use", "custom_tool_result", "web_search_call"} /\ b.id = ""
           \/ b.kind = "custom_tool_use" /\ b.name = <<>>

WriteHead ==
  /\ enc.phase = "head"
  /\ enc' = IF RequestInvalid(ir) THEN EncodeFails(enc) ELSE EncodeHead(ir)
  /\ UNCHANGED ir

WriteMessage ==
  /\ enc.phase = "messages" /\ enc.at <= Len(ir.messages)
  /\ enc' = [EncodeMessage(enc, ir, enc.at) EXCEPT !.at = enc.at + 1]
  /\ UNCHANGED ir

(* Settings that have no place in a Responses request are lost. *)
ParamLosses(request) ==
  IF "stop_sequences" \in {request.params[n] : n \in 1..Len(request.params)}
  THEN <<Loss("params", 0, "stop_sequences")>> ELSE <<>>

WriteTail ==
  /\ enc.phase = "messages" /\ enc.at > Len(ir.messages)
  /\ LET marked == WithMarkersAt(enc, ir, enc.at, 0)
     IN  enc' = [marked EXCEPT !.phase = "done", !.losses = @ \o ParamLosses(ir)]
  /\ UNCHANGED ir

EncodeNext == WriteHead \/ WriteMessage \/ WriteTail
=============================================================================
