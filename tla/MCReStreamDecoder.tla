-------------------------- MODULE MCReStreamDecoder -------------------------
(* Bounded instance: two output indexes, an item of every kind, parts that
   are kept and skipped, a namespaced call, one event for every error path. *)
EXTENDS ReStreamDecoder

Added(o, item) == WireItem("output_item.added", o, Some(item))
Done(o, item) == WireItem("output_item.done", o, Some(item))

Message == Item("message", "m")
Foreign == [Item("message", "u") EXCEPT !.role = "user"]
Reasoning(cipher) == [Item("reasoning", "r") EXCEPT !.cipher = cipher]
Function(name, input) ==
  [Item("function_call", "f") EXCEPT !.call_id = "c1", !.name = name, !.ns = "ns",
                                     !.input = Some(input)]
Custom(input) ==
  [Item("custom_tool_call", "t") EXCEPT !.call_id = "c2", !.name = <<"g">>, !.input = input]
Patch(kind, call_id, status, payload) ==
  [Item(kind, "p") EXCEPT !.call_id = call_id, !.status = status, !.payload = payload]
Search(payload) == [Item("web_search_call", "w") EXCEPT !.status = "ok", !.payload = payload]
Output(call_id) == [Item("function_call_output", "o") EXCEPT !.call_id = call_id]

MCAdded ==
  {WireItem("output_item.added", 0, None), Added(1, Message)}
    \union {Added(0, item) :
              item \in {Message, Foreign, Reasoning(<<"x">>), Function(<<"f">>, <<>>),
                        Function(<<>>, <<>>), Custom(Some(<<>>)), Custom(None),
                        Patch("apply_patch_call", "c3", "in_progress", "valid"),
                        Patch("apply_patch_call_output", "c3", "completed", "absent"),
                        Search("valid"), Output("c1")}}

MCDone ==
  {Done(1, Message)}
    \union {Done(0, item) :
              item \in {Message, Foreign, Reasoning(<<"x">>), Function(<<"f">>, <<"a">>),
                        Function(<<"h">>, <<"a">>), Custom(Some(<<"a">>)), Custom(None),
                        Patch("apply_patch_call", "c3", "completed", "valid"),
                        Patch("apply_patch_call", "c3", "odd", "unsupported"),
                        Patch("apply_patch_call", "c3", "odd", "malformed"),
                        Patch("apply_patch_call", "c4", "completed", "valid"),
                        Patch("apply_patch_call_output", "c3", "failed", "absent"),
                        Search("lossy"), Search("absent"), Output("c1"), Output("c2")}}

MCParts ==
  {WirePart("content_part.added", 0, id, c, Some(Part("output_text", <<"p">>))) :
     id \in {"m", "u"}, c \in {0, 1}}
    \union {WirePart("content_part.added", 0, "m", 0, Some(Part("refusal", <<>>))),
            WirePart("content_part.added", 0, "m", 0, None),
            WirePart("reasoning_summary_part.added", 0, "r", 0, Some(Part("output_text", <<"q">>))),
            WirePart("reasoning_summary_part.added", 0, "u", 0, None),
            WirePart("reasoning_summary_part.done", 0, "r", 0, Some(Part("output_text", <<>>))),
            WirePart("content_part.done", 0, "m", 0, Some(Part("output_text", <<>>))),
            WirePart("content_part.done", 0, "u", 0, Some(Part("output_text", <<>>)))}

MCTexts ==
  {WireText("output_text.delta", 0, "m", 0, Some(<<"t">>)),
   WireText("output_text.delta", 0, "r", 0, None),
   WireText("output_text.delta", 0, "u", 0, None),
   WireText("output_text.done", 0, "m", 0, None),
   WireText("reasoning_summary_text.delta", 0, "r", 0, Some(<<"h">>)),
   WireText("reasoning_summary_text.delta", 0, "m", 0, Some(<<"h">>)),
   WireText("reasoning_summary_text.done", 0, "r", 0, None)}

MCInputs ==
  {WireInput("function_call_arguments.delta", 0, id, Some(<<"a">>)) : id \in {"f", "o", "p", "t"}}
    \union {WireInput("custom_tool_call_input.delta", 0, "t", text) :
              text \in {None, Some(<<"a">>), Some(<<>>)}}
    \union {WireInput("custom_tool_call_input.done", 0, "t", Some(<<"a">>)),
            WireArgumentsDone(0, "f", "c1", <<"f">>, "", <<"a">>),
            WireArgumentsDone(0, "f", "c1", <<"f">>, "", <<>>)}

MCEnds ==
  {WireTerminal("completed", None),
   WireTerminal("completed", Some(Response("completed", "none", "", <<>>, Some(Usage(1, 2))))),
   WireTerminal("completed", Some(Response("completed", "none", "", <<Custom(Some(<<"a">>))>>, None))),
   WireTerminal("completed", Some(Response("completed", "none", "", <<Custom(Some(<<"b">>))>>, None))),
   WireTerminal("completed", Some(Response("completed", "none", "",
     <<Patch("apply_patch_call", "c3", "completed", "valid")>>, None))),
   WireTerminal("completed", Some(Response("completed", "none", "",
     <<Patch("apply_patch_call", "c3", "odd", "unsupported")>>, None))),
   WireTerminal("incomplete", Some(Response("incomplete", "none", "max_output_tokens", <<>>, None))),
   WireTerminal("failed", Some(Response("failed", "refusal", "", <<>>, None))),
   WireTerminal("failed", Some(Response("failed", "none", "", <<>>, None)))}

MCNestedTypes == {"output_text.annotation.added"}

MCEvents ==
  {WireCreated(TRUE), WireCreated(FALSE), WireOther("ping", -1, "", -1), WireOther("note", 0, "u", -1),
   WireOther("note", 0, "p", -1)}
    \union {WireOther(kind, 0, id, IF id = "m" THEN 0 ELSE -1) :
              kind \in MCNestedTypes, id \in {"m", "p"}}
    \union MCAdded \union MCDone \union MCParts \union MCTexts \union MCInputs \union MCEnds
=============================================================================
