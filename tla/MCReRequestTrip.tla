-------------------------- MODULE MCReRequestTrip ---------------------------
(* Bounded instance: every sequence of up to three items of all kinds,
   longer ones of the kinds that pair and interleave, and a handful of
   heads and of IR requests from other faces. *)
EXTENDS ReRequestTrip

Stamped(item, k) ==
  [item EXCEPT !.value = IF @ = <<>> THEN <<>> ELSE <<10 * k>>,
               !.cipher = IF @ = <<>> THEN <<>> ELSE <<10 * k + 9>>,
               !.parts = [j \in 1..Len(@) |->
                            [@[j] EXCEPT !.value = IF @ = <<>> THEN <<>> ELSE <<10 * k + j>>]]]

Input(items) == [k \in 1..Len(items) |-> Stamped(items[k], k)]

Said == TextPart(<<0>>)
Call(type, id, ns, name) ==
  [Item(type, id) EXCEPT !.namespace = ns, !.name = name, !.value = <<0>>]
PatchCall(op, status) ==
  [Item("apply_patch_call", "p") EXCEPT !.form = op, !.status = status, !.value = <<0>>]
PatchOutput(status) ==
  [Item("apply_patch_call_output", "p") EXCEPT !.form = "text", !.status = status, !.value = <<0>>]
Output(type, id) == [Item(type, id) EXCEPT !.form = "text", !.value = <<0>>]
Reasoning(parts, cipher) == [Item("reasoning", "") EXCEPT !.parts = parts, !.cipher = cipher]
Summary == Part("summary_text", <<0>>)
Fn(name) == ToolDef("function", name, "plain", <<>>)
Marker(tools) == [Item("additional_tools", "m") EXCEPT !.role = "developer", !.tools = tools]
Search(form) == [Item("web_search_call", "w") EXCEPT !.form = form, !.status = "completed", !.value = <<0>>]

Paired ==
  {Message("assistant", <<Said>>), Call("function_call", "f", <<"a">>, <<"b", "f">>),
   PatchCall("ok", "completed"), Output("function_call_output", "f"), PatchOutput("failed"),
   Marker(<<Fn(<<"t">>)>>), Reasoning(<<Summary>>, <<>>), Message("user", <<Said>>)}

Kinds == Paired \union
  {Message("system", <<Said>>), Message("developer", <<Said, [Part("image", <<0>>) EXCEPT !.form = "url"]>>),
   Message("user", <<[Part("image", <<0>>) EXCEPT !.form = "url"], [Part("image", <<0>>) EXCEPT !.form = "bad"],
                     [Said EXCEPT !.breakpoint = "ok"]>>),
   Message("user", <<[Part("file", <<0>>) EXCEPT !.form = "file_id", !.extras = <<"filename">>]>>),
   Message("user", <<Part("refusal", <<0>>)>>), Message("user", <<[Said EXCEPT !.breakpoint = "bad"]>>),
   Message("user", <<Part("file", <<0>>)>>), Message("tool", <<Said>>),
   Message("assistant", <<Part("refusal", <<0>>), [Part("file", <<0>>) EXCEPT !.form = "file_id"]>>),
   PatchCall("other", "completed"), PatchCall("ok", "odd"), PatchCall("absent", "completed"),
   PatchOutput("odd"), Item("other", ""), Search("odd"), Search("bad"),
   Call("custom_tool_call", "c", <<>>, <<"a", "a", "c">>), Call("custom_tool_call", "c", <<"a">>, <<"a", "c">>),
   Output("custom_tool_call_output", "c"),
   [Item("custom_tool_call_output", "c") EXCEPT
      !.form = "parts", !.parts = <<Said, [Part("image", <<0>>) EXCEPT !.form = "bad", !.extras = <<"detail">>]>>],
   Reasoning(<<[Summary EXCEPT !.extras = <<"annotations">>], Part("other", <<0>>)>>, <<0>>)}

Short == UNION {[1..n -> Kinds] : n \in 0..3}
Long == UNION {[1..n -> Paired] : n \in 4..5}

NoChoice == [form |-> "absent"]
Plain(input) == Request(<<>>, <<>>, NoChoice, Input(input), Unset)

Name(n) == <<n>>
Box(kind, name, tools) == ToolDef(kind, name, "plain", tools)
FlatTools ==
  <<Box("namespace", <<"a">>, <<Fn(<<"f">>), ToolDef("custom", <<"a", "c">>, "plain", <<>>)>>),
    ToolDef("apply_patch", <<>>, "plain", <<>>), ToolDef("function", <<"a", "g">>, "deferred", <<>>),
    ToolDef("custom", <<"h">>, "bad_format", <<>>), ToolDef("web_search", <<>>, "plain", <<>>),
    ToolDef("other", <<>>, "plain", <<>>)>>
NestedTools ==
  <<Box("toolbox", <<"a">>, <<Box("namespace", <<"b">>, <<Fn(<<"f">>)>>), Fn(<<"g">>)>>)>>

ToolChoices ==
  {[form |-> f, namespace |-> <<"a">>, name |-> <<"f">>] :
     f \in {"auto", "none", "required", "apply_patch", "function", "custom", "other"}}

Heads ==
  {Request(i, t, c, Input(<<Message("user", <<Said>>)>>), [Unset EXCEPT !["parallel_tool_calls"] = p, !["verbosity"] = v]) :
     i \in {<<>>, << <<0>> >>}, t \in {<<>>, FlatTools, <<Fn(<<>>)>>, <<Fn(Name("f")), Fn(Name("f"))>>},
     c \in ToolChoices, p \in {"absent", "yes", "bad"}, v \in {"absent", "ok", "odd"}}
    \union {Request(<<>>, <<>>, NoChoice, Input(<<Message("user", <<Said>>)>>), [Unset EXCEPT ![s] = v]) :
              s \in DOMAIN Unset, v \in {"ok", "odd"}}

MCRequests == {Plain(input) : input \in Short \union Long} \union Heads

NestedRequests == {Request(<<>>, NestedTools, NoChoice, Input(<<Message("user", <<Said>>)>>), Unset)}

Noted(block, note) == [block EXCEPT !.notes = {note}]

(* What other faces' decoders put into a message of either role. *)
Foreign(role) ==
  IF role = "assistant"
  THEN {Noted(Block("thinking", "", <<>>, <<0>>), "signature"), Block("redacted_thinking", "", <<>>, <<0>>),
        Noted(TextBlock(<<0>>), "openai_citations"), Noted(Block("refusal", "", <<>>, <<0>>), "category"),
        Block("encrypted_content", "", <<>>, <<0>>), Block("tool_use", "f", <<"f">>, <<0>>)}
  ELSE {Block("image", "both", <<>>, <<0>>), Block("tool_reference", "", <<>>, <<0>>), TextBlock(<<0>>),
        Block("document", "file_url", <<>>, <<0>>),
        [Noted(Block("tool_result", "f", <<>>, <<>>), "is_error") EXCEPT
           !.content = <<TextBlock(<<0>>), Block("image", "url", <<>>, <<0>>)>>]}

Ids == <<"i", "j", "k">>

StampedBlock(block, n) ==
  [block EXCEPT !.id = IF @ = "f" THEN Ids[n] ELSE @,
                !.value = IF @ = <<>> THEN <<>> ELSE <<10 * n>>,
                !.content = [j \in 1..Len(@) |-> [@[j] EXCEPT !.value = <<10 * n + j>>]]]

Speech(role, blocks) == IrMessage(role, [n \in 1..Len(blocks) |-> StampedBlock(blocks[n], n)])

Prompt == IrMessage("user", <<TextBlock(<<1>>)>>)
ForeignTools(name) == <<Tool("native", name, <<>>, {"foreign"})>>

IrsOf(role) ==
  {[NewRequest EXCEPT !.messages = <<Prompt, Speech(role, blocks)>>, !.groups = groups,
                      !.tools = ForeignTools(<<"x">>), !.params = <<"stop_sequences">>,
                      !.tool_choice = [mode |-> mode, name |-> <<"x">>, kind |-> "native", parallel |-> "unset"]] :
     blocks \in UNION {[1..n -> Foreign(role)] : n \in 0..3}, mode \in {"any", "tool"},
     groups \in {<<>>, <<ToolChangeGroup(2, 2, ForeignTools(<<"y">>), "g")>>}}

MCIrs == IrsOf("user") \union IrsOf("assistant")
=============================================================================
