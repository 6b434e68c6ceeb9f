------------------------------- MODULE CcWire -------------------------------
(***************************************************************************)
(* The Chat Completions chunk (src/rust/crates/oxa-chatcompletions/src/    *)
(* types.rs), as much of it as the stream converters tell apart.           *)
(*                                                                         *)
(* An Option is a sequence of at most one element.  `choice` stands for    *)
(* choices[0], the only choice either converter looks at; usage keeps the  *)
(* prompt, completion and total counters.                                  *)
(***************************************************************************)
EXTENDS IrStream

None == <<>>
Some(v) == <<v>>

Option(S) == {o \in Seq(S) : Len(o) <= 1}

(* One entry of delta.tool_calls.  `kind` is the "type" property: "absent",
   "function", "custom" or any other value.  `function` and `custom` are
   Options of [name, text]; name is <<>> when absent, text is an Option. *)
CallDelta(index, id, kind, function, custom) ==
  [index |-> index, id |-> id, kind |-> kind, function |-> function,
   custom |-> custom]

Payload(name, text) == [name |-> name, text |-> text]

(* choices[0]: whether the delta carries a role, its tool calls, its
   reasoning_content and its content (Options; an empty reasoning is taken
   for an absent one) and the finish_reason ("absent" when there is none). *)
Choice(role, calls, reasoning, content, finish) ==
  [role |-> role, tool_calls |-> calls, reasoning |-> reasoning,
   content |-> content, finish_reason |-> finish]

WireUsage(prompt, completion, total) ==
  [prompt |-> prompt, completion |-> completion, total |-> total]

Chunk(choice, usage) == [choice |-> choice, usage |-> usage]

(* The chunks that the deserializer lets through.  As in Tokens, the values
   that the encoder writes itself are listed. *)
CallTypes == STRING \union {"absent", "function", "custom"}
FinishReasons ==
  STRING \union {"absent", "stop", "length", "content_filter", "tool_calls"}

NativePayloads == [name : Text, text : Option(Text)]
NativeCalls ==
  [index : Nat, id : Tokens, kind : CallTypes, function : Option(NativePayloads),
   custom : Option(NativePayloads)]
NativeChoices ==
  [role : BOOLEAN, tool_calls : Seq(NativeCalls), reasoning : Option(Text),
   content : Option(Text), finish_reason : FinishReasons]
WireUsages == [prompt : Int, completion : Int, total : Int]

WireChunks == [choice : Option(NativeChoices), usage : Option(WireUsages)]

RoleChunk == Chunk(Some(Choice(TRUE, <<>>, None, None, "absent")), None)
ContentChunk(t) == Chunk(Some(Choice(FALSE, <<>>, None, Some(t), "absent")), None)
ReasoningChunk(t) == Chunk(Some(Choice(FALSE, <<>>, Some(t), None, "absent")), None)
CallChunk(call) == Chunk(Some(Choice(FALSE, <<call>>, None, None, "absent")), None)
FinishChunk(finish, usage) == Chunk(Some(Choice(FALSE, <<>>, None, None, finish)), Some(usage))
UsageChunk(usage) == Chunk(None, Some(usage))
=============================================================================
