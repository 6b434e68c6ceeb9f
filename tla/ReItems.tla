------------------------------ MODULE ReItems -------------------------------
(***************************************************************************)
(* Whole Responses messages and what they translate to: the items of a     *)
(* request or a response, the parts of their content, tool definitions     *)
(* (src/rust/crates/oxa-responses/src/types.rs), and the blocks, messages, *)
(* tools and losses of the IR (src/rust/crates/oxa-ir/src/request.rs).     *)
(*                                                                         *)
(* Texts, inputs and names are sequences, <<>> the empty one; a name is    *)
(* the sequence of its dotted segments.  Identifiers are strings.          *)
(***************************************************************************)
EXTENDS Integers, Sequences, SequencesExt

-----------------------------------------------------------------------------
(* The IR.  `content` are the blocks of a tool result; `notes` names what
   else a block carries, native annotations, citations, a signature. *)

Block(kind, id, name, value) ==
  [kind |-> kind, id |-> id, name |-> name, value |-> value,
   content |-> <<>>, notes |-> {}]

TextBlock(value) == Block("text", "", <<>>, value)

CallKinds == {"tool_use", "custom_tool_use", "apply_patch_tool_use"}
ResultKinds == {"tool_result", "custom_tool_result", "apply_patch_tool_result"}

(* What a call and its result have to agree on. *)
Category(kind) ==
  CASE kind \in {"tool_use", "tool_result"} -> "function"
    [] kind \in {"custom_tool_use", "custom_tool_result"} -> "custom"
    [] kind \in {"apply_patch_tool_use", "apply_patch_tool_result"} -> "apply_patch"

IrMessage(role, content) == [role |-> role, content |-> content]

(* A tool; `path` are the containers around it. *)
Tool(kind, name, path, notes) ==
  [kind |-> kind, name |-> name, path |-> path, notes |-> notes]

(* A change of the tools in mid-conversation, before block `content` of
   message `message`, or before the whole message when `content` is 0 (the
   code counts from 0, and has -1 for this). *)
ToolChangeGroup(message, content, tools, id) ==
  [message |-> message, content |-> content, tools |-> tools, id |-> id]

Loss(place, index, field) == [place |-> place, index |-> index, field |-> field]

-----------------------------------------------------------------------------
(* The wire.  `form` says how a part or a value is written: see each use. *)

Part(type, value) ==
  [type |-> type, value |-> value, form |-> "plain", breakpoint |-> "absent",
   extras |-> <<>>]

(* A string where the protocol also takes parts. *)
TextPart(value) == Part("text", value)

Item(type, call_id) ==
  [type |-> type, role |-> "", call_id |-> call_id, namespace |-> <<>>, name |-> <<>>,
   parts |-> <<>>, value |-> <<>>, form |-> "plain", status |-> "", cipher |-> <<>>,
   tools |-> <<>>]

Message(role, parts) == [Item("message", "") EXCEPT !.role = role, !.parts = parts]

ToolDef(kind, name, form, tools) ==
  [kind |-> kind, name |-> name, form |-> form, tools |-> tools]

AssistantTypes ==
  {"function_call", "custom_tool_call", "apply_patch_call", "reasoning", "web_search_call"}

OutputTypes == {"function_call_output", "custom_tool_call_output", "apply_patch_call_output"}

IsAssistant(item) ==
  \/ item.type \in AssistantTypes
  \/ item.type = "message" /\ item.role = "assistant"

IsOutput(item) == item.type \in OutputTypes

(* The arm of decode_request an item belongs to. *)
Kind(item) ==
  CASE IsAssistant(item) -> "assistant"
    [] IsOutput(item) -> "output"
    [] item.type = "additional_tools" -> "marker"
    [] item.type = "message" /\ item.role \in {"system", "developer"} -> "system"
    [] item.type = "message" /\ item.role = "user" -> "user"
    [] item.type = "message" /\ item.role \notin {"system", "developer", "user", "assistant"} ->
         "unknown role"
    [] OTHER -> "unknown type"

-----------------------------------------------------------------------------
(* Names.  A name that starts with its namespace is left as it is. *)

Qualified(namespace, name) ==
  IF namespace # <<>> /\ IsPrefix(namespace, name) /\ Len(name) > Len(namespace)
  THEN name ELSE namespace \o name

(* Translations give blocks and losses, or fail. *)
Gives(blocks, losses) == [failed |-> FALSE, blocks |-> blocks, losses |-> losses]

Fails == [failed |-> TRUE, blocks |-> <<>>, losses |-> <<>>]

Together(results) ==
  [failed |-> \E n \in 1..Len(results) : results[n].failed,
   blocks |-> FlattenSeq([n \in 1..Len(results) |-> results[n].blocks]),
   losses |-> FlattenSeq([n \in 1..Len(results) |-> results[n].losses])]
=============================================================================
