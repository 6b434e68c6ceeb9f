------------------------------- MODULE ReWire -------------------------------
(***************************************************************************)
(* The OpenAI Responses stream event                                       *)
(* (src/rust/crates/oxa-responses/src/types.rs), as much of it as the      *)
(* stream converters tell apart.  An Option is a sequence of at most one   *)
(* element, an absent index is -1, an absent identifier "".                *)
(*                                                                         *)
(* The characters of a tool's name are its segments between dots: the name *)
(* "ns.f" is <<"ns", "f">>, and a namespace is one segment.                *)
(***************************************************************************)
EXTENDS IrStream

None == <<>>
Some(v) == <<v>>

(* An output item.  `input` is the arguments of a function_call or the
   input of a custom_tool_call, `cipher` the encrypted_content, `content`
   the texts of the parts of a message or of a reasoning summary.
   `payload` stands for the operation, the output or the action of a patch
   call, a patch result or a web search: "absent", "malformed",
   "unsupported", "lossy" (usable, with a field the IR does not know) or
   any usable value. *)
Item(kind, id) ==
  [kind |-> kind, id |-> id, role |-> "assistant", call_id |-> "", name |-> <<>>,
   ns |-> "", status |-> "", payload |-> "absent", input |-> None, cipher |-> <<>>,
   content |-> <<>>]

PatchItems == {"apply_patch_call", "apply_patch_call_output"}

(* The name under which a call is known in the IR. *)
QualifiedName(name, ns) ==
  IF ns = "" \/ (Len(name) > 1 /\ name[1] = ns) THEN name ELSE <<ns>> \o name

Part(kind, text) == [kind |-> kind, text |-> text]

Response(status, error, reason, output, usage) ==
  [status |-> status, error |-> error, reason |-> reason, output |-> output,
   usage |-> usage]

WireCreated(response) == [kind |-> "created", response |-> response]
WireItem(kind, o, item) == [kind |-> kind, output_index |-> o, item |-> item]
WirePart(kind, o, id, c, part) ==
  [kind |-> kind, output_index |-> o, item_id |-> id, content_index |-> c, part |-> part]
WireText(kind, o, id, c, text) ==
  [kind |-> kind, output_index |-> o, item_id |-> id, content_index |-> c, text |-> text]
WireInput(kind, o, id, text) ==
  [kind |-> kind, output_index |-> o, item_id |-> id, text |-> text]
WireArgumentsDone(o, id, call_id, name, ns, text) ==
  [kind |-> "function_call_arguments.done", output_index |-> o, item_id |-> id,
   call_id |-> call_id, name |-> name, ns |-> ns, text |-> text]
WireTerminal(kind, response) == [kind |-> kind, response |-> response]
WireOther(kind, o, id, c) ==
  [kind |-> kind, output_index |-> o, item_id |-> id, content_index |-> c]

PartAdded == {"content_part.added", "reasoning_summary_part.added"}
PartDone == {"content_part.done", "reasoning_summary_part.done"}
TextDelta == {"output_text.delta", "reasoning_summary_text.delta"}
TextDone == {"output_text.done", "reasoning_summary_text.done"}
InputEvents ==
  {"function_call_arguments.delta", "function_call_arguments.done",
   "custom_tool_call_input.delta", "custom_tool_call_input.done"}
Terminals == {"completed", "incomplete", "failed"}

KnownEvents ==
  {"created", "output_item.added", "output_item.done"} \union PartAdded \union PartDone
    \union TextDelta \union TextDone \union InputEvents \union Terminals

(* The events there are, for the type invariants. *)
Option(S) == {o \in Seq(S) : Len(o) <= 1}

NativeItems ==
  [kind : Tokens, id : Tokens, role : Tokens, call_id : Tokens, name : Text, ns : Tokens,
   status : Tokens, payload : Tokens, input : Option(Text), cipher : Text,
   content : Seq(Text)]
NativeParts == [kind : Tokens, text : Text]
Responses ==
  [status : Tokens, error : Tokens, reason : Tokens, output : Seq(NativeItems),
   usage : Option(Usages)]

WireEvents ==
  [kind : {"created"}, response : BOOLEAN]
    \union [kind : {"output_item.added", "output_item.done"}, output_index : Int,
            item : Option(NativeItems)]
    \union [kind : PartAdded \union PartDone, output_index : Int, item_id : Tokens,
            content_index : Int, part : Option(NativeParts)]
    \union [kind : TextDelta \union TextDone, output_index : Int, item_id : Tokens,
            content_index : Int, text : Option(Text)]
    \union [kind : InputEvents \ {"function_call_arguments.done"}, output_index : Int,
            item_id : Tokens, text : Option(Text)]
    \union [kind : {"function_call_arguments.done"}, output_index : Int, item_id : Tokens,
            call_id : Tokens, name : Text, ns : Tokens, text : Text]
    \union [kind : Terminals, response : Option(Responses)]
    \union [kind : STRING \ KnownEvents, output_index : Int, item_id : Tokens,
            content_index : Int]
=============================================================================
