--------------------------- MODULE ReRequestTrip ----------------------------
(***************************************************************************)
(* Requests through a gateway: a Responses request is decoded, the IR is   *)
(* encoded as a Responses request, and both once more.  The gateway may    *)
(* also begin with an IR request that another face decoded.                *)
(***************************************************************************)
EXTENDS ReRequestDecoder, ReRequestEncoder

CONSTANTS
  Requests,    \* Responses requests: every text its own number
  Irs          \* IR requests of other faces

(* An item's texts are 10k + 1, 10k + 2, ... where k is its place. *)
VARIABLES
  round,       \* 1 and 3: decoding; 2 and 4: encoding
  written      \* in rounds 3 and 4: the IR of round 2

allVars == <<wire, dec, ir, enc, round, written>>

WireOf(e, request) ==
  LET Set(names) == [s \in Range(names) \intersect DOMAIN Unset |-> "ok"]
      parallel == IF request.tool_choice.mode = "absent" \/ request.tool_choice.parallel = "unset"
                  THEN "absent" ELSE request.tool_choice.parallel
  IN  Request(e.instructions, e.tools, e.tool_choice, e.input,
              [parallel_tool_calls |-> parallel] @@ Set(request.params) @@ Set(request.native)
                @@ Unset)

TripInit ==
  /\ enc = NewWire /\ written = NewRequest
  /\ \/ /\ round = 1 /\ wire \in Requests
        /\ dec = NewRequest /\ ir = NewRequest
     \/ /\ round = 2 /\ ir \in Irs
        /\ wire = Request(<<>>, <<>>, [form |-> "absent"], <<>>, Unset) /\ dec = ir

Decode ==
  /\ round \in {1, 3} /\ DecodeNext
  /\ UNCHANGED <<ir, enc, round, written>>

Encode ==
  /\ round \in {2, 4} /\ EncodeNext
  /\ UNCHANGED <<wire, dec, round, written>>

Decoded ==
  /\ round \in {1, 3} /\ dec.phase = "done"
  /\ round' = round + 1
  /\ ir' = dec /\ enc' = NewWire
  /\ UNCHANGED <<wire, dec, written>>

Encoded ==
  /\ round = 2 /\ enc.phase = "done"
  /\ round' = 3
  /\ wire' = WireOf(enc, ir) /\ dec' = NewRequest /\ written' = ir
  /\ UNCHANGED <<ir, enc>>

TripNext == Decode \/ Encode \/ Decoded \/ Encoded

TripSpec == TripInit /\ [][TripNext]_allVars

-----------------------------------------------------------------------------
ItemTokens(item) ==
  item.value \o FlattenSeq([n \in 1..Len(item.parts) |-> item.parts[n].value]) \o item.cipher

BlockTokens(block) ==
  block.value \o FlattenSeq([n \in 1..Len(block.content) |-> block.content[n].value])

MessageTokens(message) ==
  FlattenSeq([n \in 1..Len(message.content) |-> BlockTokens(message.content[n])])

SystemTokens(d) == FlattenSeq([n \in 1..Len(d.system) |-> d.system[n].value])

Tokens(d) ==
  SystemTokens(d) \o FlattenSeq([m \in 1..Len(d.messages) |-> MessageTokens(d.messages[m])])

WireTokens(w) ==
  FlattenSeq(w.instructions) \o FlattenSeq([k \in 1..Len(w.input) |-> ItemTokens(w.input[k])])

HowOften(token, tokens) == Cardinality({n \in 1..Len(tokens) : tokens[n] = token})

LostAt(losses, place, index) ==
  \E n \in 1..Len(losses) : losses[n].place = place /\ losses[n].index = index

Ascending(tokens) == \A n \in 1..(Len(tokens) - 1) : tokens[n] < tokens[n + 1]

Rank(block) ==
  CASE block.kind \in {"thinking", "encrypted_content"} -> 1
    [] block.kind \in {"text", "refusal", "image", "document"} -> 2
    [] OTHER -> 3

Ranked(message, rank) ==
  MessageTokens([message EXCEPT !.content = SelectSeq(@, LAMBDA b : Rank(b) = rank)])

Sorted(message) == MessageTokens(message) = Ranked(message, 1) \o Ranked(message, 2) \o Ranked(message, 3)

DecodedFirst == round = 1 /\ dec.phase = "done"

(* N-R-3 to N-R-6, and the loss policy: every text of the request is in
   the IR once, or its item has a loss; messages and, within a message,
   thinking, then content, then calls are in the order of the items. *)
ContentCarriedInOrder ==
  DecodedFirst =>
    /\ \A k \in 1..Len(wire.input) : \A n \in 1..Len(ItemTokens(wire.input[k])) :
         LET often == HowOften(ItemTokens(wire.input[k])[n], Tokens(dec))
         IN  often <= 1 /\ (often = 0 => LostAt(dec.losses, "input", k))
    /\ Ascending(SystemTokens(dec))
    /\ \A m \in 1..Len(dec.messages) :
         /\ Sorted(dec.messages[m])
         /\ \A rank \in 1..3 : Ascending(Ranked(dec.messages[m], rank))
         /\ \A o \in 1..(m - 1) :
              \A i \in 1..Len(MessageTokens(dec.messages[o])) :
                \A j \in 1..Len(MessageTokens(dec.messages[m])) :
                  MessageTokens(dec.messages[o])[i] < MessageTokens(dec.messages[m])[j]

(* INV-3: an apply_patch call is answered by the next message, at its
   place among the results, or both are gone, each with a loss of its own. *)
PatchesAnswered ==
  DecodedFirst =>
    /\ \A m \in 1..Len(dec.messages) :
         LET message == dec.messages[m]
             before == IF m > 1 THEN CallsOf(dec.messages[m - 1]) ELSE <<>>
             after == IF m < Len(dec.messages) THEN ResultsOf(dec.messages[m + 1]) ELSE <<>>
             Matched(blocks, others, kind, otherKind) ==
               \A n \in 1..Len(blocks) :
                 blocks[n].kind = kind =>
                   /\ n <= Len(others)
                   /\ others[n].kind = otherKind /\ others[n].id = blocks[n].id
         IN  /\ Matched(CallsOf(message), after, "apply_patch_tool_use", "apply_patch_tool_result")
             /\ Matched(ResultsOf(message), before, "apply_patch_tool_result", "apply_patch_tool_use")
    /\ \A k \in dec.dropped : LostAt(dec.losses, "input", k)

(* N-R-15: an additional_tools item takes effect between the blocks of the
   items before it and those after it, also within a run.  When thinking
   moved ahead of a call, it is before the first block of a later item. *)
ToolsChangeInPlace ==
  DecodedFirst =>
    LET markers == Places(wire.input, 1, Len(wire.input) + 1, "marker")
    IN  /\ Len(markers) = Len(dec.groups)
        /\ \A g \in 1..Len(markers) :
             LET Earlier(tokens) == \A n \in 1..Len(tokens) : tokens[n] < 10 * markers[g]
                 Later(tokens) == \A n \in 1..Len(tokens) : tokens[n] > 10 * markers[g]
                 group == dec.groups[g]
                 home == IF group.message \in 1..Len(dec.messages)
                         THEN dec.messages[group.message] ELSE IrMessage("user", <<>>)
                 Between(first, last) ==
                   MessageTokens([home EXCEPT !.content = SubSeq(@, first, last)])
             IN  /\ group.message \in 1..(Len(dec.messages) + 1)
                 /\ \A m \in 1..Len(dec.messages) :
                      /\ m < group.message => Earlier(MessageTokens(dec.messages[m]))
                      /\ m > group.message => Later(MessageTokens(dec.messages[m]))
                 /\ group.content = 0 => Later(MessageTokens(home))
                 /\ group.content > 0 =>
                      /\ Later(Between(group.content, group.content))
                      /\ Ascending(MessageTokens(home)) =>
                           /\ Earlier(Between(1, group.content - 1))
                           /\ Later(Between(group.content, Len(home.content)))

(* The loss policy: every text of the IR is in the request once, or its
   message has a loss. *)
NothingLostUnsaid ==
  (round = 2 /\ enc.phase = "done") =>
    LET out == WireTokens(WireOf(enc, ir))
    IN  /\ \A n \in 1..Len(SystemTokens(ir)) : HowOften(SystemTokens(ir)[n], out) = 1
        /\ \A m \in 1..Len(ir.messages) : \A n \in 1..Len(MessageTokens(ir.messages[m])) :
             LET often == HowOften(MessageTokens(ir.messages[m])[n], out)
             IN  often <= 1 /\ (often = 0 => LostAt(enc.losses, "messages", m))

Names(tools) ==
  LET own == SelectSeq(tools, LAMBDA tool : ~IsForeign(tool))
  IN  [n \in 1..Len(own) |-> <<own[n].kind, own[n].name>>]

(* The decoder takes a name that starts with its namespace for a whole
   name: a.a.b comes back as a.b. *)
NamesDoNotRepeat(request) ==
  \A m \in 1..Len(request.messages) : \A n \in 1..Len(request.messages[m].content) :
    LET name == request.messages[m].content[n].name
    IN  Len(name) > 2 => name[1] # name[2]

(* Items nobody knows are left out and system items moved to the front, so
   that messages of the assistant on both sides of one are one message the
   next time. *)
MessagesApart(request) ==
  \A m \in 2..Len(request.messages) :
    request.messages[m].role = "assistant" => request.messages[m - 1].role = "user"

(* A change of the tools that cannot be sent still cuts the message it is
   in: text behind it stays behind the calls before it, until the message
   is written once more. *)
ChangesSendable(request) ==
  \A g \in 1..Len(request.groups) :
    \E n \in 1..Len(request.groups[g].tools) : ~IsForeign(request.groups[g].tools[n])

CallNames(request) ==
  {<<b.id, b.name>> : b \in UNION {{c \in Range(request.messages[m].content) : c.kind \in CallKinds} :
                                     m \in 1..Len(request.messages)}}

(* Tools one container deep: see ToolsReadBack. *)
ToolsShallow(request) ==
  \A n \in 1..Len(request.tools) :
    LET tool == request.tools[n]
    IN  Len(tool.path) <= 1 /\ Len(tool.name) <= 2

(* A message without content comes back as one with an empty text. *)
Worded(input) ==
  LET Bare(item) == [item EXCEPT !.parts = SelectSeq(@, LAMBDA part : part.value # <<>>)]
  IN  [k \in 1..Len(input) |-> Bare(input[k])]

(* A web search is handed on with what the IR does not know of its action,
   and every decoder records that. *)
OddSearches(input) ==
  LET odd == SelectSeq([k \in 1..Len(input) |-> k],
                       LAMBDA k : input[k].type = "web_search_call" /\ input[k].form = "odd")
  IN  [n \in 1..Len(odd) |-> Loss("input", odd[n], "action")]

(* What the encoder wrote is read without a loss, but for those of web
   searches, and written again just the same: translating a request once
   more changes nothing. *)
WrittenRequestIsStable ==
  (/\ round >= 3
   /\ NamesDoNotRepeat(written) /\ MessagesApart(written) /\ ChangesSendable(written)) =>
    /\ dec.phase # "failed" /\ enc.phase # "failed"
    /\ dec.phase = "done" => dec.losses = OddSearches(wire.input)
    /\ (round = 3 /\ dec.phase = "done") => CallNames(dec) = CallNames(written)
    /\ (round = 3 /\ dec.phase = "done" /\ ToolsShallow(written)) =>
         Names(dec.tools) = Names(written.tools)
    /\ (round = 4 /\ enc.phase = "done") =>
         /\ enc.losses = <<>>
         /\ Worded(WireOf(enc, ir).input) = Worded(wire.input)
         /\ enc.instructions = wire.instructions
         /\ enc.tool_choice = wire.tool_choice

(* src/spec/11-mapping-openai-responses.md, N-R-15: the containers of the
   tools are reconstructed from the paths the decoder kept.  They are not
   when one is nested in another. *)
ToolsReadBack ==
  (round = 3 /\ dec.phase = "done") => Names(dec.tools) = Names(written.tools)
=============================================================================
