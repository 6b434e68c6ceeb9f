--------------------------- MODULE MCReRoundTrip ----------------------------
(* Bounded instance: three indexes, a block of every kind, dotted names,
   inputs of at most two characters, one event for every error path. *)
EXTENDS ReRoundTrip
Patch(kind, id, status, payload) == Block(kind, id, <<>>, <<status, payload>>)
Search(id, payload) == Block("web_search_call", id, <<>>, <<"ok", payload>>)

MCStarts ==
  {BlockStart(0, [TextBlock EXCEPT !.text = <<"p">>, !.citations = <<"openai">>]),
   BlockStart(1, TextBlock), BlockStart(2, TextBlock),
   BlockStart(0, [ThinkingBlock EXCEPT !.signature = <<"s">>]),
   BlockStart(1, Block("thinking", "", <<>>, <<"h">>)),
   BlockStart(0, Block("encrypted_content", "", <<>>, <<"x">>)),
   BlockStart(1, Block("encrypted_content", "", <<>>, <<"y">>)),
   BlockStart(1, Block("encrypted_content", "", <<>>, <<>>)),
   BlockStart(1, Block("redacted_thinking", "", <<>>, <<"d">>)),
   BlockStart(0, ToolUseBlock("c1", <<"ns", "f">>, <<"a", "b">>)),
   BlockStart(1, ToolUseBlock("", <<"f">>, <<"a">>)),
   BlockStart(1, CustomToolUseBlock("c2", <<"g">>, <<"b">>)),
   BlockStart(0, CustomToolUseBlock("c2", <<"ns", "g">>, <<"b">>)),
   BlockStart(0, Patch("apply_patch_tool_use", "c3", "completed", "valid")),
   BlockStart(1, Patch("apply_patch_tool_result", "c3", "failed", "absent")),
   BlockStart(1, Search("w", "valid")), BlockStart(1, Search("w", "malformed")),
   BlockStart(1, Search("w", "lossy")), BlockStart(1, ToolUseBlock("c4", <<"ns", "ns", "f">>, <<>>)),
   BlockStart(1, Block("tool_reference", "", <<>>, <<>>))}

MCDeltas ==
  {BlockDelta(1, Delta("text_delta", <<"t">>)),
   BlockDelta(0, Delta("citation_delta", <<"openai">>)),
   BlockDelta(1, Delta("citation_delta", <<"openai">>)),
   BlockDelta(1, Delta("thinking_delta", <<"r">>)),
   BlockDelta(1, Delta("signature_delta", <<"s">>)),
   BlockDelta(0, Delta("input_json_delta", <<"a">>)),
   BlockDelta(0, Delta("input_json_delta", <<"b">>)),
   BlockDelta(0, Delta("custom_tool_input_delta", <<"b">>)),
   BlockDelta(1, Delta("custom_tool_input_delta", <<"b">>))}

MCEnds ==
  {MessageDelta("tool_use", <<>>, Usage(2, 1)), MessageDelta("max_tokens", <<>>, NoUsage),
   MessageDelta("refusal", <<>>, NoUsage), MessageDelta("other", <<>>, NoUsage),
   MessageDelta("stop_sequence", <<"q">>, NoUsage)}

MCEvents ==
  {MessageStart, MessageDone} \union MCStarts \union MCDeltas \union MCEnds
    \union {BlockStop(i) : i \in 0..2}
=============================================================================
