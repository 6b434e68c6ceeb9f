------------------------- MODULE MCAnStreamEncoder --------------------------
(* Bounded instance: indexes 0 to 2, one block of every kind, inputs of at
   most two characters, citations of every source. *)
EXTENDS AnStreamEncoder

MCStarts ==
  {BlockStart(0, [TextBlock EXCEPT !.text = <<"p">>, !.citations = <<"openai", "anthropic">>]),
   BlockStart(1, TextBlock),
   BlockStart(0, [TextBlock EXCEPT !.citations = <<"elsewhere">>]),
   BlockStart(0, [TextBlock EXCEPT !.citations = <<"anthropic", "malformed">>]),
   BlockStart(1, [Block("thinking", "", <<>>, <<"h">>) EXCEPT !.signature = <<"s">>]),
   BlockStart(0, ToolUseBlock("c1", <<"f">>, <<"a", "b">>)),
   BlockStart(1, CustomToolUseBlock("c2", <<"g">>, <<"b">>)),
   BlockStart(1, ToolUseBlock("", <<"f">>, <<"a">>)),
   BlockStart(1, Block("redacted_thinking", "", <<>>, <<"d">>)),
   BlockStart(0, Block("apply_patch_tool_use", "c3", <<>>, <<>>)),
   BlockStart(0, Block("web_search_call", "", <<>>, <<>>)),
   BlockStart(1, Block("tool_reference", "", <<>>, <<>>)),
   BlockStart(2, TextBlock)}

MCDeltas ==
  {BlockDelta(1, Delta("text_delta", <<"a">>)),
   BlockDelta(0, Delta("citation_delta", <<"openai">>)),
   BlockDelta(1, Delta("citation_delta", <<"openai">>)),
   BlockDelta(1, Delta("citation_delta", <<"anthropic">>)),
   BlockDelta(1, Delta("citation_delta", <<"elsewhere">>)),
   BlockDelta(1, Delta("citation_delta", <<"malformed">>)),
   BlockDelta(1, Delta("thinking_delta", <<"r">>)),
   BlockDelta(1, Delta("signature_delta", <<"s">>)),
   BlockDelta(0, Delta("input_json_delta", <<"a">>)),
   BlockDelta(0, Delta("input_json_delta", <<"b">>)),
   BlockDelta(1, Delta("custom_tool_input_delta", <<"b">>))}

MCEnds ==
  {MessageDelta("tool_use", <<>>, Usage(2, 1)), MessageDelta("stop_sequence", <<"q">>, NoUsage),
   MessageDelta("other", <<>>, NoUsage)}

MCEvents ==
  {MessageStart, MessageDone} \union MCStarts \union MCDeltas \union MCEnds
    \union {BlockStop(i) : i \in 0..2}
=============================================================================
