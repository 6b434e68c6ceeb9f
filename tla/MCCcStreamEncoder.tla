------------------------- MODULE MCCcStreamEncoder --------------------------
(* Bounded instance: indexes 0 to 2, one block of every kind, inputs of at
   most two characters, totals on both sides of the integer bound. *)
EXTENDS CcStreamEncoder

MCStarts ==
  {BlockStart(0, [TextBlock EXCEPT !.text = <<"p">>]),
   BlockStart(1, [TextBlock EXCEPT !.text = <<"p">>, !.citations = <<"anthropic">>]),
   BlockStart(2, TextBlock),
   BlockStart(0, [ThinkingBlock EXCEPT !.signature = <<"s">>]),
   BlockStart(1, ThinkingBlock),
   BlockStart(0, ToolUseBlock("c1", <<"f">>, <<"a", "b">>)),
   BlockStart(1, CustomToolUseBlock("c2", <<"g">>, <<"b">>)),
   BlockStart(1, ToolUseBlock("", <<"f">>, <<"a">>)),
   BlockStart(0, Block("redacted_thinking", "", <<>>, <<>>)),
   BlockStart(0, Block("apply_patch_tool_use", "c3", <<>>, <<>>)),
   BlockStart(1, Block("tool_reference", "", <<>>, <<>>))}

MCDeltas ==
  {BlockDelta(0, Delta("text_delta", <<"a">>)), BlockDelta(1, Delta("text_delta", <<>>)),
   BlockDelta(1, Delta("citation_delta", <<"openai">>)),
   BlockDelta(0, Delta("thinking_delta", <<"r">>)),
   BlockDelta(0, Delta("signature_delta", <<"s">>)),
   BlockDelta(0, Delta("input_json_delta", <<"a">>)),
   BlockDelta(0, Delta("input_json_delta", <<"b">>)),
   BlockDelta(1, Delta("custom_tool_input_delta", <<"b">>))}

MCEnds ==
  {MessageDelta("tool_use", <<>>, Usage(2, 1)), MessageDelta("stop_sequence", <<"q">>, Usage(0, 0)),
   MessageDelta("other", <<>>, NoUsage), MessageDelta("end_turn", <<>>, Usage(2, 2)),
   MessageDelta("end_turn", <<>>, Usage(-1, 2))}

MCEvents ==
  {MessageStart, MessageDone} \union MCStarts \union MCDeltas \union MCEnds
    \union {BlockStop(i) : i \in 0..2}
=============================================================================
