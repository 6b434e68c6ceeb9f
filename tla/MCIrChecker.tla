---------------------------- MODULE MCIrChecker -----------------------------
(* Bounded instance of IrChecker: every kind of block and delta, indexes
   0 and 1, inputs of at most two characters. *)
EXTENDS IrChecker

MCIndexes == {0, 1}
MCBlocks ==
  {TextBlock, ThinkingBlock, Block("image", "", <<>>, <<>>),
   Block("redacted_thinking", "", <<>>, <<>>),
   Block("apply_patch_tool_use", "", <<>>, <<>>),
   ToolUseBlock("c1", <<"f">>, <<>>), ToolUseBlock("c1", <<"f">>, <<"a", "b">>),
   CustomToolUseBlock("c1", <<"f">>, <<"a">>), CustomToolUseBlock("c1", <<>>, <<"a">>)}
MCDeltas ==
  {Delta("text_delta", <<"a">>), Delta("citation_delta", <<"k">>),
   Delta("thinking_delta", <<"a">>), Delta("signature_delta", <<"s">>),
   Delta("input_json_delta", <<>>), Delta("input_json_delta", <<"a">>),
   Delta("input_json_delta", <<"b">>), Delta("custom_tool_input_delta", <<"a">>)}
MCEvents ==
  {MessageStart, MessageDone,
   MessageDelta("tool_use", <<>>, NoUsage), MessageDelta("end_turn", <<"q">>, NoUsage)}
  \union {BlockStart(i, b) : i \in MCIndexes, b \in MCBlocks}
  \union {BlockDelta(i, d) : i \in MCIndexes, d \in MCDeltas}
  \union {BlockStop(i) : i \in MCIndexes}
=============================================================================
