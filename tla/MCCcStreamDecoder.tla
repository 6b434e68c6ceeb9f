------------------------- MODULE MCCcStreamDecoder --------------------------
(* Bounded instance: two supported native calls whose fragments interleave
   with text and reasoning, one of them found out late to be a custom one,
   an unsupported call, and one chunk for every error path of feed and
   flush. *)
EXTENDS CcStreamDecoder

Fn(i, id, name, texts) == CallDelta(i, id, "absent", Some(Payload(name, texts)), None)

MCChunks ==
  { Chunk(Some(Choice(TRUE, <<>>, None, Some(<<"x">>), "absent")), None),
    ContentChunk(<<>>),
    Chunk(Some(Choice(FALSE, <<>>, Some(<<"r">>), Some(<<"y">>), "absent")), None),
    ReasoningChunk(<<"r">>),
    CallChunk(CallDelta(0, "c0", "function", Some(Payload(<<"f">>, Some(<<>>))), None)),
    CallChunk(Fn(0, "", <<"g">>, Some(<<"a">>))),
    CallChunk(CallDelta(0, "", "custom", None, Some(Payload(<<>>, Some(<<"k">>))))),
    CallChunk(CallDelta(1, "c1", "absent", None, Some(Payload(<<"h">>, Some(<<"b">>))))),
    CallChunk(CallDelta(1, "", "other", Some(Payload(<<"z">>, Some(<<"z">>))), None)),
    Chunk(Some(Choice(FALSE, <<Fn(0, "c0", <<"f">>, Some(<<"d">>)), Fn(0, "c9", <<>>, None)>>,
                      Some(<<>>), None, "absent")), None),
    Chunk(Some(Choice(FALSE, <<>>, None, Some(<<"w">>), "tool_calls")), None),
    FinishChunk("weird", WireUsage(1, 1, 2)),
    FinishChunk("", WireUsage(3, 1, 4)),
    UsageChunk(WireUsage(2, 0, 2)),
    UsageChunk(WireUsage(0, -1, 0)) }
=============================================================================
