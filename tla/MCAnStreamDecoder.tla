------------------------- MODULE MCAnStreamDecoder --------------------------
(* Bounded instance: one block of every kind over indexes 0 to 2, a tool
   input that is wrapped, one that is not and an absent one, one event for
   every error path of feed. *)
EXTENDS AnStreamDecoder

Started(i, kind, text) == WireBlockStart(i, Some(NativeBlock(kind, "", <<>>, text)))
Tool(i, id, input) == WireBlockStart(i, Some(NativeBlock("tool_use", id, <<"f">>, input)))
Of(i, type, text) == WireBlockDelta(i, Some(NativeDelta(type, Some(text))))
(* Text and thinking, each also with a field that belongs to the other. *)
Both(i, kind, text, citations) ==
  WireBlockStart(i, Some([NativeBlock(kind, "", <<>>, text) EXCEPT
                            !.signature = <<"s">>, !.citations = citations]))
Cited(i, citations) == Both(i, "text", <<"p">>, citations)

MCStarts ==
  {WireBlockStart(0, None), Started(1, "search", <<>>), Both(0, "thinking", <<"h">>, "unknown"),
   Started(1, "redacted_thinking", <<"d">>), Started(1, "redacted_thinking", <<>>),
   Cited(0, "valid"), Cited(1, "unknown"), Cited(1, "malformed"),
   Tool(0, "c1", <<"{}">>), Tool(1, "c2", <<>>), Tool(2, "", <<"a">>)}

MCDeltas ==
  {Of(0, "text_delta", <<"t">>), Of(0, "thinking_delta", <<"r">>), Of(0, "signature_delta", <<"s">>),
   Of(1, "input_json_delta", <<Opening>>), Of(1, "input_json_delta", <<"a", Closing>>),
   Of(0, "input_json_delta", <<>>), Of(1, "other_delta", <<"o">>),
   WireBlockDelta(0, None), WireBlockDelta(0, Some(CitationsDelta("valid"))),
   WireBlockDelta(0, Some(CitationsDelta("unknown"))),
   WireBlockDelta(1, Some(CitationsDelta("missing")))}

MCEnds ==
  {WireMessageDelta(Some(Terminal("stop_sequence", <<"q">>)), Some(Usage(1, 2))),
   WireMessageDelta(Some(Terminal("weird", <<"q">>)), None),
   WireMessageDelta(Some(Terminal("", <<>>)), Some(Usage(3, 3))),
   WireMessageStop}

MCEvents ==
  {WireMessageStart(TRUE), WireMessageStart(FALSE), WireOther("ping")}
    \union MCStarts \union MCDeltas \union MCEnds
    \union {WireBlockStop(i) : i \in -1..1}
=============================================================================
