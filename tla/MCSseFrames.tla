---------------------------- MODULE MCSseFrames -----------------------------
(* Bounded instance: three writes; frames with no, one and two lines of
   data; lines of other servers with either end, or none. *)
EXTENDS SseFrames

MCFrames ==
  {Frame(<<>>, <<"x", LF, " ">>), Frame(<<"x", "u1", "u2">>, <<>>)}

MCLines ==
  {<<"d", "a", ":", "x", CR, LF>>, <<"e", "v", ":", " ", " ", "u1", LF>>,
   <<"d", ":", "x", LF>>, <<":", " ", LF>>, <<CR, LF>>, <<"d", "a">>}
=============================================================================
