---------------------------- MODULE MCSseStream -----------------------------
EXTENDS SseStream
ChunksMC ==
  {<<"d">>, <<"n">>, <<"c", "n", "n">>, <<"d", "n", "n", "n", "d", "n", "n">>,
   <<"d", "u1">>, <<"u2", "n", "n">>}
=============================================================================
