----------------------------- MODULE MCTimeline -----------------------------
(***************************************************************************)
(* Timeline for TLC: a renderer whose daemon is quiet while it waits for   *)
(* answers, and with each race of a renderer; a stream, which has none;    *)
(* and torn lines.                                                         *)
(***************************************************************************)
EXTENDS Timeline

MCEnvironments ==
  {<<{"fail"}, "renderer">>, <<{"resync", "fail"}, "renderer">>, <<{"load", "fail"}, "renderer">>,
   <<{"lostload"}, "renderer">>, <<{"fail"}, "stream">>, <<{"torn", "fail"}, "stream">>}

Torn    == {<<{"torn"}, "renderer">>}
Resyncs == {<<{"resync"}, "renderer">>}
=============================================================================
