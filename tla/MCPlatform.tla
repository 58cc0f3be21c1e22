----------------------------- MODULE MCPlatform -----------------------------
(* PlatformCommands on a small instance. *)
EXTENDS PlatformCommands

CONSTANTS v1, v2, stable, w1

Line(v, m, a) == [version |-> v, channel |-> Nil, mode |-> m, apply |-> a]

\* A version, `latest`, the discovered update, a mode with it, a channel and a mode.
EveryLine ==
  {Line(v2, Nil, FALSE), Line(Latest, Nil, FALSE), Line(Nil, Nil, TRUE), Line(Nil, "auto", TRUE),
   [version |-> Nil, channel |-> stable, mode |-> "auto", apply |-> FALSE]}
=============================================================================
