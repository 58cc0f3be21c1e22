----------------------------- MODULE MCRollout -----------------------------
(* Rollout on a small instance. *)
EXTENDS Rollout

CONSTANT i1

\* A restart, scaling up and scaling to nothing.
EveryRequest == {Restart, 0, 1}

\* What a current portal-api reports, one whose writes answer no generation, and one
\* from before all of it.
Ages == {{"generation", "total", "answer"}, {"generation", "total"}, {}}
============================================================================
