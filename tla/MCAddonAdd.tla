----------------------------- MODULE MCAddonAdd -----------------------------
(* AddonAdd on small instances. *)
EXTENDS AddonAdd

CONSTANTS c1, c2

\* A chart, asked and waited for; the other one with secret inputs, not asked.
TwoAdditions ==
  {[chart |-> c2, values |-> {}, secret |-> FALSE, yes |-> FALSE, wait |-> TRUE],
   [chart |-> c2, values |-> {}, secret |-> TRUE, yes |-> TRUE, wait |-> FALSE]}
=============================================================================
