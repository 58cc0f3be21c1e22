----------------------------- MODULE MCCommands -----------------------------
(* Commands on a small instance. *)
EXTENDS Commands, TLC

CONSTANTS ada, p1, p2, s1, a, b, a1, a2, k1, k2

Alike == Permutations(Texts) \cup Permutations(Addrs) \cup Permutations(Keys)

=============================================================================
