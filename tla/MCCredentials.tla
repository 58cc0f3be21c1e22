--------------------------- MODULE MCCredentials ---------------------------
(* Credentials on small instances. *)
EXTENDS Credentials, TLC

CONSTANTS p1, p2, b1, b2

\* The commands of a person's terminals are interchangeable.
Terminals == Permutations(Procs)
============================================================================
