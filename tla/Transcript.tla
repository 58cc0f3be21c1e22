----------------------------- MODULE Transcript -----------------------------
(***************************************************************************)
(* What following the logs of several containers promises: of each, the    *)
(* lines in the order they were written, each once, and none left out      *)
(* unless its log went before it could be read, or it is said that lines   *)
(* are missing.  A container that appears later is read from its first     *)
(* line on (internal/debug/follow.go).                                     *)
(***************************************************************************)
EXTENDS Naturals, Sequences, SequencesExt

CONSTANT Sources

VARIABLES
  out,          \* the lines printed of each source, by number
  head,         \* the first line that its log still has
  young,        \* the sources that were not there at first
  said,         \* the sources of which lines are said to be missing
  torn          \* those of which lines of one timestamp were torn apart

vars == <<out, head, young, said, torn>>

Init ==
  /\ out = [s \in Sources |-> <<>>]
  /\ head \in [Sources -> Nat]
  /\ young \in SUBSET Sources
  /\ said = {}
  /\ torn = {}

\* The lines i to j, printed next.
Run(i, j) == [k \in 1..(j - i + 1) |-> i + k - 1]

Continues(s, i) ==
  \/ s \in said'
  \/ out[s] = <<>> /\ (s \in young => i <= head[s])
  \/ out[s] # <<>> /\ i <= Last(out[s]) + 1
  \/ out[s] # <<>> /\ i <= head[s]

Extends(s) ==
  \/ out'[s] = out[s]
  \/ s \in torn' /\ IsPrefix(out[s], out'[s]) /\ IsInjective(out'[s])
  \/ LET n == Len(out[s])  m == Len(out'[s])  i == out'[s][n + 1] IN
       /\ m > n
       /\ out'[s] = out[s] \o Run(i, i + m - n - 1)
       /\ out[s] # <<>> => i > Last(out[s])
       /\ Continues(s, i)

Prints ==
  /\ \A s \in Sources : Extends(s)
  /\ said \subseteq said'
  /\ torn \subseteq torn'

\* A log begins anew; what was not read of the old one is gone.
Begins ==
  /\ \A s \in Sources : head'[s] >= head[s]
  /\ young \subseteq young'
  /\ UNCHANGED <<out, said, torn>>

Next == (Prints /\ UNCHANGED <<head, young>>) \/ Begins

Spec == Init /\ [][Next]_vars

=============================================================================
