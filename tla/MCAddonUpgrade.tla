--------------------------- MODULE MCAddonUpgrade ---------------------------
(* AddonUpgrade on small instances. *)
EXTENDS AddonUpgrade

CONSTANTS c1, c2, v1

Flags(chart, input, secret, yes, wait) ==
  [chart |-> chart, input |-> input, secret |-> secret, yes |-> yes,
   wait |-> wait]

\* A new version, asked and waited for; a value, neither; secret inputs with
\* the version.
MixedInvocations ==
  {Flags(c2, Nil, FALSE, FALSE, TRUE), Flags(Nil, v1, FALSE, TRUE, FALSE),
   Flags(c2, Nil, TRUE, FALSE, FALSE)}

\* A new version and a value at once, waited for.
OneInvocation == {Flags(c2, v1, FALSE, FALSE, TRUE)}
============================================================================
