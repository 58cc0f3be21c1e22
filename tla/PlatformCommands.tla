-------------------------- MODULE PlatformCommands --------------------------
(***************************************************************************)
(* An update of a platform and, after it, a verification.  The update      *)
(* looks at nothing a verification changes, so the other order, and the    *)
(* two at once, have nothing to add.                                       *)
(***************************************************************************)
EXTENDS PlatformUpdate, PlatformVerify

VARIABLE
  covers        \* history: the generation of an update that ended well before
                \* the verification was asked for

vars == <<platformVars, updateVars, verifyVars, covers>>

\* Every variable holds a value of its kind.
TypeOK ==
  /\ PlatformTypeOK
  /\ UpdateTypeOK
  /\ VerifyTypeOK
  /\ covers \in Nat

Init ==
  /\ PlatformInit
  /\ UpdateInit
  /\ VerifyInit
  /\ covers = 0

UpdateStep ==
  /\ Update
  /\ covers' = IF ucode' = "ok" /\ exact THEN made ELSE covers
  /\ UNCHANGED verifyVars

\* Bound: an update that ended well, or none, is followed by a verification.
Verifying == upc = "done" /\ ucode \in {"ok", "notOffered"} /\ vpc # "done"

VerifyStep ==
  /\ Verifying
  /\ Verify
  /\ UNCHANGED <<updateVars, covers>>

\* Bound: of the world, what the command that runs can be touched by.
WhileUpdating ==
  /\ upc # "done"
  /\ \/ Operator /\ UNCHANGED <<console, foreign>>
     \/ Foreign(ForeignUpdate)

WhileVerifying ==
  /\ Verifying
  /\ \/ OperatorRenders /\ UNCHANGED <<console, foreign>>
     \/ Verifier /\ UNCHANGED <<console, foreign>>
     \/ Foreign(ForeignVerify)

PortalStep ==
  /\ upc # "done" \/ Verifying
  /\ PortalCatches
  /\ UNCHANGED <<res, status, acted, work, verif, tokens, foreign>>

World ==
  /\ WhileUpdating \/ WhileVerifying \/ PortalStep
  /\ UpdateNotes
  /\ VerifyNotes
  /\ UNCHANGED <<portal, covers>>

Next == UpdateStep \/ VerifyStep \/ World

Spec == Init /\ [][Next]_vars

\* A verification that is asked for after an update ended well is of a platform
\* that has the update: the images it checked were rendered from the update's
\* generation, or a later one (wait.go:108-144, verify.go:123-179).
VerifiesTheUpdate == got # Nil => ran.of >= covers

=============================================================================
