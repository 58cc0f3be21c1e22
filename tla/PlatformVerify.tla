--------------------------- MODULE PlatformVerify ---------------------------
(***************************************************************************)
(* `zae platform verify` (internal/platform/verify.go): ask the operator   *)
(* for a verification, and follow the run that answers the request.  Only  *)
(* the last run is recorded, a request that waits already is joined, and   *)
(* runs for other requests and for rollouts go on beside it.               *)
(***************************************************************************)
EXTENDS OperatorResource

VARIABLES
  vpc,          \* where the command is
  token,        \* the request it follows; 0 before, or none answered
  got,          \* the result it reports
  vcode,        \* its exit code
  ran           \* history: the run that answered its request

verifyVars == <<vpc, token, got, vcode, ran>>

NoRun == [of |-> 0, result |-> Nil]

VerifyTypeOK ==
  /\ vpc \in {"read", "ask", "wait", "done"}
  /\ token \in Tokens
  /\ got \in Results \cup {Nil}
  /\ vcode \in {"none", "ok", "asked", "notOffered", "failed"}
  /\ ran \in [of : Nat, result : Results \cup {Nil}]

VerifyExits(c) ==
  /\ vpc' = "done"
  /\ vcode' = c

VerifyInit ==
  /\ vpc = "read"
  /\ token = 0
  /\ got = Nil
  /\ vcode = "none"
  /\ ran = NoRun

\* requireOperator; a platform that cannot be asked or does not verify itself is
\* exit 3.
VerifyReads ==
  /\ vpc = "read"
  /\ IF portal = "older" THEN VerifyExits("notOffered") ELSE vpc' = "ask" /\ UNCHANGED vcode
  /\ UNCHANGED <<platformVars, token, got, ran>>

\* POST .../verify.  Without --wait that is all; a request whose token is not
\* answered cannot be followed.
VerifyAsks ==
  /\ vpc = "ask"
  /\ tokens' = IF verif.pending # 0 THEN tokens ELSE tokens + 1
  /\ verif' = [verif EXCEPT !.pending = RequestedToken]
  /\ \/ token' = RequestedToken /\ vpc' = "wait" /\ UNCHANGED vcode
     \/ token' = RequestedToken /\ VerifyExits("asked")
     \/ token' = 0 /\ VerifyExits("failed")
  /\ UNCHANGED <<portal, res, status, acted, work, console, foreign, got, ran>>

\* The person says no, or verifyRefused: not offered, or worth asking again.
VerifyStops ==
  /\ vpc \in {"read", "ask"}
  /\ \E c \in {"notOffered", "failed"} : VerifyExits(c)
  /\ UNCHANGED <<platformVars, token, got, ran>>

Final(v) == v.result \in Results \ {"Running"}

\* Fault: the next result that comes is taken.
TakesAnyResult(v) == Final(v)

\* A run that answers an earlier request may finish first, and does not count.
Answers(v) == v.request = token /\ Final(v)

CodeOf(result) ==
  IF result = "Passed" THEN "ok" ELSE IF result = "Skipped" THEN "notOffered" ELSE "failed"

VerifyPolls ==
  /\ vpc = "wait"
  /\ Answers(console.verif)
  /\ got' = console.verif.result
  /\ VerifyExits(CodeOf(console.verif.result))
  /\ UNCHANGED <<platformVars, token, ran>>

VerifyGivesUp ==
  /\ vpc = "wait"
  /\ VerifyExits("failed")
  /\ UNCHANGED <<platformVars, token, got, ran>>

Verify == VerifyReads \/ VerifyAsks \/ VerifyStops \/ VerifyPolls \/ VerifyGivesUp

\* History, as the world moves on while the command waits.
VerifyNotes ==
  /\ ran' = IF vpc = "wait" /\ verif'.request = token
            THEN [of |-> verif'.of, result |-> verif'.result] ELSE ran
  /\ UNCHANGED <<vpc, token, got, vcode>>

----------------------------------------------------------------------------
(* What the command promises. *)

\* What is reported, and the exit code, are the result of the run that was started
\* for this request after it was made - not of a run that was going already, that
\* answers somebody else, or that a rollout started (verify.go:123-179;
\* README.md:363-368).
ReportsItsOwnRun ==
  got # Nil =>
    /\ ran.result = got
    /\ vcode = "ok" <=> got = "Passed"
    /\ vcode = "notOffered" <=> got = "Skipped"

=============================================================================
