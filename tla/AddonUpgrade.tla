---------------------------- MODULE AddonUpgrade ----------------------------
(***************************************************************************)
(* One `zae addon upgrade` (internal/addon/upgrade.go, wait.go,            *)
(* session.go): read the addon, PATCH it suspended, wait for the           *)
(* operator's plan of that very write, ask, install, and put the addon     *)
(* back whenever it does not come to an install.  It runs against the      *)
(* resource of AddonResource, which others write at the same time.         *)
(*                                                                         *)
(* Covered: answers that are lost after the portal did what was asked, an  *)
(* install that reaches the portal after zae gave up on it, Ctrl-C at      *)
(* every step, a second Ctrl-C (which the command no longer handles), a    *)
(* portal whose writes answer without a generation, deletion and           *)
(* re-creation of the addon under zae's feet.                              *)
(***************************************************************************)
EXTENDS AddonWait

CONSTANTS
  AnswersGeneration, \* the portal's writes answer the generation they made
  Invocations        \* the flags an upgrade may be given

ASSUME GenerationAssumption == AnswersGeneration \in BOOLEAN

VARIABLES
  pc,         \* where the command is
  req,        \* its flags
  sig,        \* a signal ended its context
  before,     \* what it read before it wrote, or Nil
  wrote,      \* the generation its PATCH produced; 0 when the portal says none
  shown,      \* the plan it printed, or Nil
  inst,       \* the generation its install produced
  tried,      \* it is putting the addon back after an interrupted install
  code,       \* its exit code, "none" until it is known
  said,       \* the last thing it said about the addon
  late,       \* its install may still reach the portal
  mine,       \* history: what its PATCH did, or Nil
  touched,    \* history: someone else changed the addon after that PATCH
  released    \* history: the spec its install released, or Nil

ownVars == <<pc, req, sig, before, wrote, shown, inst, tried, code, said, late,
             mine, touched, released>>

vars == <<resourceVars, ownVars>>

\* --chart/--version/--digest, --set, a secret flag, --yes and --wait.
Requests ==
  {r \in [chart : Charts \cup {Nil}, input : Inputs \cup {Nil},
          secret : BOOLEAN, yes : BOOLEAN, wait : BOOLEAN] :
     r.chart # Nil \/ r.input # Nil \/ r.secret}

Reads == [uid : Nat, spec : Specs, suspended : BOOLEAN, gen : Nat,
          settled : BOOLEAN]

Writes == [uid : Nat, spec : Specs, moved : BOOLEAN, interim : BOOLEAN]

ShownPlans == [uid : Nat, spec : Specs]

Sayings == {"nothing", "unchanged", "unknown", "changed", "leftAlone",
            "wentThrough", "unread", "stuck", "back"}

\* clean: nobody else had written since the PATCH; after: what zae had said.
Releases == [uid : Nat, spec : Specs, clean : BOOLEAN, after : Sayings]

ASSUME InvocationAssumption == Invocations \subseteq Requests

ASSUME UpgradeNilAssumption ==
  /\ Nil \notin Charts \cup Inputs
  /\ Nil \notin Reads
  /\ Nil \notin Writes
  /\ Nil \notin ShownPlans
  /\ Nil \notin Releases

Places == {"read", "patch", "plan", "confirm", "install", "ready", "reread",
           "putback", "done"}

\* "undetermined" stands for every refusal of a call: unreachable, forbidden,
\* a 503, a redirect.
Codes == {"none", "ok", "failed", "notOffered", "undetermined", "interrupted",
          "killed"}

\* Every variable holds a value of its kind.
TypeOK ==
  /\ ResourceTypeOK
  /\ pc \in Places
  /\ req \in Invocations
  /\ sig \in BOOLEAN
  /\ before \in Reads \cup {Nil}
  /\ wrote \in Nat
  /\ shown \in ShownPlans \cup {Nil}
  /\ inst \in Nat
  /\ tried \in BOOLEAN
  /\ code \in Codes
  /\ said \in Sayings
  /\ late \in BOOLEAN
  /\ mine \in Writes \cup {Nil}
  /\ touched \in BOOLEAN
  /\ released \in Releases \cup {Nil}

----------------------------------------------------------------------------
(* The parts of the command that decide something. *)

ReadOf(r) ==
  [uid |-> r.uid, spec |-> r.spec, suspended |-> r.suspended, gen |-> r.gen,
   settled |-> r.obs = r.gen /\ r.phase \notin PlanningPhases]

\* --set changes the values zae read; values that come out equal are not sent.
WritesValues(b) == req.input # Nil /\ req.input \notin b.spec.values

AsksForChange(b) ==
  \/ WritesValues(b)
  \/ req.secret
  \/ req.chart # Nil /\ req.chart # b.spec.chart

\* Fault: the PATCH carries the flags that were not given too.
SendsEveryField(r) ==
  LET spec == [chart   |-> req.chart,
               values  |-> before.spec.values \cup {req.input},
               secrets |-> req.secret]
  IN  Merged(r, spec, TRUE, req.secret)

\* The PATCH always suspends, and carries only what the flags change.
Patched(r) ==
  LET spec == [chart   |-> IF req.chart = Nil THEN r.spec.chart ELSE req.chart,
               values  |-> IF WritesValues(before) THEN before.spec.values \cup {req.input}
                           ELSE r.spec.values,
               secrets |-> r.spec.secrets \/ req.secret]
  IN  Merged(r, spec, TRUE, req.secret)

\* Fault: putting back leaves the values the upgrade wrote.
ForgetsValues(r) ==
  Merged(r, [r.spec EXCEPT !.chart = before.spec.chart], before.suspended, FALSE)

\* What putting back writes: the chart and the suspension zae read, the values
\* only when the upgrade wrote them, never the secret inputs.
PutBack(r) ==
  LET spec == [chart   |-> before.spec.chart,
               values  |-> IF WritesValues(before) THEN before.spec.values
                           ELSE r.spec.values,
               secrets |-> r.spec.secrets]
  IN  Merged(r, spec, before.suspended, FALSE)

\* Fault: a newer generation is not noticed.
MovedBack(a) == wrote > 0 /\ a.gen < wrote

\* What putting back re-reads for.
Moved(a) == wrote > 0 /\ a.gen # wrote

----------------------------------------------------------------------------
(* The ways out. *)

Exit(c, words) ==
  /\ pc' = "done"
  /\ code' = c
  /\ said' = words

Restore(c) ==
  /\ pc' = "reread"
  /\ code' = c
  /\ UNCHANGED said

\* A call that failed is an interrupt when a signal came before or during it.
FailureCode == IF sig' THEN "interrupted" ELSE "undetermined"

\* A wait ends without its answer: no plan or rollout in time, a failure that
\* is not asked again, or the signal.
WaitFailures == {"failed", "undetermined"} \cup (IF sig THEN {"interrupted"} ELSE {})

\* A signal may arrive while a call is under way.
SignalDuringCall == sig' \in {sig, TRUE}

Init ==
  /\ \E c \in Charts, v \in SUBSET Inputs :
       LET spec == [chart |-> c, values |-> v, secrets |-> FALSE]
           plan == [spec |-> spec, ok |-> TRUE]
           new  == Created(0, spec)
       IN  res \in {\* running, and registered
                    [new EXCEPT !.suspended = FALSE, !.gen = 2, !.obs = 2,
                                !.phase = "Ready", !.plan = plan,
                                !.applied = spec, !.registered = TRUE],
                    \* planned, not installed
                    [new EXCEPT !.obs = 1, !.phase = "Planned", !.plan = plan],
                    \* created a moment ago
                    new}
  /\ op = Nil
  /\ foreign = 0
  /\ pc = "read"
  /\ req \in Invocations
  /\ sig = FALSE
  /\ before = Nil
  /\ wrote = 0
  /\ shown = Nil
  /\ inst = 0
  /\ tried = FALSE
  /\ code = "none"
  /\ said = "nothing"
  /\ late = FALSE
  /\ mine = Nil
  /\ touched = FALSE
  /\ released = Nil

----------------------------------------------------------------------------
(* The command, step by step. *)

\* GET, then everything that is decided before anything is written.
Read ==
  /\ pc = "read"
  /\ ~sig
  /\ res # Nil
  /\ before' = ReadOf(res)
  /\ IF AsksForChange(before')
     THEN pc' = "patch" /\ UNCHANGED <<code, said>>
     ELSE Exit("ok", "unchanged")
  /\ UNCHANGED <<resourceVars, req, sig, wrote, shown, inst, tried, late, mine,
                 touched, released>>

ReadFails ==
  /\ pc = "read"
  /\ SignalDuringCall
  /\ Exit(IF sig' THEN "interrupted"
          ELSE IF res = Nil THEN "notOffered" ELSE "undetermined", "unchanged")
  /\ UNCHANGED <<resourceVars, req, before, wrote, shown, inst, tried, late,
                 mine, touched, released>>

\* The portal merges the PATCH; the history remembers whether that changed
\* anything, and whether the addon had moved since zae read it.
PortalPatches ==
  /\ ~sig
  /\ res # Nil
  /\ res' = Patched(res)
  /\ mine' = [uid |-> res.uid, spec |-> res'.spec, moved |-> res' # res,
              interim |-> res.gen # before.gen \/ res.uid # before.uid]
  /\ UNCHANGED <<op, foreign>>

Patch ==
  /\ pc = "patch"
  /\ PortalPatches
  /\ wrote' = IF AnswersGeneration THEN res'.gen ELSE 0
  /\ IF wrote' # 0 /\ wrote' = before.gen
     THEN Exit("ok", "unchanged")
     ELSE pc' = "plan" /\ UNCHANGED <<code, said>>
  /\ UNCHANGED <<req, sig, before, shown, inst, tried, late, touched, released>>

\* Refused, or never reached the portal.
PatchFails ==
  /\ pc = "patch"
  /\ SignalDuringCall
  /\ Exit(FailureCode, "unknown")
  /\ UNCHANGED <<resourceVars, req, before, wrote, shown, inst, tried, late,
                 mine, touched, released>>

\* Done by the portal, but its answer never came: the connection broke, the
\* client's 30 s ran out, or the signal cut the call off.
PatchUnanswered ==
  /\ pc = "patch"
  /\ PortalPatches
  /\ SignalDuringCall
  /\ Exit(FailureCode, "unknown")
  /\ UNCHANGED <<req, before, wrote, shown, inst, tried, late, touched, released>>

\* Fault: the plan is taken at once, without waiting for it.
ShowsWhatIsThere ==
  /\ pc = "plan"
  /\ ~sig
  /\ res # Nil
  /\ res.plan # Nil
  /\ shown' = [uid |-> res.uid, spec |-> res.plan.spec]
  /\ pc' = IF req.yes THEN "install" ELSE "confirm"
  /\ UNCHANGED <<resourceVars, req, sig, before, wrote, inst, tried, code, said,
                 late, mine, touched, released>>

\* One read of the wait for the plan.  A read that settles nothing leaves
\* everything as it was, and so do the failures that are asked again.
PollPlan ==
  /\ pc = "plan"
  /\ ~sig
  /\ res # Nil
  /\ \/ /\ Changed(res, wrote)
        /\ Exit("failed", "changed")
        /\ UNCHANGED shown
     \/ /\ ~Changed(res, wrote)
        /\ PlanFor(res, wrote)
        /\ IF PlanRefused(res)
           THEN Restore("failed") /\ UNCHANGED shown
           ELSE /\ shown' = [uid |-> res.uid, spec |-> res.plan.spec]
                /\ pc' = IF req.yes THEN "install" ELSE "confirm"
                /\ UNCHANGED <<code, said>>
  /\ UNCHANGED <<resourceVars, req, sig, before, wrote, inst, tried, late, mine,
                 touched, released>>

PlanGone ==
  /\ pc = "plan"
  /\ ~sig
  /\ res = Nil
  /\ Exit("notOffered", "unknown")
  /\ UNCHANGED <<resourceVars, req, sig, before, wrote, shown, inst, tried, late,
                 mine, touched, released>>

\* Fault: the wait for the plan has no timeout.
WaitsWithoutEnd ==
  /\ pc = "plan"
  /\ sig
  /\ Restore("interrupted")
  /\ UNCHANGED <<resourceVars, req, sig, before, wrote, shown, inst, tried, late,
                 mine, touched, released>>

PlanFails ==
  /\ pc = "plan"
  /\ \E c \in WaitFailures : Restore(c)
  /\ UNCHANGED <<resourceVars, req, sig, before, wrote, shown, inst, tried, late,
                 mine, touched, released>>

AnswerYes ==
  /\ pc = "confirm"
  /\ pc' = "install"
  /\ UNCHANGED <<resourceVars, req, sig, before, wrote, shown, inst, tried, code,
                 said, late, mine, touched, released>>

\* No, a stray Enter, a closed stdin, or the signal.
AnswerNo ==
  /\ pc = "confirm"
  /\ \E c \in {"failed"} \cup (IF sig THEN {"interrupted"} ELSE {}) : Restore(c)
  /\ UNCHANGED <<resourceVars, req, sig, before, wrote, shown, inst, tried, late,
                 mine, touched, released>>

\* The portal releases whatever the addon's current plan is for.
PortalInstalls ==
  /\ CanInstall(res)
  /\ res' = Installed(res)
  /\ released' = [uid |-> res.uid, spec |-> res.spec,
                  clean |-> ~touched, after |-> said]
  /\ UNCHANGED <<op, foreign>>

Install ==
  /\ pc = "install"
  /\ ~sig
  /\ PortalInstalls
  /\ inst' = IF AnswersGeneration THEN res'.gen ELSE 0
  /\ IF req.wait
     THEN pc' = "ready" /\ UNCHANGED <<code, said>>
     ELSE Exit("ok", said)
  /\ UNCHANGED <<req, sig, before, wrote, shown, tried, late, mine, touched>>

\* 409, gone, refused, unreachable, or cut off before the portal did anything;
\* in the last case the portal may still do it.
InstallFails ==
  /\ pc = "install"
  /\ SignalDuringCall
  /\ Restore(FailureCode)
  /\ tried' = sig'
  /\ late' \in {FALSE, ~sig}
  /\ UNCHANGED <<resourceVars, req, before, wrote, shown, inst, mine, touched,
                 released>>

InstallUnanswered ==
  /\ pc = "install"
  /\ ~sig
  /\ PortalInstalls
  /\ SignalDuringCall
  /\ Restore(FailureCode)
  /\ tried' = sig'
  /\ UNCHANGED <<req, before, wrote, shown, inst, late, mine, touched>>

\* The install zae gave up on reaches the portal after all, or is dropped.
LateInstall ==
  /\ late
  /\ late' = FALSE
  /\ \/ PortalInstalls
     \/ UNCHANGED <<resourceVars, released>>
  /\ UNCHANGED <<pc, req, sig, before, wrote, shown, inst, tried, code, said,
                 mine, touched>>

PollReady ==
  /\ pc = "ready"
  /\ ~sig
  /\ res # Nil
  /\ \/ Changed(res, inst) /\ Exit("failed", "changed")
     \/ ~Changed(res, inst) /\ ReadyFor(res, inst) /\ Exit("ok", said)
  /\ UNCHANGED <<resourceVars, req, sig, before, wrote, shown, inst, tried, late,
                 mine, touched, released>>

ReadyFails ==
  /\ pc = "ready"
  /\ \E c \in WaitFailures \cup (IF res = Nil THEN {"notOffered"} ELSE {}) :
       Exit(c, said)
  /\ UNCHANGED <<resourceVars, req, sig, before, wrote, shown, inst, tried, late,
                 mine, touched, released>>

----------------------------------------------------------------------------
(* Putting the addon back runs on a context of its own: a signal that came  *)
(* before it does not stop it.                                              *)

Reread ==
  /\ pc = "reread"
  /\ res # Nil
  /\ IF Moved(res)
     THEN Exit(code, IF tried THEN "wentThrough" ELSE "leftAlone")
     ELSE pc' = "putback" /\ UNCHANGED <<code, said>>
  /\ UNCHANGED <<resourceVars, req, sig, before, wrote, shown, inst, tried, late,
                 mine, touched, released>>

RereadFails ==
  /\ pc = "reread"
  /\ Exit(code, "unread")
  /\ UNCHANGED <<resourceVars, req, sig, before, wrote, shown, inst, tried, late,
                 mine, touched, released>>

WriteBack ==
  /\ pc = "putback"
  /\ res # Nil
  /\ res' = PutBack(res)
  /\ Exit(code, "back")
  /\ UNCHANGED <<op, foreign, req, sig, before, wrote, shown, inst, tried, late,
                 mine, touched, released>>

\* Failed, or done without an answer: zae says it could not put it back.
WriteBackFails ==
  /\ pc = "putback"
  /\ res' \in {res} \cup (IF res # Nil THEN {PutBack(res)} ELSE {})
  /\ Exit(code, "stuck")
  /\ UNCHANGED <<op, foreign, req, sig, before, wrote, shown, inst, tried, late,
                 mine, touched, released>>

----------------------------------------------------------------------------
(* Signals. *)

Signal ==
  /\ pc # "done"
  /\ ~sig
  /\ sig' = TRUE
  /\ UNCHANGED <<resourceVars, pc, req, before, wrote, shown, inst, tried, code,
                 said, late, mine, touched, released>>

\* The session listens for one signal only: the next one ends the process.
SecondSignal ==
  /\ pc # "done"
  /\ sig
  /\ Exit("killed", said)
  /\ UNCHANGED <<resourceVars, req, sig, before, wrote, shown, inst, tried, late,
                 mine, touched, released>>

----------------------------------------------------------------------------

Zae ==
  \/ Read \/ ReadFails
  \/ Patch \/ PatchFails \/ PatchUnanswered
  \/ PollPlan \/ PlanGone \/ PlanFails
  \/ Install \/ InstallFails \/ InstallUnanswered
  \/ PollReady \/ ReadyFails
  \/ Reread \/ RereadFails \/ WriteBack \/ WriteBackFails

Person == AnswerYes \/ AnswerNo \/ Signal \/ SecondSignal

\* Bound: the world is followed only as long as the command acts on it.
Followed == pc # "done" \/ late

Others ==
  /\ Followed
  /\ ForeignWrite
  /\ touched' = (touched \/ mine # Nil)
  /\ UNCHANGED <<pc, req, sig, before, wrote, shown, inst, tried, code, said,
                 late, mine, released>>

OperatorStep == Followed /\ Operator /\ UNCHANGED ownVars

Next == Zae \/ Person \/ LateInstall \/ OperatorStep \/ Others

Spec == Init /\ [][Next]_vars

\* The command keeps running: every call is bounded by the client's timeout
\* and every wait by --timeout.  Nobody has to answer its question, and the
\* operator owes it nothing.
FairSpec == Spec /\ WF_vars(Zae)

----------------------------------------------------------------------------
(* What the command promises. *)

\* The plan zae prints and asks about is the operator's plan for the spec its
\* own PATCH made (planFor, wait.go), whatever others write and however late
\* the operator is.  Two cases are outside: an addon deleted and created again
\* meanwhile; and a portal that answers no generation, unless the operator was
\* done with the addon, and not with a plan, when zae found it and nobody else
\* has written since.
ShownIsWritten ==
  shown # Nil =>
    \/ shown.spec = mine.spec
    \/ shown.uid # mine.uid
    \/ wrote = 0 /\ (~before.settled \/ mine.interim \/ touched)

\* What putting back leaves of the spec zae wrote.
SpecPutBack ==
  [chart   |-> before.spec.chart,
   values  |-> IF WritesValues(before) THEN before.spec.values ELSE mine.spec.values,
   secrets |-> mine.spec.secrets]

\* As long as nobody else writes after zae's PATCH, what its install releases is
\* what it printed, however late the operator's plans are and whichever answers
\* are lost - unless the install reaches the portal after zae has put the addon
\* back: it then releases what the addon was put back to, which was not printed,
\* and not running before where the addon was found only planned.  Where zae
\* said that it could not put it back, the install may release either.
InstallsWhatWasShown ==
  released # Nil /\ released.clean /\ wrote > 0 =>
    \/ /\ released.after # "back"
       /\ shown # Nil
       /\ released.spec = shown.spec
    \/ /\ released.after \in {"back", "stuck"}
       /\ released.spec = SpecPutBack

\* An upgrade that did not come to an install, and could do what it does to
\* put the addon back, leaves it at the chart, the values and the suspension it
\* was found with (restore, upgrade.go), on every way out of the command.
EndsAsFound ==
  /\ pc = "done"
  /\ code # "killed"
  /\ said \notin {"unknown", "unread", "stuck"}
  /\ mine # Nil
  /\ ~mine.interim
  /\ ~touched
  /\ ~late
  /\ released = Nil
  => /\ res # Nil
     /\ res.spec.chart = before.spec.chart
     /\ res.spec.values = before.spec.values
     /\ res.suspended = before.suspended

\* zae goes on to put an addon back only when its re-read shows that nobody
\* else has changed the addon since its PATCH and that its own install did not
\* go through (restore, upgrade.go) - given that the portal says generations
\* and the addon is still the one it wrote.
PutsBackOnlyTheUnmoved ==
  [][pc = "reread" /\ pc' = "putback" /\ wrote > 0 /\ res.uid = mine.uid
       => ~touched /\ released = Nil]_vars

\* With --wait, exit 0 is given only while what the operator runs is the spec
\* this command released (readyFor, wait.go).
ReadyIsWhatWasInstalled ==
  [][pc = "ready" /\ code' = "ok" /\ inst > 0 /\ res.uid = released.uid
       => res.applied = released.spec]_vars

\* The command ends, or waits for a person: it never waits forever for the
\* operator, and never for a portal.
EndsOrAsks == []<>(pc \in {"confirm", "done"})

----------------------------------------------------------------------------
(* What the documentation says and the code does not quite do: it is         *)
(* expected to be violated (see the findings in README.md).                  *)

\* README.md:203-206: zae installs the plan its own write produced; "if
\* someone else changes the addon meanwhile, zae stops with 1".
InstallsOnlyWhatWasShown ==
  released # Nil /\ released.uid = mine.uid => released.spec = shown.spec

============================================================================
