------------------------------ MODULE AddonAdd ------------------------------
(***************************************************************************)
(* One `zae addon add <chart>` (internal/addon/addon.go, wait.go,          *)
(* session.go): look whether the addon is there, create it suspended, wait *)
(* for the operator's plan of that very write, ask, and install.  Nothing  *)
(* is put back: what does not come to an install stays planned.  It runs   *)
(* against the resource of AddonResource, which others write too.          *)
(*                                                                         *)
(* Covered: a portal that reads through a cache (addon.go:46-49), so that  *)
(* a reading may be older than the write before it; an addon that is       *)
(* planned already and is planned anew; lost answers, a late install,      *)
(* signals; answers without a generation.                                  *)
(***************************************************************************)
EXTENDS AddonWait

CONSTANT
  Additions     \* the flags an add may be given

VARIABLES
  cached,     \* the addon as the portal reads it, or Nil
  pc,         \* where the command is
  req,        \* its flags
  sig,        \* a signal ended its context
  wrote,      \* the generation its create answered; 0 when it answered none
  grace,      \* a 404 is still asked again
  met,        \* the wait for the plan has had a reading
  shown,      \* the plan it printed, or Nil
  inst,       \* the generation its install answered
  code,       \* its exit code, "none" until it is known
  said,       \* the last thing it said about the addon
  late,       \* its install may still reach the portal
  mine,       \* history: what its create made, or Nil
  touched,    \* history: someone else changed the addon after that
  released    \* history: the spec its install released, or Nil

ownVars == <<pc, req, sig, wrote, grace, met, shown, inst, code, said, late,
             mine, touched, released>>

vars == <<resourceVars, cached, ownVars>>

\* The chart, --values and --set, the secret flags, --yes and --wait.
AddRequests == [chart : Charts, values : SUBSET Inputs, secret : BOOLEAN,
                yes : BOOLEAN, wait : BOOLEAN]

Writes == [uid : Nat, spec : Specs, fresh : BOOLEAN]

SpecsOf == [uid : Nat, spec : Specs]

ASSUME AdditionAssumption ==
  /\ Additions \subseteq AddRequests
  /\ Nil \notin Writes \cup SpecsOf

Places == {"read", "create", "plan", "confirm", "install", "ready", "done"}

Codes == {"none", "ok", "failed", "notOffered", "undetermined", "interrupted",
          "killed"}

Sayings == {"nothing", "installedAlready", "unknown", "changed", "refused",
            "stays"}

\* Every variable holds a value of its kind.
TypeOK ==
  /\ ResourceTypeOK
  /\ cached \in Resources \cup {Nil}
  /\ pc \in Places
  /\ req \in Additions
  /\ {sig, grace, met, late, touched} \subseteq BOOLEAN
  /\ {wrote, inst} \subseteq Nat
  /\ {shown, released} \subseteq SpecsOf \cup {Nil}
  /\ code \in Codes
  /\ said \in Sayings
  /\ mine \in Writes \cup {Nil}

----------------------------------------------------------------------------

Exit(c, words) ==
  /\ pc' = "done"
  /\ code' = c
  /\ said' = words

\* "undetermined" stands for whatever code the failed call has.
FailureCode == IF sig' THEN "interrupted" ELSE "undetermined"

SignalDuringCall == sig' \in {sig, TRUE}

\* The uid of an addon zae creates is nobody else's.
OwnUid == MaxForeign + 1

Init ==
  /\ \E c \in Charts :
       LET spec == [chart |-> c, values |-> {}, secrets |-> FALSE]
           plan == [spec |-> spec, ok |-> TRUE]
           new  == Created(0, spec)
       IN  res \in {Nil,
                    \* planned, not installed
                    [new EXCEPT !.obs = 1, !.phase = "Planned", !.plan = plan],
                    \* running
                    [new EXCEPT !.suspended = FALSE, !.gen = 2, !.obs = 2,
                                !.phase = "Ready", !.plan = plan,
                                !.applied = spec, !.registered = TRUE]}
  /\ cached = res
  /\ op = Nil
  /\ foreign = 0
  /\ pc = "read"
  /\ req \in Additions
  /\ sig = FALSE
  /\ wrote = 0
  /\ grace = FALSE
  /\ met = FALSE
  /\ shown = Nil
  /\ inst = 0
  /\ code = "none"
  /\ said = "nothing"
  /\ late = FALSE
  /\ mine = Nil
  /\ touched = FALSE
  /\ released = Nil

----------------------------------------------------------------------------
(* The command, step by step. *)

\* GET: an addon that runs, or is not suspended, is not added again.
Read ==
  /\ pc = "read"
  /\ ~sig
  /\ IF cached # Nil /\ (cached.applied # Nil \/ ~cached.suspended)
     THEN Exit("failed", "installedAlready")
     ELSE pc' = "create" /\ UNCHANGED <<code, said>>
  /\ UNCHANGED <<resourceVars, cached, req, sig, wrote, grace, met, shown, inst,
                 late, mine, touched, released>>

ReadFails ==
  /\ pc = "read"
  /\ SignalDuringCall
  /\ Exit(FailureCode, "nothing")
  /\ UNCHANGED <<resourceVars, cached, req, wrote, grace, met, shown, inst, late,
                 mine, touched, released>>

\* Fault: the create leaves the suspension of an addon it finds alone.
KeepsSuspension(r) ==
  IF r = Nil
  THEN Created(OwnUid, [chart |-> req.chart, values |-> req.values,
                        secrets |-> req.secret])
  ELSE Merged(r, [chart |-> req.chart, values |-> req.values,
                  secrets |-> r.spec.secrets \/ req.secret], r.suspended, req.secret)

\* POST makes the addon, or replaces the chart and the values of the one there
\* is; secret inputs already set stay.  Either way it is suspended.
Added(r) ==
  IF r = Nil
  THEN Created(OwnUid, [chart |-> req.chart, values |-> req.values,
                        secrets |-> req.secret])
  ELSE Merged(r, [chart |-> req.chart, values |-> req.values,
                  secrets |-> r.spec.secrets \/ req.secret], TRUE, req.secret)

\* The operator has seen no release of r: it has applied nothing, and has read
\* nothing it will apply later.
NeverReleased(r) ==
  /\ r.applied = Nil
  /\ op # Nil /\ op.uid = r.uid => op.suspended

PortalCreates ==
  /\ ~sig
  /\ res' = Added(res)
  /\ mine' = [uid |-> res'.uid, spec |-> res'.spec,
              fresh |-> res = Nil \/ NeverReleased(res)]
  /\ UNCHANGED <<op, foreign>>

\* An older portal answers no generation.
Create ==
  /\ pc = "create"
  /\ PortalCreates
  /\ wrote' \in {0, res'.gen}
  /\ grace' = TRUE
  /\ pc' = "plan"
  /\ UNCHANGED <<cached, req, sig, met, shown, inst, code, said, late, touched,
                 released>>

CreateFails ==
  /\ pc = "create"
  /\ SignalDuringCall
  /\ Exit(FailureCode, "unknown")
  /\ UNCHANGED <<resourceVars, cached, req, wrote, grace, met, shown, inst, late,
                 mine, touched, released>>

CreateUnanswered ==
  /\ pc = "create"
  /\ PortalCreates
  /\ SignalDuringCall
  /\ Exit(FailureCode, "unknown")
  /\ UNCHANGED <<cached, req, wrote, grace, met, shown, inst, late, touched,
                 released>>

\* One reading of the wait for the plan that decides something.
PollPlan ==
  /\ pc = "plan"
  /\ ~sig
  /\ cached # Nil
  /\ \/ /\ Changed(cached, wrote)
        /\ Exit("failed", "changed")
        /\ UNCHANGED shown
     \/ /\ ~Changed(cached, wrote)
        /\ PlanFor(cached, wrote)
        /\ IF PlanRefused(cached)
           THEN Exit("failed", "refused") /\ UNCHANGED shown
           ELSE /\ shown' = [uid |-> cached.uid, spec |-> cached.plan.spec]
                /\ pc' = IF req.yes THEN "install" ELSE "confirm"
                /\ UNCHANGED <<code, said>>
  /\ met' = TRUE
  /\ UNCHANGED <<resourceVars, cached, req, sig, wrote, grace, inst, late, mine,
                 touched, released>>

\* A reading that decides nothing, the first of them.
PollSees ==
  /\ pc = "plan"
  /\ ~sig
  /\ cached # Nil
  /\ ~met
  /\ ~Changed(cached, wrote)
  /\ ~PlanFor(cached, wrote)
  /\ met' = TRUE
  /\ UNCHANGED <<resourceVars, cached, pc, req, sig, wrote, grace, shown, inst, code,
                 said, late, mine, touched, released>>

PlanGone ==
  /\ pc = "plan"
  /\ ~sig
  /\ cached = Nil
  /\ ~grace
  /\ Exit("notOffered", "nothing")
  /\ UNCHANGED <<resourceVars, cached, req, sig, wrote, grace, met, shown, inst, late,
                 mine, touched, released>>

\* 15 s are longer than the portal's cache lags.
GraceEnds ==
  /\ pc = "plan"
  /\ grace
  /\ cached = res
  /\ grace' = FALSE
  /\ UNCHANGED <<resourceVars, cached, pc, req, sig, wrote, met, shown, inst, code,
                 said, late, mine, touched, released>>

\* The timeout - with nothing but 404 so far it ends as one - or a failure that
\* is not asked again.
PlanFails ==
  /\ pc = "plan"
  /\ \E c \in {"undetermined", IF met \/ cached # Nil THEN "failed" ELSE "notOffered"} :
       Exit(c, "nothing")
  /\ UNCHANGED <<resourceVars, cached, req, sig, wrote, grace, met, shown, inst, late,
                 mine, touched, released>>

PlanInterrupted ==
  /\ pc = "plan"
  /\ sig
  /\ Exit("interrupted", "stays")
  /\ UNCHANGED <<resourceVars, cached, req, sig, wrote, grace, met, shown, inst, late,
                 mine, touched, released>>

AnswerYes ==
  /\ pc = "confirm"
  /\ pc' = "install"
  /\ UNCHANGED <<resourceVars, cached, req, sig, wrote, grace, met, shown, inst, code,
                 said, late, mine, touched, released>>

\* No, a stray Enter, a closed stdin, or the signal.
AnswerNo ==
  /\ pc = "confirm"
  /\ \E c \in {"failed"} \cup (IF sig THEN {"interrupted"} ELSE {}) : Exit(c, "stays")
  /\ UNCHANGED <<resourceVars, cached, req, sig, wrote, grace, met, shown, inst, late,
                 mine, touched, released>>

PortalInstalls ==
  /\ CanInstall(res)
  /\ res' = Installed(res)
  /\ released' = [uid |-> res.uid, spec |-> res.spec]
  /\ UNCHANGED <<op, foreign>>

Install ==
  /\ pc = "install"
  /\ ~sig
  /\ PortalInstalls
  /\ inst' \in {0, res'.gen}
  /\ IF req.wait
     THEN pc' = "ready" /\ UNCHANGED <<code, said>>
     ELSE Exit("ok", said)
  /\ UNCHANGED <<cached, req, sig, wrote, grace, met, shown, late, mine, touched>>

\* 409, gone, refused, unreachable, or cut off before the portal did anything;
\* in the last case the portal may still do it.
InstallFails ==
  /\ pc = "install"
  /\ SignalDuringCall
  /\ Exit(FailureCode, "unknown")
  /\ late' \in {FALSE, ~sig}
  /\ UNCHANGED <<resourceVars, cached, req, wrote, grace, met, shown, inst, mine,
                 touched, released>>

InstallUnanswered ==
  /\ pc = "install"
  /\ ~sig
  /\ PortalInstalls
  /\ SignalDuringCall
  /\ Exit(FailureCode, "unknown")
  /\ UNCHANGED <<cached, req, wrote, grace, met, shown, inst, late, mine, touched>>

LateInstall ==
  /\ late
  /\ late' = FALSE
  /\ \/ PortalInstalls
     \/ UNCHANGED <<resourceVars, released>>
  /\ UNCHANGED <<cached, pc, req, sig, wrote, grace, met, shown, inst, code, said,
                 mine, touched>>

PollReady ==
  /\ pc = "ready"
  /\ ~sig
  /\ cached # Nil
  /\ \/ Changed(cached, inst) /\ Exit("failed", "changed")
     \/ ~Changed(cached, inst) /\ ReadyFor(cached, inst) /\ Exit("ok", said)
  /\ UNCHANGED <<resourceVars, cached, req, sig, wrote, grace, met, shown, inst, late,
                 mine, touched, released>>

ReadyFails ==
  /\ pc = "ready"
  /\ \E c \in {"failed", "undetermined"}
              \cup (IF sig THEN {"interrupted"} ELSE {})
              \cup (IF cached = Nil THEN {"notOffered"} ELSE {}) : Exit(c, said)
  /\ UNCHANGED <<resourceVars, cached, req, sig, wrote, grace, met, shown, inst, late,
                 mine, touched, released>>

Signal ==
  /\ pc # "done"
  /\ ~sig
  /\ sig' = TRUE
  /\ UNCHANGED <<resourceVars, cached, pc, req, wrote, grace, met, shown, inst, code,
                 said, late, mine, touched, released>>

\* The session listens for one signal only: the next one ends the process.
SecondSignal ==
  /\ pc # "done"
  /\ sig
  /\ Exit("killed", said)
  /\ UNCHANGED <<resourceVars, cached, req, sig, wrote, grace, met, shown, inst, late,
                 mine, touched, released>>

----------------------------------------------------------------------------
(* The world. *)

\* Bound: it is followed only as long as the command acts on it.
Followed == pc # "done" \/ late

CacheCatches ==
  /\ Followed
  /\ cached # res
  /\ cached' = res
  /\ UNCHANGED <<resourceVars, ownVars>>

OperatorStep == Followed /\ Operator /\ UNCHANGED <<cached, ownVars>>

Others ==
  /\ Followed
  /\ ForeignWrite
  /\ touched' = (touched \/ mine # Nil)
  /\ UNCHANGED <<cached, pc, req, sig, wrote, grace, met, shown, inst, code, said,
                 late, mine, released>>

Zae ==
  \/ Read \/ ReadFails
  \/ Create \/ CreateFails \/ CreateUnanswered
  \/ PollPlan \/ PollSees \/ PlanGone \/ PlanFails \/ PlanInterrupted
  \/ Install \/ InstallFails \/ InstallUnanswered
  \/ PollReady \/ ReadyFails

Person == AnswerYes \/ AnswerNo \/ Signal \/ SecondSignal

World == GraceEnds \/ LateInstall \/ CacheCatches \/ OperatorStep \/ Others

Next == Zae \/ Person \/ World

Spec == Init /\ [][Next]_vars

----------------------------------------------------------------------------
(* What the command promises. *)

\* The plan zae prints and asks about is the operator's plan for the spec its
\* own create made (planFor, wait.go), also when that create planned anew an
\* addon that had a plan, and when the portal still answers with the addon of
\* before (TestStalePlanIsNotShown).  Outside are an addon deleted and created
\* again, and a portal that answers no generation.
AddShowsItsOwnPlan ==
  shown # Nil /\ wrote > 0 /\ shown.uid = mine.uid => shown.spec = mine.spec

\* As long as nobody else writes after zae's create, its install releases what
\* it printed, on time or late (addon.go:472).  Outside is, again, an addon that
\* was deleted just before zae's create: a late reading of it may pass for the
\* new one, as both count their generations from 1.
AddInstallsWhatItShowed ==
  released # Nil /\ wrote > 0 /\ ~touched /\ shown.uid = mine.uid
    => released = shown

\* When zae says that the addon stays planned and applies nothing (add,
\* addon.go), that is how it stays - unless someone else has changed it, or the
\* operator had already read someone else's release of it before zae's create.
StaysPlanned ==
  said = "stays" /\ ~touched /\ mine.fresh =>
    /\ res # Nil
    /\ res.suspended
    /\ res.spec = mine.spec
    /\ res.applied = Nil
    /\ released = Nil

\* With --wait, exit 0 is given only for a reading in which the operator has
\* applied the spec this command released (readyFor, wait.go), however late the
\* portal's readings are.
AddReadyIsWhatWasInstalled ==
  [][pc = "ready" /\ code' = "ok" /\ inst > 0 /\ cached.uid = released.uid
       => cached.applied = released.spec]_vars

============================================================================
