------------------------------ MODULE Rollout ------------------------------
(***************************************************************************)
(* `zae platform restart` and `zae platform scale` with --wait             *)
(* (internal/platform/platform.go, wait.go, portal.go): read the listing,  *)
(* ask, write, and poll the listing until the rollout that very write      *)
(* asked for is over.  It runs against the workload of Deployment, which   *)
(* others write at the same time.                                          *)
(*                                                                         *)
(* Covered: pods that surge, fail and come back; counts and listings that  *)
(* lag; two restarts in one second; restarts, scalings, updates and        *)
(* rollbacks by others; an answer without a generation and a portal that   *)
(* reports no generations or no pod totals; calls that fail.               *)
(***************************************************************************)
EXTENDS Deployment

CONSTANTS
  Restart,      \* a restart is asked for, not a size
  Asked,        \* what may be asked for: Restart, or numbers of replicas
  Reports       \* what instances report, each of it a part of Reportable

Reportable == {"generation", "total", "answer"}

ASSUME RolloutAssumption ==
  /\ Reports \subseteq SUBSET Reportable
  /\ Restart \notin Nat
  /\ Asked \subseteq {Restart} \cup 0..MaxReplicas

VARIABLES
  reports,      \* what this instance reports
  pc,           \* where the command is
  want,         \* what it was asked for
  before,       \* the stamp of the workload it read
  roll,         \* what its write produced (rolloutOf)
  code,         \* its exit code; "failed" stands for every failure of a call
  moved,        \* history: its write changed the spec,
  steady,       \* and found the workload at rest, as zae had read it
  reached       \* history: since its write, what was asked for was so

historyVars == <<moved, steady, reached>>
vars == <<clusterVars, reports, pc, want, before, roll, code, historyVars>>

\* Every variable holds a value of its kind.
TypeOK ==
  /\ ClusterTypeOK
  /\ reports \in Reports
  /\ pc \in {"read", "ask", "wait", "done"}
  /\ want \in Asked
  /\ before \in Times
  /\ roll \in [gen : Nat, stamp : Times]
  /\ code \in {"none", "ok", "notOffered", "failed"}
  /\ moved \in BOOLEAN
  /\ steady \in BOOLEAN
  /\ reached \in BOOLEAN

----------------------------------------------------------------------------
(* How a listing is judged. *)

\* What zae sees of a generation or a stamp in a listing, and of its write's;
\* 0 where the instance does not report it.
Seen(n) == IF "generation" \in reports THEN n ELSE 0

Answered(n) == IF {"generation", "answer"} \subseteq reports THEN n ELSE 0

\* Nothing the wait is judged by is missing (missingRollout).
Exact == reports = Reportable

\* The cluster has acted on generation gen, and on the spec the workload has.
Observed(w, gen) ==
  /\ gen <= Seen(w.status.obs)
  /\ Seen(w.spec.gen) = 0 \/ Seen(w.status.obs) >= Seen(w.spec.gen)

\* Fault: the pods of older templates are not looked for.
IgnoresTheTotal(w, gen) ==
  /\ Observed(w, gen)
  /\ w.status.updated = w.spec.desired
  /\ w.status.available = w.status.updated
  /\ ~w.degraded

\* pendingFor finds nothing outstanding.
RolledOut(w, gen) ==
  /\ Observed(w, gen)
  /\ w.status.updated = w.spec.desired
  /\ "total" \in reports => w.status.total = w.status.updated
  /\ w.status.available = w.status.updated
  /\ ~w.degraded

\* Fault: the wait is for the stamp of this very restart.
WaitsForItsStamp(w) ==
  /\ w # Nil
  /\ want # Restart => w.spec.desired = want
  /\ roll.stamp # 0 => Seen(w.spec.tmpl.stamp) = roll.stamp
  /\ RolledOut(w, roll.gen)

\* workloadSettled: a stamp that is still the one from before the restart says
\* that these are the pods from before it.
Settled(w) ==
  /\ w # Nil
  /\ want # Restart => w.spec.desired = want
  /\ ~(roll.stamp # 0 /\ Seen(w.spec.tmpl.stamp) = before)
  /\ RolledOut(w, roll.gen)

\* rolloutOf: a stamp the write did not move is nothing to wait for.
RolloutOf(gen, stamp) ==
  [gen |-> gen, stamp |-> IF stamp # before THEN stamp ELSE 0]

----------------------------------------------------------------------------
(* What was asked for is so. *)

Complete(s, ps) ==
  /\ s # Nil
  /\ want # Restart => s.desired = want
  /\ Cardinality(ps) = s.desired
  /\ \A q \in ps : q.tmpl = s.tmpl /\ q.up

\* After a restart of a workload at rest, no pod from before it is left.
Replaced(ps) == want = Restart /\ steady => \A q \in ps : ~q.old

Notes(place, s, ps) ==
  reached' = (reached \/ (place = "wait" /\ Complete(s, ps) /\ Replaced(ps)))

----------------------------------------------------------------------------
(* The command. *)

Exit(c) ==
  /\ pc' = "done"
  /\ code' = c

\* Bound: beside an instance that does not report everything, others write less.
Init ==
  /\ \E i \in Images, n \in 0..MaxReplicas :
       LET t == [image |-> i, stamp |-> 0] IN
         /\ spec = [desired |-> n, tmpl |-> t, gen |-> 1]
         /\ pods = {[name |-> k, tmpl |-> t, up |-> TRUE, old |-> FALSE] : k \in 1..n}
  /\ status = CountOf(spec, pods)
  /\ listed = [spec |-> spec, status |-> status, degraded |-> FALSE]
  /\ now = 1
  /\ reports \in Reports
  /\ foreign = IF Exact THEN 0 ELSE 1
  /\ movedBack = FALSE
  /\ anew = FALSE
  /\ pc = "read"
  /\ want \in Asked
  /\ before = 0
  /\ roll = [gen |-> 0, stamp |-> 0]
  /\ code = "none"
  /\ moved = FALSE
  /\ steady = FALSE
  /\ reached = FALSE

\* requireConsole and find; a workload that is not listed is exit 3.
Read ==
  /\ pc = "read"
  /\ IF listed = Nil
     THEN Exit("notOffered") /\ UNCHANGED before
     ELSE /\ before' = Seen(listed.spec.tmpl.stamp)
          /\ pc' = "ask"
          /\ UNCHANGED code
  /\ UNCHANGED <<clusterVars, reports, want, roll, historyVars>>

\* The pods of before the restart.
Aged(ps) == {[q EXCEPT !.old = TRUE] : q \in ps}

Asks(s) == IF want = Restart THEN Stamped(s) ELSE Written(s, s.tmpl, want)

\* POST .../restart or .../scale, after the question.
Write ==
  /\ pc = "ask"
  /\ spec # Nil
  /\ spec' = Asks(spec)
  /\ pods' = IF want = Restart THEN Aged(pods) ELSE pods
  /\ roll' = RolloutOf(Answered(spec'.gen), IF want = Restart THEN Answered(now) ELSE 0)
  /\ moved' = (spec' # spec)
  /\ steady' = (spec.tmpl.stamp = before /\ \A q \in pods : q.tmpl = spec.tmpl)
  /\ pc' = "wait"
  /\ UNCHANGED <<status, listed, now, foreign, movedBack, anew, reports, want, before, code, reached>>

\* The person says no, a call fails, or the write was done and its answer lost.
Stops ==
  /\ reports \in Reports
  /\ pc \in {"read", "ask"}
  /\ Exit("failed")
  /\ spec' \in {spec} \cup (IF pc = "ask" /\ spec # Nil THEN {Asks(spec)} ELSE {})
  /\ UNCHANGED <<pods, status, listed, now, foreign, movedBack, anew, reports, want, before, roll,
                 historyVars>>

\* A reading of the listing that settles the wait; any other is followed by the
\* next one.
Poll ==
  /\ pc = "wait"
  /\ Settled(listed)
  /\ Exit("ok")
  /\ UNCHANGED <<clusterVars, reports, want, before, roll, historyVars>>

\* --timeout passed, or a call failed in a way that waiting does not cure.
PollEnds ==
  /\ pc = "wait"
  /\ Exit("failed")
  /\ UNCHANGED <<clusterVars, reports, want, before, roll, historyVars>>

Zae == Read \/ Write \/ Stops \/ Poll \/ PollEnds

\* Bound: the world is followed only as long as the command acts on it.
World ==
  /\ pc # "done"
  /\ Cluster \/ ForeignWrite
  /\ Notes(pc, spec', pods')
  /\ UNCHANGED <<reports, pc, want, before, roll, code, moved, steady>>

Next == Zae \/ World

Spec == Init /\ [][Next]_vars

----------------------------------------------------------------------------
(* What the command promises. *)

\* An exact wait that ended well saw its own rollout through: at some moment
\* after the write there were as many pods as asked for, all from the current
\* template, all available - and after a restart none of them from before it -
\* however the cluster surges, its counts and listings lag, or others write
\* (pendingFor, portal.go; README.md:407-411).  A write that changed nothing is
\* outside: what it asks for may have been counted before it; and so is a workload
\* that was deleted meanwhile: of one created anew the generations begin again, and
\* a listing from before it may reach the generation of zae's write.
OkSawItsRollout ==
  pc = "done" /\ code = "ok" /\ Exact /\ moved /\ ~anew => reached

\* A wait does not sit there when there is nothing left to wait for: once what
\* was asked for is so, counted and listed, and the portal does not call the
\* workload degraded (portal.go:365-369), the next reading ends it - also when
\* its restart fell in the second of another one or was superseded by a later
\* one (rollout.stamp, wait.go:154-158, and wait.go:198-202).  Outside are
\* workloads someone put back to an older template or created anew.
FinishedIsAccepted ==
  /\ pc = "wait"
  /\ Complete(spec, pods)
  /\ status = CountOf(spec, pods)
  /\ listed # Nil /\ listed.spec = spec /\ listed.status = status /\ ~listed.degraded
  /\ ~movedBack
  => Settled(listed)

============================================================================
