----------------------------- MODULE AddonWait -----------------------------
(***************************************************************************)
(* How `zae addon add` and `zae addon upgrade` judge one reading of the    *)
(* addon they wait for (internal/addon/wait.go, planRefusal in addon.go).  *)
(***************************************************************************)
EXTENDS AddonResource

PlanningPhases == {"Planned", "PlanFailed", "Failed"}

\* Fault: one write by someone else goes unnoticed.
ChangedTwice(a, gen) == gen > 0 /\ a.gen > gen + 1

\* Someone else wrote the addon after generation gen.
Changed(a, gen) == gen > 0 /\ a.gen > gen

\* Fault: any plan will do, whatever it is a plan of.
AnyPlan(a, gen) == a.suspended /\ a.phase \in PlanningPhases

\* The status is for zae's own write, or, when the portal does not say which
\* generation that is, is a plan at all.
PlanFor(a, gen) ==
  IF gen = 0
  THEN a.suspended /\ a.phase \in PlanningPhases
  ELSE a.obs >= gen

PlanRefused(a) == a.plan = Nil \/ ~a.plan.ok \/ a.phase # "Planned"

ReadyFor(a, gen) ==
  a.phase = "Ready" /\ a.registered /\ ~a.suspended /\ a.obs >= gen

=============================================================================
