----------------------------- MODULE Deployment -----------------------------
(***************************************************************************)
(* One workload of an instance, as the cluster runs it and as portal-api   *)
(* lists it.  Neither is part of this repository: both are modelled from   *)
(* how internal/platform judges a rollout (portal.go, wait.go) and from    *)
(* the portal its tests stand in for (platform_test.go).                   *)
(*                                                                         *)
(*  - A write that changes the spec moves the generation.  A restart is    *)
(*    one: it stamps the pod template with the second it was asked in.     *)
(*  - Pods follow the spec one at a time, with a surge of one; the status  *)
(*    counts them at a moment of its own, for the spec of that moment.     *)
(*  - The portal's listing is the state of some moment since, never older  *)
(*    than what it listed before.  It may call a workload degraded; that   *)
(*    is followed only where the counts say otherwise.                     *)
(*  - The operator, a person with kubectl or another zae may write at any  *)
(*    time, roll back to an older template, or delete the workload and     *)
(*    create it again, which starts its generations anew.                  *)
(***************************************************************************)
EXTENDS Naturals, FiniteSets

CONSTANTS
  Images,       \* what a pod template can run
  Nil,          \* no workload
  MaxReplicas,  \* bound: replicas asked for
  MaxTime,      \* bound: seconds the clock counts
  MaxForeign    \* bound: writes by someone else

VARIABLES
  spec,         \* the Deployment's spec, or Nil
  pods,         \* the pods that run
  status,       \* what the cluster last counted
  listed,       \* the workload as the portal lists it, or Nil
  now,          \* the clock
  foreign,      \* writes by someone else so far
  movedBack,    \* history: one of them put back an older template, or began anew
  anew          \* history: one of them deleted the workload

clusterVars == <<spec, pods, status, listed, now, foreign, movedBack, anew>>

Times == 0..MaxTime

\* stamp 0: never restarted.
Templates == [image : Images, stamp : Times]

DeploymentSpecs == [desired : 0..MaxReplicas, tmpl : Templates, gen : Nat]

Names == 1..(MaxReplicas + 1)

\* old: history, it ran when zae asked for its restart.
Pods == [name : Names, tmpl : Templates, up : BOOLEAN, old : BOOLEAN]

Counts == [obs : Nat, total : Nat, updated : Nat, available : Nat]

Listings == [spec : DeploymentSpecs, status : Counts, degraded : BOOLEAN]

ASSUME DeploymentAssumption ==
  /\ MaxReplicas \in Nat
  /\ MaxTime \in Nat \ {0}
  /\ MaxForeign \in Nat \ {0}
  /\ Nil \notin DeploymentSpecs \cup Listings

ClusterTypeOK ==
  /\ spec \in DeploymentSpecs \cup {Nil}
  /\ pods \subseteq Pods
  /\ status \in Counts
  /\ listed \in Listings \cup {Nil}
  /\ now \in Times
  /\ foreign \in 0..MaxForeign
  /\ movedBack \in BOOLEAN
  /\ anew \in BOOLEAN

----------------------------------------------------------------------------
(* The cluster. *)

CountOf(s, ps) ==
  [obs |-> s.gen,
   total |-> Cardinality(ps),
   updated |-> Cardinality({q \in ps : q.tmpl = s.tmpl}),
   available |-> Cardinality({q \in ps : q.up})]

\* A spec with another template or another size is another generation.
Written(s, tmpl, desired) ==
  IF s.tmpl = tmpl /\ s.desired = desired THEN s
  ELSE [desired |-> desired, tmpl |-> tmpl, gen |-> s.gen + 1]

Stamped(s) == Written(s, [s.tmpl EXCEPT !.stamp = now], s.desired)

FreeNames == {n \in Names : \A q \in pods : q.name # n}

\* A surge of one: never more than one pod beside those asked for.
PodStarts ==
  /\ spec # Nil
  /\ Cardinality({q \in pods : q.tmpl = spec.tmpl}) < spec.desired
  /\ Cardinality(pods) <= spec.desired
  /\ pods' = pods \cup {[name |-> CHOOSE n \in FreeNames : TRUE, tmpl |-> spec.tmpl,
                         up |-> FALSE, old |-> FALSE]}

\* A pod becomes available, or is no longer.
PodTurns ==
  \E q \in pods : pods' = (pods \ {q}) \cup {[q EXCEPT !.up = ~@]}

\* A pod of an older template goes, or one too many.
PodStops ==
  /\ spec # Nil
  /\ \E q \in pods :
       /\ q.tmpl # spec.tmpl \/ Cardinality(pods) > spec.desired
       /\ pods' = pods \ {q}

PodStep == (PodStarts \/ PodTurns \/ PodStops)
           /\ UNCHANGED <<spec, status, listed, now, foreign, movedBack, anew>>

ClusterCounts ==
  /\ spec # Nil
  /\ status' = CountOf(spec, pods)
  /\ status' # status
  /\ UNCHANGED <<spec, pods, listed, now, foreign, movedBack, anew>>

\* The counts speak of as many available pods as are asked for.
CountsWell == status.updated = spec.desired /\ status.available = status.updated

NowListed ==
  IF spec = Nil THEN {Nil}
  ELSE {[spec |-> spec, status |-> status, degraded |-> p] :
          p \in IF CountsWell THEN BOOLEAN ELSE {FALSE}}

PortalLists ==
  /\ listed' \in NowListed
  /\ listed' # listed
  /\ UNCHANGED <<spec, pods, status, now, foreign, movedBack, anew>>

Tick ==
  /\ now < MaxTime
  /\ now' = now + 1
  /\ UNCHANGED <<spec, pods, status, listed, foreign, movedBack, anew>>

Cluster == PodStep \/ ClusterCounts \/ PortalLists \/ Tick

----------------------------------------------------------------------------
(* Someone else. *)

ForeignChange ==
  /\ spec # Nil
  /\ \/ spec' = Stamped(spec)
     \/ \E n \in 0..MaxReplicas : spec' = Written(spec, spec.tmpl, n)
     \/ \E i \in Images : spec' = Written(spec, [spec.tmpl EXCEPT !.image = i], spec.desired)
  /\ spec' # spec
  /\ UNCHANGED <<pods, status, movedBack, anew>>

\* kubectl rollout undo: a template from before the current one.
ForeignUndo ==
  /\ spec # Nil
  /\ \E t \in Templates :
       /\ t.stamp < spec.tmpl.stamp
       /\ spec' = Written(spec, t, spec.desired)
  /\ movedBack' = TRUE
  /\ UNCHANGED <<pods, status, anew>>

ForeignDelete ==
  /\ spec # Nil
  /\ spec' = Nil
  /\ pods' = {}
  /\ movedBack' = TRUE
  /\ anew' = TRUE
  /\ UNCHANGED status

ForeignCreate ==
  /\ spec = Nil
  /\ \E i \in Images, n \in 0..MaxReplicas :
       spec' = [desired |-> n, tmpl |-> [image |-> i, stamp |-> 0], gen |-> 1]
  /\ status' = [obs |-> 0, total |-> 0, updated |-> 0, available |-> 0]
  /\ UNCHANGED <<pods, movedBack, anew>>

ForeignWrite ==
  /\ foreign < MaxForeign
  /\ foreign' = foreign + 1
  /\ ForeignChange \/ ForeignUndo \/ ForeignDelete \/ ForeignCreate
  /\ UNCHANGED <<listed, now>>

============================================================================
