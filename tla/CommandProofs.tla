--------------------------- MODULE CommandProofs ---------------------------
(***************************************************************************)
(* What restart and scale (Rollout) promise, for every set of images, any  *)
(* number of replicas, any time and any number of writes by others; and    *)
(* what setup and the declared commands (Dispatch) do, for every number of *)
(* other admins, of paths a command may be declared at, and of things that *)
(* happen between two calls.                                               *)
(*                                                                         *)
(* Rollout: that a listing which looks settled is of a rollout that took   *)
(* place does not follow from that listing: it follows from the moment its *)
(* counts were made.  Counts of the generation of the spec were made of    *)
(* the pods of that generation (CountedInv), and the listing is of a       *)
(* moment when the counts were that (ListedInv).                           *)
(*                                                                         *)
(* Setup: up to its write a run has said and done nothing (SetupQuiet),    *)
(* and a write that arrives brings about what was asked for.  A declared   *)
(* command: the two histories keep up with what the instance declares      *)
(* (Followed), and only one that was declared is called (CallsDeclared).   *)
(***************************************************************************)
EXTENDS Rollout, Dispatch, FiniteSetTheorems, TLAPS

----------------------------------------------------------------------------
(* Rollout: the inductive invariant. *)

\* The pods can be counted.
FiniteInv == IsFiniteSet(pods)

\* No stamp is from the future.
ClockInv ==
  /\ now >= 1
  /\ before <= now
  /\ spec # Nil => spec.tmpl.stamp <= now
  /\ listed # Nil => listed.spec.tmpl.stamp <= now

\* The counts are of a generation there was.
GenInv == spec # Nil => spec.gen >= 1 /\ status.obs <= spec.gen

\* Unless the workload was deleted, the listing is of no later counts.
LagInv ==
  /\ anew => movedBack
  /\ ~anew => spec # Nil /\ listed # Nil /\ listed.status.obs <= status.obs

\* Nothing is known of a write that has not been made.
PlaceInv == pc \in {"read", "ask"} => ~moved /\ ~steady

\* The pods from before the restart of a workload at rest have the stamp of
\* before, and the restart has another.
OldInv ==
  want = Restart /\ steady =>
    /\ \A q \in pods : q.old => q.tmpl.stamp = before
    /\ moved /\ Exact => roll.stamp # 0

\* What the write answered is behind what the workload is at.
RollInv ==
  pc = "wait" =>
    /\ "generation" \notin reports => roll.gen = 0
    /\ roll.stamp # 0 => "generation" \in reports /\ before < roll.stamp
    /\ ~movedBack => roll.gen <= spec.gen /\ roll.stamp <= spec.tmpl.stamp

\* A state that looks settled was one in which what was asked for was so.
Saw(w) == pc = "wait" /\ moved /\ Exact /\ Settled(w) => reached

CountedInv == spec # Nil => Saw([spec |-> spec, status |-> status, degraded |-> FALSE])

ListedInv == ~anew => Saw(listed)

IInv ==
  /\ TypeOK
  /\ FiniteInv
  /\ ClockInv
  /\ GenInv
  /\ LagInv
  /\ PlaceInv
  /\ OldInv
  /\ RollInv
  /\ CountedInv
  /\ ListedInv
  /\ OkSawItsRollout

----------------------------------------------------------------------------
(* The operators. *)

\* A write of the spec (Deployment) is another generation or none.
LEMMA WrittenIs ==
  ASSUME NEW s \in DeploymentSpecs, NEW t \in Templates, NEW d \in 0..MaxReplicas
  PROVE  /\ Written(s, t, d) \in DeploymentSpecs
         /\ Written(s, t, d).tmpl = t
         /\ Written(s, t, d).desired = d
         /\ Written(s, t, d) = s \/ Written(s, t, d).gen = s.gen + 1
BY DEF Written, DeploymentSpecs

\* A restart stamps the template with the present second.
LEMMA StampedIs ==
  ASSUME NEW s \in DeploymentSpecs, now \in Times
  PROVE  /\ [s.tmpl EXCEPT !.stamp = now] \in Templates
         /\ Stamped(s) \in DeploymentSpecs
         /\ Stamped(s).tmpl.stamp = now
         /\ Stamped(s) = s \/ Stamped(s).gen = s.gen + 1
<1> DEFINE t == [s.tmpl EXCEPT !.stamp = now]
<1>1. t \in Templates /\ t.stamp = now
  BY DEF DeploymentSpecs, Templates
<1>2. s.desired \in 0..MaxReplicas
  BY DEF DeploymentSpecs
<1>3. Stamped(s) = Written(s, t, s.desired)
  BY DEF Stamped
<1> HIDE DEF t
<1>4. /\ Written(s, t, s.desired) \in DeploymentSpecs
      /\ Written(s, t, s.desired).tmpl = t
      /\ Written(s, t, s.desired) = s \/ Written(s, t, s.desired).gen = s.gen + 1
  BY <1>1, <1>2, WrittenIs
<1> QED BY <1>1, <1>3, <1>4 DEF t

\* The write of restart and scale (platform.go), likewise.
LEMMA AsksIs ==
  ASSUME NEW s \in DeploymentSpecs, now \in Times, want \in Asked
  PROVE  /\ Asks(s) \in DeploymentSpecs
         /\ Asks(s) = s \/ Asks(s).gen = s.gen + 1
         /\ want = Restart => Asks(s).tmpl.stamp = now
         /\ want # Restart => Asks(s).tmpl = s.tmpl
<1>1. CASE want = Restart
  BY <1>1, StampedIs DEF Asks
<1>2. CASE want # Restart
  <2>1. want \in 0..MaxReplicas
    BY <1>2, RolloutAssumption
  <2>2. s.tmpl \in Templates
    BY DEF DeploymentSpecs
  <2> QED BY <1>2, <2>1, <2>2, WrittenIs DEF Asks
<1> QED BY <1>1, <1>2

\* Counting (the Deployment controller's) gives natural numbers.
LEMMA CountOfType ==
  ASSUME NEW s \in DeploymentSpecs, NEW ps, IsFiniteSet(ps)
  PROVE  CountOf(s, ps) \in Counts
<1>1. Cardinality(ps) \in Nat
  BY FS_CardinalityType
<1>2. Cardinality({q \in ps : q.tmpl = s.tmpl}) \in Nat
  BY FS_CardinalityType, FS_Subset
<1>3. Cardinality({q \in ps : q.up}) \in Nat
  BY FS_CardinalityType, FS_Subset
<1> QED BY <1>1, <1>2, <1>3 DEF CountOf, Counts, DeploymentSpecs

\* Counts that agree with the size asked for are of pods that all are of the
\* current template and available (pendingFor, portal.go).
LEMMA FullCounts ==
  ASSUME NEW s \in DeploymentSpecs, NEW ps, IsFiniteSet(ps),
         CountOf(s, ps).total = s.desired,
         CountOf(s, ps).updated = s.desired,
         CountOf(s, ps).available = s.desired
  PROVE  Cardinality(ps) = s.desired /\ \A q \in ps : q.tmpl = s.tmpl /\ q.up
<1>1. {q \in ps : q.tmpl = s.tmpl} = ps
  BY FS_Subset, {q \in ps : q.tmpl = s.tmpl} \subseteq ps DEF CountOf
<1>2. {q \in ps : q.up} = ps
  BY FS_Subset, {q \in ps : q.up} \subseteq ps DEF CountOf
<1> QED BY <1>1, <1>2 DEF CountOf

\* There is a name for a surging pod (the surge of one of Deployment).
LEMMA NameIsFree ==
  ASSUME FiniteInv, pods \subseteq Pods, NEW d \in 0..MaxReplicas, Cardinality(pods) <= d
  PROVE  FreeNames # {}
<1> DEFINE used == {q.name : q \in pods}
<1>1. IsFiniteSet(used) /\ Cardinality(used) <= Cardinality(pods)
  <2>1. [q \in pods |-> q.name] \in Surjection(pods, used)
    BY DEF Surjection
  <2> QED BY <2>1, FS_Surjection DEF FiniteInv
<1>2. Cardinality(Names) = MaxReplicas + 1
  BY FS_Interval, DeploymentAssumption DEF Names
<1>3. SUFFICES ASSUME Names \subseteq used PROVE FALSE
  BY DEF FreeNames
<1>4. Cardinality(Names) <= Cardinality(used)
  BY <1>1, <1>3, FS_Subset
<1>5. Cardinality(pods) \in Nat /\ Cardinality(used) \in Nat
  BY <1>1, FS_CardinalityType DEF FiniteInv
<1> QED BY <1>1, <1>2, <1>4, <1>5, DeploymentAssumption

----------------------------------------------------------------------------
(* How the workload changes. *)

\* Someone writes the spec: the next generation, with a later stamp or moved back.
Changes ==
  /\ spec # Nil
  /\ spec' \in DeploymentSpecs
  /\ spec'.gen = spec.gen + 1
  /\ \/ spec'.tmpl.stamp \in {spec.tmpl.stamp, now} /\ movedBack' = movedBack
     \/ spec'.tmpl.stamp < spec.tmpl.stamp /\ movedBack' = TRUE
  /\ UNCHANGED <<pods, status, listed, now, anew>>

Goes ==
  /\ spec # Nil
  /\ spec' = Nil
  /\ pods' = {}
  /\ movedBack' = TRUE
  /\ anew' = TRUE
  /\ UNCHANGED <<status, listed, now>>

Comes ==
  /\ spec = Nil
  /\ spec' \in DeploymentSpecs
  /\ spec'.gen = 1
  /\ spec'.tmpl.stamp = 0
  /\ status' = [obs |-> 0, total |-> 0, updated |-> 0, available |-> 0]
  /\ UNCHANGED <<pods, listed, now, movedBack, anew>>

\* Writes of others (Deployment) are of one of these kinds.
LEMMA ForeignIs ==
  ASSUME TypeOK, ForeignWrite
  PROVE  Changes \/ Goes \/ Comes
<1>1. now \in Times /\ (spec # Nil => spec \in DeploymentSpecs)
  BY DEF TypeOK, ClusterTypeOK
<1>2. CASE ForeignChange
  <2>1. spec \in DeploymentSpecs /\ spec' # spec
    BY <1>1, <1>2 DEF ForeignChange
  <2>2. CASE spec' = Stamped(spec)
    BY <1>1, <1>2, <2>1, <2>2, StampedIs DEF Changes, ForeignChange, ForeignWrite
  <2>3. CASE \E n \in 0..MaxReplicas : spec' = Written(spec, spec.tmpl, n)
    <3>1. spec.tmpl \in Templates
      BY <2>1 DEF DeploymentSpecs
    <3> QED BY <1>1, <1>2, <2>1, <2>3, <3>1, WrittenIs DEF Changes, ForeignChange, ForeignWrite
  <2>4. CASE \E i \in Images : spec' = Written(spec, [spec.tmpl EXCEPT !.image = i], spec.desired)
    <3>1. PICK i \in Images : spec' = Written(spec, [spec.tmpl EXCEPT !.image = i], spec.desired)
      BY <2>4
    <3> DEFINE t == [spec.tmpl EXCEPT !.image = i]
    <3>2. t \in Templates /\ t.stamp = spec.tmpl.stamp /\ spec.desired \in 0..MaxReplicas
      BY <2>1 DEF DeploymentSpecs, Templates
    <3>3. spec' = Written(spec, t, spec.desired)
      BY <3>1
    <3> HIDE DEF t
    <3> QED BY <1>2, <2>1, <3>2, <3>3, WrittenIs DEF Changes, ForeignChange, ForeignWrite
  <2> QED BY <1>2, <2>2, <2>3, <2>4 DEF ForeignChange
<1>3. CASE ForeignUndo
  <2>1. spec \in DeploymentSpecs
    BY <1>1, <1>3 DEF ForeignUndo
  <2>2. PICK t \in Templates : t.stamp < spec.tmpl.stamp /\ spec' = Written(spec, t, spec.desired)
    BY <1>3 DEF ForeignUndo
  <2>3. spec.desired \in 0..MaxReplicas /\ spec.tmpl.stamp \in Nat
    BY <2>1 DEF DeploymentSpecs, Templates, Times
  <2>4. /\ spec' \in DeploymentSpecs
        /\ spec'.tmpl = t
        /\ spec' = spec \/ spec'.gen = spec.gen + 1
    BY <2>1, <2>2, <2>3, WrittenIs
  <2>5. t.stamp \in Nat
    BY DEF Templates, Times
  <2>6. spec' # spec
    BY <2>2, <2>3, <2>4, <2>5
  <2> QED BY <1>3, <2>2, <2>4, <2>6 DEF Changes, ForeignUndo, ForeignWrite
<1>4. CASE ForeignDelete
  BY <1>4 DEF ForeignDelete, ForeignWrite, Goes
<1>5. CASE ForeignCreate
  <2>1. \A i \in Images, n \in 0..MaxReplicas :
          [desired |-> n, tmpl |-> [image |-> i, stamp |-> 0], gen |-> 1] \in DeploymentSpecs
    BY DeploymentAssumption DEF DeploymentSpecs, Templates, Times
  <2> QED BY <1>5, <2>1 DEF ForeignCreate, ForeignWrite, Comes
<1> QED BY <1>2, <1>3, <1>4, <1>5 DEF ForeignWrite

\* A pod from before the restart (Write) differs in nothing else.
LEMMA AgedPod ==
  ASSUME NEW q \in Pods
  PROVE  /\ [q EXCEPT !.old = TRUE] \in Pods
         /\ [q EXCEPT !.old = TRUE].tmpl = q.tmpl
<1>1. [q EXCEPT !.old = TRUE] \in Pods
  BY DEF Pods
<1>2. [q EXCEPT !.old = TRUE].tmpl = q.tmpl
  BY DEF Pods
<1> QED BY <1>1, <1>2

\* A pod that starts, turns or stops (Deployment) leaves a finite set of pods, and
\* none of them is from before the restart that was not.
LEMMA PodsAre ==
  ASSUME TypeOK, FiniteInv, PodStep
  PROVE  /\ pods' \subseteq Pods
         /\ IsFiniteSet(pods')
         /\ \A q \in pods' : q.old => \E r \in pods : r.old /\ r.tmpl = q.tmpl
<1>1. pods \subseteq Pods /\ spec \in DeploymentSpecs \cup {Nil}
  BY DEF TypeOK, ClusterTypeOK
<1>2. CASE PodStarts
  <2> DEFINE n == CHOOSE n \in FreeNames : TRUE
  <2>1. spec \in DeploymentSpecs /\ spec.desired \in 0..MaxReplicas /\ spec.tmpl \in Templates
    BY <1>1, <1>2 DEF PodStarts, DeploymentSpecs
  <2>2. n \in Names
    <3>1. FreeNames # {}
      BY <1>1, <1>2, <2>1, NameIsFree DEF PodStarts
    <3> QED BY <3>1 DEF FreeNames
  <2>3. pods' = pods \cup {[name |-> n, tmpl |-> spec.tmpl, up |-> FALSE, old |-> FALSE]}
    BY <1>2 DEF PodStarts
  <2> HIDE DEF n
  <2>4. [name |-> n, tmpl |-> spec.tmpl, up |-> FALSE, old |-> FALSE] \in Pods
    BY <2>1, <2>2 DEF Pods
  <2>5. IsFiniteSet(pods')
    BY <2>3, FS_AddElement DEF FiniteInv
  <2>6. \A q \in pods' : q.old => q \in pods
    BY <2>3
  <2> QED BY <1>1, <2>3, <2>4, <2>5, <2>6
<1>3. CASE PodTurns
  <2>1. PICK q \in pods : pods' = (pods \ {q}) \cup {[q EXCEPT !.up = ~@]}
    BY <1>3 DEF PodTurns
  <2>2. [q EXCEPT !.up = ~@] = [name |-> q.name, tmpl |-> q.tmpl, up |-> ~q.up, old |-> q.old]
    BY <1>1 DEF Pods
  <2>3. [name |-> q.name, tmpl |-> q.tmpl, up |-> ~q.up, old |-> q.old] \in Pods
    BY <1>1 DEF Pods
  <2>4. IsFiniteSet(pods \ {q})
    BY FS_RemoveElement DEF FiniteInv
  <2>5. IsFiniteSet(pods')
    BY <2>1, <2>4, FS_AddElement
  <2> QED BY <1>1, <2>1, <2>2, <2>3, <2>5
<1>4. CASE PodStops
  <2>1. PICK q \in pods : pods' = pods \ {q}
    BY <1>4 DEF PodStops
  <2> QED BY <1>1, <2>1, FS_RemoveElement DEF FiniteInv
<1> QED BY <1>2, <1>3, <1>4 DEF PodStep

----------------------------------------------------------------------------
(* The initial states. *)

\* A command that has read nothing, and the workload at rest (Rollout's Init).
LEMMA InitInv == Init => IInv
<1> SUFFICES ASSUME Init PROVE IInv
  OBVIOUS
<1>1. PICK i \in Images, n \in 0..MaxReplicas :
        LET t == [image |-> i, stamp |-> 0] IN
          /\ spec = [desired |-> n, tmpl |-> t, gen |-> 1]
          /\ pods = {[name |-> k, tmpl |-> t, up |-> TRUE, old |-> FALSE] : k \in 1..n}
  BY DEF Init
<1> DEFINE t == [image |-> i, stamp |-> 0]
           pod(k) == [name |-> k, tmpl |-> t, up |-> TRUE, old |-> FALSE]
<1>2. t \in Templates
  BY DeploymentAssumption DEF Templates, Times
<1>3. spec \in DeploymentSpecs /\ spec # Nil /\ spec.gen = 1 /\ spec.tmpl.stamp = 0
  BY <1>1, <1>2, DeploymentAssumption DEF DeploymentSpecs
<1>4. \A k \in 1..n : pod(k) \in Pods
  BY <1>2, DeploymentAssumption DEF Pods, Names
<1>5. pods = {pod(k) : k \in 1..n}
  BY <1>1
<1>6. pods \subseteq Pods
  BY <1>4, <1>5
<1>7. IsFiniteSet(pods)
  <2>1. [k \in 1..n |-> pod(k)] \in Surjection(1..n, pods)
    BY <1>5 DEF Surjection
  <2>2. IsFiniteSet(1..n)
    BY FS_Interval, DeploymentAssumption
  <2> QED BY <2>1, <2>2, FS_Surjection
<1> HIDE DEF t, pod
<1>8. status \in Counts /\ status.obs = spec.gen
  BY <1>3, <1>7, CountOfType DEF Init, CountOf
<1>9. listed.spec = spec /\ listed.status = status /\ listed \in Listings /\ listed # Nil
  <2>1. listed = [spec |-> spec, status |-> status, degraded |-> FALSE]
    BY DEF Init
  <2>2. listed \in Listings
    BY <1>3, <1>8, <2>1 DEF Listings
  <2> QED
    BY <2>1, <2>2, DeploymentAssumption
<1>10. foreign \in 0..MaxForeign /\ now \in Times
  BY DeploymentAssumption DEF Init, Times
<1>11. ClusterTypeOK
  BY <1>3, <1>6, <1>8, <1>9, <1>10 DEF Init, ClusterTypeOK
<1>12. TypeOK
  <2>1. roll \in [gen : Nat, stamp : Times] /\ before \in Times
    BY DeploymentAssumption DEF Init, Times
  <2>2. pc = "read" /\ code = "none"
    BY DEF Init
  <2>3. moved \in BOOLEAN /\ steady \in BOOLEAN /\ reached \in BOOLEAN
    BY DEF Init
  <2>4. reports \in Reports /\ want \in Asked
    BY DEF Init
  <2> QED BY <1>11, <2>1, <2>2, <2>3, <2>4 DEF TypeOK
<1>13. ClockInv /\ GenInv /\ LagInv
  <2>1. now = 1 /\ before = 0 /\ ~anew
    BY DEF Init
  <2> QED
    BY <1>3, <1>8, <1>9, <2>1 DEF ClockInv, GenInv, LagInv
<1>14. PlaceInv /\ OldInv /\ RollInv /\ CountedInv /\ ListedInv /\ OkSawItsRollout
  BY DEF Init, PlaceInv, OldInv, RollInv, CountedInv, ListedInv, Saw, OkSawItsRollout
<1> QED BY <1>7, <1>12, <1>13, <1>14 DEF IInv, FiniteInv

----------------------------------------------------------------------------
(* The steps. *)

\* The portal lists the workload as it is, and calls it what it may (Listed, portal.go).
LEMMA ListsNow ==
  ASSUME PortalLists
  PROVE  /\ spec = Nil => listed' = Nil
         /\ spec # Nil => \E p \in BOOLEAN :
                            listed' = [spec |-> spec, status |-> status, degraded |-> p]
BY DEF PortalLists, NowListed

\* Every action of cluster, others and command keeps each variable of its kind.
LEMMA TypeStep ==
  ASSUME TypeOK, FiniteInv, [Next]_vars
  PROVE  TypeOK' /\ FiniteInv'
<1> USE DEF TypeOK, ClusterTypeOK
<1>1. CASE Read
  <2>1. CASE listed = Nil
    BY <1>1, <2>1 DEF Read, Exit, FiniteInv, clusterVars, historyVars
  <2>2. CASE listed # Nil
    <3>1. listed.spec.tmpl.stamp \in Times
      BY <2>2 DEF Listings, DeploymentSpecs, Templates
    <3>2. before' \in Times
      BY <1>1, <2>2, <3>1, DeploymentAssumption DEF Read, Seen, Times
    <3> QED BY <1>1, <2>2, <3>2 DEF Read, FiniteInv, clusterVars, historyVars
  <2> QED BY <2>1, <2>2
<1>2. CASE Write
  <2>1. spec \in DeploymentSpecs /\ spec' = Asks(spec)
    BY <1>2 DEF Write
  <2>2. spec' \in DeploymentSpecs
    BY <2>1, AsksIs
  <2>3. roll' \in [gen : Nat, stamp : Times]
    <3>1. Answered(spec'.gen) \in Nat
      BY <2>2 DEF Answered, DeploymentSpecs
    <3>2. (IF want = Restart THEN Answered(now) ELSE 0) \in Times
      BY DeploymentAssumption DEF Answered, Times
    <3> QED BY <1>2, <3>1, <3>2, DeploymentAssumption DEF Write, RolloutOf, Times
  <2>4. Aged(pods) \subseteq Pods
    <3> QED BY AgedPod DEF Aged
  <2>5. IsFiniteSet(Aged(pods))
    <3>1. [q \in pods |-> [q EXCEPT !.old = TRUE]] \in Surjection(pods, Aged(pods))
      BY DEF Surjection, Aged
    <3> QED BY <3>1, FS_Surjection DEF FiniteInv
  <2>6. pods' \subseteq Pods /\ FiniteInv'
    BY <1>2, <2>4, <2>5 DEF Write, FiniteInv
  <2>7. moved' \in BOOLEAN /\ steady' \in BOOLEAN
    BY <1>2 DEF Write
  <2> QED BY <1>2, <2>2, <2>3, <2>6, <2>7 DEF Write
<1>3. CASE Stops
  <2>1. spec' \in DeploymentSpecs \cup {Nil}
    BY <1>3, AsksIs DEF Stops
  <2> QED BY <1>3, <2>1 DEF Stops, Exit, FiniteInv, historyVars
<1>4. CASE Poll
  BY <1>4 DEF Poll, Exit, FiniteInv, clusterVars, historyVars
<1>5. CASE PollEnds
  BY <1>5 DEF PollEnds, Exit, FiniteInv, clusterVars, historyVars
<1>6. CASE World
  <2>1. reached' \in BOOLEAN
    BY <1>6 DEF World, Notes
  <2>2. CASE PodStep
    BY <1>6, <2>1, <2>2, PodsAre DEF World, PodStep, FiniteInv
  <2>3. CASE ClusterCounts
    <3>1. status' \in Counts
      BY <2>3, CountOfType DEF ClusterCounts, FiniteInv
    <3> QED BY <1>6, <2>1, <2>3, <3>1 DEF World, ClusterCounts, FiniteInv
  <2>4. CASE PortalLists
    <3>1. listed' \in Listings \cup {Nil}
      BY <2>4, ListsNow DEF Listings
    <3> QED BY <1>6, <2>1, <2>4, <3>1 DEF World, PortalLists, FiniteInv
  <2>5. CASE Tick
    <3>1. now' \in Times
      BY <2>5, DeploymentAssumption DEF Tick, Times
    <3> QED BY <1>6, <2>1, <2>5, <3>1 DEF World, Tick, FiniteInv
  <2>6. CASE ForeignWrite
    <3>1. foreign' \in 0..MaxForeign
      BY <2>6, DeploymentAssumption DEF ForeignWrite
    <3>2. CASE Changes
      BY <1>6, <2>1, <2>6, <3>1, <3>2 DEF World, ForeignWrite, Changes, FiniteInv
    <3>3. CASE Goes
      BY <1>6, <2>1, <2>6, <3>1, <3>3, FS_EmptySet DEF World, ForeignWrite, Goes, FiniteInv
    <3>4. CASE Comes
      <4>1. status' \in Counts
        BY <3>4 DEF Comes, Counts
      <4> QED BY <1>6, <2>1, <2>6, <3>1, <3>4, <4>1 DEF World, ForeignWrite, Comes, FiniteInv
    <3> QED BY <2>6, <3>2, <3>3, <3>4, ForeignIs
  <2> QED BY <1>6, <2>2, <2>3, <2>4, <2>5, <2>6 DEF World, Cluster
<1>7. CASE UNCHANGED vars
  BY <1>7 DEF vars, FiniteInv, clusterVars, historyVars
<1> QED BY <1>1, <1>2, <1>3, <1>4, <1>5, <1>6, <1>7 DEF Next, Zae

\* The clock (Tick) only goes on, and stamps are taken from it.
LEMMA ClockStep ==
  ASSUME TypeOK, ClockInv, [Next]_vars
  PROVE  ClockInv'
<1> USE DEF ClockInv
<1>1. now \in Nat /\ before \in Nat /\ (spec # Nil => spec \in DeploymentSpecs)
  BY DeploymentAssumption DEF TypeOK, ClusterTypeOK, Times
<1>2. CASE Read
  BY <1>1, <1>2 DEF Read, Seen, clusterVars
<1>3. CASE Write
  <2>1. spec' = spec \/ spec'.tmpl.stamp \in {spec.tmpl.stamp, now}
    BY <1>1, <1>3, AsksIs DEF Write, TypeOK, ClusterTypeOK
  <2> QED BY <1>1, <1>3, <2>1 DEF Write
<1>4. CASE Stops
  <2>1. \/ spec' = spec
        \/ spec # Nil /\ spec'.tmpl.stamp \in {spec.tmpl.stamp, now}
    BY <1>1, <1>4, AsksIs DEF Stops, TypeOK, ClusterTypeOK
  <2> QED BY <1>1, <1>4, <2>1 DEF Stops
<1>5. CASE Poll \/ PollEnds
  BY <1>5 DEF Poll, PollEnds, clusterVars
<1>6. CASE World
  <2>1. CASE PodStep
    BY <1>6, <2>1 DEF World, PodStep
  <2>2. CASE ClusterCounts
    BY <1>6, <2>2 DEF World, ClusterCounts
  <2>3. CASE PortalLists
    BY <1>6, <2>3, ListsNow DEF World, PortalLists
  <2>4. CASE Tick
    <3>1. spec # Nil => spec.tmpl.stamp \in Nat
      BY <1>1, DeploymentAssumption DEF DeploymentSpecs, Templates, Times
    <3>2. listed # Nil => listed.spec.tmpl.stamp \in Nat
      BY DeploymentAssumption DEF TypeOK, ClusterTypeOK, Listings, DeploymentSpecs, Templates, Times
    <3> QED BY <1>1, <1>6, <2>4, <3>1, <3>2 DEF World, Tick
  <2>5. CASE ForeignWrite
    <3>1. CASE Changes
      <4>1. spec.tmpl.stamp \in Nat /\ spec'.tmpl.stamp \in Nat
        BY <1>1, <3>1, DeploymentAssumption DEF Changes, DeploymentSpecs, Templates, Times
      <4> QED BY <1>1, <1>6, <3>1, <4>1 DEF World, Changes
    <3>2. CASE Goes
      BY <1>6, <3>2 DEF World, Goes
    <3>3. CASE Comes
      BY <1>1, <1>6, <3>3 DEF World, Comes
    <3> QED BY <2>5, <3>1, <3>2, <3>3, ForeignIs
  <2> QED BY <1>6, <2>1, <2>2, <2>3, <2>4, <2>5 DEF World, Cluster
<1>7. CASE UNCHANGED vars
  BY <1>7 DEF vars, clusterVars
<1> QED BY <1>2, <1>3, <1>4, <1>5, <1>6, <1>7 DEF Next, Zae

\* Generations go up, and counts and listings follow them (Deployment).
LEMMA LagStep ==
  ASSUME TypeOK, FiniteInv, GenInv, LagInv, [Next]_vars
  PROVE  GenInv' /\ LagInv'
<1> USE DEF GenInv, LagInv
<1>1. /\ status.obs \in Nat
      /\ spec # Nil => spec \in DeploymentSpecs /\ spec.gen \in Nat
      /\ listed # Nil => listed.status.obs \in Nat
      /\ now \in Times
      /\ want \in Asked
  BY DEF TypeOK, ClusterTypeOK, Counts, DeploymentSpecs, Listings
<1>2. CASE Read \/ Poll \/ PollEnds
  BY <1>2 DEF Read, Poll, PollEnds, clusterVars
<1>3. CASE Write
  <2>1. spec # Nil /\ spec' \in DeploymentSpecs /\ (spec' = spec \/ spec'.gen = spec.gen + 1)
    BY <1>1, <1>3, AsksIs DEF Write
  <2>2. spec' # Nil
    BY <2>1, DeploymentAssumption
  <2> QED BY <1>1, <1>3, <2>1, <2>2 DEF Write
<1>4. CASE Stops
  <2>1. CASE spec' = spec
    BY <1>4, <2>1 DEF Stops
  <2>2. CASE spec # Nil /\ spec' = Asks(spec)
    <3>1. spec' \in DeploymentSpecs /\ (spec' = spec \/ spec'.gen = spec.gen + 1)
      BY <1>1, <2>2, AsksIs
    <3>2. spec' # Nil
      BY <3>1, DeploymentAssumption
    <3> QED BY <1>1, <1>4, <2>2, <3>1, <3>2 DEF Stops
  <2> QED BY <1>4, <2>1, <2>2 DEF Stops
<1>5. CASE World
  <2>1. CASE PodStep
    BY <1>5, <2>1 DEF World, PodStep
  <2>2. CASE ClusterCounts
    BY <1>1, <1>5, <2>2 DEF World, ClusterCounts, CountOf
  <2>3. CASE PortalLists
    <3>1. /\ spec # Nil => listed'.spec = spec /\ listed'.status = status /\ listed' \in Listings
          /\ spec = Nil => listed' = Nil
      BY <2>3, ListsNow DEF Listings, TypeOK, ClusterTypeOK
    <3>2. spec # Nil => listed' # Nil
      BY <3>1, DeploymentAssumption
    <3> QED BY <1>1, <1>5, <2>3, <3>1, <3>2 DEF World, PortalLists
  <2>4. CASE Tick
    BY <1>5, <2>4 DEF World, Tick
  <2>5. CASE ForeignWrite
    <3>1. CASE Changes
      <4>1. spec' # Nil
        BY <3>1, DeploymentAssumption DEF Changes
      <4> QED BY <1>1, <1>5, <3>1, <4>1 DEF World, Changes
    <3>2. CASE Goes
      BY <1>5, <3>2 DEF World, Goes
    <3>3. CASE Comes
      BY <1>1, <1>5, <3>3 DEF World, Comes
    <3> QED BY <2>5, <3>1, <3>2, <3>3, ForeignIs
  <2> QED BY <1>5, <2>1, <2>2, <2>3, <2>4, <2>5 DEF World, Cluster
<1>6. CASE UNCHANGED vars
  BY <1>6 DEF vars, clusterVars
<1> QED BY <1>2, <1>3, <1>4, <1>5, <1>6 DEF Next, Zae

\* Read and Write say what is known of the pods and the stamp from then on.
LEMMA OldStep ==
  ASSUME TypeOK, FiniteInv, ClockInv, PlaceInv, OldInv, [Next]_vars
  PROVE  PlaceInv' /\ OldInv'
<1> USE DEF PlaceInv, OldInv
<1>1. CASE Read
  BY <1>1 DEF Read, Exit, clusterVars, historyVars, Exact
<1>2. CASE Write
  <2>1. PlaceInv'
    BY <1>2 DEF Write
  <2>2. ASSUME want = Restart, steady'
        PROVE  \A q \in pods' : q.old => q.tmpl.stamp = before
    <3>1. spec.tmpl.stamp = before /\ \A q \in pods : q.tmpl = spec.tmpl
      BY <1>2, <2>2 DEF Write
    <3>2. pods' = Aged(pods) /\ pods \subseteq Pods
      BY <1>2, <2>2 DEF Write, TypeOK, ClusterTypeOK
    <3>3. \A q \in pods' : \E r \in pods : q.tmpl = r.tmpl
      BY <3>2, AgedPod DEF Aged
    <3> QED BY <3>1, <3>3
  <2>3. ASSUME want = Restart, steady', moved', Exact
        PROVE  roll'.stamp # 0
    <3>1. spec.tmpl.stamp = before /\ spec' = Stamped(spec) /\ spec' # spec
      BY <1>2, <2>3 DEF Write, Asks
    <3>2. spec \in DeploymentSpecs
      BY <1>2 DEF Write, TypeOK, ClusterTypeOK
    <3>3. now # before
      <4>1. ASSUME now = before PROVE FALSE
        <5> DEFINE t == [spec.tmpl EXCEPT !.stamp = now]
        <5>1. t = spec.tmpl
          BY <3>1, <3>2, <4>1 DEF DeploymentSpecs, Templates
        <5>2. Stamped(spec) = Written(spec, t, spec.desired)
          BY DEF Stamped
        <5> HIDE DEF t
        <5> QED BY <3>1, <5>1, <5>2 DEF Written
      <4> QED BY <4>1
    <3>4. Answered(now) = now
      BY <2>3 DEF Answered, Exact, Reportable
    <3>5. now # 0
      BY DEF ClockInv
    <3> QED BY <1>2, <2>3, <3>3, <3>4, <3>5 DEF Write, RolloutOf
  <2>4. want' = want /\ before' = before /\ Exact' = Exact
    BY <1>2 DEF Write, Exact
  <2> QED BY <2>1, <2>2, <2>3, <2>4
<1>3. CASE Stops
  BY <1>3 DEF Stops, Exit, historyVars, Exact
<1>4. CASE Poll \/ PollEnds
  BY <1>4 DEF Poll, PollEnds, Exit, clusterVars, historyVars, Exact
<1>5. CASE World
  <2>1. UNCHANGED <<pc, want, before, roll, moved, steady, reports>>
    BY <1>5 DEF World
  <2>2. \A q \in pods' : q.old => \E r \in pods : r.old /\ r.tmpl = q.tmpl
    <3>1. CASE PodStep
      BY <3>1, PodsAre
    <3>2. CASE ~PodStep
      <4>1. pods' = pods \/ pods' = {}
        BY <1>5, <3>2, ForeignIs
           DEF World, Cluster, ClusterCounts, PortalLists, Tick, Changes, Goes, Comes
      <4> QED BY <4>1
    <3> QED BY <3>1, <3>2
  <2> QED BY <2>1, <2>2 DEF Exact
<1>6. CASE UNCHANGED vars
  BY <1>6 DEF vars, clusterVars, historyVars, Exact
<1> QED BY <1>1, <1>2, <1>3, <1>4, <1>5, <1>6 DEF Next, Zae

\* What the write answered (rolloutOf) stays behind the workload.
LEMMA RollStep ==
  ASSUME TypeOK, FiniteInv, ClockInv, LagInv, RollInv, [Next]_vars
  PROVE  RollInv'
<1> USE DEF RollInv
<1>1. /\ now \in Nat /\ before \in Nat /\ now >= 1 /\ before <= now
      /\ roll.gen \in Nat /\ roll.stamp \in Nat
      /\ spec # Nil => /\ spec \in DeploymentSpecs
                       /\ spec.gen \in Nat
                       /\ spec.tmpl.stamp \in Nat
                       /\ spec.tmpl.stamp <= now
  BY DeploymentAssumption
     DEF TypeOK, ClusterTypeOK, ClockInv, DeploymentSpecs, Templates, Times
<1>2. CASE Read
  BY <1>2 DEF Read, Exit
<1>3. CASE Write
  <2>1. /\ spec' \in DeploymentSpecs
        /\ want = Restart => spec'.tmpl.stamp = now
    BY <1>1, <1>3, AsksIs DEF Write, TypeOK, ClusterTypeOK
  <2>2. spec'.gen \in Nat /\ spec'.tmpl.stamp \in Nat
    BY <2>1, DeploymentAssumption DEF DeploymentSpecs, Templates, Times
  <2>3. /\ roll'.gen = Answered(spec'.gen)
        /\ \/ roll'.stamp = 0
           \/ want = Restart /\ roll'.stamp = Answered(now) /\ Answered(now) # before
    BY <1>3 DEF Write, RolloutOf
  <2>4. roll'.gen \in {0, spec'.gen} /\ ("generation" \notin reports => roll'.gen = 0)
    BY <2>3 DEF Answered
  <2>5. \/ roll'.stamp = 0
        \/ want = Restart /\ roll'.stamp = now /\ now # before /\ "generation" \in reports
    BY <2>3 DEF Answered
  <2>6. reports' = reports /\ before' = before
    BY <1>3 DEF Write
  <2> QED BY <1>1, <2>1, <2>2, <2>4, <2>5, <2>6
<1>4. CASE Stops \/ Poll \/ PollEnds
  BY <1>4 DEF Stops, Poll, PollEnds, Exit
<1>5. CASE World
  <2>1. UNCHANGED <<pc, reports, before, roll>>
    BY <1>5 DEF World
  <2>2. CASE UNCHANGED <<spec, movedBack>>
    BY <2>1, <2>2
  <2>3. CASE ForeignWrite
    <3>1. CASE Changes
      <4>1. spec'.tmpl.stamp \in Nat
        BY <3>1, DeploymentAssumption DEF Changes, DeploymentSpecs, Templates, Times
      <4> QED BY <1>1, <2>1, <3>1, <4>1 DEF Changes
    <3>2. CASE Goes
      BY <2>1, <3>2 DEF Goes
    <3>3. CASE Comes
      BY <2>1, <3>3 DEF Comes, LagInv
    <3> QED BY <2>3, <3>1, <3>2, <3>3, ForeignIs
  <2> QED BY <1>5, <2>2, <2>3
          DEF World, Cluster, PodStep, ClusterCounts, PortalLists, Tick
<1>6. CASE UNCHANGED vars
  BY <1>6 DEF vars, clusterVars
<1> QED BY <1>2, <1>3, <1>4, <1>5, <1>6 DEF Next, Zae

\* Counts that settle an exact wait (pendingFor) are of a moment when what was
\* asked for was so.
LEMMA CountsSaw ==
  ASSUME TypeOK, FiniteInv, OldInv, World, ClusterCounts,
         pc = "wait", moved, Exact, Settled([spec |-> spec, status |-> CountOf(spec, pods), degraded |-> FALSE])
  PROVE  reached'
<1>1. spec # Nil /\ spec \in DeploymentSpecs /\ spec' = spec /\ pods' = pods
  BY DEF ClusterCounts, TypeOK, ClusterTypeOK
<1>2. /\ CountOf(spec, pods).updated = spec.desired
      /\ CountOf(spec, pods).total = spec.desired
      /\ CountOf(spec, pods).available = spec.desired
      /\ want # Restart => spec.desired = want
      /\ ~(roll.stamp # 0 /\ Seen(spec.tmpl.stamp) = before)
  BY DEF Settled, RolledOut, Exact, Reportable
<1>3. Cardinality(pods) = spec.desired /\ \A q \in pods : q.tmpl = spec.tmpl /\ q.up
  BY <1>1, <1>2, FullCounts DEF FiniteInv
<1>4. Complete(spec, pods)
  BY <1>1, <1>2, <1>3 DEF Complete
<1>5. Replaced(pods)
  <2>1. SUFFICES ASSUME want = Restart, steady, NEW q \in pods, q.old PROVE FALSE
    BY DEF Replaced
  <2>2. q.tmpl.stamp = before /\ roll.stamp # 0
    BY <2>1 DEF OldInv
  <2>3. Seen(spec.tmpl.stamp) = spec.tmpl.stamp
    BY DEF Seen, Exact, Reportable
  <2> QED BY <1>2, <1>3, <2>2, <2>3
<1> QED BY <1>1, <1>4, <1>5 DEF World, Notes

\* No listing and no counts look settled before what was asked for was so.
LEMMA SawStep ==
  ASSUME TypeOK, FiniteInv, GenInv, LagInv, OldInv, CountedInv, ListedInv, [Next]_vars
  PROVE  CountedInv' /\ ListedInv'
<1>1. /\ status.obs \in Nat
      /\ spec # Nil => spec \in DeploymentSpecs /\ spec.gen \in Nat
      /\ listed # Nil => listed.status.obs \in Nat
      /\ now \in Times
      /\ want \in Asked
  BY DEF TypeOK, ClusterTypeOK, Counts, DeploymentSpecs, Listings
<1>2. CASE Read \/ Stops \/ Poll \/ PollEnds
  <2>1. pc' # "wait"
    BY <1>2 DEF Read, Stops, Poll, PollEnds, Exit
  <2> QED BY <2>1 DEF CountedInv, ListedInv, Saw
<1>3. CASE Write
  <2>1. UNCHANGED <<status, listed, anew, reports>> /\ spec # Nil
    BY <1>3 DEF Write
  <2>2. ASSUME moved', Exact'
        PROVE  roll'.gen = spec.gen + 1
    <3>1. spec' = Asks(spec) /\ spec' # spec
      BY <1>3, <2>2 DEF Write
    <3>2. spec'.gen = spec.gen + 1
      BY <1>1, <2>1, <3>1, AsksIs
    <3>3. Answered(spec'.gen) = spec'.gen
      BY <2>1, <2>2 DEF Answered, Exact, Reportable
    <3> QED BY <1>3, <3>2, <3>3 DEF Write, RolloutOf
  <2>3. ASSUME moved', Exact', Settled([spec |-> spec, status |-> status, degraded |-> FALSE])'
        PROVE  FALSE
    <3>1. roll'.gen <= status.obs
      BY <2>1, <2>3 DEF Settled, RolledOut, Observed, Seen, Exact, Reportable
    <3> QED BY <1>1, <2>1, <2>2, <2>3, <3>1 DEF GenInv
  <2>4. ASSUME ~anew', moved', Exact', Settled(listed)'
        PROVE  FALSE
    <3>1. roll'.gen <= listed.status.obs
      BY <2>1, <2>4 DEF Settled, RolledOut, Observed, Seen, Exact, Reportable
    <3> QED BY <1>1, <2>1, <2>2, <2>4, <3>1 DEF GenInv, LagInv
  <2> QED BY <2>3, <2>4 DEF CountedInv, ListedInv, Saw
<1>4. CASE World
  <2>1. UNCHANGED <<pc, reports, want, before, roll, moved>> /\ (reached => reached')
    BY <1>4 DEF World, Notes
  <2>2. CASE UNCHANGED <<spec, status>>
    <3>1. CountedInv'
      BY <2>1, <2>2 DEF CountedInv, Saw, Settled, RolledOut, Observed, Seen, Exact
    <3>2. CASE UNCHANGED <<listed, anew>>
      BY <2>1, <3>1, <3>2 DEF ListedInv, Saw, Settled, RolledOut, Observed, Seen, Exact
    <3>3. CASE PortalLists
      <4>1. SUFFICES ASSUME ~anew' PROVE Saw(listed)'
        BY <3>1 DEF ListedInv
      <4>2. spec' # Nil
        BY <2>2, <3>3, <4>1 DEF PortalLists, LagInv
      <4>3. PICK p \in BOOLEAN : listed' = [spec |-> spec, status |-> status, degraded |-> p]'
        BY <2>2, <3>3, <4>2, ListsNow
      <4>4. CASE p
        BY <4>3, <4>4 DEF Saw, Settled, RolledOut
      <4>5. CASE ~p
        BY <3>1, <4>2, <4>3, <4>5 DEF CountedInv
      <4> QED BY <4>4, <4>5
    <3>4. ~ForeignWrite
      <4>1. ASSUME Changes PROVE FALSE
        BY <1>1, <2>2, <4>1 DEF Changes
      <4>2. ASSUME Goes PROVE FALSE
        BY <2>2, <4>2 DEF Goes
      <4>3. ASSUME Comes PROVE FALSE
        BY <2>2, <4>3, DeploymentAssumption DEF Comes
      <4> QED BY <4>1, <4>2, <4>3, ForeignIs
    <3>5. PortalLists \/ UNCHANGED <<listed, anew>>
      BY <1>4, <3>4 DEF World, Cluster, PodStep, ClusterCounts, Tick
    <3> QED BY <3>2, <3>3, <3>5
  <2>3. CASE ClusterCounts
    <3>1. UNCHANGED <<spec, pods, listed, anew>> /\ status' = CountOf(spec, pods)
      BY <2>3 DEF ClusterCounts
    <3>2. ListedInv'
      BY <2>1, <3>1 DEF ListedInv, Saw, Settled, RolledOut, Observed, Seen, Exact
    <3>3. ASSUME pc = "wait", moved, Exact, Settled([spec |-> spec, status |-> status, degraded |-> FALSE])'
          PROVE  reached'
      <4>1. Settled([spec |-> spec, status |-> CountOf(spec, pods), degraded |-> FALSE])
        BY <2>1, <3>1, <3>3 DEF Settled, RolledOut, Observed, Seen
      <4> QED BY <1>4, <2>3, <3>3, <4>1, CountsSaw
    <3> QED BY <2>1, <3>2, <3>3 DEF CountedInv, Saw, Exact
  <2>4. CASE ForeignWrite
    <3>1. listed' = listed /\ (~anew' => ~anew)
      <4>1. CASE Changes
        BY <4>1 DEF Changes
      <4>2. CASE Goes
        BY <4>2 DEF Goes
      <4>3. CASE Comes
        BY <4>3 DEF Comes
      <4> QED BY <2>4, <4>1, <4>2, <4>3, ForeignIs
    <3>2. ListedInv'
      BY <2>1, <3>1 DEF ListedInv, Saw, Settled, RolledOut, Observed, Seen, Exact
    <3>3. ASSUME spec' # Nil, Exact', Settled([spec |-> spec, status |-> status, degraded |-> FALSE])'
          PROVE  FALSE
      <4>1. spec'.gen = 0 \/ status'.obs >= spec'.gen
        BY <3>3 DEF Settled, RolledOut, Observed, Seen, Exact, Reportable
      <4>2. CASE Changes
        BY <1>1, <4>1, <4>2 DEF Changes, GenInv
      <4>3. CASE Goes
        BY <3>3, <4>3 DEF Goes
      <4>4. CASE Comes
        BY <4>1, <4>4 DEF Comes
      <4> QED BY <2>4, <4>2, <4>3, <4>4, ForeignIs
    <3> QED BY <3>2, <3>3 DEF CountedInv, Saw
  <2> QED BY <1>4, <2>2, <2>3, <2>4 DEF World, Cluster, PodStep, PortalLists, Tick
<1>5. CASE UNCHANGED vars
  BY <1>5 DEF vars, clusterVars, historyVars, CountedInv, ListedInv, Saw, Settled, RolledOut,
              Observed, Seen, Exact
<1> QED BY <1>2, <1>3, <1>4, <1>5 DEF Next, Zae

\* Only a reading that settles the wait (Poll) ends it well.
LEMMA OkStep ==
  ASSUME ListedInv, OkSawItsRollout, [Next]_vars
  PROVE  OkSawItsRollout'
<1> USE DEF OkSawItsRollout
<1>1. CASE Read \/ Stops \/ PollEnds
  BY <1>1 DEF Read, Stops, PollEnds, Exit
<1>2. CASE Write
  BY <1>2 DEF Write
<1>3. CASE Poll
  BY <1>3 DEF Poll, Exit, ListedInv, Saw, clusterVars, historyVars, Exact
<1>4. CASE World
  BY <1>4 DEF World
<1>5. CASE UNCHANGED vars
  BY <1>5 DEF vars, clusterVars, historyVars, Exact
<1> QED BY <1>1, <1>2, <1>3, <1>4, <1>5 DEF Next, Zae

----------------------------------------------------------------------------
(* What follows. *)

\* The invariant holds always: counts and listings follow the spec of the
\* workload, what the write answered is behind it, and what looks settled was
\* reached (platform/portal.go, wait.go).
THEOREM Inductive == Spec => []IInv
<1>1. IInv /\ [Next]_vars => IInv'
  <2> SUFFICES ASSUME IInv, [Next]_vars PROVE IInv'
    OBVIOUS
  <2>1. TypeOK' /\ FiniteInv'
    BY TypeStep DEF IInv
  <2>2. ClockInv' /\ GenInv' /\ LagInv'
    BY ClockStep, LagStep DEF IInv
  <2>3. PlaceInv' /\ OldInv' /\ RollInv'
    BY OldStep, RollStep DEF IInv
  <2>4. CountedInv' /\ ListedInv' /\ OkSawItsRollout'
    BY SawStep, OkStep DEF IInv
  <2> QED BY <2>1, <2>2, <2>3, <2>4 DEF IInv
<1> QED BY <1>1, InitInv, PTL DEF Spec

\* Every variable of the workload, the listing and the command holds a value of its
\* kind (platform.go, wait.go).
THEOREM TypeCorrect == Spec => []TypeOK
<1>1. IInv => TypeOK
  BY DEF IInv
<1> QED BY <1>1, Inductive, PTL

\* An exact --wait that ends well saw its own rollout through, for any number of
\* replicas, however it surges, lags, and is written to by others
\* (pendingFor, portal.go).
THEOREM OkIsReached == Spec => []OkSawItsRollout
<1>1. IInv => OkSawItsRollout
  BY DEF IInv
<1> QED BY <1>1, Inductive, PTL

\* Once what was asked for is so, counted and listed, and the portal does not call the
\* workload degraded, the wait's next reading ends it (workloadSettled, wait.go; pendingFor,
\* portal.go:352-372).
THEOREM EndIsAccepted == Spec => []FinishedIsAccepted
<1>1. IInv => FinishedIsAccepted
  <2> SUFFICES ASSUME IInv, pc = "wait", Complete(spec, pods), status = CountOf(spec, pods),
                      listed # Nil, listed.spec = spec, listed.status = status,
                      ~listed.degraded, ~movedBack
               PROVE  Settled(listed)
    BY DEF FinishedIsAccepted
  <2>1. spec # Nil
    BY DEF Complete
  <2>2. spec \in DeploymentSpecs /\ spec.gen \in Nat /\ spec.tmpl.stamp \in Nat
    BY <2>1, DeploymentAssumption
       DEF IInv, TypeOK, ClusterTypeOK, DeploymentSpecs, Templates, Times
  <2>3. roll.gen \in Nat /\ roll.stamp \in Nat /\ before \in Nat
    BY DeploymentAssumption DEF IInv, TypeOK, Times
  <2>4. {q \in pods : q.tmpl = spec.tmpl} = pods /\ {q \in pods : q.up} = pods
    BY DEF Complete
  <2>5. /\ status.obs = spec.gen
        /\ status.total = spec.desired
        /\ status.updated = spec.desired
        /\ status.available = spec.desired
    BY <2>4 DEF CountOf, Complete
  <2>6. RolledOut(listed, roll.gen)
    BY <2>2, <2>3, <2>5 DEF RolledOut, Observed, Seen, IInv, RollInv
  <2>7. ~(roll.stamp # 0 /\ Seen(spec.tmpl.stamp) = before)
    BY <2>2, <2>3 DEF Seen, IInv, RollInv
  <2>8. want # Restart => spec.desired = want
    BY DEF Complete
  <2> QED BY <2>1, <2>6, <2>7, <2>8 DEF Settled
<1> QED BY <1>1, Inductive, PTL

----------------------------------------------------------------------------
(* Dispatch: the inductive invariant. *)

SetupQuiet == setupAt # "done" => setupEnd = Unset /\ mine = "none"

SetupInv ==
  /\ SetupTypeOK
  /\ SetupQuiet
  /\ SaysWhatItDid

InvokeQuiet == invokeAt # "done" => invokeCode = NoPath

Followed == (Declared => beenThere) /\ (~Declared => beenAway)

CallsDeclared == invokeAt \in {"call", "again"} => beenThere

InvokeInv ==
  /\ InvokeTypeOK
  /\ InvokeQuiet
  /\ invokeAt # "done" => Followed
  /\ CallsDeclared
  /\ GoneIsDefinitive

DispatchInv ==
  /\ SetupInv
  /\ InvokeInv
  /\ name \in {"setup", "service"}

----------------------------------------------------------------------------
(* The checklist. *)

\* Each step is in one of the states that the checklist has (render.go:80-90).
LEMMA StepStates ==
  ASSUME SetupTypeOK, NEW s \in StepNames
  PROVE  StateOf(s) \in States
BY DEF StateOf, States, StepNames

\* A checklist has the values that doc may have (platform.Setup, portal.go).
LEMMA ChecklistType ==
  ASSUME SetupTypeOK
  PROVE  Checklist \in [state : [StepNames -> States], none : BOOLEAN, scan : Scans,
                        switch : {"on", "off", Unset}, record : Others \cup {Me, Unset}]
<1>1. [s \in StepNames |-> StateOf(s)] \in [StepNames -> States]
  BY StepStates
<1>2. (IF catalog = "answers" THEN scan ELSE "none") \in Scans
  BY DEF SetupTypeOK, Scans
<1> QED
  BY <1>1, <1>2 DEF Checklist, SetupTypeOK

\* What is found to be so already is so (scan, pipeline, done and reopen, writes.go and
\* pipeline.go).
LEMMA AlreadyIsSo ==
  ASSUME SetupTypeOK, Already(Checklist)
  PROVE  AsAsked
BY DEF Already, AsAsked, Checklist, SetupTypeOK, Kinds

\* Whether it is as asked is a truth value (the writes of writes.go and pipeline.go).
LEMMA AsAskedType ==
  ASSUME setupOp.kind \in Kinds
  PROVE  AsAsked \in BOOLEAN
<1>1. CASE setupOp.kind = "metadata"
  BY <1>1 DEF AsAsked
<1>2. CASE setupOp.kind = "scan"
  BY <1>2 DEF AsAsked
<1>3. CASE setupOp.kind \in {"on", "off"}
  BY <1>3 DEF AsAsked
<1>4. CASE setupOp.kind = "done"
  BY <1>4 DEF AsAsked
<1>5. CASE setupOp.kind = "reopen"
  BY <1>5 DEF AsAsked
<1> QED
  BY <1>1, <1>2, <1>3, <1>4, <1>5 DEF Kinds

----------------------------------------------------------------------------
(* setup. *)

\* What the steps between the read and the end leave alone (the question, writes.go:107).
LEMMA SetupTypeKept ==
  ASSUME SetupTypeOK, UNCHANGED <<platform, setupOp, doc, mine, held>>,
         setupAt' \in {"read", "ask", "write", "done"}, setupEnd' = setupEnd
  PROVE  SetupTypeOK'
<1>1. UNCHANGED <<catalog, key, scan, titled, switch, rolled, secure, record, acts>>
  BY DEF platform
<1>2. doc' = doc /\ mine' = mine /\ held' = held
  OBVIOUS
<1>3. (catalog' \in {"none", "silent", "refuses", "fails", "answers"}) /\ (scan' \in Scans)
      /\ (switch' \in {"on", "off", Unset}) /\ (record' \in Others \cup {Me, Unset})
      /\ (key' \in {"none", "environment", "setting"}) /\ (acts' \in 0..MaxOthers)
  BY <1>1 DEF SetupTypeOK
<1>4. titled' \in BOOLEAN /\ rolled' \in BOOLEAN /\ secure' \in BOOLEAN /\ held' \in BOOLEAN
  BY <1>1 DEF SetupTypeOK
<1>5. setupOp' \in [kind : Kinds, yes : BOOLEAN]
  BY DEF SetupTypeOK
<1>6. doc' \in [state : [StepNames -> States], none : BOOLEAN, scan : Scans,
                switch : {"on", "off", Unset}, record : Others \cup {Me, Unset}] \cup {Unset}
  BY <1>2 DEF SetupTypeOK
<1>7. setupEnd' \in [code : SetupCodes, word : {"nothing", "changed", "unsaid"}] \cup {Unset}
  BY DEF SetupTypeOK
<1>8. mine' \in {"none", "wrote"}
  BY <1>2 DEF SetupTypeOK
<1> QED
  BY <1>3, <1>4, <1>5, <1>6, <1>7, <1>8 DEF SetupTypeOK

\* A run that ends without having written, and does not say that all is well (failures of
\* portal.go:215-260).
LEMMA SetupEndsUnwritten ==
  ASSUME SetupInv, setupAt # "done",
         UNCHANGED <<platform, setupOp, doc, mine, held>>,
         NEW said \in SetupCodes \ {"ok"}, NEW word \in {"nothing", "unsaid"},
         SetupEnds(said, word)
  PROVE  SetupInv'
<1>1. mine = "none"
  BY DEF SetupInv, SetupQuiet
<1>2. SetupTypeOK'
  BY DEF SetupInv, SetupTypeOK, SetupEnds, platform
<1>3. SetupQuiet'
  BY DEF SetupQuiet, SetupEnds
<1>4. SaysWhatItDid'
  BY <1>1 DEF SaysWhatItDid, SetupEnds
<1> QED
  BY <1>2, <1>3, <1>4 DEF SetupInv

\* The read of the checklist, and what is decided by it (writes.go:40-60, 92-112).
LEMMA SetupReads ==
  ASSUME SetupInv, ReadsChecklist
  PROVE  SetupInv'
<1>0. /\ setupAt = "read" /\ mine = "none" /\ mine' = "none" /\ setupEnd = Unset
      /\ UNCHANGED <<platform, setupOp>>
  BY DEF ReadsChecklist, SetupInv, SetupQuiet
<1>1. doc' = Checklist /\ held' = AsAsked
  BY DEF ReadsChecklist
<1>3. \/ SetupEnds("not offered", "unsaid")
      \/ Already(Checklist) /\ SetupEnds("ok", "nothing")
      \/ ~Already(Checklist) /\ setupAt' \in {"ask", "write"} /\ setupEnd' = setupEnd
  BY DEF ReadsChecklist
<1>4. SetupTypeOK'
  <2>1. doc' \in [state : [StepNames -> States], none : BOOLEAN, scan : Scans,
                  switch : {"on", "off", Unset}, record : Others \cup {Me, Unset}] \cup {Unset}
    BY <1>1, ChecklistType DEF SetupInv
  <2>2. held' \in BOOLEAN
    BY <1>1, AsAskedType DEF SetupInv, SetupTypeOK
  <2>4. /\ setupAt' \in {"read", "ask", "write", "done"}
        /\ setupEnd' \in [code : SetupCodes, word : {"nothing", "changed", "unsaid"}] \cup {Unset}
    <3>1. CASE SetupEnds("not offered", "unsaid")
      BY <3>1 DEF SetupEnds, SetupCodes
    <3>2. CASE SetupEnds("ok", "nothing")
      BY <3>2 DEF SetupEnds, SetupCodes
    <3>3. CASE setupAt' \in {"ask", "write"} /\ setupEnd' = setupEnd
      BY <1>0, <3>3
    <3> QED
      BY <1>3, <3>1, <3>2, <3>3
  <2> QED
    BY <1>0, <2>1, <2>2, <2>4 DEF SetupInv, SetupTypeOK, platform
<1>5. SetupQuiet'
  BY <1>0, <1>3 DEF SetupQuiet, SetupEnds
<1>6. SaysWhatItDid'
  <2>1. Already(Checklist) => held'
    BY <1>1, AlreadyIsSo DEF SetupInv
  <2>2. CASE SetupEnds("not offered", "unsaid")
    BY <1>0, <2>2 DEF SaysWhatItDid, SetupEnds
  <2>3. CASE Already(Checklist) /\ SetupEnds("ok", "nothing")
    BY <1>0, <2>1, <2>3 DEF SaysWhatItDid, SetupEnds
  <2>4. CASE setupEnd' = setupEnd
    BY <1>0, <2>4 DEF SaysWhatItDid
  <2> QED
    BY <1>3, <2>2, <2>3, <2>4
<1> QED
  BY <1>4, <1>5, <1>6 DEF SetupInv

\* A write that arrives brings about what was asked for (Takes: the writes that
\* portal.go:215-260 sends).
LEMMA TakesAsAsked ==
  ASSUME SetupTypeOK, setupOp' = setupOp, Takes(setupOp.kind)
  PROVE  AsAsked'
<1>1. setupOp.kind \in Kinds
  BY DEF SetupTypeOK
<1> QED
  BY <1>1, SetupAssumption DEF AsAsked, Takes, Kinds

\* The write, and what may become of its answer (do, portal.go:215-260).
LEMMA SetupWritesInv ==
  ASSUME SetupInv, SetupWrites
  PROVE  SetupInv'
<1>0. /\ setupAt = "write" /\ mine' = "wrote" /\ Takes(setupOp.kind)
      /\ UNCHANGED <<setupOp, doc>>
      /\ setupOp.kind \in {"on", "off"} => switch # Unset
  BY DEF SetupWrites
<1>1. held' = TRUE
  BY <1>0, TakesAsAsked DEF SetupWrites, SetupInv, SetupTypeOK
<1>2. PICK said \in SetupCodes, word \in {"changed", "unsaid"} : SetupEnds(said, word)
  BY DEF SetupWrites, CatalogSilent, SetupCodes
<1>3. SetupTypeOK'
  <2>1. /\ key' \in {"none", "environment", "setting"}
        /\ scan' \in Scans
        /\ switch' \in {"on", "off", Unset}
        /\ rolled' \in BOOLEAN
        /\ UNCHANGED <<catalog, titled, secure, acts>>
    BY <1>0 DEF SetupInv, SetupTypeOK, Takes, Scans
  <2>2. record' \in Others \cup {Me, Unset}
    BY <1>0 DEF SetupInv, SetupTypeOK, Takes
  <2>3. setupAt' = "done"
        /\ setupEnd' \in [code : SetupCodes, word : {"nothing", "changed", "unsaid"}]
    BY <1>2 DEF SetupEnds
  <2> QED
    BY <1>0, <1>1, <2>1, <2>2, <2>3 DEF SetupInv, SetupTypeOK
<1>4. (SetupQuiet /\ SaysWhatItDid)'
  BY <1>0, <1>1, <1>2 DEF SetupQuiet, SaysWhatItDid, SetupEnds
<1> QED
  BY <1>3, <1>4 DEF SetupInv

\* Each step of the command keeps the invariant (metadata, scan, pipeline, done, reopen).
LEMMA SetupCommandInv ==
  ASSUME SetupInv, SetupCommand
  PROVE  SetupInv'
<1> USE DEF SetupCodes
<1>1. CASE KeyUnfit
  BY <1>1, SetupEndsUnwritten DEF KeyUnfit
<1>2. CASE ReadRefused
  BY <1>2, SetupEndsUnwritten DEF ReadRefused
<1>3. CASE SetupRefused
  BY <1>3, SetupEndsUnwritten DEF SetupRefused, CatalogSilent
<1>4. CASE SetupKilled
  BY <1>4, SetupEndsUnwritten DEF SetupKilled
<1>5. CASE SetupAsks
  <2>1. CASE SetupEnds("failed", "nothing")
    BY <1>5, <2>1, SetupEndsUnwritten DEF SetupAsks
  <2>2. CASE setupAt' = "write" /\ setupEnd' = setupEnd
    <3>0. setupAt = "ask" /\ UNCHANGED <<platform, setupOp, doc, mine, held>>
      BY <1>5 DEF SetupAsks
    <3>1. SetupTypeOK'
      BY <2>2, <3>0, SetupTypeKept DEF SetupInv, SetupQuiet
    <3> QED
      BY <2>2, <3>0, <3>1 DEF SetupInv, SetupQuiet, SaysWhatItDid
  <2> QED
    BY <1>5, <2>1, <2>2 DEF SetupAsks
<1> QED
  BY <1>1, <1>2, <1>3, <1>4, <1>5, SetupReads, SetupWritesInv DEF SetupCommand

\* What other admins and the platform do keeps it (the same checklist, worked through by
\* others).
LEMMA SetupWorldInv ==
  ASSUME SetupInv, SetupWorld
  PROVE  SetupInv'
<1>0. /\ setupAt # "done"
      /\ UNCHANGED <<setupOp, setupAt, doc, setupEnd, mine>>
      /\ held' = (held \/ AsAsked')
      /\ setupEnd = Unset /\ mine = "none"
  BY DEF SetupWorld, SetupInv, SetupQuiet
<1>1. SetupTypeOK'
  <2>1. acts' \in 0..MaxOthers
    BY SetupAssumption DEF SetupWorld, SetupInv, SetupTypeOK
  <2>2. held' \in BOOLEAN
    BY <1>0
  <2>3. /\ catalog' \in {"none", "silent", "refuses", "fails", "answers"}
        /\ key' \in {"none", "environment", "setting"}
        /\ scan' \in Scans
        /\ titled' \in BOOLEAN
        /\ switch' \in {"on", "off", Unset}
        /\ rolled' \in BOOLEAN
        /\ secure' \in BOOLEAN
        /\ record' \in Others \cup {Me, Unset}
    <3> USE DEF SetupInv, SetupTypeOK
    <3>1. CASE CatalogTurns
      BY <3>1 DEF CatalogTurns
    <3>2. CASE ScanGoesOn
      BY <3>2 DEF ScanGoesOn, Scans
    <3>3. CASE KeyChanges
      BY <3>3 DEF KeyChanges
    <3>4. CASE PipelineTurns
      BY <3>4 DEF PipelineTurns
    <3>5. CASE RecordChanges
      BY <3>5 DEF RecordChanges
    <3> QED
      BY <3>1, <3>2, <3>3, <3>4, <3>5 DEF SetupWorld
  <2> QED
    BY <1>0, <2>1, <2>2, <2>3 DEF SetupInv, SetupTypeOK
<1>2. SetupQuiet'
  BY <1>0 DEF SetupInv, SetupQuiet
<1>3. SaysWhatItDid'
  BY <1>0 DEF SetupInv, SaysWhatItDid
<1> QED
  BY <1>1, <1>2, <1>3 DEF SetupInv

----------------------------------------------------------------------------
(* A declared command. *)

\* Each step of a declared command, and of require, keeps the invariant (Run,
\* invoke.go:143-157; discover, 207-224).
LEMMA InvokeCommandInv ==
  ASSUME InvokeInv, InvokeCommand
  PROVE  InvokeInv'
<1> USE InvokeAssumption DEF ExitCodes
<1>0. invokeAt # "done" /\ Followed /\ UNCHANGED <<instance, invokeOp, beenThere, beenAway>>
  BY DEF InvokeInv, InvokeCommand, Discovers, Unauthorized, Calls, DiscoversAgain
<1>1. Declared' = Declared
  BY <1>0 DEF Declared, instance
<1>2. \A c \in ExitCodes :
        InvokeEnds(c) /\ (c = 3 => beenAway) /\ (c \in {0, 1, 5} => beenThere)
          /\ found' = found => InvokeInv'
  <2> TAKE c \in ExitCodes
  <2> HAVE InvokeEnds(c) /\ (c = 3 => beenAway) /\ (c \in {0, 1, 5} => beenThere)
             /\ found' = found
  <2>1. InvokeTypeOK'
    BY <1>0 DEF InvokeInv, InvokeTypeOK, InvokeEnds, instance
  <2> QED
    BY <1>0, <2>1 DEF InvokeInv, InvokeQuiet, CallsDeclared, GoneIsDefinitive, InvokeEnds
<1>3. invokeAt' \in {"call", "again"} /\ invokeCode' = invokeCode
        /\ found' \in Paths \cup {NoPath} /\ beenThere => InvokeInv'
  <2> HAVE invokeAt' \in {"call", "again"} /\ invokeCode' = invokeCode
             /\ found' \in Paths \cup {NoPath} /\ beenThere
  <2>1. InvokeTypeOK'
    BY <1>0 DEF InvokeInv, InvokeTypeOK, instance
  <2> QED
    BY <1>0, <1>1, <2>1
       DEF InvokeInv, InvokeQuiet, Followed, CallsDeclared, GoneIsDefinitive
<1>4. CASE Discovers
  <2>1. CASE discovery # "answers"
    BY <1>2, <1>4, <2>1 DEF Discovers, Undiscovered
  <2>2. CASE discovery = "answers" /\ ~Declared
    BY <1>0, <1>2, <1>4, <2>2 DEF Discovers, Followed
  <2>3. CASE discovery = "answers" /\ Declared /\ invokeOp.kind # "run"
    BY <1>0, <1>2, <1>4, <2>3 DEF Discovers, Followed
  <2>4. CASE discovery = "answers" /\ Declared /\ invokeOp.kind = "run" /\ ~invokeOp.fits
    BY <1>0, <1>2, <1>4, <2>4 DEF Discovers, Followed
  <2>5. CASE discovery = "answers" /\ Declared /\ invokeOp.kind = "run" /\ invokeOp.fits
    BY <1>0, <1>3, <1>4, <2>5 DEF Discovers, Followed, InvokeInv, InvokeTypeOK
  <2> QED
    BY <2>1, <2>2, <2>3, <2>4, <2>5
<1>5. CASE Unauthorized
  BY <1>2, <1>5 DEF Unauthorized, InvokeInv, CallsDeclared
<1>6. CASE Calls
  <2>1. beenThere /\ found' = found /\ found \in Paths \cup {NoPath}
    BY <1>6 DEF Calls, InvokeInv, CallsDeclared, InvokeTypeOK
  <2>2. CASE \E c \in {0, 1, 4, 5} : InvokeEnds(c)
    BY <1>2, <2>1, <2>2
  <2>3. CASE invokeAt' = "again" /\ invokeCode' = invokeCode
    BY <1>3, <2>1, <2>3
  <2> QED
    BY <1>6, <2>2, <2>3 DEF Calls
<1>7. CASE DiscoversAgain
  BY <1>0, <1>2, <1>7 DEF DiscoversAgain, GoneNow, Followed, InvokeInv, CallsDeclared
<1> QED
  BY <1>4, <1>5, <1>6, <1>7 DEF InvokeCommand

\* Services that come, go and declare their commands anew keep it (what discovery answers).
LEMMA InvokeWorldInv ==
  ASSUME InvokeInv, InvokeWorld
  PROVE  InvokeInv'
<1>0. /\ invokeAt # "done" /\ UNCHANGED <<invokeOp, invokeAt, found, invokeCode>>
      /\ beenThere' = (beenThere \/ Declared')
      /\ beenAway' = (beenAway \/ ~Declared')
  BY DEF InvokeWorld
<1>1. InvokeTypeOK'
  <2>1. turns' \in 0..MaxTurns
    BY InvokeAssumption DEF InvokeWorld, InvokeInv, InvokeTypeOK
  <2>2. path' \in Paths \cup {NoPath} /\ service' \in BOOLEAN
        /\ discovery' \in {"answers", "missing", "down", "newer"}
    BY DEF InvokeWorld
  <2>3. Declared' \in BOOLEAN
    BY <2>2 DEF Declared
  <2>4. beenThere' \in BOOLEAN /\ beenAway' \in BOOLEAN
    BY <1>0, <2>3 DEF InvokeInv, InvokeTypeOK
  <2> QED
    BY <1>0, <2>1, <2>2, <2>4 DEF InvokeInv, InvokeTypeOK
<1>2. invokeCode' = NoPath
  BY <1>0 DEF InvokeInv, InvokeQuiet
<1> QED
  BY <1>0, <1>1, <1>2, InvokeAssumption
     DEF InvokeInv, InvokeQuiet, Followed, CallsDeclared, GoneIsDefinitive

----------------------------------------------------------------------------
(* Both. *)

\* A run of either kind starts with the invariant (main.go: static and dynamic commands).
LEMMA DispatchInvInit == DispatchInit => DispatchInv
<1> SUFFICES ASSUME DispatchInit
             PROVE  DispatchInv
  OBVIOUS
<1> USE SetupAssumption, InvokeAssumption
<1>1. SetupStarts /\ InvokeStarts /\ name \in {"setup", "service"}
  BY DEF DispatchInit, Static, Dynamic, SetupInit, InvokeInit
<1>2. SetupTypeOK
  <2>1. acts \in 0..MaxOthers
    BY DEF DispatchInit, Static, Dynamic, SetupInit
  <2>4. rolled \in BOOLEAN
    <3>1. rolled = (switch = "on") \/ rolled = FALSE
      BY DEF DispatchInit, Static, Dynamic, SetupInit
    <3> QED
      BY <3>1
  <2>3. setupOp \in [kind : Kinds, yes : BOOLEAN]
    <3>1. CASE Static
      BY <3>1 DEF Static, SetupInit
    <3>2. CASE Dynamic
      BY <3>2 DEF Dynamic, Kinds
    <3> QED
      BY <3>1, <3>2 DEF DispatchInit
  <2>2. /\ catalog \in {"none", "silent", "refuses", "fails", "answers"}
        /\ key \in {"none", "environment", "setting"}
        /\ scan \in Scans
        /\ titled \in BOOLEAN
        /\ switch \in {"on", "off", Unset}
        /\ secure \in BOOLEAN
        /\ record \in Others \cup {Me, Unset}
    BY DEF DispatchInit, Static, Dynamic, SetupInit, Scans
  <2> QED
    BY <1>1, <2>1, <2>2, <2>3, <2>4 DEF SetupTypeOK, SetupStarts
<1>3. InvokeTypeOK /\ Followed
  <2>1. CASE Static
    <3>1. discovery = "answers" /\ service = FALSE /\ path = NoPath /\ turns = 0
          /\ beenThere = FALSE /\ beenAway = TRUE
      BY <2>1 DEF Static
    <3>2. invokeOp \in Invocations /\ invokeOp.kind = "run"
      BY <2>1 DEF Static, Invocations
    <3>3. InvokeTypeOK
      <4>1. beenThere \in BOOLEAN /\ beenAway \in BOOLEAN /\ service \in BOOLEAN
        BY <3>1
      <4>2. turns \in 0..MaxTurns
        BY <3>1
      <4>3. discovery \in {"answers", "missing", "down", "newer"} /\ path \in Paths \cup {NoPath}
        BY <3>1
      <4> QED
        BY <1>1, <3>2, <4>1, <4>2, <4>3 DEF InvokeTypeOK, InvokeStarts
    <3> QED
      BY <3>1, <3>2, <3>3 DEF Followed, Declared
  <2>2. CASE Dynamic
    <3>1. path \in Paths \cup {NoPath} /\ service \in BOOLEAN
      BY <2>2 DEF Dynamic, InvokeInit
    <3>2. Declared \in BOOLEAN
      BY <3>1 DEF Declared
    <3>3. beenThere = Declared /\ beenAway = ~Declared
      BY <2>2 DEF Dynamic, InvokeInit
    <3>4. beenThere \in BOOLEAN /\ beenAway \in BOOLEAN
      BY <3>2, <3>3
    <3>5. /\ discovery \in {"answers", "missing", "down", "newer"}
          /\ turns \in 0..MaxTurns /\ invokeOp \in Invocations
      BY <2>2 DEF Dynamic, InvokeInit
    <3>6. InvokeTypeOK
      BY <1>1, <3>1, <3>4, <3>5 DEF InvokeTypeOK, InvokeStarts
    <3> QED
      BY <3>3, <3>6 DEF Followed
  <2> QED
    BY <2>1, <2>2 DEF DispatchInit
<1> QED
  BY <1>1, <1>2, <1>3
     DEF DispatchInv, SetupInv, SetupQuiet, SaysWhatItDid, SetupStarts,
         InvokeInv, InvokeQuiet, CallsDeclared, GoneIsDefinitive, InvokeStarts

\* A step of one kind leaves the invariant of the other (main.go: one command runs).
LEMMA DispatchInvNext == DispatchInv /\ [DispatchNext]_dispatchVars => DispatchInv'
<1> SUFFICES ASSUME DispatchInv, [DispatchNext]_dispatchVars
             PROVE  DispatchInv'
  OBVIOUS
<1>1. UNCHANGED setupVars => SetupInv'
  <2> HAVE UNCHANGED setupVars
  <2>1. SetupTypeOK'
    BY DEF DispatchInv, SetupInv, SetupTypeOK, setupVars, platform
  <2> QED
    BY <2>1 DEF DispatchInv, SetupInv, SetupQuiet, SaysWhatItDid,
                setupVars, platform
<1>2. UNCHANGED invokeVars => InvokeInv'
  <2> HAVE UNCHANGED invokeVars
  <2>1. InvokeTypeOK' /\ (Declared' = Declared)
    BY DEF DispatchInv, InvokeInv, InvokeTypeOK, Declared, invokeVars, instance
  <2> QED
    BY <2>1 DEF DispatchInv, InvokeInv, InvokeQuiet, Followed, CallsDeclared, GoneIsDefinitive,
                invokeVars, instance
<1>3. CASE UNCHANGED <<invokeVars, name>> /\ (SetupCommand \/ SetupWorld)
  BY <1>2, <1>3, SetupCommandInv, SetupWorldInv DEF DispatchInv
<1>4. CASE UNCHANGED <<setupVars, name>> /\ (InvokeCommand \/ InvokeWorld)
  BY <1>1, <1>4, InvokeCommandInv, InvokeWorldInv DEF DispatchInv
<1>5. CASE UNCHANGED dispatchVars
  BY <1>1, <1>2, <1>5 DEF DispatchInv, dispatchVars
<1> QED
  BY <1>3, <1>4, <1>5 DEF DispatchNext

\* The invariant holds in every state (both kinds of commands).
LEMMA DispatchInvariance == DispatchSpec => []DispatchInv
<1>1. DispatchInit => DispatchInv
  BY DispatchInvInit
<1>2. DispatchInv /\ [DispatchNext]_dispatchVars => DispatchInv'
  BY DispatchInvNext
<1> QED
  BY <1>1, <1>2, PTL DEF DispatchSpec

----------------------------------------------------------------------------

\* Every variable holds a value of its kind (setup, declared commands and require).
THEOREM DispatchTypeCorrect == DispatchSpec => []DispatchTypeOK
<1>1. DispatchInv => DispatchTypeOK
  BY DEF DispatchInv, SetupInv, InvokeInv, DispatchTypeOK
<1> QED
  BY <1>1, DispatchInvariance, PTL

\* What a run of setup says of the platform is so (writes.go:40-60, 92-112, 155-169;
\* pipeline.go:43-77; do, portal.go:243-247).
THEOREM TrueReports == DispatchSpec => []SaysWhatItDid
<1>1. DispatchInv => SaysWhatItDid
  BY DEF DispatchInv, SetupInv
<1> QED
  BY <1>1, DispatchInvariance, PTL

\* Exit 3 is definitive, and 0, 1 and 5 are of a command that was declared (Run,
\* invoke.go:143-157; exitcode.go:22-30).
THEOREM Definitive == DispatchSpec => []GoneIsDefinitive
<1>1. DispatchInv => GoneIsDefinitive
  BY DEF DispatchInv, InvokeInv
<1> QED
  BY <1>1, DispatchInvariance, PTL

=============================================================================
