------------------------- MODULE AddonUpgradeProofs -------------------------
(***************************************************************************)
(* What holds of an upgrade for every set of charts and values, any number *)
(* of writes by others and either kind of portal.  The argument: at zae's  *)
(* generation the resource still is what zae's PATCH made (MineInv), and   *)
(* a status that says that generation was made from that spec              *)
(* (OperatorInv), so a plan taken at that generation is the plan of zae's  *)
(* write; every write of anyone moves the generation past it.  A second    *)
(* layer (EInv) follows the command to its end: what it leaves behind, and *)
(* what its exit 0 says.                                                   *)
(***************************************************************************)
EXTENDS AddonUpgrade, AddonResourceProofs

\* A status says a generation it was made for, and the operator is not at
\* work on an addon whose status is up to date.
OperatorInv ==
  /\ res # Nil =>
       /\ res.obs <= res.gen
       /\ res.obs = res.gen /\ res.plan # Nil => res.plan.spec = res.spec
  /\ op # Nil /\ res # Nil /\ op.uid = res.uid =>
       /\ op.gen <= res.gen
       /\ op.gen = res.gen => op.spec = res.spec
       /\ res.obs # res.gen

\* No two resources share a uid.
UidInv ==
  /\ res # Nil => res.uid <= foreign
  /\ op # Nil => op.uid <= foreign
  /\ before # Nil => before.uid <= foreign
  /\ mine # Nil => mine.uid <= foreign

\* What is known at each place of the command.
PlaceInv ==
  /\ pc \in {"patch", "plan", "confirm", "install", "ready", "reread",
             "putback"} => before # Nil
  /\ pc \in {"plan", "confirm", "install", "ready", "reread", "putback"}
       => mine # Nil /\ before # Nil
  /\ pc \in {"read", "patch"} => mine = Nil
  /\ pc \in {"confirm", "install"} => shown # Nil
  /\ pc = "plan" => shown = Nil
  /\ mine = Nil => wrote = 0 /\ shown = Nil /\ ~touched
  /\ shown = Nil => ~late /\ released = Nil
  /\ mine # Nil => before # Nil
  /\ pc # "done" => said = "nothing"

\* What zae read is what the addon was at that generation; and if the operator
\* was done with it then, it still is.
BeforeInv ==
  pc = "patch" /\ res # Nil /\ res.uid = before.uid =>
    /\ before.gen <= res.gen
    /\ before.gen = res.gen /\ before.settled
         => res.obs = res.gen /\ res.phase \notin PlanningPhases

\* At the generation zae wrote, the addon is what zae wrote, and nothing has
\* happened to it since.
MineInv ==
  wrote > 0 /\ res # Nil /\ res.uid = mine.uid =>
    /\ wrote <= res.gen
    /\ res.gen = wrote => /\ res.spec = mine.spec
                          /\ res.suspended
                          /\ ~touched
                          /\ released = Nil

\* Untouched by others, and not put back, the addon is what zae wrote.
UntouchedInv ==
  mine # Nil /\ ~touched /\ said \notin {"back", "stuck"} =>
    /\ res # Nil
    /\ res.uid = mine.uid
    /\ res.spec = mine.spec

\* Untouched by others, and put back, it is what putting back leaves of that; where
\* zae says that it could not put it back, it is one or the other.
BackInv ==
  mine # Nil /\ ~touched /\ said \in {"back", "stuck"} =>
    /\ res # Nil
    /\ res.uid = mine.uid
    /\ res.spec = SpecPutBack \/ (said = "stuck" /\ res.spec = mine.spec)

\* Without generations: while zae waits for a plan of an addon the operator was
\* done with, any plan there is, or is being made, is of zae's spec.
SettledInv ==
  pc = "plan" /\ before.settled /\ ~mine.interim /\ ~touched =>
    /\ res.phase \in PlanningPhases /\ res.plan # Nil
         => res.plan.spec = mine.spec
    /\ op # Nil /\ op.uid = res.uid => op.spec = mine.spec

ShownInv ==
  shown # Nil =>
    /\ shown.uid = mine.uid \/ touched
    /\ wrote > 0 /\ shown.uid = mine.uid => shown.spec = mine.spec

IInv ==
  /\ TypeOK
  /\ OperatorInv
  /\ UidInv
  /\ PlaceInv
  /\ BeforeInv
  /\ MineInv
  /\ UntouchedInv
  /\ BackInv
  /\ SettledInv
  /\ ShownInv
  /\ ShownIsWritten
  /\ InstallsWhatWasShown

----------------------------------------------------------------------------
(* The writes of the upgrade. *)

\* zae's PATCH: a resource of its kind, suspended, at most one generation on, and
\* marked as changed whenever its generation moved.
LEMMA PatchedFacts ==
  ASSUME TypeOK, before # Nil, res # Nil
  PROVE  Written(res, Patched(res)) /\ Patched(res).suspended = TRUE
<1> DEFINE spec == [chart   |-> IF req.chart = Nil THEN res.spec.chart ELSE req.chart,
                    values  |-> IF WritesValues(before)
                                THEN before.spec.values \cup {req.input}
                                ELSE res.spec.values,
                    secrets |-> res.spec.secrets \/ req.secret]
<1>1. Patched(res) = Merged(res, spec, TRUE, req.secret)
  BY DEF Patched
<1>2. res \in Resources /\ res.spec \in Specs /\ before.spec \in Specs
  BY DEF TypeOK, ResourceTypeOK, Resources, Reads
<1>3. req \in Requests
  BY InvocationAssumption DEF TypeOK
<1>4. /\ req.chart # Nil => req.chart \in Charts
      /\ req.input # Nil => req.input \in Inputs
      /\ req.secret \in BOOLEAN
  BY <1>3 DEF Requests
<1>5. spec.chart \in Charts
  BY <1>2, <1>4 DEF Specs
<1>6. spec.values \in SUBSET Inputs
  BY <1>2, <1>4 DEF Specs, WritesValues
<1>7. spec.secrets \in BOOLEAN
  OBVIOUS
<1>8. spec \in Specs
  BY <1>5, <1>6, <1>7, Zenon DEF Specs
<1> HIDE DEF spec
<1>9. Written(res, Merged(res, spec, TRUE, req.secret))
      /\ Merged(res, spec, TRUE, req.secret).suspended = TRUE
  BY <1>2, <1>4, <1>8, MergedFacts, Zenon
<1> QED
  BY <1>1, <1>9, Zenon

\* Putting back writes the spec and the suspension that zae read first.
LEMMA PutBackFacts ==
  ASSUME TypeOK, before # Nil, res # Nil
  PROVE  Written(res, PutBack(res))
<1> DEFINE spec == [chart   |-> before.spec.chart,
                    values  |-> IF WritesValues(before) THEN before.spec.values
                                ELSE res.spec.values,
                    secrets |-> res.spec.secrets]
<1>1. PutBack(res) = Merged(res, spec, before.suspended, FALSE)
  BY DEF PutBack
<1>2. res \in Resources /\ res.spec \in Specs /\ before.spec \in Specs
      /\ before.suspended \in BOOLEAN
  BY DEF TypeOK, ResourceTypeOK, Resources, Reads
<1>3. spec \in Specs
  BY <1>2, Zenon DEF Specs
<1> HIDE DEF spec
<1>4. Written(res, Merged(res, spec, before.suspended, FALSE))
  BY <1>2, <1>3, MergedFacts, Zenon
<1> QED
  BY <1>1, <1>4, Zenon

----------------------------------------------------------------------------
(* Type correctness. *)

\* The addons there can be before the upgrade are resources.
LEMMA InitResource ==
  ASSUME Init
  PROVE  /\ res \in Resources /\ res.uid = 0 /\ res.obs <= res.gen
         /\ res.plan # Nil => res.plan.spec = res.spec
         /\ Sound(res)
<1>1. PICK c \in Charts, v \in SUBSET Inputs :
        LET spec == [chart |-> c, values |-> v, secrets |-> FALSE]
            plan == [spec |-> spec, ok |-> TRUE]
            new  == Created(0, spec)
        IN  res \in {[new EXCEPT !.suspended = FALSE, !.gen = 2, !.obs = 2,
                                 !.phase = "Ready", !.plan = plan,
                                 !.applied = spec, !.registered = TRUE],
                     [new EXCEPT !.obs = 1, !.phase = "Planned", !.plan = plan],
                     new}
  BY DEF Init
<1> DEFINE spec == [chart |-> c, values |-> v, secrets |-> FALSE]
           plan == [spec |-> spec, ok |-> TRUE]
           new  == Created(0, spec)
           running == [new EXCEPT !.suspended = FALSE, !.gen = 2, !.obs = 2,
                                  !.phase = "Ready", !.plan = plan,
                                  !.applied = spec, !.registered = TRUE]
           planned == [new EXCEPT !.obs = 1, !.phase = "Planned", !.plan = plan]
<1>2. spec \in Specs
  BY DEF Specs
<1>3. plan \in Plans /\ plan.spec = spec
  BY <1>2 DEF Plans
<1>4. new \in Resources /\ new.uid = 0 /\ new.spec = spec /\ new.gen = 1
      /\ new.obs = 0 /\ new.plan = Nil
  BY <1>2, CreatedFacts
<1>5. {"Ready", "Planned"} \subseteq Phases /\ {0, 1, 2} \subseteq Nat
  BY DEF Phases
<1> HIDE DEF spec, plan, new
<1>6. running \in Resources
  BY <1>2, <1>3, <1>4, <1>5, Zenon DEF Resources
<1>7. planned \in Resources
  BY <1>2, <1>3, <1>4, <1>5, Zenon DEF Resources
<1>8. /\ running.uid = 0 /\ running.obs = 2 /\ running.gen = 2
      /\ running.spec = spec /\ running.plan = plan /\ running.applied = spec
  BY <1>4 DEF Resources
<1>9. /\ planned.uid = 0 /\ planned.obs = 1 /\ planned.gen = 1
      /\ planned.spec = spec /\ planned.plan = plan /\ planned.phase = "Planned"
  BY <1>4 DEF Resources
<1>10. res = running \/ res = planned \/ res = new
  BY <1>1, Zenon DEF spec, plan, new
<1> HIDE DEF running, planned
<1>11. Sound(running) /\ Sound(planned) /\ Sound(new)
  BY <1>3, <1>4, <1>8, <1>9 DEF Sound
<1> QED
  BY <1>3, <1>4, <1>6, <1>7, <1>8, <1>9, <1>10, <1>11

\* Every initial state is well typed.
LEMMA TypeInit == Init => TypeOK
<1> SUFFICES ASSUME Init PROVE TypeOK
  OBVIOUS
<1>1. res \in Resources
  BY InitResource
<1> QED
  BY <1>1 DEF Init, TypeOK, ResourceTypeOK, Places, Codes, Sayings

\* What zae keeps of what it read and of the plan it prints.
LEMMA ReadFacts ==
  ASSUME TypeOK, Read
  PROVE  /\ res \in Resources /\ before' \in Reads
         /\ before'.uid = res.uid /\ before'.gen = res.gen
         /\ before'.settled <=> res.obs = res.gen /\ res.phase \notin PlanningPhases
<1>1. res \in Resources /\ before' = ReadOf(res)
  BY DEF Read, TypeOK, ResourceTypeOK
<1>2. before' \in Reads
  BY <1>1, Zenon DEF Reads, ReadOf, Resources
<1>3. /\ before'.uid = res.uid /\ before'.gen = res.gen
      /\ before'.settled <=> res.obs = res.gen /\ res.phase \notin PlanningPhases
  BY <1>1 DEF ReadOf
<1> QED
  BY <1>1, <1>2, <1>3

\* The plan zae shows is one of those the portal answered.
LEMMA PollPlanFacts ==
  ASSUME TypeOK, PollPlan
  PROVE  \/ shown' = shown /\ pc' \in {"done", "reread"}
         \/ /\ shown' \in ShownPlans /\ pc' \in {"install", "confirm"}
            /\ shown'.uid = res.uid /\ shown'.spec = res.plan.spec
            /\ res # Nil /\ ~Changed(res, wrote) /\ PlanFor(res, wrote)
            /\ res.plan # Nil /\ res.phase = "Planned"
<1>1. res \in Resources
  BY DEF PollPlan, TypeOK, ResourceTypeOK
<1>2. CASE Changed(res, wrote) \/ PlanRefused(res)
  BY <1>2 DEF PollPlan, Exit, Restore
<1>3. CASE ~Changed(res, wrote) /\ ~PlanRefused(res)
  <2>1. /\ shown' = [uid |-> res.uid, spec |-> res.plan.spec]
        /\ PlanFor(res, wrote) /\ res # Nil
        /\ res.plan # Nil /\ res.phase = "Planned"
        /\ pc' \in {"install", "confirm"}
    BY <1>3, Zenon DEF PollPlan, PlanRefused
  <2>2. res.uid \in Nat /\ res.plan \in Plans
    BY <1>1, <2>1 DEF Resources
  <2>3. shown' \in ShownPlans
    BY <2>1, <2>2 DEF ShownPlans, Plans
  <2> QED
    BY <1>3, <2>1, <2>3
<1> QED
  BY <1>2, <1>3

\* What the portal does with zae's PATCH, its install and its putting back.
LEMMA PortalPatchesFacts ==
  ASSUME TypeOK, before # Nil, PortalPatches
  PROVE  /\ res # Nil /\ Written(res, res') /\ res'.suspended
         /\ mine' \in Writes
         /\ mine'.uid = res.uid /\ mine'.spec = res'.spec
         /\ mine'.interim <=> res.gen # before.gen \/ res.uid # before.uid
         /\ op' = op /\ foreign' = foreign
<1>1. res # Nil /\ res' = Patched(res) /\ op' = op /\ foreign' = foreign
  BY DEF PortalPatches
<1>2. Written(res, res') /\ res'.suspended
  BY <1>1, PatchedFacts
<1>3. res.uid \in Nat /\ res'.spec \in Specs
  BY <1>1, <1>2 DEF Written, Resources, TypeOK, ResourceTypeOK
<1>4. mine' = [uid |-> res.uid, spec |-> res'.spec, moved |-> res' # res,
               interim |-> res.gen # before.gen \/ res.uid # before.uid]
  BY DEF PortalPatches
<1>5. mine' \in Writes
  BY <1>3, <1>4, Zenon DEF Writes
<1>6. /\ mine'.uid = res.uid /\ mine'.spec = res'.spec
      /\ mine'.interim <=> res.gen # before.gen \/ res.uid # before.uid
  BY <1>4
<1> QED
  BY <1>1, <1>2, <1>5, <1>6

\* What the portal makes of an install of zae's, on time or late.
LEMMA PortalInstallsFacts ==
  ASSUME TypeOK, PortalInstalls
  PROVE  /\ res # Nil /\ Written(res, res') /\ res'.spec = res.spec
         /\ res.suspended => res'.gen = res.gen + 1
         /\ res.obs = res.gen /\ res.plan # Nil
         /\ released' \in Releases
         /\ released'.spec = res.spec
         /\ released'.clean = ~touched /\ released'.after = said
         /\ op' = op /\ foreign' = foreign
<1>1. /\ res # Nil /\ res' = Installed(res) /\ op' = op /\ foreign' = foreign
      /\ res.obs = res.gen /\ res.plan # Nil
  BY DEF PortalInstalls, CanInstall
<1>2. /\ Written(res, res') /\ res'.spec = res.spec
      /\ res.suspended => res'.gen = res.gen + 1
  BY <1>1, InstalledFacts DEF TypeOK, ResourceTypeOK
<1>3. res.uid \in Nat /\ res.spec \in Specs /\ said \in Sayings
  BY <1>1 DEF Resources, TypeOK, ResourceTypeOK
<1>6. (~touched) \in BOOLEAN
  OBVIOUS
<1>4. released' = [uid |-> res.uid, spec |-> res.spec,
                   clean |-> ~touched, after |-> said]
  BY DEF PortalInstalls
<1>5. released' \in Releases
  BY <1>3, <1>4, <1>6, Zenon DEF Releases
<1> QED
  BY <1>1, <1>2, <1>4, <1>5

\* The steps that leave the resource, and what zae knows of its writes, alone.
Bystanding ==
  \/ ReadFails \/ PatchFails \/ PlanGone \/ PlanFails \/ AnswerYes \/ AnswerNo
  \/ InstallFails \/ PollReady \/ ReadyFails \/ Reread \/ RereadFails
  \/ Signal \/ SecondSignal

\* Every step keeps the types: one case for each action.
LEMMA TypeStep ==
  ASSUME TypeOK, PlaceInv, [Next]_vars
  PROVE  TypeOK'
<1> USE DEF Exit, Restore, resourceVars
<1>0. /\ SignalDuringCall => sig' \in BOOLEAN
      /\ FailureCode \in Codes
      /\ \A c \in WaitFailures : c \in Codes
  BY Zenon DEF SignalDuringCall, FailureCode, WaitFailures, Codes, TypeOK
<1>1. CASE Read
  <2>1. before' \in Reads
    BY <1>1, ReadFacts
  <2> QED
    BY <1>1, <2>1 DEF Read, TypeOK, ResourceTypeOK, Places, Codes, Sayings
<1>2. CASE Bystanding
  <2>1. sig' \in BOOLEAN
    BY <1>0, <1>2 DEF Bystanding, ReadFails, PatchFails, PlanGone, PlanFails,
         AnswerYes, AnswerNo, InstallFails, PollReady, ReadyFails, Reread,
         RereadFails, Signal, SecondSignal, TypeOK
  <2>2. /\ UNCHANGED <<resourceVars, req, before, wrote, shown, inst, mine,
                       touched, released>>
        /\ pc' \in Places /\ said' \in Sayings
    BY <1>2, <2>1 DEF Bystanding, ReadFails, PatchFails, PlanGone, PlanFails,
         AnswerYes, AnswerNo, InstallFails, PollReady, ReadyFails, Reread,
         RereadFails, Signal, SecondSignal, TypeOK, Places, Sayings
  <2>4. code' \in Codes
    BY <1>0, <1>2, <2>1 DEF Bystanding, ReadFails, PatchFails, PlanGone, PlanFails,
         AnswerYes, AnswerNo, InstallFails, PollReady, ReadyFails, Reread,
         RereadFails, Signal, SecondSignal, TypeOK, Codes
  <2>3. late' \in BOOLEAN /\ tried' \in BOOLEAN
    BY <1>2, <2>1 DEF Bystanding, ReadFails, PatchFails, PlanGone, PlanFails,
         AnswerYes, AnswerNo, InstallFails, PollReady, ReadyFails, Reread,
         RereadFails, Signal, SecondSignal, TypeOK
  <2> QED
    BY <2>1, <2>2, <2>3, <2>4 DEF TypeOK, ResourceTypeOK
<1>3. CASE Patch \/ PatchUnanswered
  <2>1. before # Nil /\ PortalPatches
    BY <1>3 DEF Patch, PatchUnanswered, PlaceInv
  <2>2. /\ res' \in Resources /\ mine' \in Writes /\ op' = op
        /\ foreign' = foreign /\ res'.gen \in Nat
    BY <2>1, PortalPatchesFacts DEF Written, Resources
  <2>3. wrote' \in Nat
    BY <1>3, <2>2, GenerationAssumption DEF Patch, PatchUnanswered, TypeOK
  <2> QED
    BY <1>0, <1>3, <2>2, <2>3 DEF Patch, PatchUnanswered, TypeOK, ResourceTypeOK,
         Places, Codes, Sayings
<1>4. CASE PollPlan
  <2>1. shown' \in ShownPlans \cup {Nil}
    BY <1>4, PollPlanFacts DEF TypeOK
  <2> QED
    BY <1>4, <2>1 DEF PollPlan, TypeOK, ResourceTypeOK, Places, Codes, Sayings
<1>5. CASE Install \/ InstallUnanswered \/ LateInstall
  <2>1. CASE PortalInstalls
    <3>1. /\ res' \in Resources /\ released' \in Releases /\ op' = op
          /\ foreign' = foreign /\ res'.gen \in Nat
      BY <2>1, PortalInstallsFacts DEF Written, Resources
    <3>2. inst' \in Nat
      BY <1>5, <3>1, GenerationAssumption
      DEF Install, InstallUnanswered, LateInstall, TypeOK
    <3>3. CASE Install
      BY <3>1, <3>2, <3>3 DEF Install, TypeOK, ResourceTypeOK, Places, Codes
    <3>4. CASE InstallUnanswered
      BY <1>0, <3>1, <3>2, <3>4 DEF InstallUnanswered, TypeOK, ResourceTypeOK, Places
    <3>5. CASE LateInstall
      BY <3>1, <3>2, <3>5 DEF LateInstall, TypeOK, ResourceTypeOK
    <3> QED
      BY <1>5, <3>3, <3>4, <3>5
  <2>2. CASE ~PortalInstalls
    BY <1>5, <2>2 DEF Install, InstallUnanswered, LateInstall, TypeOK,
         ResourceTypeOK
  <2> QED
    BY <2>1, <2>2
<1>6. CASE WriteBack \/ WriteBackFails
  <2>1. before # Nil
    BY <1>6 DEF WriteBack, WriteBackFails, PlaceInv
  <2>2. res' \in Resources \cup {Nil}
    BY <1>6, <2>1, PutBackFacts DEF WriteBack, WriteBackFails, Written, TypeOK,
         ResourceTypeOK
  <2> QED
    BY <1>6, <2>2 DEF WriteBack, WriteBackFails, TypeOK, ResourceTypeOK, Places,
         Codes, Sayings
<1>7. CASE OperatorStep
  BY <1>7, OperatorFacts DEF OperatorStep, ownVars, TypeOK
<1>8. CASE Others
  <2>1. touched' \in BOOLEAN
    BY <1>8, Zenon DEF Others
  <2> QED
    BY <1>8, <2>1, ForeignFacts DEF Others, TypeOK
<1>9. CASE UNCHANGED vars
  BY <1>9 DEF vars, ownVars, TypeOK, ResourceTypeOK
<1> QED
  BY <1>1, <1>2, <1>3, <1>4, <1>5, <1>6, <1>7, <1>8, <1>9
  DEF Next, Zae, Person, Bystanding

----------------------------------------------------------------------------
(* The resource, whoever writes it. *)

\* The resource moves in four ways: not at all, by one write of zae's, by the
\* operator, by someone else.
LEMMA WorldStep ==
  ASSUME TypeOK, PlaceInv, [Next]_vars
  PROVE  \/ UNCHANGED resourceVars
         \/ res # Nil /\ Written(res, res') /\ op' = op /\ foreign' = foreign
         \/ Operator
         \/ ForeignWrite
<1>1. CASE Patch \/ PatchUnanswered
  BY <1>1, PortalPatchesFacts DEF Patch, PatchUnanswered, PlaceInv
<1>2. CASE Install \/ InstallUnanswered \/ LateInstall
  BY <1>2, PortalInstallsFacts DEF Install, InstallUnanswered, LateInstall
<1>3. CASE WriteBack \/ WriteBackFails
  <2>1. before # Nil
    BY <1>3 DEF WriteBack, WriteBackFails, PlaceInv
  <2>2. res # Nil => Written(res, PutBack(res))
    BY <2>1, PutBackFacts
  <2> QED
    BY <1>3, <2>2 DEF WriteBack, WriteBackFails, resourceVars
<1>4. CASE OperatorStep \/ Others
  BY <1>4 DEF OperatorStep, Others
<1>5. CASE Read \/ PollPlan \/ Bystanding \/ UNCHANGED vars
  BY <1>5 DEF Read, PollPlan, Bystanding, ReadFails, PatchFails, PlanGone, PlanFails,
     AnswerYes, AnswerNo, InstallFails, PollReady, ReadyFails, Reread, RereadFails,
     Signal, SecondSignal, vars
<1> QED
  BY <1>1, <1>2, <1>3, <1>4, <1>5 DEF Next, Zae, Person, Bystanding

\* The operator's bookkeeping survives every step: a settled status is of the
\* spec it names.
LEMMA OperatorStepInv ==
  ASSUME TypeOK, PlaceInv, OperatorInv, UidInv, [Next]_vars
  PROVE  OperatorInv'
<1> USE DEF OperatorInv
<1>0. /\ res # Nil => res \in Resources /\ res.gen \in Nat /\ res.obs \in Nat
      /\ op # Nil => op \in Snapshots /\ op.gen \in Nat /\ op.uid \in Nat
      /\ foreign \in Nat
  BY DEF TypeOK, ResourceTypeOK, Resources, Snapshots
<1>1. CASE UNCHANGED resourceVars
  BY <1>1 DEF resourceVars
<1>2. CASE res # Nil /\ Written(res, res') /\ op' = op
  <2>1. CASE res' = res
    BY <1>2, <2>1
  <2>2. CASE res'.gen = res.gen + 1
    BY <1>0, <1>2, <2>2 DEF Written
  <2> QED
    BY <1>2, <2>1, <2>2 DEF Written
<1>3. CASE OperatorReads
  BY <1>0, <1>3 DEF OperatorReads
<1>4. CASE OperatorWrites
  <2>1. CASE res # Nil /\ res.uid = op.uid
    <3>1. PICK ok \in BOOLEAN : res' = Reconciled(res, op, ok)
      BY <1>4, <2>1 DEF OperatorWrites
    <3>2. /\ res'.uid = res.uid /\ res'.gen = res.gen /\ res'.spec = res.spec
          /\ res'.obs = op.gen /\ res'.plan.spec = op.spec
      BY <1>0, <1>4, <2>1, <3>1, ReconciledFacts DEF OperatorWrites
    <3> QED
      BY <1>0, <1>4, <2>1, <3>2 DEF OperatorWrites
  <2>2. CASE ~(res # Nil /\ res.uid = op.uid)
    BY <1>4, <2>2 DEF OperatorWrites
  <2> QED
    BY <2>1, <2>2
<1>5. CASE RolloutEnds \/ PortalRegisters
  <2>1. /\ res # Nil /\ op' = op
        /\ \/ res' = [res EXCEPT !.phase = "Ready"]
           \/ res' = [res EXCEPT !.registered = TRUE]
    BY <1>5 DEF RolloutEnds, PortalRegisters
  <2>2. /\ res'.uid = res.uid /\ res'.gen = res.gen /\ res'.obs = res.obs
        /\ res'.spec = res.spec /\ res'.plan = res.plan
    BY <1>0, <2>1 DEF Resources
  <2> QED
    BY <2>1, <2>2
<1>6. CASE ForeignWrite
  <2>1. CASE res # Nil /\ Written(res, res')
    BY <1>2, <1>6, <2>1, ForeignFacts DEF TypeOK
  <2>2. CASE res' = Nil
    BY <2>2
  <2>3. CASE /\ res' # Nil /\ res'.uid = foreign + 1 /\ res'.gen = 1
             /\ res'.obs = 0
    <3>1. op' = op
      BY <1>6, ForeignFacts DEF TypeOK
    <3> QED
      BY <1>0, <2>3, <3>1 DEF UidInv
  <2> QED
    BY <1>6, <2>1, <2>2, <2>3, ForeignFacts DEF TypeOK
<1> QED
  BY <1>1, <1>2, <1>3, <1>4, <1>5, <1>6, WorldStep DEF Operator

\* The addon's identity changes only when it is deleted and created again.
LEMMA UidStep ==
  ASSUME TypeOK, PlaceInv, UidInv, [Next]_vars
  PROVE  UidInv'
<1>0. /\ foreign \in Nat
      /\ res # Nil => res \in Resources /\ res.uid \in Nat
      /\ op # Nil => op.uid \in Nat
      /\ before # Nil => before.uid \in Nat
      /\ mine # Nil => mine.uid \in Nat
  BY DEF TypeOK, ResourceTypeOK, Resources, Snapshots, Reads, Writes
<1>1. /\ res' # Nil => res'.uid <= foreign'
      /\ op' # Nil => op'.uid <= foreign'
      /\ foreign <= foreign' /\ foreign' \in Nat
  <2>1. CASE UNCHANGED resourceVars
    BY <1>0, <2>1 DEF UidInv, resourceVars
  <2>2. CASE res # Nil /\ Written(res, res') /\ op' = op /\ foreign' = foreign
    BY <1>0, <2>2 DEF UidInv, Written
  <2>3. CASE Operator
    <3>1. op' = Nil \/ op' = op \/ (res # Nil /\ op'.uid = res.uid)
      BY <2>3 DEF Operator, OperatorReads, OperatorWrites, RolloutEnds, PortalRegisters
    <3> QED
      BY <1>0, <2>3, <3>1, OperatorFacts DEF UidInv, TypeOK
  <2>4. CASE ForeignWrite
    BY <1>0, <2>4, ForeignFacts DEF UidInv, Written, TypeOK
  <2> QED
    BY <2>1, <2>2, <2>3, <2>4, WorldStep
<1>2. before' # Nil => before'.uid <= foreign
  <2>1. CASE Read
    BY <1>0, <2>1 DEF Read, ReadOf, UidInv
  <2>2. CASE ~Read
    <3>1. before' = before
      BY <2>2 DEF Next, Zae, Person, ReadFails, Patch, PatchFails, PatchUnanswered,
         PollPlan, PlanGone, PlanFails, AnswerYes, AnswerNo, Install, InstallFails,
         InstallUnanswered, LateInstall, PollReady, ReadyFails, Reread,
         RereadFails, WriteBack, WriteBackFails, Signal, SecondSignal,
         OperatorStep, Others, ownVars, vars
    <3> QED
      BY <3>1 DEF UidInv
  <2> QED
    BY <2>1, <2>2
<1>3. mine' # Nil => mine'.uid <= foreign
  <2>1. CASE Patch \/ PatchUnanswered
    BY <2>1, PortalPatchesFacts DEF Patch, PatchUnanswered, PlaceInv, UidInv
  <2>2. CASE ~(Patch \/ PatchUnanswered)
    <3>1. mine' = mine
      BY <2>2 DEF Next, Zae, Person, Read, ReadFails, PatchFails, PollPlan, PlanGone,
         PlanFails, AnswerYes, AnswerNo, Install, InstallFails, InstallUnanswered,
         LateInstall, PollReady, ReadyFails, Reread, RereadFails, WriteBack,
         WriteBackFails, Signal, SecondSignal, OperatorStep, Others, ownVars, vars
    <3> QED
      BY <3>1 DEF UidInv
  <2> QED
    BY <2>1, <2>2
<1>4. /\ before' # Nil => before'.uid \in Nat
      /\ mine' # Nil => mine'.uid \in Nat
  BY TypeStep DEF TypeOK, Reads, Writes
<1> QED
  BY <1>0, <1>1, <1>2, <1>3, <1>4 DEF UidInv

----------------------------------------------------------------------------
(* What zae knows, and where. *)

\* Where zae is says what it has done so far.
LEMMA PlaceStep ==
  ASSUME TypeOK, PlaceInv, [Next]_vars
  PROVE  PlaceInv'
<1> USE DEF PlaceInv, Exit, Restore
<1>1. CASE Read
  <2>1. before' \in Reads
    BY <1>1, ReadFacts
  <2> QED
    BY <1>1, <2>1, UpgradeNilAssumption DEF Read
<1>2. CASE Patch \/ PatchUnanswered
  <2>1. before # Nil /\ mine' # Nil
    BY <1>2, PortalPatchesFacts, UpgradeNilAssumption DEF Patch, PatchUnanswered
  <2> QED
    BY <1>2, <2>1 DEF Patch, PatchUnanswered
<1>3. CASE PollPlan
  <2>1. \/ shown' = shown /\ pc' \in {"done", "reread"}
        \/ shown' # Nil /\ pc' \in {"install", "confirm"}
    BY <1>3, PollPlanFacts, UpgradeNilAssumption
  <2> QED
    BY <1>3, <2>1 DEF PollPlan
<1>4. CASE ReadFails \/ PatchFails \/ PlanGone \/ PlanFails
  BY <1>4 DEF ReadFails, PatchFails, PlanGone, PlanFails
<1>5. CASE AnswerYes \/ AnswerNo \/ Signal \/ SecondSignal
  BY <1>5 DEF AnswerYes, AnswerNo, Signal, SecondSignal
<1>6. CASE Install
  BY <1>6 DEF Install
<1>7. CASE InstallFails \/ InstallUnanswered
  BY <1>7 DEF InstallFails, InstallUnanswered
<1>8. CASE LateInstall
  BY <1>8 DEF LateInstall
<1>9. CASE PollReady \/ ReadyFails \/ Reread \/ RereadFails
  BY <1>9 DEF PollReady, ReadyFails, Reread, RereadFails
<1>10. CASE WriteBack \/ WriteBackFails
  BY <1>10 DEF WriteBack, WriteBackFails
<1>11. CASE OperatorStep
  BY <1>11 DEF OperatorStep, ownVars
<1>12. CASE Others
  BY <1>12 DEF Others
<1>13. CASE UNCHANGED vars
  BY <1>13 DEF vars, ownVars
<1> QED
  BY <1>1, <1>2, <1>3, <1>4, <1>5, <1>6, <1>7, <1>8, <1>9, <1>10, <1>11, <1>12,
     <1>13 DEF Next, Zae, Person

\* Which steps change what zae knows of its own writes.
LEMMA KnowledgeStep ==
  ASSUME [Next]_vars
  PROVE  /\ (mine' = mine /\ wrote' = wrote) \/ Patch \/ PatchUnanswered
         /\ before' = before \/ Read
         /\ shown' = shown \/ PollPlan
         /\ released' = released \/ (PortalInstalls /\ (pc = "install" \/ late))
         /\ touched' = touched \/ Others
         /\ pc' = "plan" => pc = "plan" \/ Patch
         /\ pc' = "patch" => pc = "patch" \/ Read
         /\ said' = said \/ pc # "done"
<1>1. (mine' = mine /\ wrote' = wrote) \/ Patch \/ PatchUnanswered
  BY
    DEF Next, Zae, Person, Read, ReadFails, PatchFails, PollPlan,
        PlanGone, PlanFails, AnswerYes, AnswerNo, Install, InstallFails,
        InstallUnanswered, LateInstall, PollReady, ReadyFails, Reread,
        RereadFails, WriteBack, WriteBackFails, Signal, SecondSignal,
        OperatorStep, Others, vars, ownVars
<1>2. before' = before \/ Read
  BY
    DEF Next, Zae, Person, ReadFails, Patch, PatchFails, PatchUnanswered,
        PollPlan, PlanGone, PlanFails, AnswerYes, AnswerNo, Install,
        InstallFails, InstallUnanswered, LateInstall, PollReady,
        ReadyFails, Reread, RereadFails, WriteBack, WriteBackFails,
        Signal, SecondSignal, OperatorStep, Others, vars, ownVars
<1>3. shown' = shown \/ PollPlan
  BY
    DEF Next, Zae, Person, Read, ReadFails, Patch, PatchFails,
        PatchUnanswered, PlanGone, PlanFails, AnswerYes, AnswerNo,
        Install, InstallFails, InstallUnanswered, LateInstall, PollReady,
        ReadyFails, Reread, RereadFails, WriteBack, WriteBackFails,
        Signal, SecondSignal, OperatorStep, Others, vars, ownVars
<1>4. released' = released \/ (PortalInstalls /\ (pc = "install" \/ late))
  BY
    DEF Next, Zae, Person, Read, ReadFails, Patch, PatchFails,
        PatchUnanswered, PollPlan, PlanGone, PlanFails, AnswerYes,
        AnswerNo, Install, InstallFails, InstallUnanswered, LateInstall,
        PollReady, ReadyFails, Reread, RereadFails, WriteBack,
        WriteBackFails, Signal, SecondSignal, OperatorStep, Others, vars,
        ownVars
<1>5. touched' = touched \/ Others
  BY
    DEF Next, Zae, Person, Read, ReadFails, Patch, PatchFails,
        PatchUnanswered, PollPlan, PlanGone, PlanFails, AnswerYes,
        AnswerNo, Install, InstallFails, InstallUnanswered, LateInstall,
        PollReady, ReadyFails, Reread, RereadFails, WriteBack,
        WriteBackFails, Signal, SecondSignal, OperatorStep, vars, ownVars
<1>6. pc' = "plan" => pc = "plan" \/ Patch
  BY
    DEF Next, Zae, Person, Read, ReadFails, PatchFails, PatchUnanswered,
        PollPlan, PlanGone, PlanFails, AnswerYes, AnswerNo, Install,
        InstallFails, InstallUnanswered, LateInstall, PollReady,
        ReadyFails, Reread, RereadFails, WriteBack, WriteBackFails,
        Signal, SecondSignal, OperatorStep, Others, vars, ownVars, Exit,
        Restore
<1>7. pc' = "patch" => pc = "patch" \/ Read
  BY
    DEF Next, Zae, Person, ReadFails, Patch, PatchFails, PatchUnanswered,
        PollPlan, PlanGone, PlanFails, AnswerYes, AnswerNo, Install,
        InstallFails, InstallUnanswered, LateInstall, PollReady,
        ReadyFails, Reread, RereadFails, WriteBack, WriteBackFails,
        Signal, SecondSignal, OperatorStep, Others, vars, ownVars, Exit,
        Restore
<1>8. said' = said \/ pc # "done"
  BY
    DEF Next, Zae, Person, Read, ReadFails, Patch, PatchFails,
        PatchUnanswered, PollPlan, PlanGone, PlanFails, AnswerYes,
        AnswerNo, Install, InstallFails, InstallUnanswered, LateInstall,
        PollReady, ReadyFails, Reread, RereadFails, WriteBack,
        WriteBackFails, Signal, SecondSignal, OperatorStep, Others, vars,
        ownVars, Exit, Restore
<1> QED
  BY <1>1, <1>2, <1>3, <1>4, <1>5, <1>6, <1>7, <1>8

\* An addon the operator is done with stays so until its spec is written.
LEMMA OperatorRests ==
  ASSUME TypeOK, OperatorInv, Operator, res # Nil,
         res.obs = res.gen, res.phase \notin PlanningPhases
  PROVE  res'.obs = res'.gen /\ res'.phase \notin PlanningPhases
<1>1. res \in Resources
  BY DEF TypeOK, ResourceTypeOK
<1>2. CASE OperatorReads
  BY <1>2 DEF OperatorReads
<1>3. CASE OperatorWrites
  <2>1. op.uid # res.uid
    BY <1>3 DEF OperatorWrites, OperatorInv
  <2> QED
    BY <1>3, <2>1 DEF OperatorWrites
<1>4. CASE RolloutEnds
  <2>1. res' = [res EXCEPT !.phase = "Ready"]
    BY <1>4 DEF RolloutEnds
  <2>2. res'.obs = res.obs /\ res'.gen = res.gen /\ res'.phase = "Ready"
    BY <1>1, <2>1 DEF Resources
  <2> QED
    BY <2>2 DEF PlanningPhases
<1>5. CASE PortalRegisters
  <2>1. res' = [res EXCEPT !.registered = TRUE]
    BY <1>5 DEF PortalRegisters
  <2>2. res'.obs = res.obs /\ res'.gen = res.gen /\ res'.phase = res.phase
    BY <1>1, <2>1 DEF Resources
  <2> QED
    BY <2>2
<1> QED
  BY <1>2, <1>3, <1>4, <1>5 DEF Operator

\* What zae would put back is what it read first, and still belongs to it.
LEMMA BeforeStep ==
  ASSUME TypeOK, OperatorInv, UidInv, PlaceInv, BeforeInv, [Next]_vars
  PROVE  BeforeInv'
<1> SUFFICES ASSUME pc' = "patch", res' # Nil, res'.uid = before'.uid
             PROVE  /\ before'.gen <= res'.gen
                    /\ before'.gen = res'.gen /\ before'.settled
                         => /\ res'.obs = res'.gen
                            /\ res'.phase \notin PlanningPhases
  BY DEF BeforeInv
<1>1. CASE Read
  BY <1>1, ReadFacts DEF Read, resourceVars, Resources
<1>2. CASE ~Read
  <2>1. pc = "patch" /\ before' = before
    BY <1>2, KnowledgeStep
  <2>2. before # Nil /\ before.uid \in Nat /\ before.gen \in Nat
    BY <2>1 DEF PlaceInv, TypeOK, Reads
  <2>3. ~late
    BY <2>1 DEF PlaceInv
  <2>4. UNCHANGED resourceVars \/ Operator \/ ForeignWrite
    BY <1>2, <2>1, <2>3 DEF Next, Zae, Person, ReadFails, Patch, PatchFails,
       PatchUnanswered, PollPlan, PlanGone, PlanFails, AnswerYes, AnswerNo, Install,
       InstallFails, InstallUnanswered, LateInstall, PollReady, ReadyFails,
       Reread, RereadFails, WriteBack, WriteBackFails, Signal, SecondSignal,
       OperatorStep, Others, vars, Exit
  <2>5. CASE UNCHANGED resourceVars
    BY <2>1, <2>5 DEF BeforeInv, resourceVars
  <2>6. CASE Operator
    <3>1. /\ res # Nil /\ res'.uid = res.uid /\ res'.gen = res.gen
      BY <2>6, OperatorFacts DEF TypeOK
    <3>2. CASE before.gen = res.gen /\ before.settled
      BY <2>1, <2>6, <3>1, <3>2, OperatorRests DEF BeforeInv
    <3>3. CASE ~(before.gen = res.gen /\ before.settled)
      BY <2>1, <3>1, <3>3 DEF BeforeInv
    <3> QED
      BY <3>2, <3>3
  <2>7. CASE ForeignWrite
    <3>1. CASE res # Nil /\ Written(res, res') /\ res'.gen = res.gen + 1
      BY <2>1, <2>2, <3>1 DEF BeforeInv, Written
    <3>2. CASE res'.uid = foreign + 1
      BY <2>1, <2>2, <3>2 DEF UidInv, TypeOK, ResourceTypeOK
    <3> QED
      BY <2>7, <3>1, <3>2, ForeignFacts DEF TypeOK
  <2> QED
    BY <2>4, <2>5, <2>6, <2>7
<1> QED
  BY <1>1, <1>2

\* What zae wrote is what it remembers as its own.
LEMMA MineStep ==
  ASSUME TypeOK, UidInv, PlaceInv, MineInv, [Next]_vars
  PROVE  MineInv'
<1> SUFFICES ASSUME wrote' > 0, res' # Nil, res'.uid = mine'.uid
             PROVE  /\ wrote' <= res'.gen
                    /\ res'.gen = wrote' => /\ res'.spec = mine'.spec
                                           /\ res'.suspended
                                           /\ ~touched'
                                           /\ released' = Nil
  BY DEF MineInv
<1>1. CASE Patch
  <2>1. /\ res'.suspended /\ mine'.spec = res'.spec /\ res'.gen \in Nat
    BY <1>1, PortalPatchesFacts DEF Patch, PlaceInv, Written
  <2>2. wrote' = res'.gen
    BY <1>1 DEF Patch
  <2>3. ~touched' /\ released' = Nil
    BY <1>1 DEF Patch, PlaceInv
  <2> QED
    BY <2>1, <2>2, <2>3
<1>2. CASE PatchUnanswered
  BY <1>2 DEF PatchUnanswered, PlaceInv
<1>3. CASE ~Patch /\ ~PatchUnanswered
  <2>1. mine' = mine /\ wrote' = wrote /\ wrote > 0 /\ wrote \in Nat
    BY <1>3, KnowledgeStep DEF TypeOK
  <2>2. mine # Nil
    BY <2>1 DEF PlaceInv
  <2>3. CASE UNCHANGED <<res, touched, released>>
    BY <2>1, <2>3 DEF MineInv
  <2>4. CASE PortalInstalls
    <3>1. /\ res # Nil /\ Written(res, res') /\ res'.uid = res.uid
          /\ res.suspended => res'.gen = res.gen + 1
      BY <2>4, PortalInstallsFacts DEF Written
    <3>2. res.gen = wrote => res'.gen = res.gen + 1
      BY <2>1, <3>1 DEF MineInv
    <3> QED
      BY <2>1, <3>1, <3>2 DEF MineInv, Written
  <2>5. CASE Operator /\ UNCHANGED <<touched, released>>
    BY <2>1, <2>5, OperatorFacts DEF MineInv, TypeOK
  <2>6. CASE ForeignWrite
    <3>1. CASE res # Nil /\ Written(res, res') /\ res'.gen = res.gen + 1
      BY <2>1, <3>1 DEF MineInv, Written
    <3>2. CASE res'.uid = foreign + 1
      BY <2>1, <2>2, <3>2 DEF UidInv, TypeOK, ResourceTypeOK, Writes
    <3> QED
      BY <2>6, <3>1, <3>2, ForeignFacts DEF TypeOK
  <2>7. CASE WriteBack \/ WriteBackFails
    <3>1. res # Nil => Written(res, PutBack(res))
      BY <2>7, PutBackFacts DEF WriteBack, WriteBackFails, PlaceInv
    <3>2. UNCHANGED <<touched, released>> /\ res # Nil
          /\ (res' = res \/ Written(res, res'))
      BY <2>7, <3>1 DEF WriteBack, WriteBackFails
    <3> QED
      BY <2>1, <3>2 DEF MineInv, Written
  <2> QED
    BY <1>3, <2>3, <2>4, <2>5, <2>6, <2>7 DEF Next, Zae, Person, Read, ReadFails,
       PatchFails, PollPlan, PlanGone, PlanFails, AnswerYes, AnswerNo, Install,
       InstallFails, InstallUnanswered, LateInstall, PollReady, ReadyFails,
       Reread, RereadFails, Signal, SecondSignal, OperatorStep, Others, vars,
       ownVars, resourceVars
<1> QED
  BY <1>1, <1>2, <1>3

\* The flags of a command never change.
LEMMA FlagsStep == [Next]_vars => req' = req
BY DEF Next, Zae, Person, Read, ReadFails, Patch, PatchFails, PatchUnanswered,
   PollPlan, PlanGone, PlanFails, AnswerYes, AnswerNo, Install, InstallFails,
   InstallUnanswered, LateInstall, PollReady, ReadyFails, Reread, RereadFails,
   WriteBack, WriteBackFails, Signal, SecondSignal, OperatorStep, Others, vars,
   ownVars

\* A write by someone else after zae's PATCH is remembered.
LEMMA TouchedStep ==
  ASSUME TypeOK, [Next]_vars
  PROVE  /\ touched => touched'
         /\ Others /\ mine # Nil => touched'
<1>1. CASE Others
  <2>1. touched' = (touched \/ mine # Nil)
    BY <1>1 DEF Others
  <2>2. touched = TRUE \/ touched = FALSE
    BY DEF TypeOK
  <2>3. CASE mine # Nil
    BY <2>1, <2>3
  <2>4. CASE mine = Nil
    BY <2>1, <2>2, <2>4
  <2> QED
    BY <2>3, <2>4
<1>2. CASE ~Others
  BY <1>2, KnowledgeStep
<1> QED
  BY <1>1, <1>2

\* While nobody else wrote, the resource is as zae left it.
LEMMA UntouchedStep ==
  ASSUME TypeOK, PlaceInv, UntouchedInv, [Next]_vars
  PROVE  UntouchedInv'
<1> SUFFICES ASSUME mine' # Nil, ~touched', said' \notin {"back", "stuck"}
             PROVE  res' # Nil /\ res'.uid = mine'.uid /\ res'.spec = mine'.spec
  BY DEF UntouchedInv
<1>1. CASE Patch \/ PatchUnanswered
  BY <1>1, PortalPatchesFacts, NilAssumption DEF Patch, PatchUnanswered, PlaceInv, Written
<1>2. CASE ~Patch /\ ~PatchUnanswered
  <2>1. mine' = mine /\ said \notin {"back", "stuck"}
    BY <1>2, KnowledgeStep DEF PlaceInv
  <2>2. ~Others /\ ~touched
    BY <2>1, TouchedStep
  <2>3. res # Nil /\ res.uid = mine.uid /\ res.spec = mine.spec
    BY <2>1, <2>2 DEF UntouchedInv
  <2>4. CASE UNCHANGED res
    BY <2>1, <2>3, <2>4
  <2>5. CASE PortalInstalls
    BY <2>1, <2>3, <2>5, PortalInstallsFacts, NilAssumption DEF Written
  <2>6. CASE Operator
    BY <2>1, <2>3, <2>6, OperatorFacts DEF TypeOK
  <2>7. ~WriteBack /\ ~WriteBackFails
    BY DEF WriteBack, WriteBackFails, Exit
  <2> QED
    BY <1>2, <2>2, <2>4, <2>5, <2>6, <2>7 DEF Next, Zae, Person, Read, ReadFails,
       PatchFails, PollPlan, PlanGone, PlanFails, AnswerYes, AnswerNo, Install,
       InstallFails, InstallUnanswered, LateInstall, PollReady, ReadyFails,
       Reread, RereadFails, Signal, SecondSignal, OperatorStep, vars, resourceVars
<1> QED
  BY <1>1, <1>2

\* A plan at or past zae's generation is of a spec at or past zae's PATCH.
LEMMA SettledStep ==
  ASSUME TypeOK, OperatorInv, PlaceInv, BeforeInv, UntouchedInv, SettledInv,
         [Next]_vars
  PROVE  SettledInv'
<1> SUFFICES ASSUME pc' = "plan", before'.settled, ~mine'.interim, ~touched'
             PROVE  /\ res'.phase \in PlanningPhases /\ res'.plan # Nil
                         => res'.plan.spec = mine'.spec
                    /\ op' # Nil /\ op'.uid = res'.uid => op'.spec = mine'.spec
  BY DEF SettledInv
<1>1. CASE Patch
  <2>1. /\ res # Nil /\ Written(res, res') /\ op' = op /\ before' = before
        /\ res.gen = before.gen /\ res.uid = before.uid
    BY <1>1, PortalPatchesFacts DEF Patch, PlaceInv
  <2>2. res.obs = res.gen /\ res.phase \notin PlanningPhases
    BY <1>1, <2>1 DEF Patch, BeforeInv, TypeOK, Reads
  <2>3. res'.phase \notin PlanningPhases /\ res'.uid = res.uid
    BY <2>1, <2>2 DEF Written
  <2>4. ~(op # Nil /\ op.uid = res.uid)
    BY <2>1, <2>2 DEF OperatorInv
  <2> QED
    BY <2>1, <2>3, <2>4
<1>2. CASE ~Patch
  <2>1. /\ pc = "plan" /\ before' = before /\ mine' = mine /\ mine # Nil
        /\ ~Others /\ ~touched
    BY <1>2, KnowledgeStep, TouchedStep DEF PlaceInv, Read, PatchUnanswered, Exit
  <2>2. /\ res # Nil /\ res.uid = mine.uid /\ res.spec = mine.spec
        /\ res \in Resources
    BY <2>1 DEF UntouchedInv, PlaceInv, TypeOK, ResourceTypeOK
  <2>3. UNCHANGED resourceVars \/ Operator
    BY <1>2, <2>1 DEF Next, Zae, Person, Read, ReadFails, PatchFails,
       PatchUnanswered, PollPlan, PlanGone, PlanFails, AnswerYes, AnswerNo,
       Install, InstallFails, InstallUnanswered, LateInstall, PollReady,
       ReadyFails, Reread, RereadFails, WriteBack, WriteBackFails, Signal,
       SecondSignal, OperatorStep, vars, Exit, PlaceInv
  <2>4. CASE UNCHANGED resourceVars
    BY <2>1, <2>4 DEF SettledInv, resourceVars
  <2>5. CASE OperatorReads
    BY <2>1, <2>2, <2>5 DEF OperatorReads, SettledInv
  <2>6. CASE OperatorWrites
    <3>1. CASE res.uid = op.uid
      <4>1. PICK ok \in BOOLEAN : res' = Reconciled(res, op, ok)
        BY <2>2, <2>6, <3>1 DEF OperatorWrites
      <4>2. op \in Snapshots
        BY <2>6 DEF OperatorWrites, TypeOK, ResourceTypeOK
      <4>3. res'.plan.spec = op.spec
        BY <2>2, <4>1, <4>2, ReconciledFacts
      <4> QED
        BY <2>1, <2>6, <3>1, <4>3 DEF OperatorWrites, SettledInv
    <3>2. CASE res.uid # op.uid
      BY <2>1, <2>6, <3>2 DEF OperatorWrites, SettledInv
    <3> QED
      BY <3>1, <3>2
  <2>7. CASE RolloutEnds
    <3>1. res' = [res EXCEPT !.phase = "Ready"] /\ op' = op
      BY <2>7 DEF RolloutEnds
    <3>2. res'.phase = "Ready" /\ res'.uid = res.uid
      BY <2>2, <3>1 DEF Resources
    <3> QED
      BY <2>1, <3>1, <3>2 DEF PlanningPhases, SettledInv
  <2>8. CASE PortalRegisters
    <3>1. res' = [res EXCEPT !.registered = TRUE] /\ op' = op
      BY <2>8 DEF PortalRegisters
    <3>2. res'.phase = res.phase /\ res'.uid = res.uid /\ res'.plan = res.plan
      BY <2>2, <3>1 DEF Resources
    <3> QED
      BY <2>1, <3>1, <3>2 DEF SettledInv
  <2> QED
    BY <2>3, <2>4, <2>5, <2>6, <2>7, <2>8 DEF Operator
<1> QED
  BY <1>1, <1>2

\* The plan shown stays the plan of zae's own spec.
LEMMA ShownStep ==
  ASSUME TypeOK, OperatorInv, PlaceInv, MineInv, UntouchedInv, SettledInv,
         ShownInv, ShownIsWritten, [Next]_vars
  PROVE  ShownInv' /\ ShownIsWritten'
<1>1. CASE PollPlan /\ shown' # shown
  <2>1. /\ mine' = mine /\ wrote' = wrote /\ touched' = touched
        /\ before' = before /\ pc = "plan" /\ said = "nothing"
        /\ mine # Nil
    BY <1>1 DEF PollPlan, PlaceInv
  <2>2. /\ shown'.uid = res.uid /\ shown'.spec = res.plan.spec
        /\ res # Nil /\ ~Changed(res, wrote) /\ PlanFor(res, wrote)
        /\ res.plan # Nil /\ res.phase = "Planned"
    BY <1>1, PollPlanFacts
  <2>3. shown'.uid = mine.uid \/ touched
    BY <2>1, <2>2 DEF UntouchedInv
  <2>4. wrote > 0 /\ shown'.uid = mine.uid => shown'.spec = mine.spec
    <3> SUFFICES ASSUME wrote > 0, res.uid = mine.uid
                 PROVE  res.plan.spec = mine.spec
      BY <2>2
    <3>1. res.gen \in Nat /\ res.obs \in Nat /\ wrote \in Nat
      BY <2>2 DEF TypeOK, ResourceTypeOK, Resources
    <3>2. res.gen = wrote
      BY <2>2, <3>1 DEF MineInv, Changed
    <3>3. res.obs = res.gen
      BY <2>2, <3>1, <3>2 DEF PlanFor, OperatorInv
    <3> QED
      BY <2>2, <3>2, <3>3 DEF OperatorInv, MineInv
  <2>5. wrote = 0 /\ before.settled /\ ~mine.interim /\ ~touched
          => shown'.spec = mine.spec
    BY <2>1, <2>2 DEF SettledInv, PlanningPhases
  <2>6. wrote \in Nat /\ (touched \in BOOLEAN)
    BY DEF TypeOK
  <2> QED
    BY <2>1, <2>3, <2>4, <2>5, <2>6 DEF ShownInv, ShownIsWritten
<1>2. CASE shown' = shown
  <2>1. shown = Nil \/ (mine' = mine /\ wrote' = wrote /\ before' = before)
    BY KnowledgeStep DEF Patch, PatchUnanswered, Read, PlaceInv
  <2>2. touched => touched'
    BY TouchedStep
  <2> QED
    BY <1>2, <2>1, <2>2 DEF ShownInv, ShownIsWritten
<1> QED
  BY <1>1, <1>2, KnowledgeStep

\* What putting back makes of the spec zae wrote.
LEMMA PutBackOfMine ==
  ASSUME TypeOK, res # Nil, mine # Nil, before # Nil, res.spec = mine.spec
  PROVE  /\ PutBack(res) # Nil
         /\ PutBack(res).uid = res.uid
         /\ PutBack(res).spec = SpecPutBack
<1>1. /\ res \in Resources /\ mine.spec \in Specs /\ before.spec \in Specs
  BY DEF TypeOK, ResourceTypeOK, Writes, Reads
<1> DEFINE spec == [chart   |-> before.spec.chart,
                    values  |-> IF WritesValues(before) THEN before.spec.values
                                ELSE res.spec.values,
                    secrets |-> res.spec.secrets]
<1>2. SpecPutBack = spec
  BY DEF SpecPutBack
<1>3. PutBack(res) = Merged(res, spec, before.suspended, FALSE)
  BY DEF PutBack
<1>4. Merged(res, spec, before.suspended, FALSE).spec = spec
      /\ Merged(res, spec, before.suspended, FALSE).uid = res.uid
  BY <1>1 DEF Merged, Resources
<1>5. PutBack(res) # Nil
  BY PutBackFacts, NilAssumption DEF Written, TypeOK, ResourceTypeOK
<1> QED
  BY <1>2, <1>3, <1>4, <1>5

\* While nobody else wrote, the resource is as putting back left it.
LEMMA BackStep ==
  ASSUME TypeOK, PlaceInv, UntouchedInv, BackInv, [Next]_vars
  PROVE  BackInv'
<1> SUFFICES ASSUME mine' # Nil, ~touched', said' \in {"back", "stuck"}
             PROVE  /\ res' # Nil /\ res'.uid = mine'.uid
                    /\ \/ res'.spec = SpecPutBack'
                       \/ said' = "stuck" /\ res'.spec = mine'.spec
  BY DEF BackInv
<1>1. CASE WriteBack \/ WriteBackFails
  <2>1. /\ pc = "putback" /\ mine' = mine /\ before' = before /\ req' = req
        /\ ~touched /\ res' \in {res, PutBack(res)}
        /\ WriteBack => res' = PutBack(res) /\ res # Nil
        /\ WriteBackFails => said' = "stuck"
    BY <1>1 DEF WriteBack, WriteBackFails, Exit
  <2>2. mine # Nil /\ before # Nil /\ said = "nothing"
    BY <2>1 DEF PlaceInv
  <2>3. res # Nil /\ res.uid = mine.uid /\ res.spec = mine.spec
    BY <2>1, <2>2 DEF UntouchedInv
  <2>4. SpecPutBack' = SpecPutBack
    BY <2>1 DEF SpecPutBack, WritesValues
  <2> QED
    BY <1>1, <2>1, <2>2, <2>3, <2>4, PutBackOfMine
<1>2. CASE ~WriteBack /\ ~WriteBackFails
  <2>1. said' = said
    BY <1>2
       DEF Next, Zae, Person, Read, ReadFails, Patch, PatchFails, PatchUnanswered,
           PollPlan, PlanGone, PlanFails, AnswerYes, AnswerNo, Install, InstallFails,
           InstallUnanswered, LateInstall, PollReady, ReadyFails, Reread, RereadFails,
           Signal, SecondSignal, OperatorStep, Others, vars, ownVars, Exit, Restore
  <2>2. pc = "done"
    BY <2>1 DEF PlaceInv, TypeOK
  <2>3. mine' = mine /\ before' = before /\ req' = req
    BY <2>2, KnowledgeStep, FlagsStep DEF Patch, PatchUnanswered, Read
  <2>4. ~Others /\ ~touched
    BY <2>3, TouchedStep
  <2>5. /\ res # Nil /\ res.uid = mine.uid
        /\ res.spec = SpecPutBack \/ (said = "stuck" /\ res.spec = mine.spec)
    BY <2>1, <2>3, <2>4 DEF BackInv
  <2>6. SpecPutBack' = SpecPutBack
    BY <2>3 DEF SpecPutBack, WritesValues
  <2>7. CASE UNCHANGED res
    BY <2>1, <2>3, <2>5, <2>6, <2>7
  <2>8. CASE PortalInstalls
    BY <2>1, <2>3, <2>5, <2>6, <2>8, PortalInstallsFacts, NilAssumption DEF Written
  <2>9. CASE Operator
    BY <2>1, <2>3, <2>5, <2>6, <2>9, OperatorFacts DEF TypeOK
  <2> QED
    BY <2>2, <2>4, <2>7, <2>8, <2>9 DEF Next, Zae, Person, Read, ReadFails, Patch,
       PatchFails, PatchUnanswered, PollPlan, PlanGone, PlanFails, AnswerYes, AnswerNo,
       Install, InstallFails, InstallUnanswered, LateInstall, PollReady, ReadyFails, Reread,
       RereadFails, WriteBack, WriteBackFails, Signal, SecondSignal, OperatorStep, vars,
       resourceVars
<1> QED
  BY <1>1, <1>2

\* What was released stays what was shown, or put back, while nobody else writes.
LEMMA InstallsStep ==
  ASSUME TypeOK, PlaceInv, UntouchedInv, BackInv, ShownInv, InstallsWhatWasShown,
         [Next]_vars
  PROVE  InstallsWhatWasShown'
<1>1. CASE released' = released
  <2>1. \/ released = Nil
        \/ /\ shown' = shown /\ wrote' = wrote /\ mine' = mine
           /\ before' = before /\ req' = req
    BY KnowledgeStep, FlagsStep DEF PollPlan, Patch, PatchUnanswered, Read, PlaceInv
  <2>2. CASE released = Nil
    BY <1>1, <2>2 DEF InstallsWhatWasShown
  <2>3. CASE released # Nil
    <3>1. SpecPutBack' = SpecPutBack
      BY <2>1, <2>3 DEF SpecPutBack, WritesValues
    <3> QED
      BY <1>1, <2>1, <2>3, <3>1 DEF InstallsWhatWasShown
  <2> QED
    BY <2>2, <2>3
<1>2. CASE PortalInstalls /\ (pc = "install" \/ late)
  <2>1. shown # Nil /\ mine # Nil
    BY <1>2 DEF PlaceInv
  <2>2. /\ shown' = shown /\ wrote' = wrote /\ mine' = mine
        /\ before' = before /\ req' = req
    BY <2>1, KnowledgeStep, FlagsStep
       DEF PollPlan, Patch, PatchUnanswered, Read, PlaceInv
  <2>3. SpecPutBack' = SpecPutBack
    BY <2>2 DEF SpecPutBack, WritesValues
  <2>4. SUFFICES ASSUME ~touched, wrote > 0
                 PROVE  \/ said # "back" /\ res.spec = shown.spec
                        \/ said \in {"back", "stuck"} /\ res.spec = SpecPutBack
    BY <1>2, <2>1, <2>2, <2>3, PortalInstallsFacts DEF InstallsWhatWasShown
  <2>5. shown.spec = mine.spec
    BY <2>1, <2>4 DEF ShownInv
  <2>6. CASE said \notin {"back", "stuck"}
    BY <2>1, <2>4, <2>5, <2>6 DEF UntouchedInv
  <2>7. CASE said \in {"back", "stuck"}
    BY <2>1, <2>4, <2>5, <2>7 DEF BackInv
  <2> QED
    BY <2>6, <2>7
<1> QED
  BY <1>1, <1>2, KnowledgeStep

----------------------------------------------------------------------------
(* The theorems. *)

\* The inductive invariant holds at first.
LEMMA InitInv == Init => IInv
<1> SUFFICES ASSUME Init PROVE IInv
  OBVIOUS
<1>1. TypeOK
  BY TypeInit
<1>2. PlaceInv /\ BeforeInv /\ MineInv /\ UntouchedInv /\ SettledInv /\ ShownInv
      /\ BackInv /\ ShownIsWritten /\ InstallsWhatWasShown
  BY DEF Init, PlaceInv, BeforeInv, MineInv, UntouchedInv, BackInv, SettledInv, ShownInv,
     ShownIsWritten, InstallsWhatWasShown
<1>3. /\ res \in Resources /\ res.uid = 0 /\ res.obs <= res.gen
      /\ res.plan # Nil => res.plan.spec = res.spec
  BY InitResource
<1>4. foreign = 0 /\ op = Nil /\ before = Nil /\ mine = Nil
  BY DEF Init
<1>5. OperatorInv /\ UidInv
  BY <1>3, <1>4 DEF OperatorInv, UidInv
<1> QED
  BY <1>1, <1>2, <1>5 DEF IInv

\* Every step keeps the inductive invariant.
LEMMA StepInv == IInv /\ [Next]_vars => IInv'
BY TypeStep, OperatorStepInv, UidStep, PlaceStep, BeforeStep, MineStep,
   UntouchedStep, BackStep, SettledStep, ShownStep, InstallsStep DEF IInv

\* The inductive invariant holds in every state of every behaviour.
THEOREM Inductive == Spec => []IInv
BY InitInv, StepInv, PTL DEF Spec

\* Every variable holds a value of its kind, whatever others write.
THEOREM TypeCorrect == Spec => []TypeOK
<1>1. IInv => TypeOK
  BY DEF IInv
<1> QED
  BY Inductive, <1>1, PTL

\* The plan that zae upgrade prints and asks about is the operator's plan of
\* the spec its own PATCH made, for any number of writes by others.
THEOREM ShowsItsOwnPlan == Spec => []ShownIsWritten
<1>1. IInv => ShownIsWritten
  BY DEF IInv
<1> QED
  BY Inductive, <1>1, PTL

\* What zae's install releases, as long as nobody else writes after its PATCH,
\* is what it printed - or, where it reaches the portal only after the addon was put
\* back, what the addon was put back to.
THEOREM ReleasesWhatItShowed == Spec => []InstallsWhatWasShown
<1>1. IInv => InstallsWhatWasShown
  BY DEF IInv
<1> QED
  BY Inductive, <1>1, PTL

\* zae starts to put an addon back only when nobody else has changed it since
\* its PATCH and its own install did not go through.
THEOREM RestoreIsJustified == Spec => PutsBackOnlyTheUnmoved
<1> DEFINE Justified ==
      pc = "reread" /\ pc' = "putback" /\ wrote > 0 /\ res.uid = mine.uid
        => ~touched /\ released = Nil
<1>1. IInv /\ [Next]_vars => [Justified]_vars
  <2> SUFFICES ASSUME IInv, Next, pc = "reread", pc' = "putback", wrote > 0,
                      res.uid = mine.uid
               PROVE  ~touched /\ released = Nil
    OBVIOUS
  <2>1. Reread
    BY DEF Next, Zae, Person, Read, ReadFails, Patch, PatchFails, PatchUnanswered,
       PollPlan, PlanGone, PlanFails, AnswerYes, AnswerNo, Install, InstallFails,
       InstallUnanswered, LateInstall, PollReady, ReadyFails, RereadFails,
       WriteBack, WriteBackFails, Signal, SecondSignal, OperatorStep, Others,
       ownVars, Exit, Restore
  <2>2. res # Nil /\ res.gen = wrote
    BY <2>1 DEF Reread, Moved, Exit
  <2> QED
    BY <2>2 DEF IInv, MineInv
<1> QED
  BY Inductive, <1>1, PTL DEF Spec, PutsBackOnlyTheUnmoved

----------------------------------------------------------------------------
(* What an upgrade ends with: a second invariant, over the first.            *)

\* When zae PATCHes at the generation it read, the addon is what it read.
ReadInv ==
  pc = "patch" /\ res # Nil /\ res.uid = before.uid /\ res.gen = before.gen =>
    res.spec = before.spec /\ res.suspended = before.suspended

\* A PATCH that does not change the values leaves those that were found.
FoundInv ==
  mine # Nil /\ ~mine.interim /\ ~WritesValues(before) =>
    mine.spec.values = before.spec.values

\* While nobody else writes and nothing is released, the addon stays at the
\* generation zae wrote.
FrozenInv ==
  /\ mine # Nil /\ ~touched /\ released = Nil /\ wrote > 0
  /\ said \notin {"back", "stuck"}
  => res.gen = wrote

\* At the generation zae's install made, the addon is what the install released.
ReleasedInv ==
  /\ pc # "done" => code # "ok"
  /\ pc \in {"read", "patch", "plan", "confirm", "install", "ready"} => ~late
  /\ pc = "ready" => released # Nil
  /\ released # Nil => released.uid <= foreign
  /\ pc = "ready" /\ inst > 0 /\ res # Nil /\ res.uid = released.uid =>
       /\ inst <= res.gen
       /\ res.gen = inst => res.spec = released.spec

\* EndsAsFound, before the command's own install may still be under way.
EndsInv ==
  /\ pc = "done"
  /\ code # "killed"
  /\ said \notin {"unknown", "unread", "stuck"}
  /\ mine # Nil
  /\ ~mine.interim
  /\ ~touched
  /\ released = Nil
  => /\ res # Nil
     /\ res.spec.chart = before.spec.chart
     /\ res.spec.values = before.spec.values
     /\ res.suspended = before.suspended

\* What is proved over IInv.
EInv == SoundInv /\ ReadInv /\ FoundInv /\ FrozenInv /\ ReleasedInv /\ EndsInv

\* Which parts of the addon zae's PATCH leaves alone (Patched).
LEMMA PatchedValues ==
  ASSUME TypeOK, before # Nil, res # Nil, ~WritesValues(before)
  PROVE  Patched(res).spec.values = res.spec.values
<1> DEFINE spec == [chart   |-> IF req.chart = Nil THEN res.spec.chart ELSE req.chart,
                    values  |-> res.spec.values,
                    secrets |-> res.spec.secrets \/ req.secret]
<1>1. Patched(res) = Merged(res, spec, TRUE, req.secret)
  BY DEF Patched
<1>2. res \in Resources /\ res.spec \in Specs
  BY DEF TypeOK, ResourceTypeOK, Resources
<1>3. req \in Requests
  BY InvocationAssumption DEF TypeOK
<1>4. req.chart # Nil => req.chart \in Charts
  BY <1>3 DEF Requests
<1>5. req.secret \in BOOLEAN
  BY <1>3, Zenon DEF Requests
<1>6. spec.chart \in Charts /\ spec.values \in SUBSET Inputs
  BY <1>2, <1>4 DEF Specs
<1>7. spec.secrets \in BOOLEAN
  OBVIOUS
<1>8. spec \in Specs
  BY <1>6, <1>7, Zenon DEF Specs
<1>9. spec.values = res.spec.values
  OBVIOUS
<1> HIDE DEF spec
<1>10. Merged(res, spec, TRUE, req.secret).spec = spec
  BY <1>2, <1>5, <1>8, MergedFacts, Zenon
<1> QED
  BY <1>1, <1>9, <1>10

\* What putting back writes is what was found, but for the values the upgrade
\* did not write (PutBack).
LEMMA PutBackSpec ==
  ASSUME TypeOK, before # Nil, res # Nil
  PROVE  /\ PutBack(res).spec.chart = before.spec.chart
         /\ PutBack(res).spec.values = IF WritesValues(before) THEN before.spec.values
                                       ELSE res.spec.values
         /\ PutBack(res).suspended = before.suspended
<1> DEFINE spec == [chart   |-> before.spec.chart,
                    values  |-> IF WritesValues(before) THEN before.spec.values
                                ELSE res.spec.values,
                    secrets |-> res.spec.secrets]
<1>1. PutBack(res) = Merged(res, spec, before.suspended, FALSE)
  BY DEF PutBack
<1>2. res \in Resources /\ res.spec \in Specs /\ before.spec \in Specs
      /\ before.suspended \in BOOLEAN
  BY DEF TypeOK, ResourceTypeOK, Resources, Reads
<1>3. spec \in Specs
  BY <1>2, Zenon DEF Specs
<1>4. /\ spec.chart = before.spec.chart
      /\ spec.values = IF WritesValues(before) THEN before.spec.values
                       ELSE res.spec.values
  OBVIOUS
<1> HIDE DEF spec
<1>5. /\ Merged(res, spec, before.suspended, FALSE).spec = spec
      /\ Merged(res, spec, before.suspended, FALSE).suspended = before.suspended
  BY <1>2, <1>3, MergedFacts, Zenon
<1> QED
  BY <1>1, <1>4, <1>5, Zenon

\* The operator's status stays sound, whoever writes (WorldStep).
LEMMA SoundStep ==
  ASSUME IInv, SoundInv, [Next]_vars
  PROVE  SoundInv'
<1>0. /\ TypeOK /\ ResourceTypeOK /\ PlaceInv /\ foreign \in Nat
      /\ op # Nil => op.uid <= foreign /\ op.uid \in Nat
  BY DEF IInv, TypeOK, ResourceTypeOK, UidInv, Snapshots
<1>1. CASE UNCHANGED resourceVars
  BY <1>1 DEF SoundInv, Sound, resourceVars
<1>2. CASE res # Nil /\ Written(res, res') /\ op' = op
  BY <1>0, <1>2, WriteKeepsSound
<1>3. CASE Operator
  BY <1>0, <1>3, OperatorKeepsSound
<1>4. CASE ForeignWrite
  <2>1. op # Nil => op.uid # foreign + 1
    BY <1>0
  <2> QED
    BY <1>0, <1>4, <2>1, OthersKeepSound
<1> QED
  BY <1>0, <1>1, <1>2, <1>3, <1>4, WorldStep

\* What zae read stays what the addon is at that generation, until it PATCHes.
LEMMA ReadStep ==
  ASSUME IInv, ReadInv, ReleasedInv, [Next]_vars
  PROVE  ReadInv'
<1> SUFFICES ASSUME pc' = "patch", res' # Nil, res'.uid = before'.uid,
                    res'.gen = before'.gen
             PROVE  res'.spec = before'.spec /\ res'.suspended = before'.suspended
  BY DEF ReadInv
<1>1. CASE Read
  <2>1. before' = ReadOf(res) /\ res' = res
    BY <1>1 DEF Read, resourceVars
  <2>2. before'.spec = res.spec /\ before'.suspended = res.suspended
    BY <2>1, Zenon DEF ReadOf
  <2> QED
    BY <2>1, <2>2, Zenon
<1>2. CASE ~Read
  <2>0. TypeOK /\ PlaceInv /\ UidInv /\ BeforeInv
    BY DEF IInv
  <2>1. pc = "patch" /\ before' = before /\ ~late
    BY <1>2, KnowledgeStep DEF ReleasedInv
  <2>2. before # Nil /\ before.uid \in Nat /\ before.gen \in Nat /\ foreign \in Nat
        /\ before.uid <= foreign
    BY <2>0, <2>1 DEF PlaceInv, TypeOK, ResourceTypeOK, Reads, UidInv
  <2>3. UNCHANGED resourceVars \/ Operator \/ ForeignWrite
    BY <1>2, <2>1 DEF Next, Zae, Person, ReadFails, Patch, PatchFails,
       PatchUnanswered, PollPlan, PlanGone, PlanFails, AnswerYes, AnswerNo, Install,
       InstallFails, InstallUnanswered, LateInstall, PollReady, ReadyFails,
       Reread, RereadFails, WriteBack, WriteBackFails, Signal, SecondSignal,
       OperatorStep, Others, vars, Exit
  <2>4. CASE UNCHANGED resourceVars
    BY <2>1, <2>4 DEF ReadInv, resourceVars
  <2>5. CASE Operator
    BY <2>0, <2>1, <2>5, OperatorFacts DEF ReadInv, TypeOK
  <2>6. CASE ForeignWrite
    <3>1. CASE res # Nil /\ Written(res, res') /\ res'.gen = res.gen + 1
      BY <2>0, <2>1, <2>2, <3>1 DEF BeforeInv, Written
    <3>2. CASE res'.uid = foreign + 1
      BY <2>1, <2>2, <3>2
    <3> QED
      BY <2>0, <2>6, <3>1, <3>2, ForeignFacts DEF TypeOK
  <2> QED
    BY <2>3, <2>4, <2>5, <2>6
<1> QED
  BY <1>1, <1>2

\* What zae remembers of its PATCH keeps the values it found.
LEMMA FoundStep ==
  ASSUME IInv, ReadInv, FoundInv, [Next]_vars
  PROVE  FoundInv'
<1>0. TypeOK /\ PlaceInv /\ req' = req
  BY FlagsStep DEF IInv
<1>1. CASE Patch \/ PatchUnanswered
  <2>1. before # Nil /\ PortalPatches /\ before' = before /\ pc = "patch"
    BY <1>0, <1>1 DEF Patch, PatchUnanswered, PlaceInv
  <2>2. /\ res # Nil /\ res' = Patched(res) /\ mine'.spec = res'.spec
        /\ mine'.interim <=> res.gen # before.gen \/ res.uid # before.uid
    BY <1>0, <2>1, PortalPatchesFacts DEF PortalPatches
  <2>3. WritesValues(before)' <=> WritesValues(before)
    BY <1>0, <2>1 DEF WritesValues
  <2> SUFFICES ASSUME ~mine'.interim, ~WritesValues(before)
               PROVE  mine'.spec.values = before.spec.values
    BY <2>1, <2>3 DEF FoundInv
  <2>4. res.spec = before.spec
    BY <2>1, <2>2 DEF ReadInv
  <2>5. Patched(res).spec.values = res.spec.values
    BY <1>0, <2>1, <2>2, PatchedValues
  <2> QED
    BY <2>2, <2>4, <2>5
<1>2. CASE ~(Patch \/ PatchUnanswered)
  <2>1. mine' = mine /\ (mine # Nil => before' = before)
    BY <1>0, <1>2, KnowledgeStep DEF Read, PlaceInv
  <2> QED
    BY <1>0, <2>1 DEF FoundInv, WritesValues
<1> QED
  BY <1>1, <1>2

\* Nobody but zae moves an untouched addon.
LEMMA FrozenStep ==
  ASSUME IInv, FrozenInv, [Next]_vars
  PROVE  FrozenInv'
<1> SUFFICES ASSUME mine' # Nil, ~touched', released' = Nil, wrote' > 0,
                    said' \notin {"back", "stuck"}
             PROVE  res'.gen = wrote'
  BY DEF FrozenInv
<1>0. TypeOK /\ PlaceInv /\ UntouchedInv
  BY DEF IInv
<1>1. CASE Patch
  BY <1>1 DEF Patch
<1>2. CASE PatchUnanswered
  BY <1>0, <1>2 DEF PatchUnanswered, PlaceInv
<1>3. CASE ~Patch /\ ~PatchUnanswered
  <2>1. mine' = mine /\ wrote' = wrote /\ said \notin {"back", "stuck"}
    BY <1>0, <1>3, KnowledgeStep DEF PlaceInv
  <2>2. ~Others /\ ~touched
    BY <1>0, <2>1, TouchedStep
  <2>3. ~PortalInstalls
    BY <1>0, PortalInstallsFacts, UpgradeNilAssumption
  <2>4. released = Nil
    BY <2>3, KnowledgeStep
  <2>5. res.gen = wrote /\ res # Nil
    BY <1>0, <2>1, <2>2, <2>4 DEF FrozenInv, UntouchedInv
  <2>6. CASE UNCHANGED res
    BY <2>1, <2>5, <2>6
  <2>7. CASE Operator
    BY <1>0, <2>1, <2>5, <2>7, OperatorFacts DEF TypeOK
  <2>8. ~WriteBack /\ ~WriteBackFails
    BY DEF WriteBack, WriteBackFails, Exit
  <2> QED
    BY <1>3, <2>2, <2>3, <2>6, <2>7, <2>8 DEF Next, Zae, Person, Read, ReadFails,
       PatchFails, PollPlan, PlanGone, PlanFails, AnswerYes, AnswerNo, Install,
       InstallFails, InstallUnanswered, LateInstall, PollReady, ReadyFails,
       Reread, RereadFails, Signal, SecondSignal, OperatorStep, vars, resourceVars
<1> QED
  BY <1>1, <1>2, <1>3

\* zae exits with 0 from no place but its last steps, and an install it gave up
\* on is only under way while it puts the addon back, or after.
LEMMA WayStep ==
  ASSUME IInv, ReleasedInv, [Next]_vars
  PROVE  /\ pc' # "done" => code' # "ok"
         /\ pc' \in {"read", "patch", "plan", "confirm", "install", "ready"} => ~late'
<1> USE DEF ReleasedInv, Exit, Restore
<1>1. CASE Read \/ ReadFails \/ Patch \/ PatchFails \/ PatchUnanswered
  BY <1>1 DEF Read, ReadFails, Patch, PatchFails, PatchUnanswered
<1>2. CASE PollPlan \/ PlanGone \/ PlanFails
  BY <1>2 DEF PollPlan, PlanGone, PlanFails, WaitFailures
<1>3. CASE AnswerYes \/ AnswerNo \/ Signal \/ SecondSignal
  BY <1>3 DEF AnswerYes, AnswerNo, Signal, SecondSignal
<1>4. CASE InstallFails \/ InstallUnanswered
  <2>1. pc' = "reread" /\ code' = FailureCode
    BY <1>4 DEF InstallFails, InstallUnanswered
  <2>2. FailureCode # "ok"
    BY DEF FailureCode
  <2> QED
    BY <2>1, <2>2
<1>5. CASE Install \/ LateInstall
  BY <1>5 DEF Install, LateInstall
<1>6. CASE PollReady \/ ReadyFails
  BY <1>6 DEF PollReady, ReadyFails
<1>7. CASE Reread \/ RereadFails \/ WriteBack \/ WriteBackFails
  BY <1>7 DEF Reread, RereadFails, WriteBack, WriteBackFails
<1>8. CASE OperatorStep \/ Others \/ UNCHANGED vars
  BY <1>8 DEF OperatorStep, Others, vars, ownVars
<1> QED
  BY <1>1, <1>2, <1>3, <1>4, <1>5, <1>6, <1>7, <1>8 DEF Next, Zae, Person

\* zae waits for what it released itself, on the addon it released it for.
LEMMA ReleasedStep ==
  ASSUME IInv, ReleasedInv, [Next]_vars
  PROVE  ReleasedInv'
<1>0. TypeOK /\ PlaceInv /\ UidInv /\ foreign \in Nat /\ foreign' \in Nat
      /\ inst \in Nat
  BY TypeStep DEF IInv, TypeOK, ResourceTypeOK
<1>1. foreign <= foreign'
  BY <1>0, WorldStep, OperatorFacts, ForeignFacts DEF TypeOK, resourceVars
<1>2. released' # Nil => released'.uid <= foreign'
  <2>1. CASE released' = released
    <3>1. released # Nil => released.uid \in Nat
      BY <1>0 DEF TypeOK, Releases
    <3> QED
      BY <1>0, <1>1, <2>1, <3>1 DEF ReleasedInv
  <2>2. CASE PortalInstalls
    <3>1. res # Nil /\ released'.uid = res.uid /\ foreign' = foreign
      BY <1>0, <2>2, PortalInstallsFacts DEF PortalInstalls
    <3> QED
      BY <1>0, <3>1 DEF UidInv
  <2> QED
    BY <2>1, <2>2, KnowledgeStep
<1>3. ASSUME pc' = "ready"
      PROVE  /\ released' # Nil
             /\ inst' > 0 /\ res' # Nil /\ res'.uid = released'.uid =>
                  /\ inst' <= res'.gen
                  /\ res'.gen = inst' => res'.spec = released'.spec
  <2>1. CASE Install
    <3>1. /\ released' \in Releases /\ Written(res, res') /\ res'.spec = res.spec
          /\ released'.spec = res.spec
      BY <1>0, <2>1, PortalInstallsFacts DEF Install
    <3>2. inst' > 0 => inst' = res'.gen /\ inst' \in Nat
      BY <2>1, <3>1 DEF Install, Written
    <3> QED
      BY <3>1, <3>2, UpgradeNilAssumption
  <2>2. CASE ~Install
    <3>1. /\ pc = "ready" /\ inst' = inst
          /\ UNCHANGED resourceVars \/ Operator \/ ForeignWrite
      BY <1>3, <2>2 DEF Next, Zae, Person, Read, ReadFails, Patch, PatchFails,
         PatchUnanswered, PollPlan, PlanGone, PlanFails, AnswerYes, AnswerNo,
         InstallFails, InstallUnanswered, LateInstall, PollReady, ReadyFails,
         Reread, RereadFails, WriteBack, WriteBackFails, Signal, SecondSignal,
         OperatorStep, Others, vars, ownVars, Exit, Restore, ReleasedInv
    <3>2. released' = released /\ released # Nil
      BY <3>1, KnowledgeStep DEF ReleasedInv
    <3>3. released.uid \in Nat /\ released.uid <= foreign
      BY <1>0, <3>2 DEF TypeOK, Releases, ReleasedInv
    <3>4. CASE UNCHANGED resourceVars
      BY <3>1, <3>2, <3>4 DEF ReleasedInv, resourceVars
    <3>5. CASE Operator
      BY <1>0, <3>1, <3>2, <3>5, OperatorFacts DEF ReleasedInv, TypeOK
    <3>6. CASE ForeignWrite
      <4>1. CASE res # Nil /\ Written(res, res') /\ res'.gen = res.gen + 1
        BY <1>0, <3>1, <3>2, <4>1 DEF ReleasedInv, Written
      <4>2. CASE res'.uid = foreign + 1
        BY <1>0, <3>2, <3>3, <4>2
      <4>3. CASE res' = Nil
        BY <3>2, <4>3
      <4> QED
        BY <1>0, <3>6, <4>1, <4>2, <4>3, ForeignFacts DEF TypeOK
    <3> QED
      BY <3>1, <3>4, <3>5, <3>6
  <2> QED
    BY <2>1, <2>2
<1> QED
  BY <1>2, <1>3, WayStep DEF ReleasedInv

\* The command comes to its end, and leaves the addon so.
LEMMA EndsStep ==
  ASSUME IInv, EInv, [Next]_vars
  PROVE  EndsInv'
<1> SUFFICES ASSUME pc' = "done", code' # "killed",
                    said' \notin {"unknown", "unread", "stuck"}, mine' # Nil,
                    ~mine'.interim, ~touched', released' = Nil
             PROVE  /\ res' # Nil
                    /\ res'.spec.chart = before'.spec.chart
                    /\ res'.spec.values = before'.spec.values
                    /\ res'.suspended = before'.suspended
  BY DEF EndsInv
<1>0. /\ TypeOK /\ PlaceInv /\ UntouchedInv /\ ReadInv /\ FoundInv /\ FrozenInv
      /\ ReleasedInv /\ EndsInv
  BY DEF IInv, EInv
<1>1. ~Others
  <2>1. CASE Others
    <3>1. mine' = mine
      BY <2>1 DEF Others
    <3> QED
      BY <1>0, <2>1, <3>1, TouchedStep
  <2> QED
    BY <2>1
<1>2. ~touched /\ ~PortalInstalls /\ released = Nil
  BY <1>0, TouchedStep, KnowledgeStep, PortalInstallsFacts, UpgradeNilAssumption
<1>3. CASE pc = "done"
  <2>1. /\ UNCHANGED <<before, mine, code, said>>
        /\ UNCHANGED res \/ Operator
    BY <1>1, <1>2, <1>3 DEF Next, Zae, Person, Read, ReadFails, Patch, PatchFails,
       PatchUnanswered, PollPlan, PlanGone, PlanFails, AnswerYes, AnswerNo,
       Install, InstallFails, InstallUnanswered, LateInstall, PollReady,
       ReadyFails, Reread, RereadFails, WriteBack, WriteBackFails, Signal,
       SecondSignal, OperatorStep, vars, ownVars, resourceVars
  <2>2. /\ res # Nil
        /\ res.spec.chart = before.spec.chart
        /\ res.spec.values = before.spec.values
        /\ res.suspended = before.suspended
    BY <1>0, <1>2, <1>3, <2>1 DEF EndsInv
  <2>3. CASE UNCHANGED res
    BY <2>1, <2>2, <2>3
  <2>4. CASE Operator
    BY <1>0, <2>1, <2>2, <2>4, OperatorFacts DEF TypeOK, Operator, OperatorReads,
       OperatorWrites, RolloutEnds, PortalRegisters
  <2> QED
    BY <2>1, <2>3, <2>4
<1>4. CASE Patch
  <2>1. /\ before # Nil /\ PortalPatches /\ before' = before /\ pc = "patch"
        /\ wrote' # 0 /\ wrote' = before.gen
    BY <1>0, <1>4 DEF Patch, PlaceInv
  <2>2. /\ res # Nil /\ Written(res, res')
        /\ mine'.interim <=> res.gen # before.gen \/ res.uid # before.uid
    BY <1>0, <2>1, PortalPatchesFacts
  <2>3. wrote' = res'.gen
    BY <1>4, <2>1 DEF Patch
  <2>4. res' = res
    BY <2>1, <2>2, <2>3 DEF Written
  <2> QED
    BY <1>0, <2>1, <2>2, <2>4 DEF ReadInv
<1>5. CASE WriteBack
  <2>1. /\ before # Nil /\ before' = before /\ pc = "putback" /\ res # Nil
        /\ mine' = mine /\ mine # Nil /\ res' = PutBack(res)
    BY <1>0, <1>5 DEF WriteBack, PlaceInv
  <2>2. res.spec = mine.spec
    BY <1>0, <1>2, <2>1 DEF UntouchedInv, PlaceInv
  <2>3. ~WritesValues(before) => res.spec.values = before.spec.values
    BY <1>0, <2>1, <2>2 DEF FoundInv
  <2>4. PutBack(res) # Nil
    BY <1>0, <2>1, PutBackFacts, NilAssumption DEF Written
  <2> QED
    BY <1>0, <2>1, <2>3, <2>4, PutBackSpec
<1>6. CASE ~Patch /\ ~WriteBack /\ pc # "done"
  <2>1. pc # "ready"
    BY <1>0, <1>2 DEF ReleasedInv
  <2>2. ~PollPlan
    <3>1. SUFFICES ASSUME PollPlan PROVE FALSE
      OBVIOUS
    <3>2. /\ Changed(res, wrote) /\ mine # Nil /\ said = "nothing" /\ res # Nil
      BY <1>0, <3>1 DEF PollPlan, Exit, Restore, PlaceInv
    <3>3. wrote \in Nat /\ res.gen \in Nat
      BY <1>0, <3>2 DEF TypeOK, ResourceTypeOK, Resources
    <3> QED
      BY <1>0, <1>2, <3>2, <3>3 DEF FrozenInv, Changed
  <2>3. ~Reread
    <3>1. SUFFICES ASSUME Reread PROVE FALSE
      OBVIOUS
    <3>2. Moved(res) /\ mine # Nil /\ said = "nothing"
      BY <1>0, <3>1 DEF Reread, Exit, PlaceInv
    <3> QED
      BY <1>0, <1>2, <3>2 DEF FrozenInv, Moved
  <2>4. ~Read /\ ~ReadFails
    BY <1>0 DEF Read, ReadFails, PlaceInv
  <2> QED
    BY <1>1, <1>2, <1>6, <2>1, <2>2, <2>3, <2>4 DEF Next, Zae, Person, PatchFails,
       PatchUnanswered, PlanGone, PlanFails, AnswerYes, AnswerNo, Install,
       InstallFails, InstallUnanswered, LateInstall, PollReady, ReadyFails,
       RereadFails, WriteBackFails, Signal, SecondSignal, OperatorStep, vars,
       ownVars, Exit, Restore
<1> QED
  BY <1>3, <1>4, <1>5, <1>6

\* The second invariant holds at first.
LEMMA InitEnds == Init => EInv
<1> SUFFICES ASSUME Init PROVE EInv
  OBVIOUS
<1>1. SoundInv
  BY InitResource DEF Init, SoundInv
<1>2. ReadInv /\ FoundInv /\ FrozenInv /\ ReleasedInv /\ EndsInv
  BY DEF Init, ReadInv, FoundInv, FrozenInv, ReleasedInv, EndsInv
<1> QED
  BY <1>1, <1>2 DEF EInv

\* Every step keeps it.
LEMMA StepEnds == IInv /\ EInv /\ [Next]_vars => EInv'
BY SoundStep, ReadStep, FoundStep, FrozenStep, ReleasedStep, EndsStep DEF EInv

\* The second invariant holds in every state of every behaviour.
THEOREM EndsInductive == Spec => []EInv
BY Inductive, InitEnds, StepEnds, PTL DEF Spec

\* An upgrade that does not come to an install leaves the addon at the chart,
\* the values and the suspension it was found with, on every way out on which
\* zae could do what it does for that.
THEOREM LeavesAsFound == Spec => []EndsAsFound
<1>1. IInv /\ EInv => EndsAsFound
  BY DEF EInv, EndsInv, EndsAsFound
<1> QED
  BY Inductive, EndsInductive, <1>1, PTL

\* With --wait, zae exits with 0 only while the operator runs the spec that
\* zae's own install released.
THEOREM OkIsInstalled == Spec => ReadyIsWhatWasInstalled
<1> DEFINE Running ==
      pc = "ready" /\ code' = "ok" /\ inst > 0 /\ res.uid = released.uid
        => res.applied = released.spec
<1>1. IInv /\ EInv /\ [Next]_vars => [Running]_vars
  <2> SUFFICES ASSUME IInv, EInv, Next, pc = "ready", code' = "ok", inst > 0,
                      res.uid = released.uid
               PROVE  res.applied = released.spec
    OBVIOUS
  <2>1. PollReady
    BY DEF EInv, ReleasedInv, Next, Zae, Person, Read, ReadFails, Patch, PatchFails,
       PatchUnanswered, PollPlan, PlanGone, PlanFails, AnswerYes, AnswerNo, Install,
       InstallFails, InstallUnanswered, LateInstall, ReadyFails, Reread,
       RereadFails, WriteBack, WriteBackFails, Signal, SecondSignal, OperatorStep,
       Others, ownVars, Exit, Restore, WaitFailures
  <2>2. res # Nil /\ ~Changed(res, inst) /\ ReadyFor(res, inst)
    BY <2>1 DEF PollReady, Exit
  <2>3. res.gen \in Nat /\ res.obs \in Nat /\ inst \in Nat
    BY <2>2 DEF IInv, TypeOK, ResourceTypeOK, Resources
  <2>4. Sound(res) /\ inst <= res.gen
        /\ (res.gen = inst => res.spec = released.spec)
    BY <2>2 DEF EInv, SoundInv, ReleasedInv
  <2> QED
    BY <2>2, <2>3, <2>4 DEF Changed, ReadyFor, Sound
<1> QED
  BY Inductive, EndsInductive, <1>1, PTL DEF Spec, ReadyIsWhatWasInstalled

============================================================================
