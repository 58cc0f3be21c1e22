--------------------------- MODULE AddonAddProofs ---------------------------
(***************************************************************************)
(* What holds of an add for every set of charts and inputs and any number  *)
(* of writes by others, however far the portal's readings lag.  The        *)
(* argument: what the portal has cached was the addon once (CachedInv), so *)
(* at zae's own generation it is what zae's create made (MineInv), and a   *)
(* status that says that generation is of that spec (SoundInv of           *)
(* AddonResourceProofs).                                                   *)
(***************************************************************************)
EXTENDS AddonAdd, AddonResourceProofs

\* No two addons share a uid; the one zae created is nobody else's.
Known(uid) == uid <= foreign \/ (mine # Nil /\ uid = OwnUid)

UidInv ==
  /\ foreign <= MaxForeign
  /\ res # Nil => Known(res.uid)
  /\ op # Nil => Known(op.uid)
  /\ cached # Nil => Known(cached.uid)
  /\ mine # Nil => Known(mine.uid)
  /\ released # Nil => Known(released.uid)

\* What the portal has cached was the addon once.
CachedInv ==
  cached # Nil =>
    /\ Sound(cached)
    /\ res # Nil /\ res.uid = cached.uid =>
         /\ cached.gen <= res.gen
         /\ cached.gen = res.gen => cached.spec = res.spec

\* What is known at each place of the command.
PlaceInv ==
  /\ mine = Nil => wrote = 0 /\ shown = Nil /\ ~touched
  /\ pc \in {"read", "create"} => mine = Nil
  /\ pc \in {"plan", "confirm", "install", "ready"} => mine # Nil
  /\ pc \in {"read", "create", "plan"} => shown = Nil
  /\ pc \in {"confirm", "install", "ready"} => shown # Nil
  /\ shown = Nil => ~late /\ released = Nil
  /\ pc \in {"plan", "confirm", "install"} => ~late /\ released = Nil
  /\ pc = "ready" => ~late /\ released # Nil
  /\ pc # "done" => said = "nothing" /\ code = "none"
  /\ said = "stays" => mine # Nil /\ ~late /\ released = Nil

\* At the generation the create answered, the addon is what the create made, in
\* the cluster and in whatever the portal has cached of it.
MineInv ==
  wrote > 0 =>
    /\ res # Nil /\ res.uid = mine.uid =>
         /\ wrote <= res.gen
         /\ res.gen = wrote => res.spec = mine.spec
    /\ cached # Nil /\ cached.uid = mine.uid /\ cached.gen = wrote
         => cached.spec = mine.spec

\* Untouched by others, the addon is what zae's create made.
UntouchedInv ==
  mine # Nil /\ ~touched =>
    res # Nil /\ res.uid = mine.uid /\ res.spec = mine.spec

\* A new addon, or one never released, is not released before zae's install.
FreshInv ==
  mine # Nil /\ ~touched /\ mine.fresh /\ released = Nil =>
    /\ res.suspended
    /\ res.applied = Nil
    /\ op # Nil /\ op.uid = res.uid => op.suspended

\* At the generation the install answered, the addon is what was released.
ReleasedInv ==
  pc = "ready" /\ inst > 0 =>
    /\ res # Nil /\ res.uid = released.uid =>
         /\ inst <= res.gen
         /\ res.gen = inst => res.spec = released.spec
    /\ cached # Nil /\ cached.uid = released.uid /\ cached.gen = inst
         => cached.spec = released.spec

IInv ==
  /\ TypeOK
  /\ SoundInv
  /\ UidInv
  /\ CachedInv
  /\ PlaceInv
  /\ MineInv
  /\ UntouchedInv
  /\ FreshInv
  /\ ReleasedInv
  /\ AddShowsItsOwnPlan
  /\ AddInstallsWhatItShowed

\* The steps that leave the resource, and what is known of its writes, alone.
Bystanding ==
  \/ Read \/ ReadFails \/ CreateFails \/ PollSees \/ PlanGone \/ PlanFails
  \/ PlanInterrupted \/ InstallFails \/ PollReady \/ ReadyFails
  \/ AnswerYes \/ AnswerNo \/ Signal \/ SecondSignal \/ GraceEnds

----------------------------------------------------------------------------
(* zae's own writes. *)

\* The create (addon.go) makes an addon, or one generation more of it, suspended.
LEMMA AddedFacts ==
  ASSUME TypeOK
  PROVE  /\ Added(res) \in Resources
         /\ Added(res).suspended = TRUE
         /\ res # Nil => Written(res, Added(res))
         /\ res = Nil => /\ Added(res).uid = OwnUid /\ Added(res).gen = 1
                         /\ Added(res).obs = 0 /\ Added(res).plan = Nil
                         /\ Added(res).applied = Nil
<1>1. /\ req.chart \in Charts /\ req.values \in SUBSET Inputs /\ req.secret \in BOOLEAN
      /\ OwnUid \in Nat
  BY AdditionAssumption, ForeignAssumption DEF TypeOK, AddRequests, OwnUid
<1>2. CASE res = Nil
  <2> DEFINE spec == [chart |-> req.chart, values |-> req.values, secrets |-> req.secret]
  <2>1. spec \in Specs
    BY <1>1 DEF Specs
  <2>2. Added(res) = Created(OwnUid, spec)
    BY <1>2 DEF Added
  <2> HIDE DEF spec
  <2>3. Created(OwnUid, spec).suspended = TRUE /\ Created(OwnUid, spec).applied = Nil
    BY DEF Created
  <2> QED
    BY <1>1, <1>2, <2>1, <2>2, <2>3, CreatedFacts
<1>3. CASE res # Nil
  <2> DEFINE spec == [chart |-> req.chart, values |-> req.values,
                      secrets |-> res.spec.secrets \/ req.secret]
  <2>1. res \in Resources /\ res.spec \in Specs
    BY <1>3 DEF TypeOK, ResourceTypeOK, Resources
  <2>2. spec.secrets \in BOOLEAN
    OBVIOUS
  <2>3. spec \in Specs
    BY <1>1, <2>2, Zenon DEF Specs
  <2>4. Added(res) = Merged(res, spec, TRUE, req.secret)
    BY <1>3 DEF Added
  <2> HIDE DEF spec
  <2>5. /\ Written(res, Merged(res, spec, TRUE, req.secret))
        /\ Merged(res, spec, TRUE, req.secret).suspended = TRUE
    BY <1>1, <2>1, <2>3, MergedFacts, Zenon
  <2> QED
    BY <1>3, <2>4, <2>5 DEF Written
<1> QED
  BY <1>2, <1>3

\* The portal's side of the create.
LEMMA CreatesFacts ==
  ASSUME TypeOK, PortalCreates
  PROVE  /\ res' \in Resources /\ res' # Nil /\ res'.suspended
         /\ res # Nil => Written(res, res')
         /\ res = Nil => /\ res'.uid = OwnUid /\ res'.gen = 1 /\ res'.obs = 0
                         /\ res'.plan = Nil /\ res'.applied = Nil
         /\ mine' \in Writes /\ mine' # Nil
         /\ mine'.uid = res'.uid /\ mine'.spec = res'.spec
         /\ mine'.fresh => res = Nil \/ NeverReleased(res)
         /\ op' = op /\ foreign' = foreign
<1>1. res' = Added(res) /\ op' = op /\ foreign' = foreign
  BY DEF PortalCreates
<1>2. mine' = [uid |-> res'.uid, spec |-> res'.spec,
               fresh |-> res = Nil \/ NeverReleased(res)]
  BY DEF PortalCreates
<1>3. res' \in Resources /\ res'.uid \in Nat /\ res'.spec \in Specs
  BY <1>1, AddedFacts DEF Resources
<1>4. (res = Nil \/ NeverReleased(res)) \in BOOLEAN
  OBVIOUS
<1>5. mine' \in Writes
  BY <1>2, <1>3, <1>4, Zenon DEF Writes
<1>6. res' # Nil /\ mine' # Nil
  BY <1>3, <1>5, NilAssumption, AdditionAssumption
<1>7. /\ mine'.uid = res'.uid /\ mine'.spec = res'.spec
      /\ mine'.fresh => res = Nil \/ NeverReleased(res)
  BY <1>2
<1> QED
  BY <1>1, <1>3, <1>5, <1>6, <1>7, AddedFacts

\* The portal's side of the install, on time or late.
LEMMA InstallsFacts ==
  ASSUME TypeOK, PortalInstalls
  PROVE  /\ res # Nil /\ Written(res, res') /\ res' # Nil
         /\ res'.spec = res.spec
         /\ released' \in SpecsOf /\ released' # Nil
         /\ released'.uid = res.uid /\ released'.spec = res.spec
         /\ released' = [uid |-> res.uid, spec |-> res.spec]
         /\ op' = op /\ foreign' = foreign
<1>1. res # Nil /\ res' = Installed(res) /\ op' = op /\ foreign' = foreign
  BY DEF PortalInstalls, CanInstall
<1>2. Written(res, res') /\ res'.spec = res.spec
  BY <1>1, InstalledFacts DEF TypeOK, ResourceTypeOK
<1>3. res' # Nil
  BY <1>2, NilAssumption DEF Written
<1>4. res.uid \in Nat /\ res.spec \in Specs
  BY <1>1 DEF TypeOK, ResourceTypeOK, Resources
<1>5. released' = [uid |-> res.uid, spec |-> res.spec]
  BY DEF PortalInstalls
<1>6. released' \in SpecsOf
  BY <1>4, <1>5 DEF SpecsOf
<1> QED
  BY <1>1, <1>2, <1>3, <1>5, <1>6, AdditionAssumption

\* The plan that is shown is one the portal had cached (planFor, wait.go).
LEMMA PollPlanFacts ==
  ASSUME TypeOK, PollPlan
  PROVE  \/ shown' = shown /\ pc' = "done" /\ said' \in {"changed", "refused"} /\ code' = "failed"
         \/ /\ shown' \in SpecsOf /\ shown' # Nil
            /\ pc' \in {"install", "confirm"} /\ said' = said /\ code' = code
            /\ shown'.uid = cached.uid /\ shown'.spec = cached.plan.spec
            /\ cached # Nil /\ cached.plan # Nil
            /\ ~Changed(cached, wrote) /\ PlanFor(cached, wrote)
<1>1. cached \in Resources
  BY DEF PollPlan, TypeOK
<1>2. CASE Changed(cached, wrote) \/ PlanRefused(cached)
  BY <1>2 DEF PollPlan, Exit
<1>3. CASE ~Changed(cached, wrote) /\ ~PlanRefused(cached)
  <2>1. /\ shown' = [uid |-> cached.uid, spec |-> cached.plan.spec]
        /\ PlanFor(cached, wrote) /\ cached # Nil /\ cached.plan # Nil
        /\ pc' \in {"install", "confirm"} /\ said' = said /\ code' = code
    BY <1>3, Zenon DEF PollPlan, PlanRefused
  <2>2. cached.uid \in Nat /\ cached.plan \in Plans
    BY <1>1, <2>1 DEF Resources
  <2>3. shown' \in SpecsOf
    BY <2>1, <2>2 DEF SpecsOf, Plans
  <2> QED
    BY <1>3, <2>1, <2>3, AdditionAssumption
<1> QED
  BY <1>2, <1>3

----------------------------------------------------------------------------
(* Type correctness, and the places. *)

\* Every action keeps each variable of its kind.
LEMMA TypeStep ==
  ASSUME TypeOK, [Next]_vars
  PROVE  TypeOK'
<1> USE DEF TypeOK
<1>1. CASE Create
  <2>1. res' \in Resources /\ mine' \in Writes /\ op' = op /\ foreign' = foreign
    BY <1>1, CreatesFacts DEF Create
  <2>2. ResourceTypeOK'
    BY <2>1 DEF ResourceTypeOK
  <2>3. wrote' \in Nat
    BY <1>1, <2>1 DEF Create, Resources
  <2> QED
    BY <1>1, <2>1, <2>2, <2>3 DEF Create, Places
<1>2. CASE CreateUnanswered
  <2>1. res' \in Resources /\ mine' \in Writes /\ op' = op /\ foreign' = foreign
    BY <1>2, CreatesFacts DEF CreateUnanswered
  <2>2. ResourceTypeOK'
    BY <2>1 DEF ResourceTypeOK
  <2>3. sig' \in BOOLEAN
    BY <1>2 DEF CreateUnanswered, SignalDuringCall
  <2> QED
    BY <1>2, <2>1, <2>2, <2>3
       DEF CreateUnanswered, Exit, FailureCode, Places, Codes, Sayings
<1>3. CASE PollPlan
  <2>1. shown' \in SpecsOf \cup {Nil} /\ pc' \in Places /\ code' \in Codes /\ said' \in Sayings
    BY <1>3, PollPlanFacts DEF Places, Codes, Sayings
  <2> QED
    BY <1>3, <2>1 DEF PollPlan, resourceVars, ResourceTypeOK
<1>4. CASE Install \/ InstallUnanswered \/ LateInstall
  <2>1. CASE PortalInstalls
    <3>1. /\ res' \in Resources /\ released' \in SpecsOf
          /\ op' = op /\ foreign' = foreign
      BY <2>1, InstallsFacts DEF Written
    <3>2. ResourceTypeOK'
      BY <3>1 DEF ResourceTypeOK
    <3>3. res'.gen \in Nat
      BY <3>1 DEF Resources
    <3>4. CASE Install
      BY <3>1, <3>2, <3>3, <3>4 DEF Install, Exit, Places, Codes
    <3>5. CASE InstallUnanswered
      <4>1. sig' \in BOOLEAN
        BY <3>5 DEF InstallUnanswered, SignalDuringCall
      <4> QED
        BY <3>1, <3>2, <3>5, <4>1
           DEF InstallUnanswered, Exit, FailureCode, Places, Codes, Sayings
    <3>6. CASE LateInstall
      BY <3>1, <3>2, <3>6 DEF LateInstall
    <3> QED
      BY <1>4, <3>4, <3>5, <3>6
  <2>2. CASE LateInstall /\ UNCHANGED <<resourceVars, released>>
    BY <2>2 DEF LateInstall, resourceVars, ResourceTypeOK
  <2> QED
    BY <1>4, <2>1, <2>2 DEF Install, InstallUnanswered, LateInstall
<1>5. CASE ReadFails \/ CreateFails \/ InstallFails
  <2>1. sig' \in BOOLEAN
    BY <1>5 DEF ReadFails, CreateFails, InstallFails, SignalDuringCall
  <2>2. late' \in BOOLEAN
    BY <1>5 DEF ReadFails, CreateFails, InstallFails
  <2> QED
    BY <1>5, <2>1, <2>2
       DEF ReadFails, CreateFails, InstallFails, Exit, FailureCode, Places, Codes,
           Sayings, resourceVars, ResourceTypeOK
<1>6. CASE Read \/ PollSees \/ PlanGone \/ PlanFails \/ PlanInterrupted
  BY <1>6 DEF Read, PollSees, PlanGone, PlanFails, PlanInterrupted, Exit, Places, Codes,
              Sayings, resourceVars, ResourceTypeOK
<1>7. CASE PollReady \/ ReadyFails \/ AnswerYes \/ AnswerNo
  BY <1>7 DEF PollReady, ReadyFails, AnswerYes, AnswerNo, Exit, Places, Codes, Sayings,
              resourceVars, ResourceTypeOK
<1>8. CASE Signal \/ SecondSignal \/ GraceEnds
  BY <1>8 DEF Signal, SecondSignal, GraceEnds, Exit, Places, Codes, resourceVars,
              ResourceTypeOK
<1>9. CASE CacheCatches
  BY <1>9 DEF CacheCatches, resourceVars, ResourceTypeOK, ownVars
<1>10. CASE OperatorStep
  BY <1>10, OperatorFacts DEF OperatorStep, ownVars
<1>11. CASE Others
  <2>1. touched' \in BOOLEAN
    BY <1>11 DEF Others
  <2> QED
    BY <1>11, <2>1, ForeignFacts DEF Others
<1>12. CASE UNCHANGED vars
  BY <1>12 DEF vars, resourceVars, ResourceTypeOK, ownVars
<1> QED
  BY <1>1, <1>2, <1>3, <1>4, <1>5, <1>6, <1>7, <1>8, <1>9, <1>10, <1>11, <1>12
     DEF Next, Zae, Person, World

\* Where zae is says what it has done so far.
LEMMA PlaceStep ==
  ASSUME TypeOK, PlaceInv, [Next]_vars
  PROVE  PlaceInv'
<1> USE DEF PlaceInv
<1>1. CASE Create \/ CreateUnanswered
  <2>1. mine' # Nil
    BY <1>1, CreatesFacts DEF Create, CreateUnanswered
  <2> QED
    BY <1>1, <2>1 DEF Create, CreateUnanswered, Exit
<1>2. CASE PollPlan
  BY <1>2, PollPlanFacts DEF PollPlan
<1>3. CASE Install \/ InstallUnanswered
  <2>1. released' # Nil
    BY <1>3, InstallsFacts DEF Install, InstallUnanswered
  <2> QED
    BY <1>3, <2>1 DEF Install, InstallUnanswered, Exit
<1>4. CASE LateInstall
  BY <1>4 DEF LateInstall
<1>5. CASE Read \/ ReadFails \/ CreateFails \/ PollSees \/ PlanGone \/ PlanFails
  BY <1>5 DEF Read, ReadFails, CreateFails, PollSees, PlanGone, PlanFails, Exit
<1>6. CASE PlanInterrupted \/ InstallFails \/ PollReady \/ ReadyFails
  <2>1. CASE PlanInterrupted
    BY <2>1 DEF PlanInterrupted, Exit
  <2>2. CASE InstallFails
    BY <2>2 DEF InstallFails, Exit
  <2>3. CASE PollReady
    <3>1. pc = "ready" /\ pc' = "done" /\ said' \in {said, "changed"}
      BY <2>3 DEF PollReady, Exit
    <3> QED
      BY <2>3, <3>1 DEF PollReady
  <2>4. CASE ReadyFails
    <3>1. pc = "ready" /\ pc' = "done" /\ said' = said
      BY <2>4 DEF ReadyFails, Exit
    <3> QED
      BY <2>4, <3>1 DEF ReadyFails
  <2> QED
    BY <1>6, <2>1, <2>2, <2>3, <2>4
<1>7. CASE AnswerYes \/ AnswerNo \/ Signal \/ SecondSignal \/ GraceEnds
  BY <1>7 DEF AnswerYes, AnswerNo, Signal, SecondSignal, GraceEnds, Exit
<1>8. CASE CacheCatches \/ OperatorStep \/ UNCHANGED vars
  BY <1>8 DEF CacheCatches, OperatorStep, vars, ownVars
<1>9. CASE Others
  BY <1>9 DEF Others
<1> QED
  BY <1>1, <1>2, <1>3, <1>4, <1>5, <1>6, <1>7, <1>8, <1>9 DEF Next, Zae, Person, World

----------------------------------------------------------------------------
(* The resource, whoever writes it. *)

\* The addon stays, is created by zae, is written by zae, or moves by the operator
\* or by someone else; the portal's reading of it stays or catches up.
LEMMA ResourceStep ==
  ASSUME TypeOK, [Next]_vars
  PROVE  /\ \/ UNCHANGED <<res, op, foreign, mine, wrote, released>>
            \/ (Create \/ CreateUnanswered) /\ PortalCreates
            \/ (Install \/ InstallUnanswered \/ LateInstall) /\ PortalInstalls
            \/ OperatorStep
            \/ Others
         /\ cached' = cached
              \/ (cached' = res /\ UNCHANGED <<res, op, foreign, mine, wrote, released>>)
<1>1. CASE Create \/ CreateUnanswered
  BY <1>1 DEF Create, CreateUnanswered
<1>2. CASE Install \/ InstallUnanswered \/ LateInstall
  BY <1>2 DEF Install, InstallUnanswered, LateInstall, resourceVars
<1>3. CASE OperatorStep \/ Others
  BY <1>3 DEF OperatorStep, Others
<1>4. CASE CacheCatches
  BY <1>4 DEF CacheCatches, resourceVars, ownVars
<1>5. CASE PollPlan \/ Bystanding \/ UNCHANGED vars
  BY <1>5 DEF PollPlan, Bystanding, Read, ReadFails, CreateFails, PollSees, PlanGone,
     PlanFails, PlanInterrupted, InstallFails, PollReady, ReadyFails, AnswerYes, AnswerNo,
     Signal, SecondSignal, GraceEnds, vars, resourceVars, ownVars
<1> QED
  BY <1>1, <1>2, <1>3, <1>4, <1>5 DEF Next, Zae, Person, World, Bystanding

\* Identities stay apart: zae creates one addon, and others number theirs.
LEMMA UidStep ==
  ASSUME TypeOK, PlaceInv, UidInv, [Next]_vars
  PROVE  UidInv'
<1> USE DEF UidInv, Known
<1>0. /\ foreign \in Nat /\ MaxForeign \in Nat /\ OwnUid = MaxForeign + 1
      /\ res # Nil => res.uid \in Nat
      /\ op # Nil => op.uid \in Nat
      /\ cached # Nil => cached.uid \in Nat
      /\ mine # Nil => mine.uid \in Nat
      /\ released # Nil => released.uid \in Nat
  BY ForeignAssumption
     DEF TypeOK, ResourceTypeOK, Resources, Snapshots, OwnUid, Writes, SpecsOf
<1>1. OwnUid' = OwnUid
  BY DEF OwnUid
<1>2. CASE UNCHANGED <<res, op, foreign, mine, wrote, released>>
  BY <1>0, <1>1, <1>2, ResourceStep
<1>3. CASE (Create \/ CreateUnanswered) /\ PortalCreates
  <2>1. cached' = cached /\ released' = released
    BY <1>3 DEF Create, CreateUnanswered
  <2>2. /\ res # Nil => res'.uid = res.uid
        /\ res = Nil => res'.uid = OwnUid
        /\ mine' # Nil /\ mine'.uid = res'.uid /\ op' = op /\ foreign' = foreign
    BY <1>3, CreatesFacts DEF Written
  <2> QED
    BY <1>0, <1>1, <2>1, <2>2
<1>4. CASE (Install \/ InstallUnanswered \/ LateInstall) /\ PortalInstalls
  <2>1. cached' = cached /\ mine' = mine
    BY <1>4 DEF Install, InstallUnanswered, LateInstall
  <2>2. /\ res # Nil /\ res'.uid = res.uid /\ released'.uid = res.uid
        /\ op' = op /\ foreign' = foreign
    BY <1>4, InstallsFacts DEF Written
  <2> QED
    BY <1>0, <1>1, <2>1, <2>2
<1>5. CASE OperatorStep
  <2>1. Operator /\ cached' = cached /\ mine' = mine /\ released' = released
    BY <1>5 DEF OperatorStep, ownVars
  <2>2. /\ foreign' = foreign
        /\ res' # Nil => res # Nil /\ res'.uid = res.uid
    BY <2>1, OperatorFacts DEF TypeOK
  <2>3. op' = Nil \/ op' = op \/ (res # Nil /\ op'.uid = res.uid)
    BY <2>1 DEF Operator, OperatorReads, OperatorWrites, RolloutEnds, PortalRegisters
  <2> QED
    BY <1>0, <1>1, <2>1, <2>2, <2>3
<1>6. CASE Others
  <2>1. ForeignWrite /\ cached' = cached /\ mine' = mine /\ released' = released
    BY <1>6 DEF Others
  <2>2. foreign' = foreign + 1 /\ op' = op /\ foreign < MaxForeign
    BY <2>1, ForeignFacts DEF TypeOK, ForeignWrite
  <2>3. res' # Nil => (res # Nil /\ res'.uid = res.uid) \/ res'.uid = foreign + 1
    BY <2>1, ForeignFacts DEF TypeOK, Written
  <2> QED
    BY <1>0, <1>1, <2>1, <2>2, <2>3
<1> QED
  BY <1>2, <1>3, <1>4, <1>5, <1>6, ResourceStep

\* Every status the portal or the cluster has is sound (AddonResourceProofs).
LEMMA SoundStep ==
  ASSUME TypeOK, PlaceInv, UidInv, SoundInv, [Next]_vars
  PROVE  SoundInv'
<1>1. CASE UNCHANGED <<res, op>>
  BY <1>1 DEF SoundInv
<1>2. CASE (Create \/ CreateUnanswered) /\ PortalCreates
  <2>1. CASE res # Nil
    BY <1>2, <2>1, CreatesFacts, WriteKeepsSound DEF TypeOK
  <2>2. CASE res = Nil
    <3>1. /\ res'.uid = OwnUid /\ res'.gen = 1 /\ res'.obs = 0 /\ op' = op
      BY <1>2, <2>2, CreatesFacts
    <3>2. mine = Nil
      BY <1>2 DEF Create, CreateUnanswered, PlaceInv
    <3>3. op # Nil => op.uid # OwnUid
      BY <3>2, ForeignAssumption
         DEF UidInv, Known, OwnUid, TypeOK, ResourceTypeOK, Snapshots
    <3> QED
      BY <3>1, <3>3 DEF SoundInv, Sound
  <2> QED
    BY <2>1, <2>2
<1>3. CASE PortalInstalls
  BY <1>3, InstallsFacts, WriteKeepsSound DEF TypeOK
<1>4. CASE OperatorStep
  BY <1>4, OperatorKeepsSound DEF OperatorStep, TypeOK
<1>5. CASE Others
  <2>1. op # Nil => op.uid # foreign + 1
    BY <1>5, ForeignAssumption
       DEF Others, ForeignWrite, UidInv, Known, OwnUid, TypeOK, ResourceTypeOK, Snapshots
  <2> QED
    BY <1>5, <2>1, OthersKeepSound DEF Others, TypeOK
<1> QED
  BY <1>1, <1>2, <1>3, <1>4, <1>5, ResourceStep

\* An addon is the one it was, at its generation or at the next, or one whose uid
\* nothing knows.
LEMMA GenerationStep ==
  ASSUME TypeOK, PlaceInv, UidInv, [Next]_vars, res' # Nil
  PROVE  \/ /\ res # Nil /\ res'.uid = res.uid
            /\ \/ res'.gen = res.gen /\ res'.spec = res.spec
               \/ res'.gen = res.gen + 1
         \/ /\ res'.gen = 1
            /\ cached # Nil => cached.uid # res'.uid
            /\ mine # Nil => mine.uid # res'.uid
            /\ released # Nil => released.uid # res'.uid
<1>0. /\ foreign \in Nat /\ MaxForeign \in Nat /\ OwnUid = MaxForeign + 1
      /\ foreign <= MaxForeign
      /\ cached # Nil => cached.uid \in Nat
      /\ mine # Nil => mine.uid \in Nat
      /\ released # Nil => released.uid \in Nat
  BY ForeignAssumption DEF TypeOK, ResourceTypeOK, Resources, OwnUid, Writes, SpecsOf, UidInv
<1>1. CASE UNCHANGED <<res, op, foreign, mine, wrote, released>>
  BY <1>1
<1>2. CASE (Create \/ CreateUnanswered) /\ PortalCreates
  <2>1. CASE res # Nil
    BY <1>2, <2>1, CreatesFacts DEF Written
  <2>2. CASE res = Nil
    <3>1. res'.uid = OwnUid /\ res'.gen = 1
      BY <1>2, <2>2, CreatesFacts
    <3>2. mine = Nil /\ released = Nil
      BY <1>2 DEF Create, CreateUnanswered, PlaceInv
    <3> QED
      BY <1>0, <3>1, <3>2 DEF UidInv, Known
  <2> QED
    BY <2>1, <2>2
<1>3. CASE PortalInstalls
  BY <1>3, InstallsFacts DEF Written
<1>4. CASE OperatorStep
  BY <1>4, OperatorFacts DEF OperatorStep, TypeOK
<1>5. CASE Others
  <2>1. ForeignWrite /\ foreign < MaxForeign
    BY <1>5 DEF Others, ForeignWrite
  <2>2. \/ res # Nil /\ Written(res, res') /\ res'.gen = res.gen + 1
        \/ res'.uid = foreign + 1 /\ res'.gen = 1
    BY <2>1, ForeignFacts DEF TypeOK
  <2> QED
    BY <1>0, <2>1, <2>2 DEF Written, UidInv, Known
<1> QED
  BY <1>1, <1>2, <1>3, <1>4, <1>5, ResourceStep

\* The portal's readings stay behind the addon, and true of when they were made.
LEMMA CachedStep ==
  ASSUME TypeOK, PlaceInv, UidInv, SoundInv, CachedInv, [Next]_vars
  PROVE  CachedInv'
<1>0. /\ res # Nil => res \in Resources /\ res.gen \in Nat
      /\ cached # Nil => cached.gen \in Nat
  BY DEF TypeOK, ResourceTypeOK, Resources
<1>1. CASE cached' = res /\ res' = res
  BY <1>0, <1>1 DEF CachedInv, SoundInv
<1>2. CASE cached' = cached
  BY <1>0, <1>2, GenerationStep DEF CachedInv
<1> QED
  BY <1>1, <1>2, ResourceStep

\* The create's generation stays that of what it made.
LEMMA MineStep ==
  ASSUME TypeOK, PlaceInv, UidInv, CachedInv, MineInv, [Next]_vars
  PROVE  MineInv'
<1>0. /\ wrote \in Nat
      /\ res # Nil => res.gen \in Nat
      /\ cached # Nil => cached.gen \in Nat /\ cached.uid \in Nat
      /\ foreign \in Nat /\ MaxForeign \in Nat /\ OwnUid = MaxForeign + 1
  BY ForeignAssumption DEF TypeOK, ResourceTypeOK, Resources, OwnUid
<1>1. CASE Create
  <2>1. PortalCreates /\ wrote' \in {0, res'.gen} /\ cached' = cached
    BY <1>1 DEF Create
  <2>2. /\ res' # Nil /\ res'.gen \in Nat
        /\ mine'.uid = res'.uid /\ mine'.spec = res'.spec
        /\ res # Nil => Written(res, res')
        /\ res = Nil => res'.uid = OwnUid
    BY <2>1, CreatesFacts DEF Resources
  <2>3. ASSUME cached # Nil, cached.uid = res'.uid, cached.gen = res'.gen
        PROVE  cached.spec = res'.spec
    <3>1. mine = Nil
      BY <1>1 DEF Create, PlaceInv
    <3>2. cached.uid # OwnUid
      BY <1>0, <2>3, <3>1 DEF UidInv, Known
    <3>3. res # Nil /\ res.uid = cached.uid /\ cached.gen <= res.gen
      BY <2>2, <2>3, <3>2 DEF Written, CachedInv
    <3>4. res' = res
      BY <1>0, <2>2, <2>3, <3>3 DEF Written
    <3> QED
      BY <2>3, <3>3, <3>4 DEF CachedInv
  <2> QED
    BY <2>1, <2>2, <2>3 DEF MineInv
<1>2. CASE CreateUnanswered
  <2>1. wrote' = 0
    BY <1>2 DEF CreateUnanswered, PlaceInv
  <2> QED
    BY <2>1 DEF MineInv
<1>3. CASE ~Create /\ ~CreateUnanswered
  <2>1. mine' = mine /\ wrote' = wrote
    BY <1>3, ResourceStep
       DEF Install, InstallUnanswered, LateInstall, OperatorStep, Others, ownVars
  <2>2. wrote > 0 => mine # Nil
    BY DEF PlaceInv
  <2>3. wrote > 0 /\ res' # Nil /\ res'.uid = mine.uid
          => wrote <= res'.gen /\ (res'.gen = wrote => res'.spec = mine.spec)
    BY <1>0, <2>2, GenerationStep DEF MineInv
  <2>4. wrote > 0 /\ cached' # Nil /\ cached'.uid = mine.uid /\ cached'.gen = wrote
          => cached'.spec = mine.spec
    BY ResourceStep DEF MineInv
  <2> QED
    BY <2>1, <2>3, <2>4 DEF MineInv
<1> QED
  BY <1>1, <1>2, <1>3

\* Unless others write after it, the addon is what the create made.
LEMMA UntouchedStep ==
  ASSUME TypeOK, PlaceInv, UntouchedInv, [Next]_vars
  PROVE  UntouchedInv'
<1>0. touched' \/ ~touched
  BY DEF Next, Zae, Person, World, Read, ReadFails, Create, CreateFails, CreateUnanswered,
     PollPlan, PollSees, PlanGone, PlanFails, PlanInterrupted, Install, InstallFails,
     InstallUnanswered, LateInstall, PollReady, ReadyFails, AnswerYes, AnswerNo, Signal,
     SecondSignal, GraceEnds, CacheCatches, OperatorStep, Others, vars, ownVars
<1>1. CASE UNCHANGED <<res, op, foreign, mine, wrote, released>>
  BY <1>0, <1>1 DEF UntouchedInv
<1>2. CASE (Create \/ CreateUnanswered) /\ PortalCreates
  BY <1>2, CreatesFacts DEF UntouchedInv
<1>3. CASE (Install \/ InstallUnanswered \/ LateInstall) /\ PortalInstalls
  <2>1. mine' = mine
    BY <1>3 DEF Install, InstallUnanswered, LateInstall
  <2> QED
    BY <1>0, <1>3, <2>1, InstallsFacts DEF UntouchedInv, Written
<1>4. CASE OperatorStep
  <2>1. Operator /\ mine' = mine
    BY <1>4 DEF OperatorStep, ownVars
  <2> QED
    BY <1>0, <2>1, OperatorFacts DEF UntouchedInv, TypeOK
<1>5. CASE Others
  BY <1>5 DEF Others, UntouchedInv
<1> QED
  BY <1>1, <1>2, <1>3, <1>4, <1>5, ResourceStep

\* What never was released is not released by the create or the operator.
LEMMA FreshStep ==
  ASSUME TypeOK, PlaceInv, UidInv, UntouchedInv, FreshInv, [Next]_vars
  PROVE  FreshInv'
<1>0. touched' \/ ~touched
  BY DEF Next, Zae, Person, World, Read, ReadFails, Create, CreateFails, CreateUnanswered,
     PollPlan, PollSees, PlanGone, PlanFails, PlanInterrupted, Install, InstallFails,
     InstallUnanswered, LateInstall, PollReady, ReadyFails, AnswerYes, AnswerNo, Signal,
     SecondSignal, GraceEnds, CacheCatches, OperatorStep, Others, vars, ownVars
<1>1. CASE UNCHANGED <<res, op, foreign, mine, wrote, released>>
  BY <1>0, <1>1 DEF FreshInv
<1>2. CASE (Create \/ CreateUnanswered) /\ PortalCreates
  <2>1. /\ res'.suspended /\ op' = op
        /\ mine'.fresh => res = Nil \/ NeverReleased(res)
    BY <1>2, CreatesFacts
  <2>2. CASE res = Nil
    <3>1. res'.uid = OwnUid /\ res'.applied = Nil
      BY <1>2, <2>2, CreatesFacts
    <3>2. op # Nil => op.uid # OwnUid
      <4>1. mine = Nil
        BY <1>2 DEF Create, CreateUnanswered, PlaceInv
      <4> QED
        BY <4>1, ForeignAssumption
           DEF UidInv, Known, OwnUid, TypeOK, ResourceTypeOK, Snapshots
    <3> QED
      BY <2>1, <3>1, <3>2 DEF FreshInv
  <2>3. CASE res # Nil
    <3>1. res'.uid = res.uid /\ res'.applied = res.applied
      BY <1>2, <2>3, CreatesFacts DEF Written
    <3> QED
      BY <2>1, <2>3, <3>1 DEF FreshInv, NeverReleased
  <2> QED
    BY <2>2, <2>3
<1>3. CASE PortalInstalls
  BY <1>3, InstallsFacts DEF FreshInv
<1>4. CASE OperatorStep
  <2>1. Operator /\ mine' = mine /\ released' = released /\ touched' = touched
    BY <1>4 DEF OperatorStep, ownVars
  <2>2. SUFFICES ASSUME mine # Nil, ~touched, mine.fresh, released = Nil
                 PROVE  /\ res'.suspended /\ res'.applied = Nil
                        /\ op' # Nil /\ op'.uid = res'.uid => op'.suspended
    BY <2>1 DEF FreshInv
  <2>3. /\ res # Nil /\ res.suspended /\ res.applied = Nil
        /\ op # Nil /\ op.uid = res.uid => op.suspended
    BY <2>2 DEF UntouchedInv, FreshInv
  <2>4. res'.suspended
    BY <2>1, <2>3, OperatorFacts DEF TypeOK
  <2> QED
    BY <2>1, <2>3, <2>4, OperatorReleases DEF TypeOK
<1>5. CASE Others
  BY <1>5 DEF Others, FreshInv
<1> QED
  BY <1>1, <1>2, <1>3, <1>4, <1>5, ResourceStep

\* The install's generation stays that of what it released.
LEMMA ReleasedStep ==
  ASSUME TypeOK, PlaceInv, UidInv, CachedInv, ReleasedInv, [Next]_vars
  PROVE  ReleasedInv'
<1>0. /\ inst \in Nat
      /\ res # Nil => res.gen \in Nat
      /\ cached # Nil => cached.gen \in Nat
  BY DEF TypeOK, ResourceTypeOK, Resources
<1>1. CASE Install
  <2>1. PortalInstalls /\ inst' \in {0, res'.gen} /\ cached' = cached
    BY <1>1 DEF Install
  <2>2. /\ res # Nil /\ Written(res, res') /\ res'.spec = res.spec /\ res'.gen \in Nat
        /\ released'.uid = res.uid /\ released'.spec = res.spec
    BY <2>1, InstallsFacts DEF Written
  <2>3. ASSUME cached # Nil, cached.uid = res.uid, cached.gen = res'.gen
        PROVE  cached.spec = res.spec
    BY <1>0, <2>2, <2>3 DEF CachedInv, Written
  <2> QED
    BY <2>1, <2>2, <2>3 DEF ReleasedInv
<1>2. CASE ~Install
  <2>1. SUFFICES ASSUME pc' = "ready" PROVE ReleasedInv'
    BY DEF ReleasedInv
  <2>2. pc = "ready" /\ inst' = inst
    BY <1>2, <2>1, PollPlanFacts
       DEF Next, Zae, Person, World, Read, ReadFails, Create, CreateFails,
       CreateUnanswered, PollPlan, PollSees, PlanGone, PlanFails, PlanInterrupted,
       InstallFails, InstallUnanswered, LateInstall, PollReady, ReadyFails, AnswerYes,
       AnswerNo, Signal, SecondSignal, GraceEnds, CacheCatches, OperatorStep, Others,
       Exit, vars, ownVars
  <2>3. released # Nil /\ ~late
    BY <2>2 DEF PlaceInv
  <2>4. released' = released
    BY <1>2, <2>2, <2>3, ResourceStep
       DEF Create, CreateUnanswered, InstallUnanswered, LateInstall, OperatorStep, Others,
           ownVars
  <2>5. inst > 0 /\ res' # Nil /\ res'.uid = released.uid
          => inst <= res'.gen /\ (res'.gen = inst => res'.spec = released.spec)
    BY <1>0, <2>2, <2>3, GenerationStep DEF ReleasedInv
  <2>6. inst > 0 /\ cached' # Nil /\ cached'.uid = released.uid /\ cached'.gen = inst
          => cached'.spec = released.spec
    BY <2>2, ResourceStep DEF ReleasedInv
  <2> QED
    BY <2>2, <2>4, <2>5, <2>6 DEF ReleasedInv
<1> QED
  BY <1>1, <1>2

\* The plan that is shown is of what the create made (planFor, wait.go).
LEMMA ShownStep ==
  ASSUME TypeOK, PlaceInv, CachedInv, MineInv, AddShowsItsOwnPlan, [Next]_vars
  PROVE  AddShowsItsOwnPlan'
<1>1. CASE Create \/ CreateUnanswered
  BY <1>1 DEF Create, CreateUnanswered, PlaceInv, AddShowsItsOwnPlan
<1>2. CASE PollPlan
  <2>1. mine' = mine /\ wrote' = wrote
    BY <1>2 DEF PollPlan
  <2>2. CASE shown' = shown
    BY <2>1, <2>2 DEF AddShowsItsOwnPlan
  <2>3. CASE shown' # shown
    <3>1. /\ shown'.uid = cached.uid /\ shown'.spec = cached.plan.spec
          /\ cached # Nil /\ cached.plan # Nil
          /\ ~Changed(cached, wrote) /\ PlanFor(cached, wrote)
      BY <1>2, <2>3, PollPlanFacts
    <3>2. SUFFICES ASSUME wrote > 0, cached.uid = mine.uid
                   PROVE  cached.plan.spec = mine.spec
      BY <2>1, <3>1 DEF AddShowsItsOwnPlan
    <3>3. wrote \in Nat /\ cached.gen \in Nat /\ cached.obs \in Nat
      BY <3>1 DEF TypeOK, Resources
    <3>4. cached.gen = wrote /\ cached.obs = cached.gen
      BY <3>1, <3>2, <3>3 DEF Changed, PlanFor, CachedInv, Sound
    <3> QED
      BY <3>1, <3>2, <3>4 DEF CachedInv, Sound, MineInv
  <2> QED
    BY <2>2, <2>3
<1>3. CASE ~Create /\ ~CreateUnanswered /\ ~PollPlan
  <2>1. mine' = mine /\ wrote' = wrote /\ shown' = shown
    BY <1>3
       DEF Next, Zae, Person, World, Read, ReadFails, CreateFails, PollSees, PlanGone,
       PlanFails, PlanInterrupted, Install, InstallFails, InstallUnanswered, LateInstall,
       PollReady, ReadyFails, AnswerYes, AnswerNo, Signal, SecondSignal, GraceEnds,
       CacheCatches, OperatorStep, Others, vars, ownVars
  <2> QED
    BY <2>1 DEF AddShowsItsOwnPlan
<1> QED
  BY <1>1, <1>2, <1>3

\* What the install releases is what was shown (addon.go).
LEMMA InstallsStep ==
  ASSUME TypeOK, PlaceInv, UntouchedInv, AddShowsItsOwnPlan, AddInstallsWhatItShowed,
         [Next]_vars
  PROVE  AddInstallsWhatItShowed'
<1>1. CASE (Install \/ InstallUnanswered \/ LateInstall) /\ PortalInstalls
  <2>1. /\ mine' = mine /\ wrote' = wrote /\ shown' = shown /\ touched' = touched
        /\ shown # Nil
    BY <1>1 DEF Install, InstallUnanswered, LateInstall, PlaceInv
  <2>2. SUFFICES ASSUME wrote > 0, ~touched, shown.uid = mine.uid
                 PROVE  released' = shown
    BY <2>1 DEF AddInstallsWhatItShowed
  <2>3. mine # Nil
    BY <2>1 DEF PlaceInv
  <2>4. res.uid = mine.uid /\ res.spec = mine.spec
    BY <2>2, <2>3 DEF UntouchedInv
  <2>5. shown.spec = mine.spec
    BY <2>1, <2>2 DEF AddShowsItsOwnPlan
  <2>6. released' = [uid |-> res.uid, spec |-> res.spec]
    BY <1>1, InstallsFacts
  <2>7. shown = [uid |-> shown.uid, spec |-> shown.spec]
    BY <2>1 DEF TypeOK, SpecsOf
  <2> QED
    BY <2>2, <2>4, <2>5, <2>6, <2>7
<1>2. CASE PollPlan \/ Create \/ CreateUnanswered
  <2>1. released' = Nil
    BY <1>2 DEF PollPlan, Create, CreateUnanswered, PlaceInv
  <2> QED
    BY <2>1 DEF AddInstallsWhatItShowed
<1>3. CASE Others
  BY <1>3 DEF Others, AddInstallsWhatItShowed
<1>4. CASE Bystanding \/ CacheCatches \/ OperatorStep \/ UNCHANGED vars
  BY <1>4
     DEF Bystanding, Read, ReadFails, CreateFails, PollSees, PlanGone, PlanFails,
     PlanInterrupted, InstallFails, PollReady, ReadyFails, AnswerYes, AnswerNo, Signal,
     SecondSignal, GraceEnds, CacheCatches, OperatorStep, vars, ownVars,
     AddInstallsWhatItShowed
<1>5. CASE LateInstall /\ UNCHANGED <<resourceVars, released>>
  BY <1>5 DEF LateInstall, AddInstallsWhatItShowed
<1> QED
  BY <1>1, <1>2, <1>3, <1>4, <1>5
     DEF Next, Zae, Person, World, Bystanding, Install, InstallUnanswered, LateInstall

----------------------------------------------------------------------------
(* The invariant, and what follows from it. *)

\* The addon that an add (addon.go) may find: none, one planned, or one running.
LEMMA InitResource ==
  ASSUME Init, res # Nil
  PROVE  res \in Resources /\ res.uid = 0 /\ Sound(res)
<1>1. PICK c \in Charts :
        LET spec == [chart |-> c, values |-> {}, secrets |-> FALSE]
            plan == [spec |-> spec, ok |-> TRUE]
            new  == Created(0, spec)
        IN  res \in {Nil,
                     [new EXCEPT !.obs = 1, !.phase = "Planned", !.plan = plan],
                     [new EXCEPT !.suspended = FALSE, !.gen = 2, !.obs = 2,
                                 !.phase = "Ready", !.plan = plan,
                                 !.applied = spec, !.registered = TRUE]}
  BY DEF Init
<1> DEFINE spec == [chart |-> c, values |-> {}, secrets |-> FALSE]
           plan == [spec |-> spec, ok |-> TRUE]
           new  == Created(0, spec)
           planned == [new EXCEPT !.obs = 1, !.phase = "Planned", !.plan = plan]
           running == [new EXCEPT !.suspended = FALSE, !.gen = 2, !.obs = 2,
                                  !.phase = "Ready", !.plan = plan,
                                  !.applied = spec, !.registered = TRUE]
<1>2. spec \in Specs
  BY DEF Specs
<1>3. plan \in Plans /\ plan.spec = spec
  BY <1>2 DEF Plans
<1>4. new \in Resources /\ new.uid = 0 /\ new.spec = spec /\ new.gen = 1
  BY <1>2, CreatedFacts
<1>5. {"Ready", "Planned"} \subseteq Phases /\ {0, 1, 2} \subseteq Nat
  BY DEF Phases
<1> HIDE DEF spec, plan, new
<1>6. running \in Resources
  BY <1>2, <1>3, <1>4, <1>5, Zenon DEF Resources
<1>7. planned \in Resources
  BY <1>2, <1>3, <1>4, <1>5, Zenon DEF Resources
<1>8. /\ running.uid = 0 /\ running.obs = 2 /\ running.gen = 2
      /\ running.spec = spec /\ running.plan = plan /\ running.applied = spec
  BY <1>4 DEF Resources
<1>9. /\ planned.uid = 0 /\ planned.obs = 1 /\ planned.gen = 1
      /\ planned.spec = spec /\ planned.plan = plan /\ planned.phase = "Planned"
  BY <1>4 DEF Resources
<1>10. res = running \/ res = planned
  BY <1>1, Zenon DEF spec, plan, new
<1> HIDE DEF running, planned
<1> QED
  BY <1>3, <1>6, <1>7, <1>8, <1>9, <1>10 DEF Sound

\* Before the add (addon.go) has done anything.
LEMMA InitInv == Init => IInv
<1> SUFFICES ASSUME Init PROVE IInv
  OBVIOUS
<1>1. /\ cached = res /\ op = Nil /\ foreign = 0 /\ mine = Nil /\ released = Nil
      /\ shown = Nil /\ wrote = 0 /\ pc = "read" /\ code = "none" /\ said = "nothing"
      /\ late = FALSE /\ touched = FALSE
  BY DEF Init
<1>2. res # Nil => res \in Resources /\ res.uid = 0 /\ Sound(res) /\ res.gen \in Nat
  BY InitResource DEF Resources
<1>3. TypeOK
  <2>1. ResourceTypeOK
    BY <1>1, <1>2 DEF ResourceTypeOK
  <2>2. /\ req \in Additions /\ inst = 0
        /\ {sig, grace, met, late, touched} \subseteq BOOLEAN
    BY DEF Init
  <2>3. {wrote, inst} \subseteq Nat
    BY <1>1, <2>2
  <2> QED
    BY <1>1, <1>2, <2>1, <2>2, <2>3 DEF TypeOK, Places, Codes, Sayings
<1>4. SoundInv /\ CachedInv
  BY <1>1, <1>2 DEF SoundInv, CachedInv
<1>5. UidInv
  BY <1>1, <1>2, ForeignAssumption DEF UidInv, Known
<1>6. PlaceInv
  BY <1>1 DEF PlaceInv
<1>7. MineInv /\ UntouchedInv /\ FreshInv /\ ReleasedInv
  BY <1>1 DEF MineInv, UntouchedInv, FreshInv, ReleasedInv
<1>8. AddShowsItsOwnPlan /\ AddInstallsWhatItShowed
  BY <1>1 DEF AddShowsItsOwnPlan, AddInstallsWhatItShowed
<1> QED
  BY <1>3, <1>4, <1>5, <1>6, <1>7, <1>8 DEF IInv

\* Every step of the command (addon.go, wait.go), the portal and others keeps it.
LEMMA StepInv == IInv /\ [Next]_vars => IInv'
BY TypeStep, SoundStep, UidStep, CachedStep, PlaceStep, MineStep, UntouchedStep,
   FreshStep, ReleasedStep, ShownStep, InstallsStep DEF IInv

\* The inductive invariant holds in every state an add (addon.go) can reach.
THEOREM Inductive == Spec => []IInv
BY InitInv, StepInv, PTL DEF Spec

\* The plan that zae addon add prints and asks about is the operator's plan of
\* what its own create made, however late the portal reads (planFor, wait.go).
THEOREM ShowsItsOwnPlan == Spec => []AddShowsItsOwnPlan
<1>1. IInv => AddShowsItsOwnPlan
  BY DEF IInv
<1> QED
  BY Inductive, <1>1, PTL

\* As long as nobody else writes after the create, what the install releases, on
\* time or late, is what was printed (addon.go).
THEOREM InstallsWhatItShowed == Spec => []AddInstallsWhatItShowed
<1>1. IInv => AddInstallsWhatItShowed
  BY DEF IInv
<1> QED
  BY Inductive, <1>1, PTL

\* An addon of which zae said that it stays planned is never released by zae, and
\* is planned as zae's create made it until someone else writes it (add, addon.go).
THEOREM Stays == Spec => []StaysPlanned
<1>1. IInv => StaysPlanned
  <2>1. SUFFICES ASSUME IInv, said = "stays", ~touched, mine.fresh
                 PROVE  /\ res # Nil /\ res.suspended /\ res.spec = mine.spec
                        /\ res.applied = Nil /\ released = Nil
    BY DEF StaysPlanned
  <2>2. mine # Nil /\ released = Nil
    BY <2>1 DEF IInv, PlaceInv
  <2> QED
    BY <2>1, <2>2 DEF IInv, UntouchedInv, FreshInv
<1> QED
  BY Inductive, <1>1, PTL

\* With --wait, exit 0 is given only for a reading in which the operator has
\* applied what this command's install released (readyFor, wait.go).
THEOREM OkIsInstalled == Spec => AddReadyIsWhatWasInstalled
<1>1. ASSUME IInv, [Next]_vars
      PROVE  [pc = "ready" /\ code' = "ok" /\ inst > 0 /\ cached.uid = released.uid
                => cached.applied = released.spec]_vars
  <2>1. SUFFICES ASSUME pc = "ready", code' = "ok", inst > 0,
                        cached.uid = released.uid
                 PROVE  cached.applied = released.spec
    OBVIOUS
  <2>2. code = "none"
    BY <1>1, <2>1 DEF IInv, PlaceInv
  <2>3. PollReady
    BY <1>1, <2>1, <2>2
       DEF Next, Zae, Person, World, Read, ReadFails, Create, CreateFails,
       CreateUnanswered, PollPlan, PollSees, PlanGone, PlanFails, PlanInterrupted, Install,
       InstallFails, InstallUnanswered, LateInstall, ReadyFails, AnswerYes, AnswerNo,
       Signal, SecondSignal, GraceEnds, CacheCatches, OperatorStep, Others, Exit, vars,
       ownVars
  <2>4. cached # Nil /\ ~Changed(cached, inst) /\ ReadyFor(cached, inst)
    BY <2>1, <2>3 DEF PollReady, Exit
  <2>5. cached.gen \in Nat /\ cached.obs \in Nat /\ inst \in Nat
    BY <1>1, <2>4 DEF IInv, TypeOK, Resources
  <2>6. Sound(cached)
    BY <1>1, <2>4 DEF IInv, CachedInv
  <2>7. cached.gen = inst /\ cached.obs = cached.gen
    BY <2>1, <2>4, <2>5, <2>6 DEF Changed, ReadyFor, Sound
  <2>8. cached.applied = cached.spec
    BY <2>4, <2>6, <2>7 DEF ReadyFor, Sound
  <2> QED
    BY <1>1, <2>1, <2>4, <2>7, <2>8 DEF IInv, ReleasedInv
<1> QED
  BY Inductive, <1>1, PTL DEF Spec, AddReadyIsWhatWasInstalled

============================================================================
