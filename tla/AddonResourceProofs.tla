------------------------ MODULE AddonResourceProofs ------------------------
(***************************************************************************)
(* What the writes of anyone make of the addon, and what a status the      *)
(* operator writes can be believed of: the facts that the theorems about   *)
(* an upgrade and an add rest on.                                          *)
(***************************************************************************)
EXTENDS AddonResource, TLAPS

----------------------------------------------------------------------------
(* The operators the writes are made of. *)

\* m is r after one write of its spec, or r itself.
Written(r, m) ==
  /\ m \in Resources
  /\ m.uid = r.uid /\ m.obs = r.obs /\ m.phase = r.phase /\ m.plan = r.plan
  /\ m.applied = r.applied
  /\ m = r \/ m.gen = r.gen + 1
  /\ m.gen \in Nat /\ r.gen \in Nat

\* What a merge returns: the spec and suspension asked for, in a resource that
\* is otherwise the same, one generation later unless nothing changed.
LEMMA MergedFacts ==
  ASSUME NEW r \in Resources, NEW spec \in Specs,
         NEW suspended \in BOOLEAN, NEW secret \in BOOLEAN
  PROVE  /\ Written(r, Merged(r, spec, suspended, secret))
         /\ Merged(r, spec, suspended, secret).spec = spec
         /\ Merged(r, spec, suspended, secret).suspended = suspended
         /\ r.suspended # suspended
              => Merged(r, spec, suspended, secret).gen = r.gen + 1
<1> DEFINE m == Merged(r, spec, suspended, secret)
<1>1. CASE r.spec = spec /\ r.suspended = suspended /\ ~secret
  <2>1. m = r
    BY <1>1 DEF Merged
  <2> QED
    BY <1>1, <2>1 DEF Written, Resources
<1>2. CASE ~(r.spec = spec /\ r.suspended = suspended /\ ~secret)
  <2>1. m = [r EXCEPT !.spec = spec, !.suspended = suspended, !.gen = r.gen + 1]
    BY <1>2, Zenon DEF Merged
  <2> HIDE DEF m
  <2>2. m.gen = r.gen + 1 /\ m.gen \in Nat /\ r.gen \in Nat
    BY <2>1 DEF Resources
  <2>3. r.gen + 1 \in Nat
    BY <2>2
  <2>4. m \in Resources
    BY <2>1, <2>3, Zenon DEF Resources
  <2>5. /\ m.spec = spec
        /\ m.uid = r.uid /\ m.obs = r.obs /\ m.phase = r.phase /\ m.plan = r.plan
        /\ m.applied = r.applied
    BY <2>1 DEF Resources
  <2>6. m.suspended = suspended
    BY <2>1, Zenon DEF Resources
  <2>7. Written(r, m)
    BY <2>2, <2>4, <2>5 DEF Written
  <2> QED
    BY <2>2, <2>5, <2>6, <2>7 DEF m
<1> QED
  BY <1>1, <1>2

\* What the operator's status does to a resource.
LEMMA ReconciledFacts ==
  ASSUME NEW r \in Resources, NEW snap \in Snapshots, NEW ok \in BOOLEAN,
         NEW m, m = Reconciled(r, snap, ok)
  PROVE  /\ m \in Resources
         /\ m.spec = r.spec /\ m.suspended = r.suspended
         /\ m.uid = r.uid /\ m.gen = r.gen
         /\ m.obs = snap.gen
         /\ m.plan.spec = snap.spec
BY DEF Reconciled, Resources, Snapshots, Plans, Phases

\* A resource just created.
LEMMA CreatedFacts ==
  ASSUME NEW uid \in Nat, NEW spec \in Specs
  PROVE  /\ Created(uid, spec) \in Resources
         /\ Created(uid, spec).uid = uid
         /\ Created(uid, spec).spec = spec
         /\ Created(uid, spec).gen = 1 /\ Created(uid, spec).obs = 0
         /\ Created(uid, spec).plan = Nil
BY DEF Created, Resources, Phases

\* An install only lifts the suspension.
LEMMA InstalledFacts ==
  ASSUME NEW r \in Resources
  PROVE  /\ Written(r, Installed(r))
         /\ Installed(r).spec = r.spec
         /\ r.suspended => Installed(r).gen = r.gen + 1
<1>1. r.spec \in Specs /\ r.suspended \in BOOLEAN
  BY DEF Resources
<1> QED
  BY <1>1, MergedFacts DEF Installed

\* What another administrator writes is a resource again.
LEMMA ForeignPatchFacts ==
  ASSUME ResourceTypeOK, ForeignPatch
  PROVE  /\ res # Nil /\ Written(res, res')
         /\ res'.gen = res.gen + 1
<1>1. PICK c \in Charts, v \in SUBSET Inputs, s \in BOOLEAN :
        res' = Merged(res, [res.spec EXCEPT !.chart = c, !.values = v], s, FALSE)
  BY DEF ForeignPatch
<1>2. res # Nil /\ res' # res /\ res \in Resources /\ res.spec \in Specs
  BY DEF ForeignPatch, ResourceTypeOK, Resources
<1>3. [res.spec EXCEPT !.chart = c, !.values = v] \in Specs
  BY <1>2, Zenon DEF Specs
<1>4. Written(res, res')
  BY <1>1, <1>2, <1>3, MergedFacts, Zenon
<1> QED
  BY <1>2, <1>4 DEF Written

\* What the operator and the others do to the resource.
LEMMA OperatorFacts ==
  ASSUME ResourceTypeOK, Operator
  PROVE  /\ ResourceTypeOK'
         /\ foreign' = foreign
         /\ res # Nil <=> res' # Nil
         /\ res # Nil => /\ res'.uid = res.uid /\ res'.gen = res.gen
                         /\ res'.spec = res.spec /\ res'.suspended = res.suspended
<1>1. CASE OperatorReads
  <2>1. res # Nil /\ res \in Resources /\ res' = res /\ foreign' = foreign
    BY <1>1 DEF OperatorReads, ResourceTypeOK
  <2>2. op' = [uid |-> res.uid, gen |-> res.gen, spec |-> res.spec,
               suspended |-> res.suspended]
    BY <1>1 DEF OperatorReads
  <2>3. op' \in Snapshots
    BY <2>1, <2>2, Zenon DEF Snapshots, Resources
  <2> QED
    BY <2>1, <2>3 DEF ResourceTypeOK
<1>2. CASE OperatorWrites
  <2>1. op \in Snapshots /\ op' = Nil /\ foreign' = foreign
    BY <1>2 DEF OperatorWrites, ResourceTypeOK
  <2>2. CASE res # Nil /\ res.uid = op.uid
    <3>1. PICK ok \in BOOLEAN : res' = Reconciled(res, op, ok)
      BY <1>2, <2>2 DEF OperatorWrites
    <3>2. res \in Resources
      BY <2>2 DEF ResourceTypeOK
    <3>3. /\ res' \in Resources
          /\ res'.uid = res.uid /\ res'.gen = res.gen
          /\ res'.spec = res.spec /\ res'.suspended = res.suspended
      BY <2>1, <3>1, <3>2, ReconciledFacts
    <3> QED
      BY <2>1, <2>2, <3>3, NilAssumption DEF ResourceTypeOK
  <2>3. CASE ~(res # Nil /\ res.uid = op.uid)
    BY <1>2, <2>1, <2>3 DEF OperatorWrites, ResourceTypeOK
  <2> QED
    BY <2>2, <2>3
<1>3. CASE RolloutEnds \/ PortalRegisters
  <2>1. /\ res # Nil /\ res \in Resources /\ op' = op /\ foreign' = foreign
        /\ \/ res' = [res EXCEPT !.phase = "Ready"]
           \/ res' = [res EXCEPT !.registered = TRUE]
    BY <1>3 DEF RolloutEnds, PortalRegisters, ResourceTypeOK
  <2>2. res' \in Resources
    BY <2>1, Zenon DEF Resources, Phases
  <2>3. /\ res'.uid = res.uid /\ res'.gen = res.gen
        /\ res'.spec = res.spec /\ res'.suspended = res.suspended
    BY <2>1 DEF Resources
  <2> QED
    BY <2>1, <2>2, <2>3, NilAssumption DEF ResourceTypeOK
<1> QED
  BY <1>1, <1>2, <1>3 DEF Operator

\* What another administrator's write leaves of the resource and of the history.
LEMMA ForeignFacts ==
  ASSUME ResourceTypeOK, ForeignWrite
  PROVE  /\ ResourceTypeOK'
         /\ op' = op /\ foreign' = foreign + 1
         /\ \/ /\ res # Nil /\ Written(res, res') /\ res' # Nil
               /\ res'.gen = res.gen + 1
            \/ res' = Nil
            \/ /\ res = Nil /\ res' # Nil
               /\ res'.uid = foreign + 1 /\ res'.gen = 1 /\ res'.obs = 0
               /\ res'.plan = Nil
<1>1. op' = op /\ foreign' = foreign + 1 /\ foreign \in Nat
  BY DEF ForeignWrite, ResourceTypeOK
<1>2. foreign' \in Nat
  BY <1>1
<1>3. CASE ForeignPatch
  <2>1. res # Nil /\ Written(res, res') /\ res'.gen = res.gen + 1
    BY <1>3, ForeignPatchFacts
  <2>2. res' \in Resources /\ res' # Nil
    BY <2>1, NilAssumption DEF Written
  <2> QED
    BY <1>1, <1>2, <2>1, <2>2 DEF ResourceTypeOK
<1>4. CASE ForeignInstall
  <2>1. res # Nil /\ res' = Installed(res) /\ res.suspended
    BY <1>4 DEF ForeignInstall, CanInstall
  <2>2. /\ Written(res, res') /\ res'.spec = res.spec
        /\ res'.gen = res.gen + 1
    BY <2>1, InstalledFacts DEF ResourceTypeOK
  <2>3. res' \in Resources /\ res' # Nil
    BY <2>2, NilAssumption DEF Written
  <2> QED
    BY <1>1, <1>2, <2>1, <2>2, <2>3 DEF ResourceTypeOK
<1>5. CASE ForeignRemove
  BY <1>1, <1>2, <1>5 DEF ForeignRemove, ResourceTypeOK
<1>6. CASE ForeignCreate
  <2>1. PICK c \in Charts :
          res' = Created(foreign + 1, [chart |-> c, values |-> {}, secrets |-> FALSE])
    BY <1>6 DEF ForeignCreate
  <2>2. [chart |-> c, values |-> {}, secrets |-> FALSE] \in Specs
    BY DEF Specs
  <2>3. /\ res' \in Resources
        /\ res'.uid = foreign + 1 /\ res'.gen = 1 /\ res'.obs = 0
        /\ res'.plan = Nil
    BY <1>1, <1>2, <2>1, <2>2, CreatedFacts
  <2>4. res = Nil
    BY <1>6 DEF ForeignCreate
  <2> QED
    BY <1>1, <1>2, <2>3, <2>4, NilAssumption DEF ResourceTypeOK
<1> QED
  BY <1>3, <1>4, <1>5, <1>6 DEF ForeignWrite

\* The status of a spec that is not suspended is of its release; that of a
\* suspended one leaves what is released alone (Reconciled).
LEMMA ReconciledRelease ==
  ASSUME NEW r \in Resources, NEW snap \in Snapshots, NEW ok \in BOOLEAN,
         NEW m, m = Reconciled(r, snap, ok)
  PROVE  /\ m.phase \in {"Installing", "Ready"} => m.applied = snap.spec
         /\ snap.suspended => m.applied = r.applied
BY DEF Reconciled, Resources, Snapshots

----------------------------------------------------------------------------
(* What a status says. *)

\* A status is of a generation there was; the plan of the present one is of the
\* present spec, and a release of it too.
Sound(r) ==
  /\ r.obs <= r.gen
  /\ r.obs = r.gen /\ r.plan # Nil => r.plan.spec = r.spec
  /\ r.obs = r.gen /\ ~r.suspended /\ r.phase \in {"Installing", "Ready"}
       => r.applied = r.spec

\* What the operator is working on is, or was, so.
SoundInv ==
  /\ res # Nil => Sound(res)
  /\ res # Nil /\ op # Nil /\ op.uid = res.uid =>
       /\ op.gen <= res.gen
       /\ op.gen = res.gen => op.spec = res.spec /\ (op.suspended <=> res.suspended)

\* Anyone's write of the spec leaves the status behind (Merged).
LEMMA WrittenSound ==
  ASSUME NEW r \in Resources, NEW m, Written(r, m), Sound(r)
  PROVE  Sound(m)
<1>1. r.obs \in Nat /\ r.gen \in Nat
  BY DEF Resources
<1>2. CASE m = r
  BY <1>2
<1>3. CASE m.gen = r.gen + 1
  BY <1>1, <1>3 DEF Written, Sound
<1> QED
  BY <1>2, <1>3 DEF Written

\* A write of the spec while the operator works.
LEMMA WriteKeepsSound ==
  ASSUME ResourceTypeOK, SoundInv, res # Nil, Written(res, res'), op' = op
  PROVE  SoundInv'
<1>1. res \in Resources /\ res.gen \in Nat /\ (op # Nil => op.gen \in Nat)
  BY DEF ResourceTypeOK, Resources, Snapshots
<1>2. Sound(res')
  BY <1>1, WrittenSound DEF SoundInv
<1>3. CASE res' = res
  BY <1>3 DEF SoundInv
<1>4. CASE res'.gen = res.gen + 1
  BY <1>1, <1>2, <1>4 DEF SoundInv, Written
<1> QED
  BY <1>3, <1>4 DEF Written

\* The operator's own steps (OperatorReads, OperatorWrites).
LEMMA OperatorKeepsSound ==
  ASSUME ResourceTypeOK, SoundInv, Operator
  PROVE  SoundInv'
<1>0. /\ res # Nil => res \in Resources /\ res.gen \in Nat /\ res.obs \in Nat
      /\ op # Nil => op \in Snapshots /\ op.gen \in Nat
  BY DEF ResourceTypeOK, Resources, Snapshots
<1>1. CASE OperatorReads
  <2>1. res' = res /\ res # Nil
        /\ op' = [uid |-> res.uid, gen |-> res.gen, spec |-> res.spec,
                  suspended |-> res.suspended]
    BY <1>1 DEF OperatorReads
  <2>2. Sound(res)
    BY <2>1 DEF SoundInv
  <2>3. op'.gen = res.gen /\ op'.spec = res.spec /\ (op'.suspended <=> res.suspended)
    BY <2>1
  <2> QED
    BY <1>0, <2>1, <2>2, <2>3 DEF SoundInv
<1>2. CASE OperatorWrites
  <2>1. op # Nil /\ op' = Nil
    BY <1>2 DEF OperatorWrites
  <2>2. CASE res # Nil /\ res.uid = op.uid
    <3>1. PICK ok \in BOOLEAN : res' = Reconciled(res, op, ok)
      BY <1>2, <2>2 DEF OperatorWrites
    <3>2. /\ res'.gen = res.gen /\ res'.spec = res.spec
          /\ res'.obs = op.gen /\ res'.plan.spec = op.spec
      BY <1>0, <2>1, <2>2, <3>1, ReconciledFacts
    <3>3. res'.phase \in {"Installing", "Ready"} => res'.applied = op.spec
      BY <1>0, <2>1, <2>2, <3>1, ReconciledRelease
    <3>4. op.gen <= res.gen /\ (op.gen = res.gen => op.spec = res.spec)
      BY <2>1, <2>2 DEF SoundInv
    <3>5. Sound(res')
      BY <3>2, <3>3, <3>4 DEF Sound
    <3> QED
      BY <2>1, <3>5 DEF SoundInv
  <2>3. CASE ~(res # Nil /\ res.uid = op.uid)
    BY <1>2, <2>1, <2>3 DEF OperatorWrites, SoundInv
  <2> QED
    BY <2>2, <2>3
<1>3. CASE RolloutEnds \/ PortalRegisters
  <2>1. /\ res # Nil /\ op' = op /\ res.phase \in {"Installing", "Ready"}
        /\ \/ res' = [res EXCEPT !.phase = "Ready"]
           \/ res' = [res EXCEPT !.registered = TRUE]
    BY <1>3 DEF RolloutEnds, PortalRegisters
  <2>2. /\ res'.uid = res.uid /\ res'.gen = res.gen /\ res'.obs = res.obs
        /\ res'.spec = res.spec /\ res'.plan = res.plan /\ res'.applied = res.applied
    BY <1>0, <2>1 DEF Resources
  <2>3. res'.suspended = res.suspended
    BY <1>0, <2>1 DEF Resources
  <2>4. Sound(res')
    BY <2>1, <2>2, <2>3 DEF Sound, SoundInv
  <2> QED
    BY <2>1, <2>2, <2>3, <2>4 DEF SoundInv
<1> QED
  BY <1>1, <1>2, <1>3 DEF Operator

\* Of a suspended addon the operator releases nothing.
LEMMA OperatorReleases ==
  ASSUME ResourceTypeOK, Operator, res # Nil, res.suspended,
         op # Nil /\ op.uid = res.uid => op.suspended
  PROVE  /\ res'.applied = res.applied
         /\ op' # Nil /\ op'.uid = res'.uid => op'.suspended
<1>0. res \in Resources /\ (op # Nil => op \in Snapshots)
  BY DEF ResourceTypeOK
<1>1. CASE OperatorReads
  BY <1>1 DEF OperatorReads
<1>2. CASE OperatorWrites
  <2>1. op # Nil /\ op' = Nil
    BY <1>2 DEF OperatorWrites
  <2>2. CASE res.uid = op.uid
    <3>1. PICK ok \in BOOLEAN : res' = Reconciled(res, op, ok)
      BY <1>2, <2>2 DEF OperatorWrites
    <3> QED
      BY <1>0, <2>1, <2>2, <3>1, ReconciledRelease
  <2>3. CASE res.uid # op.uid
    BY <1>2, <2>1, <2>3 DEF OperatorWrites
  <2> QED
    BY <2>2, <2>3
<1>3. CASE RolloutEnds \/ PortalRegisters
  <2>1. /\ op' = op
        /\ \/ res' = [res EXCEPT !.phase = "Ready"]
           \/ res' = [res EXCEPT !.registered = TRUE]
    BY <1>3 DEF RolloutEnds, PortalRegisters
  <2>2. res'.uid = res.uid /\ res'.applied = res.applied
    BY <1>0, <2>1 DEF Resources
  <2> QED
    BY <2>1, <2>2
<1> QED
  BY <1>1, <1>2, <1>3 DEF Operator

\* Writes of others; the addon they create is none the operator knows.
LEMMA OthersKeepSound ==
  ASSUME ResourceTypeOK, SoundInv, ForeignWrite, op # Nil => op.uid # foreign + 1
  PROVE  SoundInv'
<1>1. CASE res # Nil /\ Written(res, res')
  BY <1>1, ForeignFacts, WriteKeepsSound
<1>2. CASE res' = Nil
  BY <1>2 DEF SoundInv
<1>3. CASE res' # Nil /\ res'.uid = foreign + 1 /\ res'.gen = 1 /\ res'.obs = 0
  BY <1>3, ForeignFacts DEF SoundInv, Sound
<1> QED
  BY <1>1, <1>2, <1>3, ForeignFacts

============================================================================
