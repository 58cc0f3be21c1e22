--------------------------- MODULE AddonResource ---------------------------
(***************************************************************************)
(* The ZaentrumAddon resource that `zae addon add` and `zae addon upgrade` *)
(* write: what portal-api does with a write, and what the operator does    *)
(* with the resource.  Neither is part of this repository: both are        *)
(* modelled from how internal/addon uses them (portal.go, wait.go) and     *)
(* from the portal its tests stand in for (addon_test.go).                 *)
(*                                                                         *)
(*  - A write that changes the spec moves the generation; one that changes *)
(*    nothing does not.  A generation starts again at 1 when the resource  *)
(*    is deleted and created anew, which nothing in the API tells apart:   *)
(*    `uid` is kept here only to state properties with.                    *)
(*  - The operator reads the spec at one moment and writes the status it   *)
(*    makes of it at a later one; the status says the generation it was    *)
(*    made for.                                                            *)
(*  - Anyone else with the admin role may write at any time.               *)
(***************************************************************************)
EXTENDS Naturals

CONSTANTS
  Charts,       \* chart references, with version and digest
  Inputs,       \* the paths a values document can switch on
  Nil,          \* nothing: no resource, no plan, no snapshot
  MaxForeign    \* bound: writes by someone else

ASSUME ForeignAssumption == MaxForeign \in Nat

VARIABLES
  res,          \* the resource, or Nil
  op,           \* the spec the operator is working on, or Nil
  foreign       \* writes by someone else so far

resourceVars == <<res, op, foreign>>

\* secrets: the spec points at the Secret zae's upgrade wrote.
Specs == [chart : Charts, values : SUBSET Inputs, secrets : BOOLEAN]

Phases == {"none", "Planned", "PlanFailed", "Failed", "Installing", "Ready"}

Plans == [spec : Specs, ok : BOOLEAN]

Resources ==
  [uid : Nat, spec : Specs, suspended : BOOLEAN, gen : Nat, obs : Nat,
   phase : Phases, plan : Plans \cup {Nil}, applied : Specs \cup {Nil},
   registered : BOOLEAN]

Snapshots == [uid : Nat, gen : Nat, spec : Specs, suspended : BOOLEAN]

ASSUME NilAssumption == /\ Nil \notin Resources
                        /\ Nil \notin Specs
                        /\ Nil \notin Plans
                        /\ Nil \notin Snapshots

ResourceTypeOK ==
  /\ res \in Resources \cup {Nil}
  /\ op \in Snapshots \cup {Nil}
  /\ foreign \in Nat

----------------------------------------------------------------------------
(* portal-api's writes. *)

\* A merge of spec and suspension into r: the generation moves only when
\* something changed.  A write of secret inputs always changes the spec: it
\* points valuesFrom at a Secret made for it.
Merged(r, spec, suspended, newSecret) ==
  IF r.spec = spec /\ r.suspended = suspended /\ ~newSecret
  THEN r
  ELSE [r EXCEPT !.spec = spec, !.suspended = suspended, !.gen = @ + 1]

\* POST .../install answers 409 unless the plan is for the current generation
\* and nothing blocks it.
CanInstall(r) ==
  /\ r # Nil
  /\ r.plan # Nil
  /\ r.obs = r.gen
  /\ r.plan.ok

Installed(r) == Merged(r, r.spec, FALSE, FALSE)

Created(uid, spec) ==
  [uid |-> uid, spec |-> spec, suspended |-> TRUE, gen |-> 1, obs |-> 0,
   phase |-> "none", plan |-> Nil, applied |-> Nil, registered |-> FALSE]

----------------------------------------------------------------------------
(* The operator. *)

OperatorReads ==
  /\ res # Nil
  /\ op = Nil
  /\ res.obs # res.gen
  /\ op' = [uid |-> res.uid, gen |-> res.gen, spec |-> res.spec,
            suspended |-> res.suspended]
  /\ UNCHANGED <<res, foreign>>

\* The status for the spec it read: a plan while suspended, else the rollout.
Reconciled(r, snap, ok) ==
  [r EXCEPT
     !.obs = snap.gen,
     !.plan = [spec |-> snap.spec, ok |-> ok],
     !.phase = IF snap.suspended
               THEN IF ok THEN "Planned" ELSE "PlanFailed"
               ELSE IF ok THEN "Installing" ELSE "Failed",
     !.applied = IF ~snap.suspended /\ ok THEN snap.spec ELSE @,
     !.registered = IF ~snap.suspended /\ ok THEN FALSE ELSE @]

OperatorWrites ==
  /\ op # Nil
  /\ op' = Nil
  /\ IF res # Nil /\ res.uid = op.uid
     THEN \E ok \in BOOLEAN : res' = Reconciled(res, op, ok)
     ELSE UNCHANGED res
  /\ UNCHANGED foreign

RolloutEnds ==
  /\ res # Nil
  /\ res.phase = "Installing"
  /\ res' = [res EXCEPT !.phase = "Ready"]
  /\ UNCHANGED <<op, foreign>>

PortalRegisters ==
  /\ res # Nil
  /\ res.phase = "Ready"
  /\ ~res.registered
  /\ res' = [res EXCEPT !.registered = TRUE]
  /\ UNCHANGED <<op, foreign>>

Operator == OperatorReads \/ OperatorWrites \/ RolloutEnds \/ PortalRegisters

----------------------------------------------------------------------------
(* Someone else with the admin role: the console, kubectl, another zae. *)

ForeignPatch ==
  /\ res # Nil
  /\ \E c \in Charts, v \in SUBSET Inputs, s \in BOOLEAN :
       res' = Merged(res, [res.spec EXCEPT !.chart = c, !.values = v], s, FALSE)
  /\ res' # res

ForeignInstall ==
  /\ CanInstall(res)
  /\ res.suspended
  /\ res' = Installed(res)

ForeignRemove ==
  /\ res # Nil
  /\ res' = Nil

\* uid counts the writes of others, so that no two resources share one.
ForeignCreate ==
  /\ res = Nil
  /\ \E c \in Charts :
       res' = Created(foreign + 1, [chart |-> c, values |-> {}, secrets |-> FALSE])

ForeignWrite ==
  /\ foreign < MaxForeign
  /\ ForeignPatch \/ ForeignInstall \/ ForeignRemove \/ ForeignCreate
  /\ foreign' = foreign + 1
  /\ UNCHANGED op

============================================================================
