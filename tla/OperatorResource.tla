-------------------------- MODULE OperatorResource --------------------------
(***************************************************************************)
(* The resource a platform is declared in, the operator that acts on it,   *)
(* the workloads it renders, the verifications it runs, and the console    *)
(* portal-api makes of all that (internal/platform/portal.go).  All of it  *)
(* is external: it does what the tests' portal does, and what the comments *)
(* of the DTOs say of the operator.                                        *)
(*                                                                         *)
(* A console is one moment's picture, served for as long as the portal     *)
(* likes; the list of workloads may be missing from it.                    *)
(***************************************************************************)
EXTENDS Integers

CONSTANTS
  Versions,     \* image tags
  Latest,       \* no version pinned: what the channel serves
  Channels,
  Workloads,    \* those the operator manages
  Nil,
  MaxForeign,   \* bound: writes and requests by others
  Portals       \* the ages of the portal: "current", "older"

ASSUME PlatformAssumption ==
  /\ Latest \notin Versions
  /\ Nil \notin Versions \cup {Latest}
  /\ MaxForeign \in Nat
  /\ Portals \subseteq {"current", "older"}

VARIABLES
  portal,       \* how old the portal is
  res,          \* the resource's spec
  status,       \* what the operator reports on it
  acted,        \* the generation and the version the operator rendered last
  work,         \* the workloads
  verif,        \* the request that waits, and the last run
  tokens,       \* how many requests for a verification there have been
  console,      \* what the portal answers a read with
  foreign       \* how much of MaxForeign is used

platformVars == <<portal, res, status, acted, work, verif, tokens, console, foreign>>

Modes == {"auto", "manual"}
Results == {"Running", "Passed", "Failed", "Skipped", "Error"}
Tokens == 0..(MaxForeign + 1)

ResourceSpecs ==
  [version : Versions \cup {Latest}, channel : Channels, mode : Modes, gen : Nat]
Statuses == [obs : Nat, running : Versions, update : Versions \cup {Nil}]
Renderings == [version : Versions, rolled : BOOLEAN]
Verifications ==
  [pending : Tokens, request : Tokens, result : Results \cup {Nil}, of : Nat]

PlatformTypeOK ==
  /\ portal \in Portals
  /\ res \in ResourceSpecs
  /\ status \in Statuses
  /\ acted \in [gen : Nat, version : Versions]
  /\ work \in [Workloads -> Renderings]
  /\ verif \in Verifications
  /\ tokens \in Tokens
  /\ console.status \in Statuses
  /\ console.verif \in Verifications
  /\ \A w \in DOMAIN console.work : console.work[w] \in Renderings
  /\ foreign \in 0..MaxForeign

----------------------------------------------------------------------------
(* What the portal serves. *)

Picture(ws) ==
  [status |-> status, verif |-> verif,
   work |-> [w \in ws |-> work[w]], error |-> ws # Workloads]

\* The workloads cannot be listed: the console says so, and lists none.
PortalCatches == \E ws \in {Workloads, {}} : console' = Picture(ws)

\* A generation in a console, or in the answer to a write; an older portal
\* reports none.
Reported(n) == IF portal = "older" THEN 0 ELSE n

----------------------------------------------------------------------------
(* Writes.  Fields of a patch that are Nil are not sent. *)

PatchedSpec(patch) ==
  [version |-> IF patch.version = Nil THEN res.version ELSE patch.version,
   channel |-> IF patch.channel = Nil THEN res.channel ELSE patch.channel,
   mode    |-> IF patch.mode = Nil THEN res.mode ELSE patch.mode,
   gen     |-> res.gen + 1]

\* POST .../apply-update: a portal that knows the field refuses a version that
\* is not the one on the shelf.
Applies(version) ==
  /\ status.update # Nil
  /\ portal = "current" /\ version # Nil => version = status.update

AppliedSpec == [res EXCEPT !.version = status.update, !.gen = @ + 1]

\* POST .../verify: a request that waits already is the answer.
RequestedToken == IF verif.pending # 0 THEN verif.pending ELSE tokens + 1

----------------------------------------------------------------------------
(* The operator. *)

\* Reconcile renders the spec: what changes starts to roll.
OperatorRenders ==
  /\ acted.gen # res.gen
  /\ \E v \in IF res.version = Latest THEN Versions ELSE {res.version} :
       /\ acted' = [gen |-> res.gen, version |-> v]
       /\ work' = [w \in Workloads |->
                     IF work[w].version = v THEN work[w] ELSE [version |-> v, rolled |-> FALSE]]
  /\ UNCHANGED <<res, status, verif, tokens>>

\* and then writes its status.
OperatorReports ==
  /\ status' = [obs |-> acted.gen, running |-> acted.version,
                update |-> IF status.update = acted.version THEN Nil ELSE status.update]
  /\ UNCHANGED <<res, acted, work, verif, tokens>>

OperatorLooks ==
  /\ \E v \in (Versions \cup {Nil}) \ {status.running} : status' = [status EXCEPT !.update = v]
  /\ UNCHANGED <<res, acted, work, verif, tokens>>

WorkloadRolls ==
  /\ \E w \in Workloads :
       /\ ~work[w].rolled
       /\ work' = [work EXCEPT ![w].rolled = TRUE]
  /\ UNCHANGED <<res, status, acted, verif, tokens>>

\* A run after a rollout, or the one asked for; one at a time.
VerificationStarts ==
  /\ verif.result # "Running"
  /\ verif' \in {[verif EXCEPT !.request = 0, !.result = "Running", !.of = acted.gen]}
                \cup (IF verif.pending = 0 THEN {}
                      ELSE {[pending |-> 0, request |-> verif.pending,
                             result |-> "Running", of |-> acted.gen]})
  /\ UNCHANGED <<res, status, acted, work, tokens>>

VerificationEnds ==
  /\ verif.result = "Running"
  /\ \E r \in Results \ {"Running"} : verif' = [verif EXCEPT !.result = r]
  /\ UNCHANGED <<res, status, acted, work, tokens>>

Operator ==
  \/ OperatorRenders
  \/ OperatorReports
  \/ OperatorLooks
  \/ WorkloadRolls

Verifier == VerificationStarts \/ VerificationEnds

----------------------------------------------------------------------------
(* Other administrators. *)

ForeignUpdate ==
  /\ \E v \in Versions \cup {Latest} : res' = [res EXCEPT !.version = v, !.gen = @ + 1]
  /\ UNCHANGED <<status, acted, work, verif, tokens>>

ForeignVerify ==
  /\ tokens' = IF verif.pending # 0 THEN tokens ELSE tokens + 1
  /\ verif' = [verif EXCEPT !.pending = RequestedToken]
  /\ UNCHANGED <<res, status, acted, work>>

Foreign(write) ==
  /\ foreign < MaxForeign
  /\ foreign' = foreign + 1
  /\ write
  /\ UNCHANGED console

PlatformInit ==
  /\ portal \in Portals
  /\ \E v \in Versions, u \in Versions \cup {Nil}, p \in {TRUE, FALSE} :
       /\ u # v
       /\ \E c \in Channels :
            res = [version |-> IF p THEN v ELSE Latest, channel |-> c, mode |-> "manual", gen |-> 1]
       /\ status = [obs |-> 1, running |-> v, update |-> u]
       /\ acted = [gen |-> 1, version |-> v]
       /\ work = [w \in Workloads |-> [version |-> v, rolled |-> TRUE]]
  /\ verif = [pending |-> 0, request |-> 0, result |-> Nil, of |-> 0]
  /\ tokens = 0
  /\ console = Picture(Workloads)
  /\ foreign = 0

=============================================================================
