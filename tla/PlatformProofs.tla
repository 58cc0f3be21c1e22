--------------------------- MODULE PlatformProofs ---------------------------
(***************************************************************************)
(* What PlatformCommands promises, proved for every number of versions, of *)
(* workloads and of writes by others.                                      *)
(*                                                                         *)
(* The argument has three layers.  The operator only moves on (Moves): it  *)
(* reports what it rendered, and no console is ahead of it; a request for  *)
(* a verification has a token of its own (OwnTokens).  An update that      *)
(* waits knows the generation it made, and the spec is what it wrote until *)
(* somebody else writes (Bears); a console that would settle its wait was  *)
(* therefore taken when all was so (Seen).  A verification that waits has  *)
(* seen its run end before any console shows that (Follows).               *)
(***************************************************************************)
EXTENDS PlatformCommands, TLAPS

Moves ==
  /\ 1 <= status.obs /\ status.obs <= acted.gen /\ acted.gen <= res.gen
  /\ status.obs = acted.gen => status.running = acted.version
  /\ \A w \in Workloads : work[w].version = acted.version
  /\ acted.gen = res.gen => res.version \in {Latest, acted.version}
  /\ 1 <= console.status.obs /\ console.status.obs <= acted.gen

OwnTokens ==
  /\ verif.pending <= tokens /\ verif.request <= tokens /\ console.verif.request <= tokens
  /\ verif.pending # 0 =>
       verif.request # verif.pending /\ console.verif.request # verif.pending
  /\ tokens <= foreign + (IF vpc \in {"read", "ask"} THEN 0 ELSE 1)

PlatformInv == PlatformTypeOK /\ Moves /\ OwnTokens

Before ==
  /\ upc # "done" => ucode = "none" /\ vpc = "read"
  /\ upc \in {"read", "patch", "apply"} => pinned = Nil
  /\ upc \in {"read", "patch"} => made = 0
  /\ upc \in {"patch", "apply"} /\ flags.apply => shelf # Nil
  /\ upc = "apply" => flags.apply
  /\ upc = "read" => ~exact
  /\ exact => portal = "current"

Bears ==
  /\ made <= res.gen
  /\ upc # "done" => wrote = Reported(made)
  /\ made # 0 /\ ~touched => res.gen = made
  /\ upc = "wait" => made # 0
  /\ upc = "wait" /\ portal = "current" /\ ~touched /\ Target # Nil => res.version = Target

Seen == upc = "wait" /\ exact /\ wrote # 0 /\ ~touched /\ Reconciled(console) => complete

UpdateInv ==
  /\ UpdateTypeOK
  /\ Before
  /\ Bears
  /\ Seen
  /\ AppliesWhatWasDecided
  /\ UpdateOkSawIt
  /\ covers \in Nat /\ covers <= acted.gen

Follows ==
  /\ vpc # "done" => got = Nil
  /\ vpc \in {"read", "ask"} => ran = NoRun
  /\ vpc = "wait" =>
       /\ 1 <= token
       /\ verif.request = token =>
            ran = [of |-> verif.of, result |-> verif.result] /\ covers <= verif.of
       /\ Answers(console.verif) =>
            /\ ran.result = console.verif.result
            /\ verif.request = token => verif.result = console.verif.result
  /\ ran # NoRun => covers <= ran.of

VerifyInv ==
  /\ VerifyTypeOK
  /\ Follows
  /\ ReportsItsOwnRun
  /\ VerifiesTheUpdate

Inv == PlatformInv /\ UpdateInv /\ VerifyInv

----------------------------------------------------------------------------
(* What the steps leave alone. *)

\* The portal is of one age all along (portal.go).
LEMMA PortalAges ==
  ASSUME PlatformTypeOK
  PROVE  portal \in {"current", "older"}
BY PlatformAssumption DEF PlatformTypeOK

\* The numbers that are compared are numbers (generations and tokens, portal.go).
LEMMA Numbers ==
  ASSUME PlatformTypeOK
  PROVE  /\ res.gen \in Nat /\ acted.gen \in Nat /\ status.obs \in Nat
         /\ console.status.obs \in Nat
         /\ verif.pending \in Nat /\ verif.request \in Nat /\ verif.of \in Nat
         /\ console.verif.request \in Nat
         /\ tokens \in Nat /\ foreign \in Nat /\ MaxForeign \in Nat
BY PlatformAssumption
   DEF PlatformTypeOK, ResourceSpecs, Statuses, Verifications, Tokens

\* Steps of the update that do not touch the platform keep what is known of it
\* (requireOperator and waitVersion of platform.go).
LEMMA PlatformKept ==
  ASSUME PlatformInv, UNCHANGED <<platformVars, vpc>>
  PROVE  PlatformInv'
<1>1. PlatformTypeOK'
  BY DEF PlatformInv, PlatformTypeOK, platformVars
<1>2. Moves'
  BY DEF PlatformInv, Moves, platformVars
<1>3. OwnTokens'
  BY DEF PlatformInv, OwnTokens, platformVars
<1> QED
  BY <1>1, <1>2, <1>3 DEF PlatformInv

\* Steps of the update keep what is known of the verification that has not begun
\* (PlatformCommands: the one follows the other).
LEMMA VerifyNotBegun ==
  ASSUME Inv, upc # "done", UNCHANGED verifyVars
  PROVE  VerifyInv'
<1>1. vpc = "read" /\ got = Nil /\ ran = NoRun
  BY DEF Inv, UpdateInv, Before, VerifyInv, Follows
<1>2. VerifyTypeOK'
  BY DEF Inv, VerifyInv, VerifyTypeOK, verifyVars
<1> QED
  BY <1>1, <1>2
     DEF VerifyInv, verifyVars, Follows, ReportsItsOwnRun, VerifiesTheUpdate

\* Steps of the verification keep what is known of the update that ended (PlatformCommands).
LEMMA UpdateKept ==
  ASSUME Inv, upc = "done", UNCHANGED <<updateVars, covers, portal>>,
         res' = res, acted'.gen >= acted.gen, acted'.gen \in Nat
  PROVE  UpdateInv'
<1>0. /\ UNCHANGED <<upc, flags, shelf, exact, wrote, ucode, pinned, made, touched, complete>>
      /\ covers \in Nat /\ covers <= acted.gen /\ acted.gen \in Nat
  BY Numbers DEF updateVars, Inv, PlatformInv, UpdateInv
<1>1. UpdateTypeOK'
  BY <1>0 DEF Inv, UpdateInv, UpdateTypeOK
<1>2. Before'
  BY <1>0 DEF Inv, UpdateInv, Before
<1>3. Bears'
  BY <1>0 DEF Inv, UpdateInv, Bears
<1>4. (Seen /\ AppliesWhatWasDecided /\ UpdateOkSawIt)'
  BY <1>0 DEF Inv, UpdateInv, Seen, AppliesWhatWasDecided, UpdateOkSawIt
<1>5. covers' \in Nat /\ covers' <= acted'.gen
  BY <1>0
<1> QED
  BY <1>1, <1>2, <1>3, <1>4, <1>5 DEF UpdateInv

----------------------------------------------------------------------------
(* The first state. *)

\* A platform that is as its resource says, before either command (PlatformInit, UpdateInit,
\* VerifyInit).
LEMMA InvInit == Init => Inv
<1> SUFFICES ASSUME Init
             PROVE  Inv
  OBVIOUS
<1> USE PlatformAssumption
<1>1. PICK v \in Versions, u \in Versions \cup {Nil} :
        /\ \E c \in Channels, p \in {TRUE, FALSE} :
             res = [version |-> IF p THEN v ELSE Latest, channel |-> c, mode |-> "manual", gen |-> 1]
        /\ status = [obs |-> 1, running |-> v, update |-> u]
        /\ acted = [gen |-> 1, version |-> v]
        /\ work = [w \in Workloads |-> [version |-> v, rolled |-> TRUE]]
  BY DEF Init, PlatformInit
<1>2. /\ portal \in Portals
      /\ verif = [pending |-> 0, request |-> 0, result |-> Nil, of |-> 0]
      /\ tokens = 0 /\ foreign = 0
      /\ console.status = status /\ console.verif = verif
      /\ console.work = [w \in Workloads |-> work[w]]
  BY DEF Init, PlatformInit, Picture
<1>3. PlatformTypeOK
  <2>1. res \in ResourceSpecs /\ res.gen = 1 /\ res.version \in {Latest, v}
    BY <1>1 DEF ResourceSpecs, Modes
  <2>2. status \in Statuses /\ acted \in [gen : Nat, version : Versions]
    BY <1>1 DEF Statuses
  <2>3. work \in [Workloads -> Renderings]
    BY <1>1 DEF Renderings
  <2>4. verif \in Verifications /\ tokens \in Tokens /\ foreign \in 0..MaxForeign
    BY <1>2 DEF Verifications, Tokens
  <2>5. \A w \in DOMAIN console.work : console.work[w] \in Renderings
    BY <1>2, <2>3
  <2> QED
    BY <1>2, <2>1, <2>2, <2>3, <2>4, <2>5 DEF PlatformTypeOK
<1>4. Moves
  BY <1>1, <1>2 DEF Moves
<1>5. OwnTokens
  BY <1>2 DEF OwnTokens
<1>6. UpdateInv
  <2>1. UpdateTypeOK
    BY DEF Init, UpdateInit, UpdateTypeOK
  <2>2. Before
    BY DEF Init, UpdateInit, VerifyInit, Before
  <2>3. Bears
    BY <1>1 DEF Init, UpdateInit, Bears, Reported
  <2> QED
    BY <1>1, <2>1, <2>2, <2>3
       DEF Init, UpdateInit, UpdateInv, Seen, AppliesWhatWasDecided, UpdateOkSawIt
<1>7. VerifyInv
  <2>1. VerifyTypeOK
    BY DEF Init, VerifyInit, VerifyTypeOK, NoRun, Tokens
  <2> QED
    BY <2>1 DEF Init, VerifyInit, VerifyInv, Follows, ReportsItsOwnRun, VerifiesTheUpdate
<1> QED
  BY <1>3, <1>4, <1>5, <1>6, <1>7 DEF Inv, PlatformInv

----------------------------------------------------------------------------
(* The update. *)

\* An update that ends without a word of success leaves nothing to show (the failures of
\* platform.go:400-463).
LEMMA UpdateEnds ==
  ASSUME Inv, upc # "done",
         UNCHANGED <<flags, shelf, exact, pinned, touched, complete, portal>>,
         NEW c \in {"asked", "notOffered", "refused", "failed"},
         upc' = "done", ucode' = c,
         c = "refused" => pinned = Nil,
         wrote' \in Nat, made' \in Nat, made' <= res'.gen,
         made' # 0 /\ ~touched => res'.gen = made',
         covers' = covers, acted' = acted
  PROVE  UpdateInv'
<1>1. UpdateTypeOK'
  BY DEF Inv, UpdateInv, UpdateTypeOK
<1>2. Before'
  BY DEF Inv, UpdateInv, Before
<1>3. Bears'
  BY DEF Bears
<1>4. AppliesWhatWasDecided'
  BY DEF Inv, UpdateInv, AppliesWhatWasDecided
<1>5. (Seen /\ UpdateOkSawIt)'
  BY DEF Seen, UpdateOkSawIt
<1> QED
  BY <1>1, <1>2, <1>3, <1>4, <1>5 DEF Inv, UpdateInv

\* A write raises the generation, and nothing has been rendered or reported of it
\* (PATCH and POST of platform.go:440-463).
LEMMA WrittenPlatform ==
  ASSUME Inv, NEW spec \in ResourceSpecs, spec.gen = res.gen + 1,
         res' = spec, UNCHANGED <<portal, status, acted, work, verif, tokens, console, foreign, vpc>>
  PROVE  PlatformInv' /\ console'.status.obs < res'.gen
<1>1. PlatformTypeOK'
  BY DEF Inv, PlatformInv, PlatformTypeOK
<1>2. Moves' /\ console'.status.obs < res'.gen
  BY Numbers DEF Inv, PlatformInv, Moves
<1>3. OwnTokens'
  BY DEF Inv, PlatformInv, OwnTokens
<1> QED
  BY <1>1, <1>2, <1>3 DEF PlatformInv

\* A write that pins what was decided, and what follows on it (update, platform.go:440-480).
LEMMA Written ==
  ASSUME Inv, upc \in {"patch", "apply"},
         NEW spec \in ResourceSpecs, spec.gen = res.gen + 1,
         NEW version \in Versions \cup {Latest, Nil},
         UpdateWrites(spec, version),
         UNCHANGED <<flags, shelf, exact, complete, covers, verifyVars>>,
         portal = "current" /\ version # Nil => version = IF flags.apply THEN shelf ELSE flags.version,
         portal = "current" /\ Target # Nil /\ upc' = "wait" => spec.version = Target,
         upc' = "apply" => flags.apply /\ version = Nil,
         \/ upc' \in {"apply", "wait"} /\ ucode' = ucode /\ wrote' = Reported(spec.gen)
         \/ upc' = "done" /\ ucode' = "asked" /\ wrote' = Reported(spec.gen)
         \/ upc' = "done" /\ ucode' = "failed" /\ wrote' = wrote
  PROVE  Inv'
<1>0. /\ res' = spec /\ made' = spec.gen /\ touched' = FALSE
      /\ pinned' = (IF version = Nil THEN pinned ELSE version) /\ pinned = Nil
      /\ UNCHANGED <<portal, status, acted, work, verif, tokens, console, foreign, vpc>>
      /\ spec.gen \in Nat /\ res.gen \in Nat /\ spec.gen # 0 /\ ucode = "none" /\ vpc = "read"
  BY Numbers DEF UpdateWrites, verifyVars, Inv, PlatformInv, UpdateInv, Before
<1>1. PlatformInv' /\ console'.status.obs < res'.gen
  BY <1>0, WrittenPlatform
<1>2. VerifyInv'
  BY <1>0, VerifyNotBegun
<1>3. Reported(spec.gen) \in Nat /\ Reported(spec.gen)' = Reported(spec.gen)
  BY <1>0 DEF Reported
<1>4. UpdateTypeOK'
  BY <1>0, <1>3 DEF Inv, UpdateInv, UpdateTypeOK
<1>5. Before'
  BY <1>0 DEF Inv, UpdateInv, Before
<1>6. Bears'
  <2>1. Target' = Target
    BY DEF Target
  <2>2. upc' # "done" => wrote' = Reported(made)'
    BY <1>0 DEF Reported
  <2> QED
    BY <1>0, <2>1, <2>2 DEF Bears
<1>7. Seen'
  <2> SUFFICES ASSUME upc' = "wait", exact, Reconciled(console)', wrote' # 0
               PROVE  FALSE
    BY DEF Seen
  <2>1. portal = "current" /\ wrote' = spec.gen
    BY <1>0 DEF Inv, UpdateInv, Before, Reported
  <2>2. console'.status.obs >= 1 /\ console'.status.obs < spec.gen /\ console'.status.obs \in Nat
    BY <1>0, <1>1, Numbers DEF Inv, PlatformInv, Moves
  <2>3. Reported(console.status.obs)' = console'.status.obs
    BY <1>0, <2>1 DEF Reported
  <2> QED
    BY <1>0, <2>1, <2>2, <2>3 DEF Reconciled
<1>8. AppliesWhatWasDecided'
  BY <1>0 DEF AppliesWhatWasDecided
<1>9. UpdateOkSawIt'
  BY <1>0 DEF UpdateOkSawIt
<1>10. covers' \in Nat /\ covers' <= acted'.gen
  BY <1>0 DEF Inv, UpdateInv
<1> QED
  BY <1>1, <1>2, <1>4, <1>5, <1>6, <1>7, <1>8, <1>9, <1>10 DEF Inv, UpdateInv

\* The read, the question, refusals, and readings of a wait that does not settle
\* (platform.go:400-463, 643-658).
LEMMA UpdateWithoutWrite ==
  ASSUME Inv, UpdateReads \/ UpdateStops \/ ApplyRefused \/ UpdateGivesUp,
         covers' = IF ucode' = "ok" /\ exact THEN made ELSE covers,
         UNCHANGED verifyVars
  PROVE  Inv'
<1>0. /\ upc # "done" /\ ucode = "none"
      /\ UNCHANGED platformVars /\ UNCHANGED <<flags, wrote, pinned, made, touched, complete, vpc>>
  BY DEF UpdateReads, UpdateStops, ApplyRefused, UpdateGivesUp, Inv, UpdateInv, Before, verifyVars
<1>1. PlatformInv' /\ VerifyInv'
  BY <1>0, PlatformKept, VerifyNotBegun DEF Inv
<1>a. /\ UNCHANGED <<portal, res, acted, status, console>>
      /\ wrote \in Nat /\ made \in Nat /\ made <= res.gen
      /\ made # 0 /\ ~touched => res.gen = made
  BY <1>0 DEF platformVars, Inv, UpdateInv, UpdateTypeOK, Bears
<1>2. CASE UpdateStops \/ ApplyRefused \/ UpdateGivesUp
  <2>1. /\ upc' = "done" /\ ucode' \in {"notOffered", "refused", "failed"}
        /\ UNCHANGED <<shelf, exact>>
        /\ ucode' = "refused" => pinned = Nil
    BY <1>2 DEF UpdateStops, ApplyRefused, UpdateGivesUp, UpdateExits, Inv, UpdateInv, Before
  <2>2. covers' = covers
    BY <2>1
  <2>3. UpdateInv'
    BY <1>0, <1>a, <2>1, <2>2, UpdateEnds
  <2> QED
    BY <1>1, <2>3 DEF Inv
<1>3. CASE UpdateReads
  <2>0. /\ upc = "read" /\ shelf' = console.status.update /\ pinned = Nil /\ made = 0
        /\ exact' = (Reported(res.gen) > 0) /\ wrote = 0
        /\ covers' = covers
        /\ \/ upc' = "done" /\ ucode' = "failed"
           \/ /\ upc' = (IF NeedsPatch THEN "patch" ELSE "apply") /\ ucode' = ucode
              /\ ~(flags.apply /\ console.status.update = Nil)
    BY <1>0, <1>3 DEF UpdateReads, UpdateExits, Inv, UpdateInv, Before, Bears, Reported
  <2>1. UpdateTypeOK'
    <3>1. shelf' \in Versions \cup {Nil}
      BY <2>0 DEF Inv, PlatformInv, PlatformTypeOK, Statuses
    <3>2. exact' \in BOOLEAN
      BY <2>0
    <3>3. /\ upc' \in {"read", "patch", "apply", "wait", "done"}
          /\ ucode' \in {"none", "ok", "asked", "notOffered", "refused", "failed"}
      BY <1>0, <2>0
    <3> QED
      BY <1>0, <3>1, <3>2, <3>3 DEF Inv, UpdateInv, UpdateTypeOK
  <2>2. Before'
    <3>1. exact' => portal' = "current"
      <4> SUFFICES ASSUME exact'
                   PROVE  portal' = "current"
        OBVIOUS
      <4>1. Reported(res.gen) > 0
        BY <2>0
      <4>2. portal # "older"
        BY <4>1 DEF Reported
      <4> QED
        BY <1>a, <4>2, PortalAges DEF Inv, PlatformInv
    <3>2. ~NeedsPatch => flags.apply
      BY UpdatesAssumption DEF NeedsPatch, Inv, UpdateInv, UpdateTypeOK, Commands
    <3> QED
      BY <1>0, <2>0, <3>1, <3>2 DEF Inv, UpdateInv, Before
  <2>3. Bears'
    BY <1>0, <1>a, <2>0, Numbers DEF Bears, Reported, Inv, PlatformInv
  <2>4. (Seen /\ AppliesWhatWasDecided /\ UpdateOkSawIt)'
    BY <1>0, <2>0 DEF Seen, AppliesWhatWasDecided, UpdateOkSawIt
  <2>5. covers' \in Nat /\ covers' <= acted'.gen
    BY <1>a, <2>0 DEF Inv, UpdateInv
  <2> QED
    BY <1>1, <2>1, <2>2, <2>3, <2>4, <2>5 DEF Inv, UpdateInv
<1> QED
  BY <1>2, <1>3

\* The PATCH (update, platform.go:440-455).
LEMMA PatchInv ==
  ASSUME Inv, UpdatePatches,
         covers' = IF ucode' = "ok" /\ exact THEN made ELSE covers,
         UNCHANGED verifyVars
  PROVE  Inv'
<1> DEFINE spec == PatchedSpec(Body)
<1>0. flags \in Commands /\ upc = "patch" /\ ucode = "none" /\ res \in ResourceSpecs
  BY UpdatesAssumption
     DEF UpdatePatches, Inv, PlatformInv, PlatformTypeOK, UpdateInv, UpdateTypeOK, Before
<1>1. spec \in ResourceSpecs /\ spec.gen = res.gen + 1
      /\ (flags.version # Nil => spec.version = flags.version)
  BY <1>0 DEF PatchedSpec, Body, Commands, ResourceSpecs
<1>2. flags.version \in Versions \cup {Latest, Nil} /\ (flags.apply => flags.version = Nil)
  BY <1>0 DEF Commands
<1>3. UpdateWrites(spec, flags.version) /\ UNCHANGED <<flags, shelf, exact, complete>>
  BY DEF UpdatePatches, Body
<1>4. res' = spec /\ portal' = portal
  BY <1>3 DEF UpdateWrites
<1> HIDE DEF spec
<1>5. \/ /\ upc' \in {"apply", "wait"} /\ ucode' = ucode /\ wrote' = Reported(spec.gen)
         /\ upc' = "apply" <=> flags.apply
      \/ upc' = "done" /\ ucode' = "asked" /\ wrote' = Reported(spec.gen)
      \/ upc' = "done" /\ ucode' = "failed" /\ wrote' = wrote
  BY <1>4 DEF UpdatePatches, UpdateAsked, UpdateExits, Reported
<1>6. covers' = covers
  BY <1>0, <1>5
<1>7. Target # Nil /\ upc' = "wait" => spec.version = Target
  BY <1>1, <1>5 DEF Target
<1> QED
  BY <1>0, <1>1, <1>2, <1>3, <1>5, <1>6, <1>7, Written

\* The POST that applies what is on the shelf (apply, platform.go:456-463).
LEMMA ApplyInv ==
  ASSUME Inv, UpdateApplies,
         covers' = IF ucode' = "ok" /\ exact THEN made ELSE covers,
         UNCHANGED verifyVars
  PROVE  Inv'
<1> DEFINE spec == AppliedSpec
<1>0. /\ flags \in Commands /\ upc = "apply" /\ ucode = "none" /\ res \in ResourceSpecs
      /\ flags.apply /\ shelf # Nil /\ status.update \in Versions
      /\ wrote = Reported(made)
  BY UpdatesAssumption
     DEF UpdateApplies, Applies, Inv, PlatformInv, PlatformTypeOK, Statuses, UpdateInv,
         UpdateTypeOK, Before, Bears
<1>1. spec \in ResourceSpecs /\ spec.gen = res.gen + 1 /\ spec.version = status.update
  <2>1. spec = [version |-> status.update, channel |-> res.channel, mode |-> res.mode,
                gen |-> res.gen + 1]
    <3> DEFINE versioned == [res EXCEPT !.version = status.update]
    <3>1. versioned = [version |-> status.update, channel |-> res.channel, mode |-> res.mode,
                       gen |-> res.gen]
      BY <1>0 DEF ResourceSpecs
    <3>2. spec = [versioned EXCEPT !.gen = @ + 1]
      BY DEF AppliedSpec
    <3> HIDE DEF versioned, spec
    <3> QED
      BY <1>0, <3>1, <3>2 DEF ResourceSpecs
  <2> HIDE DEF spec
  <2> QED
    BY <1>0, <2>1 DEF ResourceSpecs
<1>2. portal = "current" => status.update = shelf
  BY <1>0 DEF UpdateApplies, Applies, Decided
<1>3. UpdateWrites(spec, status.update) /\ UNCHANGED <<flags, shelf, exact, complete>>
  BY DEF UpdateApplies
<1>4. res' = spec /\ portal' = portal
  BY <1>3 DEF UpdateWrites
<1> HIDE DEF spec
<1>5. \/ upc' = "wait" /\ ucode' = ucode /\ wrote' = Reported(spec.gen)
      \/ upc' = "done" /\ ucode' = "asked" /\ wrote' = Reported(spec.gen)
      \/ upc' = "done" /\ ucode' = "failed" /\ wrote' = wrote
  BY <1>0, <1>4 DEF UpdateApplies, UpdateAsked, UpdateExits, Reported
<1>6. covers' = covers
  BY <1>0, <1>5
<1>7. portal = "current" /\ Target # Nil /\ upc' = "wait" => spec.version = Target
  BY <1>0, <1>1, <1>2 DEF Target
<1> QED
  BY <1>0, <1>1, <1>2, <1>3, <1>5, <1>6, <1>7, Written

\* The reading that settles the wait (platformSettled, wait.go:108-144).
LEMMA SettleInv ==
  ASSUME Inv, UpdatePolls,
         covers' = IF ucode' = "ok" /\ exact THEN made ELSE covers,
         UNCHANGED verifyVars
  PROVE  Inv'
<1>0. /\ upc = "wait" /\ upc' = "done" /\ ucode' = "ok" /\ Reconciled(console)
      /\ UNCHANGED platformVars
      /\ UNCHANGED <<flags, shelf, exact, wrote, pinned, made, touched, complete, vpc>>
      /\ UNCHANGED <<portal, res, acted, console>>
  BY DEF UpdatePolls, UpdateExits, platformVars, verifyVars
<1>1. PlatformInv' /\ VerifyInv'
  BY <1>0, PlatformKept, VerifyNotBegun DEF Inv
<1>2. UpdateTypeOK'
  BY <1>0 DEF Inv, UpdateInv, UpdateTypeOK
<1>3. Before'
  BY <1>0 DEF Inv, UpdateInv, Before
<1>4. Bears'
  BY <1>0 DEF Inv, UpdateInv, Bears
<1>5. (Seen /\ AppliesWhatWasDecided)'
  BY <1>0 DEF Inv, UpdateInv, Seen, AppliesWhatWasDecided
<1>6. UpdateOkSawIt'
  BY <1>0 DEF Inv, UpdateInv, Seen, UpdateOkSawIt
<1>7. covers' \in Nat /\ covers' <= acted'.gen
  <2>1. CASE exact
    <3>1. portal = "current" /\ wrote = made /\ made \in Nat
      BY <1>0, <2>1 DEF Inv, UpdateInv, UpdateTypeOK, Before, Bears, Reported
    <3>2. 1 <= console.status.obs /\ console.status.obs <= acted.gen
          /\ console.status.obs \in Nat /\ acted.gen \in Nat
      BY Numbers DEF Inv, PlatformInv, Moves
    <3>3. made = 0 \/ made <= console.status.obs
      BY <1>0, <3>1, <3>2 DEF Reconciled, Reported
    <3> QED
      BY <1>0, <2>1, <3>1, <3>2, <3>3
  <2>2. CASE ~exact
    BY <1>0, <2>2 DEF Inv, UpdateInv
  <2> QED
    BY <2>1, <2>2
<1> QED
  BY <1>1, <1>2, <1>3, <1>4, <1>5, <1>6, <1>7 DEF Inv, UpdateInv

----------------------------------------------------------------------------
(* The verification. *)

\* Steps of the verification that ask for nothing (requireOperator and the readings of
\* verify.go:123-179).
LEMMA VerifyWithoutAsking ==
  ASSUME Inv, Verifying, UNCHANGED <<updateVars, covers>>,
         VerifyReads \/ VerifyStops \/ VerifyPolls \/ VerifyGivesUp
  PROVE  Inv'
<1>0. /\ UNCHANGED platformVars /\ ran' = ran /\ token' = token
      /\ UNCHANGED <<portal, res, acted, work, status, verif, tokens, console, foreign, covers>>
      /\ upc = "done" /\ UNCHANGED updateVars
  BY DEF VerifyReads, VerifyStops, VerifyPolls, VerifyGivesUp, Verifying, platformVars
<1>1. UpdateInv'
  BY <1>0, UpdateKept, Numbers DEF Inv, PlatformInv
<1>2. vpc' \in {"ask", "done"} /\ (vpc' = "ask" => vpc = "read")
  BY DEF VerifyReads, VerifyStops, VerifyPolls, VerifyGivesUp, VerifyExits
<1>3. PlatformInv'
  <2>1. PlatformTypeOK'
    BY <1>0 DEF Inv, PlatformInv, PlatformTypeOK
  <2>2. Moves'
    BY <1>0 DEF Inv, PlatformInv, Moves
  <2>3. OwnTokens'
    BY <1>0, <1>2, Numbers DEF Inv, PlatformInv, OwnTokens
  <2> QED
    BY <2>1, <2>2, <2>3 DEF PlatformInv
<1>4. VerifyInv'
  <2>0. got = Nil
    BY DEF Verifying, Inv, VerifyInv, Follows
  <2>1. /\ got' \in Results \cup {Nil}
        /\ vcode' \in {"none", "ok", "asked", "notOffered", "failed"}
        /\ got' # Nil =>
             ran.result = got' /\ (vcode' = "ok" <=> got' = "Passed")
               /\ (vcode' = "notOffered" <=> got' = "Skipped")
    <3>1. CASE VerifyReads \/ VerifyStops \/ VerifyGivesUp
      BY <2>0, <3>1
         DEF VerifyReads, VerifyStops, VerifyGivesUp, VerifyExits, Inv, VerifyInv, VerifyTypeOK, Verifying,
             Follows
    <3>2. CASE VerifyPolls
      <4>1. /\ vpc = "wait" /\ Answers(console.verif) /\ got' = console.verif.result
            /\ vcode' = CodeOf(got')
        BY <3>2 DEF VerifyPolls, VerifyExits
      <4>2. ran.result = got'
        BY <4>1 DEF Inv, VerifyInv, Follows
      <4>3. got' \in Results
        BY <4>1 DEF Answers, Final
      <4> QED
        BY <4>1, <4>2, <4>3 DEF CodeOf
    <3> QED
      BY <3>1, <3>2
  <2>2. VerifyTypeOK'
    BY <1>0, <1>2, <2>1 DEF Inv, VerifyInv, VerifyTypeOK
  <2>3. Follows'
    <3>1. vpc' = "ask" => got' = Nil /\ ran = NoRun
      BY <1>2, <2>0 DEF VerifyReads, VerifyStops, VerifyPolls, VerifyGivesUp, VerifyExits,
                        Inv, VerifyInv, Follows
    <3> QED
      BY <1>0, <1>2, <3>1 DEF Inv, VerifyInv, Follows
  <2>4. ReportsItsOwnRun'
    BY <1>0, <2>1 DEF ReportsItsOwnRun
  <2>5. VerifiesTheUpdate'
    <3> SUFFICES ASSUME got' # Nil
                 PROVE  covers <= ran.of
      BY <1>0 DEF VerifiesTheUpdate
    <3>1. ran # NoRun
      BY <2>1 DEF NoRun
    <3> QED
      BY <3>1 DEF Inv, VerifyInv, Follows
  <2> QED
    BY <2>2, <2>3, <2>4, <2>5 DEF VerifyInv
<1> QED
  BY <1>1, <1>3, <1>4 DEF Inv

\* A token that is asked for is no run's yet, in the cluster and in the console (POST
\* .../verify, verify.go:89-121).
LEMMA FreshToken ==
  ASSUME PlatformInv
  PROVE  /\ RequestedToken \in Nat /\ 1 <= RequestedToken
         /\ RequestedToken <= (IF verif.pending # 0 THEN tokens ELSE tokens + 1)
         /\ RequestedToken # verif.request /\ RequestedToken # console.verif.request
BY Numbers DEF PlatformInv, OwnTokens, RequestedToken

\* A request that waits leaves what is verified as it is (POST .../verify, by zae and by
\* others).
LEMMA AskedPlatform ==
  ASSUME PlatformInv,
         tokens' = IF verif.pending # 0 THEN tokens ELSE tokens + 1,
         verif' = [verif EXCEPT !.pending = RequestedToken],
         UNCHANGED <<portal, res, status, acted, work, console>>,
         foreign' \in 0..MaxForeign,
         tokens' <= foreign' + (IF vpc' \in {"read", "ask"} THEN 0 ELSE 1)
  PROVE  /\ PlatformInv'
         /\ verif' = [pending |-> RequestedToken, request |-> verif.request,
                      result |-> verif.result, of |-> verif.of]
<1>1. verif' = [pending |-> RequestedToken, request |-> verif.request,
                result |-> verif.result, of |-> verif.of]
  BY DEF PlatformInv, PlatformTypeOK, Verifications
<1>2. tokens' \in Tokens
  BY Numbers DEF PlatformInv, Tokens
<1>3. RequestedToken \in Tokens
  BY <1>2, FreshToken, Numbers DEF PlatformInv, Tokens
<1>4. PlatformTypeOK'
  <2>1. verif' \in Verifications
    BY <1>1, <1>3 DEF PlatformInv, PlatformTypeOK, Verifications
  <2> QED
    BY <1>2, <2>1 DEF PlatformInv, PlatformTypeOK
<1>5. Moves'
  BY DEF PlatformInv, Moves
<1>6. OwnTokens'
  BY <1>1, FreshToken, Numbers DEF PlatformInv, OwnTokens
<1> QED
  BY <1>1, <1>4, <1>5, <1>6 DEF PlatformInv

\* The request (verify.go:76-121).
LEMMA VerifyAsksInv ==
  ASSUME Inv, Verifying, UNCHANGED <<updateVars, covers>>, VerifyAsks
  PROVE  Inv'
<1>0. /\ vpc = "ask" /\ upc = "done" /\ vpc' \in {"wait", "done"}
      /\ got' = got /\ got = Nil /\ ran' = ran /\ ran = NoRun
      /\ UNCHANGED <<portal, res, status, acted, work, console, foreign>>
      /\ tokens' = (IF verif.pending # 0 THEN tokens ELSE tokens + 1)
      /\ verif' = [verif EXCEPT !.pending = RequestedToken]
  BY DEF VerifyAsks, Verifying, VerifyExits, Inv, VerifyInv, Follows
<1>1. /\ PlatformInv'
      /\ verif' = [pending |-> RequestedToken, request |-> verif.request,
                   result |-> verif.result, of |-> verif.of]
  <2>1. foreign' \in 0..MaxForeign
    BY <1>0 DEF Inv, PlatformInv, PlatformTypeOK
  <2>2. tokens' <= foreign' + (IF vpc' \in {"read", "ask"} THEN 0 ELSE 1)
    BY <1>0, Numbers DEF Inv, PlatformInv, OwnTokens
  <2> QED
    BY <1>0, <2>1, <2>2, AskedPlatform DEF Inv
<1>2. UpdateInv'
  BY <1>0, UpdateKept, Numbers DEF updateVars, Inv, PlatformInv
<1>3. /\ token' \in Tokens
      /\ vcode' \in {"none", "ok", "asked", "notOffered", "failed"}
      /\ vpc' = "wait" => token' = RequestedToken
  <2>1. RequestedToken \in Tokens /\ 0 \in Tokens
    BY <1>1, FreshToken, Numbers DEF Inv, PlatformInv, PlatformTypeOK, Tokens, Verifications
  <2> QED
    BY <2>1 DEF VerifyAsks, VerifyExits, Inv, VerifyInv, VerifyTypeOK
<1>4. VerifyTypeOK'
  BY <1>0, <1>3 DEF Inv, VerifyInv, VerifyTypeOK
<1>5. Follows'
  <2>1. vpc' = "wait" =>
          /\ 1 <= token' /\ verif'.request # token' /\ console'.verif.request # token'
    BY <1>0, <1>1, <1>3, FreshToken DEF Inv
  <2> QED
    BY <1>0, <2>1 DEF Follows, Answers
<1>6. (ReportsItsOwnRun /\ VerifiesTheUpdate)'
  BY <1>0 DEF ReportsItsOwnRun, VerifiesTheUpdate
<1> QED
  BY <1>1, <1>2, <1>4, <1>5, <1>6 DEF Inv, VerifyInv

----------------------------------------------------------------------------
(* The world. *)

\* What is known of the platform survives what the operator, the verifier, other
\* administrators and the portal do (portal.go).
LEMMA OperatorInv ==
  ASSUME Inv, Operator, UNCHANGED <<portal, console, foreign, vpc>>
  PROVE  PlatformInv' /\ acted'.gen >= acted.gen /\ res' = res /\ verif' = verif
<1> USE Numbers DEF Inv, PlatformInv
<1>0. /\ PlatformTypeOK /\ Moves /\ OwnTokens
      /\ res' = res /\ verif' = verif /\ tokens' = tokens
  BY DEF Operator, OperatorRenders, OperatorReports, OperatorLooks, WorkloadRolls
<1>1. OwnTokens'
  BY <1>0 DEF OwnTokens
<1>2. CASE OperatorRenders
  <2>1. PICK v \in Versions :
          /\ v = res.version \/ res.version = Latest
          /\ acted' = [gen |-> res.gen, version |-> v]
          /\ work' = [w \in Workloads |->
                        IF work[w].version = v THEN work[w] ELSE [version |-> v, rolled |-> FALSE]]
    <3>1. res.version \in Versions \cup {Latest}
      BY <1>0 DEF PlatformTypeOK, ResourceSpecs
    <3> QED
      BY <1>2, <3>1 DEF OperatorRenders
  <2>2. status' = status
    BY <1>2 DEF OperatorRenders
  <2>3. acted' \in [gen : Nat, version : Versions]
    BY <2>1
  <2>4. work' \in [Workloads -> Renderings]
    BY <1>0, <2>1 DEF PlatformTypeOK, Renderings
  <2>5. PlatformTypeOK'
    BY <1>0, <2>2, <2>3, <2>4 DEF PlatformTypeOK
  <2>6. acted'.gen = res.gen /\ acted'.version = v /\ acted.gen < res.gen
    BY <1>0, <1>2, <2>1 DEF OperatorRenders, Moves
  <2>7. \A w \in Workloads : work'[w].version = v
    BY <2>1
  <2>8. Moves'
    BY <1>0, <2>1, <2>2, <2>6, <2>7 DEF Moves
  <2> QED
    BY <1>0, <1>1, <2>5, <2>6, <2>8
<1>3. CASE OperatorReports
  <2>1. /\ status'.obs = acted.gen /\ status'.running = acted.version
        /\ UNCHANGED <<acted, work>>
    BY <1>3 DEF OperatorReports
  <2>2. status' \in Statuses
    BY <1>0, <1>3 DEF OperatorReports, PlatformTypeOK, Statuses
  <2>3. PlatformTypeOK'
    BY <1>0, <2>1, <2>2 DEF PlatformTypeOK
  <2>4. Moves'
    BY <1>0, <2>1 DEF Moves
  <2> QED
    BY <1>0, <1>1, <2>1, <2>3, <2>4
<1>4. CASE OperatorLooks
  <2>1. PICK v \in Versions \cup {Nil} : status' = [status EXCEPT !.update = v]
    BY <1>4 DEF OperatorLooks
  <2>2. status' = [obs |-> status.obs, running |-> status.running, update |-> v]
    BY <1>0, <2>1 DEF PlatformTypeOK, Statuses
  <2>3. status' \in Statuses
    BY <1>0, <2>2 DEF PlatformTypeOK, Statuses
  <2>4. UNCHANGED <<acted, work>>
    BY <1>4 DEF OperatorLooks
  <2>5. PlatformTypeOK'
    BY <1>0, <2>3, <2>4 DEF PlatformTypeOK
  <2>6. Moves'
    BY <1>0, <2>2, <2>4 DEF Moves
  <2> QED
    BY <1>0, <1>1, <2>4, <2>5, <2>6
<1>5. CASE WorkloadRolls
  <2>1. PICK w \in Workloads : work' = [work EXCEPT ![w].rolled = TRUE]
    BY <1>5 DEF WorkloadRolls
  <2>2. UNCHANGED <<status, acted>>
    BY <1>5 DEF WorkloadRolls
  <2>3. work' \in [Workloads -> Renderings] /\ \A x \in Workloads : work'[x].version = work[x].version
    BY <1>0, <2>1 DEF PlatformTypeOK, Renderings
  <2>4. PlatformTypeOK'
    BY <1>0, <2>2, <2>3 DEF PlatformTypeOK
  <2>5. Moves'
    BY <1>0, <2>2, <2>3 DEF Moves
  <2> QED
    BY <1>0, <1>1, <2>2, <2>4, <2>5
<1> QED
  BY <1>2, <1>3, <1>4, <1>5 DEF Operator

\* A run of the verifier is of what was rendered when it started (portal.go).
LEMMA VerifierInv ==
  ASSUME Inv, Verifier, UNCHANGED <<portal, console, foreign, vpc>>
  PROVE  /\ PlatformInv' /\ acted' = acted /\ res' = res
         /\ verif' \in Verifications
         /\ \/ /\ verif'.result = "Running" /\ verif'.of = acted.gen
               /\ verif'.request = 0
               /\ verif'.pending = verif.pending
            \/ /\ verif'.result = "Running" /\ verif'.of = acted.gen
               /\ verif'.request = verif.pending /\ verif.pending # 0
               /\ verif'.pending = 0
            \/ /\ verif'.of = verif.of /\ verif'.request = verif.request
               /\ verif'.pending = verif.pending
               /\ verif.result = "Running"
<1> USE Numbers DEF Inv, PlatformInv
<1>0. /\ PlatformTypeOK /\ Moves /\ OwnTokens
      /\ UNCHANGED <<res, status, acted, work, tokens>>
  BY DEF Verifier, VerificationStarts, VerificationEnds
<1>1. /\ verif' \in Verifications
      /\ \/ /\ verif'.result = "Running" /\ verif'.of = acted.gen
            /\ verif'.request = 0
            /\ verif'.pending = verif.pending
         \/ /\ verif'.result = "Running" /\ verif'.of = acted.gen
            /\ verif'.request = verif.pending /\ verif.pending # 0
            /\ verif'.pending = 0
         \/ /\ verif'.of = verif.of /\ verif'.request = verif.request
            /\ verif'.pending = verif.pending
            /\ verif.result = "Running"
  <2>0. verif \in Verifications /\ 0 \in Tokens /\ "Running" \in Results /\ acted.gen \in Nat
    BY <1>0 DEF PlatformTypeOK, Tokens, Results
  <2>1. CASE verif' = [verif EXCEPT !.request = 0, !.result = "Running", !.of = acted.gen]
    <3> DEFINE asked == [verif EXCEPT !.request = 0]
               begun == [asked EXCEPT !.result = "Running"]
    <3>1. asked = [pending |-> verif.pending, request |-> 0, result |-> verif.result, of |-> verif.of]
      BY <2>0 DEF Verifications
    <3> HIDE DEF asked
    <3>2. begun = [pending |-> verif.pending, request |-> 0, result |-> "Running", of |-> verif.of]
      BY <3>1
    <3>3. verif' = [begun EXCEPT !.of = acted.gen]
      BY <2>1 DEF asked
    <3> HIDE DEF begun
    <3>4. verif' = [pending |-> verif.pending, request |-> 0, result |-> "Running", of |-> acted.gen]
      BY <3>2, <3>3
    <3> QED
      BY <2>0, <3>4 DEF Verifications
  <2>2. CASE verif.pending # 0 /\ verif' = [pending |-> 0, request |-> verif.pending,
                                             result |-> "Running", of |-> acted.gen]
    BY <2>0, <2>2 DEF Verifications
  <2>3. CASE VerificationEnds
    <3>1. PICK r \in Results : verif' = [verif EXCEPT !.result = r]
      BY <2>3 DEF VerificationEnds
    <3>2. verif' = [pending |-> verif.pending, request |-> verif.request, result |-> r, of |-> verif.of]
      BY <2>0, <3>1 DEF Verifications
    <3> QED
      BY <2>0, <2>3, <3>2 DEF Verifications, VerificationEnds
  <2> QED
    BY <2>1, <2>2, <2>3 DEF Verifier, VerificationStarts
<1>2. PlatformTypeOK'
  BY <1>0, <1>1 DEF PlatformTypeOK
<1>3. Moves'
  BY <1>0 DEF Moves
<1>4. OwnTokens'
  BY <1>0, <1>1 DEF OwnTokens
<1> QED
  BY <1>0, <1>1, <1>2, <1>3, <1>4

\* A console is what is so when it is taken (portal.go: the handler of the console).
LEMMA CatchesInv ==
  ASSUME Inv, PortalCatches, UNCHANGED <<portal, res, status, acted, work, verif, tokens, foreign, vpc>>
  PROVE  /\ PlatformInv'
         /\ console'.status = status /\ console'.verif = verif
         /\ ~console'.error => console'.work = [w \in Workloads |-> work[w]]
<1> USE DEF Inv, PlatformInv
<1>1. PICK ws \in {Workloads, {}} : console' = Picture(ws)
  BY DEF PortalCatches
<1>2. /\ console'.status = status /\ console'.verif = verif
      /\ console'.work = [w \in ws |-> work[w]] /\ console'.error = (ws # Workloads)
  BY <1>1 DEF Picture
<1>3. \A w \in DOMAIN console'.work : console'.work[w] \in Renderings
  BY <1>2 DEF PlatformTypeOK
<1>4. PlatformTypeOK'
  BY <1>2, <1>3 DEF PlatformTypeOK
<1>5. Moves'
  BY <1>2 DEF Moves
<1>6. OwnTokens'
  BY <1>2 DEF OwnTokens
<1> QED
  BY <1>2, <1>4, <1>5, <1>6

\* Another administrator's update (portal.go: PATCH of the resource).
LEMMA ForeignUpdateInv ==
  ASSUME Inv, Foreign(ForeignUpdate), UNCHANGED <<portal, vpc>>
  PROVE  /\ PlatformInv' /\ acted' = acted /\ verif' = verif /\ console' = console
         /\ res' # res /\ res'.gen >= res.gen
<1> USE Numbers DEF Inv, PlatformInv
<1>0. /\ PlatformTypeOK /\ Moves /\ OwnTokens
      /\ foreign < MaxForeign /\ foreign' = foreign + 1
      /\ UNCHANGED <<status, acted, work, verif, tokens, console>>
  BY DEF Foreign, ForeignUpdate
<1>1. PICK v \in Versions \cup {Latest} : res' = [res EXCEPT !.version = v, !.gen = @ + 1]
  BY DEF Foreign, ForeignUpdate
<1>2. res' = [version |-> v, channel |-> res.channel, mode |-> res.mode, gen |-> res.gen + 1]
  <2> DEFINE versioned == [res EXCEPT !.version = v]
  <2>1. versioned = [version |-> v, channel |-> res.channel, mode |-> res.mode, gen |-> res.gen]
    BY <1>0 DEF PlatformTypeOK, ResourceSpecs
  <2>2. res' = [versioned EXCEPT !.gen = @ + 1]
    BY <1>1
  <2> HIDE DEF versioned
  <2> QED
    BY <1>0, <2>1, <2>2 DEF PlatformTypeOK, ResourceSpecs
<1>3. res' \in ResourceSpecs /\ res'.gen = res.gen + 1
  BY <1>0, <1>2 DEF PlatformTypeOK, ResourceSpecs
<1>4. foreign' \in 0..MaxForeign
  BY <1>0
<1>5. PlatformTypeOK'
  BY <1>0, <1>3, <1>4 DEF PlatformTypeOK
<1>6. Moves'
  BY <1>0, <1>3 DEF Moves
<1>7. OwnTokens'
  BY <1>0 DEF OwnTokens
<1> QED
  BY <1>0, <1>3, <1>5, <1>6, <1>7

\* What the world does leaves an update that waits with what it knows (waitVersion,
\* platform.go:643-658).
LEMMA UpdateWorldInv ==
  ASSUME Inv, PlatformInv', upc # "done", UpdateNotes, UNCHANGED <<portal, covers, vpc>>,
         acted'.gen >= acted.gen, res'.gen >= res.gen,
         \/ console' = console
         \/ /\ UNCHANGED <<res, acted, work, status>>
            /\ console'.status = status
            /\ ~console'.error => console'.work = [w \in Workloads |-> work[w]]
  PROVE  UpdateInv'
<1>0. /\ UNCHANGED <<upc, flags, shelf, exact, wrote, ucode, pinned, made>>
      /\ touched' = (touched \/ (made # 0 /\ res' # res))
      /\ complete' = (complete \/ (upc = "wait" /\ Complete'))
  BY DEF UpdateNotes
<1>a. /\ touched' \in BOOLEAN /\ complete' \in BOOLEAN
      /\ ~touched' => ~touched /\ (made # 0 => res' = res)
      /\ complete => complete'
      /\ upc = "wait" /\ Complete' => complete'
      /\ Target' = Target
  BY <1>0 DEF Target
<1>1. UpdateTypeOK'
  BY <1>0, <1>a DEF Inv, UpdateInv, UpdateTypeOK
<1>2. Before'
  BY <1>0 DEF Inv, UpdateInv, Before
<1>3. Bears'
  <2>1. made \in Nat /\ res.gen \in Nat /\ res'.gen \in Nat
    BY Numbers DEF Inv, PlatformInv, UpdateInv, UpdateTypeOK, PlatformTypeOK, ResourceSpecs
  <2>2. wrote' = Reported(made)' <=> wrote = Reported(made)
    BY <1>0 DEF Reported
  <2> QED
    BY <1>0, <1>a, <2>1, <2>2 DEF Inv, UpdateInv, Bears
<1>4. Seen'
  <2> SUFFICES ASSUME upc = "wait", exact, wrote # 0, ~touched', Reconciled(console)'
               PROVE  complete'
    BY <1>0 DEF Seen
  <2>0. ~touched /\ res' = res /\ made # 0 /\ portal = "current" /\ wrote = made /\ made \in Nat
    BY <1>0, <1>a DEF Inv, UpdateInv, UpdateTypeOK, Bears, Before, Reported
  <2>1. CASE console' = console
    <3>1. Reconciled(console)
      BY <1>0, <1>a, <2>1 DEF Reconciled, Rolled, Reported
    <3> QED
      BY <1>a, <2>0, <3>1 DEF Inv, UpdateInv, Seen
  <2>2. CASE /\ UNCHANGED <<res, acted, work, status>>
             /\ console'.status = status
             /\ ~console'.error => console'.work = [w \in Workloads |-> work[w]]
    <3>1. /\ \A w \in Workloads : work[w].rolled
          /\ Target # Nil => status.running = Target
          /\ ~(Reported(status.obs) > 0 /\ Reported(status.obs) < made)
      <4>1. /\ Rolled(console') /\ ~console'.error
            /\ ~(wrote > 0 /\ Reported(status.obs) > 0 /\ Reported(status.obs) < wrote)
            /\ Target # Nil => status.running = Target
        BY <1>0, <1>a, <2>2 DEF Reconciled, Reported, Rolled
      <4>2. \A w \in Workloads : work[w].rolled
        BY <2>2, <4>1 DEF Rolled
      <4> QED
        BY <2>0, <4>1, <4>2
    <3>2. /\ 1 <= status.obs /\ status.obs <= acted.gen /\ acted.gen <= res.gen
          /\ status.obs = acted.gen => status.running = acted.version
          /\ \A w \in Workloads : work[w].version = acted.version
          /\ status.obs \in Nat /\ acted.gen \in Nat /\ res.gen \in Nat
          /\ res.gen = made
      BY <2>0, Numbers DEF Inv, PlatformInv, UpdateInv, Moves, Bears
    <3>3. status.obs = made /\ acted.gen = made
      BY <2>0, <3>1, <3>2 DEF Reported
    <3>4. Complete'
      BY <1>0, <1>a, <2>2, <3>1, <3>2, <3>3 DEF Complete
    <3> QED
      BY <1>a, <3>4
  <2> QED
    BY <2>1, <2>2
<1>5. AppliesWhatWasDecided'
  BY <1>0 DEF Inv, UpdateInv, AppliesWhatWasDecided
<1>6. UpdateOkSawIt'
  BY <1>0 DEF UpdateOkSawIt, Inv, UpdateInv, Before
<1>7. covers' \in Nat /\ covers' <= acted'.gen
  BY Numbers DEF Inv, PlatformInv, PlatformTypeOK, UpdateInv
<1> QED
  BY <1>1, <1>2, <1>3, <1>4, <1>5, <1>6, <1>7 DEF UpdateInv

\* What the world does leaves a verification that waits with what it knows
\* (verify.go:123-179).
LEMMA VerifyWorldInv ==
  ASSUME Inv, PlatformInv', upc = "done", VerifyNotes, UNCHANGED covers,
         \/ /\ console' = console
            /\ verif'.request = verif.request /\ verif'.result = verif.result
            /\ verif'.of = verif.of
         \/ console'.verif = verif /\ verif' = verif
         \/ /\ console' = console
            /\ \/ verif'.result = "Running" /\ verif'.of = acted.gen /\ verif'.request = 0
               \/ /\ verif'.result = "Running" /\ verif'.of = acted.gen
                  /\ verif'.request = verif.pending /\ verif.pending # 0
               \/ /\ verif'.of = verif.of /\ verif'.request = verif.request
                  /\ verif.result = "Running"
  PROVE  VerifyInv'
<1>0. /\ UNCHANGED <<vpc, token, got, vcode>>
      /\ ran' = (IF vpc = "wait" /\ verif'.request = token
                 THEN [of |-> verif'.of, result |-> verif'.result] ELSE ran)
      /\ VerifyTypeOK /\ Follows /\ ReportsItsOwnRun /\ VerifiesTheUpdate
      /\ covers \in Nat /\ covers <= acted.gen
      /\ verif' \in Verifications /\ verif \in Verifications
      /\ verif.pending # 0 =>
           verif.request # verif.pending /\ console.verif.request # verif.pending
  BY DEF VerifyNotes, Inv, PlatformInv, PlatformTypeOK, VerifyInv, UpdateInv, OwnTokens
<1>1. CASE vpc # "wait"
  <2>1. ran' = ran
    BY <1>0, <1>1
  <2>2. VerifyTypeOK'
    BY <1>0, <2>1 DEF VerifyTypeOK
  <2>3. Follows'
    BY <1>0, <1>1, <2>1 DEF Follows
  <2>4. (ReportsItsOwnRun /\ VerifiesTheUpdate)'
    BY <1>0, <2>1 DEF ReportsItsOwnRun, VerifiesTheUpdate
  <2> QED
    BY <2>2, <2>3, <2>4 DEF VerifyInv
<1>2. CASE vpc = "wait"
  <2>0. got = Nil /\ 1 <= token /\ token \in Nat
    BY <1>0, <1>2 DEF Follows, VerifyTypeOK, Tokens
  <2>1. VerifyTypeOK'
    <3>1. [of |-> verif'.of, result |-> verif'.result] \in [of : Nat, result : Results \cup {Nil}]
      BY <1>0 DEF Verifications
    <3> QED
      BY <1>0, <3>1 DEF VerifyTypeOK
  <2>2. (ReportsItsOwnRun /\ VerifiesTheUpdate)'
    BY <1>0, <2>0 DEF ReportsItsOwnRun, VerifiesTheUpdate
  <2>3. verif'.request = token => covers <= verif'.of
    BY <1>0, <1>2, <2>0 DEF Follows
  <2>4. ran' # NoRun => covers <= ran'.of
    BY <1>0, <1>2, <2>3 DEF Follows
  <2>5. Answers(console.verif) /\ console' = console =>
          /\ ran'.result = console.verif.result
          /\ verif'.request = token => verif'.result = console.verif.result
    <3> SUFFICES ASSUME Answers(console.verif), console' = console
                 PROVE  /\ ran'.result = console.verif.result
                        /\ verif'.request = token => verif'.result = console.verif.result
      OBVIOUS
    <3>1. /\ console.verif.request = token /\ console.verif.result # "Running"
          /\ ran.result = console.verif.result
          /\ verif.request = token => verif.result = console.verif.result
      BY <1>0, <1>2 DEF Follows, Answers, Final
    <3>2. verif'.request = token => verif'.result = console.verif.result
      BY <1>0, <2>0, <3>1
    <3> QED
      BY <1>0, <3>1, <3>2
  <2>6. Answers(verif) /\ verif' = verif => ran'.result = verif.result
    BY <1>0, <1>2 DEF Answers
  <2>7. Answers(console.verif)' =>
          /\ ran'.result = console'.verif.result
          /\ verif'.request = token => verif'.result = console'.verif.result
    <3>1. CASE console' = console
      BY <1>0, <2>5, <3>1 DEF Answers, Final
    <3>2. CASE console'.verif = verif /\ verif' = verif
      BY <1>0, <2>6, <3>2 DEF Answers, Final
    <3> QED
      BY <3>1, <3>2
  <2>8. Follows'
    BY <1>0, <1>2, <2>0, <2>3, <2>4, <2>7 DEF Follows
  <2> QED
    BY <2>1, <2>2, <2>8 DEF VerifyInv
<1> QED
  BY <1>1, <1>2

\* What the world does keeps the invariant, whichever command runs (portal.go).
LEMMA WorldInv ==
  ASSUME Inv, World
  PROVE  Inv'
<1>0. UpdateNotes /\ VerifyNotes /\ UNCHANGED <<portal, covers, vpc>>
  BY DEF World, VerifyNotes
<1>1. CASE WhileUpdating
  <2>0. upc # "done" /\ vpc = "read"
    BY <1>1 DEF WhileUpdating, Inv, UpdateInv, Before
  <2>1. VerifyInv'
    BY <1>0, <2>0, VerifyNotBegun DEF VerifyNotes, verifyVars
  <2>2. CASE Operator /\ UNCHANGED <<console, foreign>>
    <3>1. PlatformInv' /\ acted'.gen >= acted.gen /\ res' = res
      BY <1>0, <2>2, OperatorInv
    <3>2. UpdateInv'
      BY <1>0, <2>0, <2>2, <3>1, UpdateWorldInv, Numbers DEF Inv, PlatformInv
    <3> QED
      BY <2>1, <3>1, <3>2 DEF Inv
  <2>3. CASE Foreign(ForeignUpdate)
    <3>1. PlatformInv' /\ acted' = acted /\ console' = console /\ res'.gen >= res.gen
      BY <1>0, <2>3, ForeignUpdateInv
    <3>2. UpdateInv'
      BY <1>0, <2>0, <3>1, UpdateWorldInv, Numbers DEF Inv, PlatformInv
    <3> QED
      BY <2>1, <3>1, <3>2 DEF Inv
  <2> QED
    BY <1>1, <2>2, <2>3 DEF WhileUpdating
<1>2. CASE WhileVerifying
  <2>0. upc = "done"
    BY <1>2 DEF WhileVerifying, Verifying
  <2>1. UNCHANGED <<upc, flags, shelf, exact, wrote, ucode, pinned, made>>
    BY <1>0 DEF UpdateNotes
  <2>2. res' = res => UNCHANGED updateVars
    <3> SUFFICES ASSUME res' = res
                 PROVE  UNCHANGED updateVars
      OBVIOUS
    <3>1. touched \in BOOLEAN /\ complete \in BOOLEAN
      BY DEF Inv, UpdateInv, UpdateTypeOK
    <3>2. touched' = touched /\ complete' = complete
      BY <1>0, <2>0, <3>1 DEF UpdateNotes
    <3> QED
      BY <2>1, <3>2 DEF updateVars
  <2>3. CASE OperatorRenders /\ UNCHANGED <<console, foreign>>
    <3>1. PlatformInv' /\ acted'.gen >= acted.gen /\ res' = res /\ verif' = verif
      BY <1>0, <2>3, OperatorInv DEF Operator
    <3>2. UpdateInv'
      BY <1>0, <2>0, <2>2, <3>1, UpdateKept, Numbers DEF Inv, PlatformInv,
         PlatformTypeOK
    <3>3. VerifyInv'
      BY <1>0, <2>0, <2>3, <3>1, VerifyWorldInv
    <3> QED
      BY <3>1, <3>2, <3>3 DEF Inv
  <2>4. CASE Verifier /\ UNCHANGED <<console, foreign>>
    <3>1. PlatformInv' /\ acted' = acted /\ res' = res
      BY <1>0, <2>4, VerifierInv
    <3>2. UpdateInv'
      BY <1>0, <2>0, <2>2, <3>1, UpdateKept, Numbers DEF Inv, PlatformInv
    <3>3. VerifyInv'
      <4>1. /\ console' = console
            /\ \/ /\ verif'.result = "Running" /\ verif'.of = acted.gen /\ verif'.request = 0
               \/ /\ verif'.result = "Running" /\ verif'.of = acted.gen
                  /\ verif'.request = verif.pending /\ verif.pending # 0
               \/ /\ verif'.of = verif.of /\ verif'.request = verif.request
                  /\ verif.result = "Running"
        BY <1>0, <2>4, VerifierInv
      <4> QED
        BY <1>0, <2>0, <3>1, <4>1, VerifyWorldInv
    <3> QED
      BY <3>1, <3>2, <3>3 DEF Inv
  <2>5. CASE Foreign(ForeignVerify)
    <3>0. /\ UNCHANGED <<res, status, acted, work, console>>
          /\ tokens' = (IF verif.pending # 0 THEN tokens ELSE tokens + 1)
          /\ verif' = [verif EXCEPT !.pending = RequestedToken]
          /\ foreign < MaxForeign /\ foreign' = foreign + 1
      BY <2>5 DEF Foreign, ForeignVerify
    <3>1. foreign' \in 0..MaxForeign
          /\ tokens' <= foreign' + (IF vpc' \in {"read", "ask"} THEN 0 ELSE 1)
      BY <1>0, <3>0, Numbers DEF Inv, PlatformInv, OwnTokens
    <3>2. /\ PlatformInv'
          /\ verif' = [pending |-> RequestedToken, request |-> verif.request,
                       result |-> verif.result, of |-> verif.of]
      BY <1>0, <3>0, <3>1, AskedPlatform DEF Inv
    <3>3. UpdateInv'
      BY <1>0, <2>0, <2>2, <3>0, UpdateKept, Numbers DEF Inv, PlatformInv
    <3>4. VerifyInv'
      BY <1>0, <2>0, <3>0, <3>2, VerifyWorldInv
    <3> QED
      BY <3>2, <3>3, <3>4 DEF Inv
  <2> QED
    BY <1>2, <2>3, <2>4, <2>5 DEF WhileVerifying
<1>3. CASE PortalStep
  <2>0. PortalCatches /\ UNCHANGED <<res, status, acted, work, verif, tokens, foreign>>
    BY <1>3 DEF PortalStep
  <2>1. /\ PlatformInv'
        /\ console'.status = status /\ console'.verif = verif
        /\ ~console'.error => console'.work = [w \in Workloads |-> work[w]]
    BY <1>0, <2>0, CatchesInv
  <2>2. CASE upc # "done"
    <3>1. vpc = "read"
      BY <2>2 DEF Inv, UpdateInv, Before
    <3>2. VerifyInv'
      BY <1>0, <2>2, <3>1, VerifyNotBegun DEF VerifyNotes, verifyVars
    <3>3. UpdateInv'
      BY <1>0, <2>0, <2>1, <2>2, UpdateWorldInv, Numbers DEF Inv, PlatformInv
    <3> QED
      BY <2>1, <3>2, <3>3 DEF Inv
  <2>3. CASE upc = "done"
    <3>1. UNCHANGED updateVars
      <4>1. touched \in BOOLEAN /\ complete \in BOOLEAN
        BY DEF Inv, UpdateInv, UpdateTypeOK
      <4>2. touched' = touched /\ complete' = complete
        BY <1>0, <2>0, <2>3, <4>1 DEF UpdateNotes
      <4> QED
        BY <1>0, <4>2 DEF UpdateNotes, updateVars
    <3>2. UpdateInv'
      BY <1>0, <2>0, <2>3, <3>1, UpdateKept, Numbers DEF Inv, PlatformInv
    <3>3. VerifyInv'
      BY <1>0, <2>0, <2>1, <2>3, VerifyWorldInv
    <3> QED
      BY <2>1, <3>2, <3>3 DEF Inv
  <2> QED
    BY <2>2, <2>3
<1> QED
  BY <1>1, <1>2, <1>3 DEF World

----------------------------------------------------------------------------
(* Both commands and the world. *)

\* Every step keeps the invariant (update, verify and what goes on meanwhile).
LEMMA InvNext == Inv /\ [Next]_vars => Inv'
<1> SUFFICES ASSUME Inv, [Next]_vars
             PROVE  Inv'
  OBVIOUS
<1>1. CASE UpdateStep
  <2>1. /\ covers' = IF ucode' = "ok" /\ exact THEN made ELSE covers
        /\ UNCHANGED verifyVars
    BY <1>1 DEF UpdateStep
  <2>2. CASE UpdateReads \/ UpdateStops \/ ApplyRefused \/ UpdateGivesUp
    BY <2>1, <2>2, UpdateWithoutWrite
  <2>3. CASE UpdatePatches
    BY <2>1, <2>3, PatchInv
  <2>4. CASE UpdateApplies
    BY <2>1, <2>4, ApplyInv
  <2>5. CASE UpdatePolls
    BY <2>1, <2>5, SettleInv
  <2> QED
    BY <1>1, <2>2, <2>3, <2>4, <2>5 DEF UpdateStep, Update
<1>2. CASE VerifyStep
  BY <1>2, VerifyWithoutAsking, VerifyAsksInv DEF VerifyStep, Verify
<1>3. CASE World
  BY <1>3, WorldInv
<1>4. CASE UNCHANGED vars
  <2>1. UNCHANGED platformVars /\ UNCHANGED updateVars /\ UNCHANGED verifyVars
        /\ covers' = covers /\ acted' = acted /\ vpc' = vpc /\ res' = res
    BY <1>4 DEF vars, platformVars, verifyVars
  <2>2. PlatformInv'
    BY <2>1, PlatformKept DEF Inv
  <2>3. UpdateInv'
    <3>1. /\ UNCHANGED <<upc, flags, shelf, exact, wrote, ucode, pinned, made, touched, complete>>
          /\ UNCHANGED <<portal, res, acted, console>>
      BY <2>1 DEF updateVars, platformVars
    <3>2. UpdateTypeOK'
      BY <3>1 DEF Inv, UpdateInv, UpdateTypeOK
    <3>3. Before'
      BY <2>1, <3>1 DEF Inv, UpdateInv, Before
    <3>4. Bears'
      BY <3>1 DEF Inv, UpdateInv, Bears, Target, Reported
    <3>5. Seen'
      BY <3>1 DEF Inv, UpdateInv, Seen, Reconciled, Rolled, Target, Reported
    <3>6. (AppliesWhatWasDecided /\ UpdateOkSawIt)'
      BY <3>1 DEF Inv, UpdateInv, AppliesWhatWasDecided, UpdateOkSawIt
    <3> QED
      BY <2>1, <3>2, <3>3, <3>4, <3>5, <3>6 DEF Inv, UpdateInv
  <2>4. VerifyInv'
    <3>1. UNCHANGED <<vpc, token, got, vcode, ran, covers, verif, console>>
      BY <2>1 DEF verifyVars, platformVars
    <3>2. VerifyTypeOK'
      BY <3>1 DEF Inv, VerifyInv, VerifyTypeOK
    <3>3. Follows'
      BY <3>1 DEF Inv, VerifyInv, Follows, Answers, Final
    <3> QED
      BY <3>1, <3>2, <3>3 DEF Inv, VerifyInv, ReportsItsOwnRun, VerifiesTheUpdate
  <2> QED
    BY <2>2, <2>3, <2>4 DEF Inv
<1> QED
  BY <1>1, <1>2, <1>3, <1>4 DEF Next

\* The invariant holds in every state (the same).
LEMMA Invariance == Spec => []Inv
<1>1. Init => Inv
  BY InvInit
<1>2. Inv /\ [Next]_vars => Inv'
  BY InvNext
<1> QED
  BY <1>1, <1>2, PTL DEF Spec

----------------------------------------------------------------------------

\* Every variable holds a value of its kind (update, verify and the resource).
THEOREM TypeCorrect == Spec => []TypeOK
<1>1. Inv => TypeOK
  BY DEF Inv, PlatformInv, UpdateInv, VerifyInv, TypeOK
<1> QED
  BY <1>1, Invariance, PTL

\* What an update pins is what was named, or the update that was shown
\* (platform.go:440-463).
THEOREM NothingElseApplied == Spec => []AppliesWhatWasDecided
<1>1. Inv => AppliesWhatWasDecided
  BY DEF Inv, UpdateInv
<1> QED
  BY <1>1, Invariance, PTL

\* An exact wait that ended well saw its own write through (platformSettled,
\* wait.go:108-144).
THEOREM OkSawItsUpdate == Spec => []UpdateOkSawIt
<1>1. Inv => UpdateOkSawIt
  BY DEF Inv, UpdateInv
<1> QED
  BY <1>1, Invariance, PTL

\* A finished update is accepted by the wait when a reading shows it (waitVersion,
\* platform.go:643-658).
THEOREM FinishedIsAccepted == Spec => []SettledIsAccepted
<1>1. Inv => SettledIsAccepted
  <2> SUFFICES ASSUME Inv, upc = "wait", portal = "current", ~touched,
                      acted.gen = res.gen, status.obs = res.gen,
                      \A w \in Workloads : work[w].rolled, console = Picture(Workloads)
               PROVE  Reconciled(console)
    BY DEF SettledIsAccepted
  <2>1. /\ console.status = status /\ ~console.error
        /\ console.work = [w \in Workloads |-> work[w]]
    BY DEF Picture
  <2>2. Rolled(console)
    BY <2>1 DEF Rolled
  <2>3. wrote <= status.obs
    BY Numbers DEF Inv, PlatformInv, UpdateInv, UpdateTypeOK, Bears, Reported
  <2>4. Target # Nil => status.running = Target
    <3>1. Target # Latest
      <4>1. flags \in Commands /\ shelf \in Versions \cup {Nil}
        BY UpdatesAssumption DEF Inv, UpdateInv, UpdateTypeOK
      <4> QED
        BY <4>1, PlatformAssumption DEF Target, Commands
    <3> QED
      BY <3>1 DEF Inv, PlatformInv, UpdateInv, Moves, Bears
  <2>5. ~(wrote > 0 /\ Reported(status.obs) > 0 /\ Reported(status.obs) < wrote)
    BY <2>3, Numbers DEF Reported, Inv, PlatformInv, UpdateInv, UpdateTypeOK
  <2> QED
    BY <2>1, <2>2, <2>4, <2>5 DEF Reconciled
<1> QED
  BY <1>1, Invariance, PTL

\* What is reported is the result of the run that was started for the request
\* (verify.go:123-179).
THEOREM OwnRun == Spec => []ReportsItsOwnRun
<1>1. Inv => ReportsItsOwnRun
  BY DEF Inv, VerifyInv
<1> QED
  BY <1>1, Invariance, PTL

\* A verification after an update that ended well is of a platform that has the update
\* (wait.go:108-144, verify.go:123-179).
THEOREM UpdateIsVerified == Spec => []VerifiesTheUpdate
<1>1. Inv => VerifiesTheUpdate
  BY DEF Inv, VerifyInv
<1> QED
  BY <1>1, Invariance, PTL

=============================================================================
