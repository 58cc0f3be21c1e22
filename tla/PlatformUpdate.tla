--------------------------- MODULE PlatformUpdate ---------------------------
(***************************************************************************)
(* `zae platform update` (internal/platform/platform.go, wait.go): read    *)
(* the console, ask, PATCH what was named on the command line, apply the   *)
(* update that was read, and poll until the operator has reconciled it.    *)
(*                                                                         *)
(* Covered: consoles that lag or come without the workloads, updates that  *)
(* change under the question, a PATCH that is made and an apply that is    *)
(* refused after it, answers that are lost, a portal too old to check the  *)
(* version or to answer a generation, and others who write.                *)
(***************************************************************************)
EXTENDS OperatorResource

CONSTANT Updates        \* command lines

\* --version, --channel and --mode, Nil when not given, and --apply.  What else
\* may be combined with --apply is refused before anything is read.
Commands ==
  {u \in [version : Versions \cup {Latest, Nil}, channel : Channels \cup {Nil},
          mode : Modes \cup {Nil}, apply : BOOLEAN] :
     /\ u.apply => u.version = Nil /\ u.channel = Nil
     /\ u.apply \/ u.version # Nil \/ u.channel # Nil \/ u.mode # Nil}

ASSUME UpdatesAssumption == Updates \subseteq Commands

VARIABLES
  upc,          \* where the command is
  flags,        \* its command line
  shelf,        \* the update it read and showed
  exact,        \* the console it read reports all a rollout is judged by
  wrote,        \* the generation its last write answered
  ucode,        \* its exit code
  pinned,       \* history: the version its own writes pinned,
  made,         \* the generation of its last write,
  touched,      \* others wrote after it,
  complete      \* and since then, it was all so

updateVars == <<upc, flags, shelf, exact, wrote, ucode, pinned, made, touched, complete>>

UpdateTypeOK ==
  /\ upc \in {"read", "patch", "apply", "wait", "done"}
  /\ flags \in Updates
  /\ shelf \in Versions \cup {Nil}
  /\ exact \in BOOLEAN
  /\ wrote \in Nat
  /\ ucode \in {"none", "ok", "asked", "notOffered", "refused", "failed"}
  /\ pinned \in Versions \cup {Latest, Nil}
  /\ made \in Nat
  /\ touched \in BOOLEAN
  /\ complete \in BOOLEAN

----------------------------------------------------------------------------
(* What is sent, and what is waited for. *)

\* The body of the PATCH; it is not sent when there is nothing in it.
Body == flags

NeedsPatch == flags.version # Nil \/ flags.channel # Nil \/ flags.mode # Nil

\* Fault: the apply names no version.
NamesNothing == Nil

\* The update that was decided on is named in the apply.
Decided == shelf

\* Fault: what was asked for is waited for as it was written.
WaitsForTheWord == IF flags.apply THEN shelf ELSE flags.version

\* What a wait watches for; `latest` is no version to report.
Target ==
  IF flags.apply THEN shelf
  ELSE IF flags.version = Latest THEN Nil
  ELSE flags.version

Rolled(c) == \A w \in DOMAIN c.work : c.work[w].rolled

\* Fault: a console without the workloads is taken as it is.
IgnoresTheError(c) ==
  /\ Rolled(c)
  /\ ~(wrote > 0 /\ Reported(c.status.obs) > 0 /\ Reported(c.status.obs) < wrote)
  /\ Target # Nil => c.status.running = Target

\* Fault: the operator need not have reconciled this write.
IgnoresTheGeneration(c) ==
  /\ Rolled(c)
  /\ Target # Nil => c.status.running = Target
  /\ ~c.error

\* platformSettled
Reconciled(c) ==
  /\ Rolled(c)
  /\ ~(wrote > 0 /\ Reported(c.status.obs) > 0 /\ Reported(c.status.obs) < wrote)
  /\ Target # Nil => c.status.running = Target
  /\ ~c.error

----------------------------------------------------------------------------
(* The command. *)

UpdateExits(c) ==
  /\ upc' = "done"
  /\ ucode' = c

\* After the last write: without --wait that was all.
UpdateAsked == \/ UpdateExits("asked")
               \/ upc' = "wait" /\ UNCHANGED ucode

UpdateInit ==
  /\ upc = "read"
  /\ flags \in Updates
  /\ shelf = Nil
  /\ exact = FALSE
  /\ wrote = 0
  /\ ucode = "none"
  /\ pinned = Nil
  /\ made = 0
  /\ touched = FALSE
  /\ complete = FALSE

\* requireOperator, the changes it prints and the answer to its question.
UpdateReads ==
  /\ upc = "read"
  /\ shelf' = console.status.update
  /\ exact' = (Reported(res.gen) > 0)
  /\ IF flags.apply /\ console.status.update = Nil
     THEN UpdateExits("failed")
     ELSE /\ upc' = IF NeedsPatch THEN "patch" ELSE "apply"
          /\ UNCHANGED ucode
  /\ UNCHANGED <<platformVars, flags, wrote, pinned, made, touched, complete>>

\* No operator, no console, no such portal, or the person says no.
UpdateStops ==
  /\ upc \in {"read", "patch"} \/ (upc = "apply" /\ ~NeedsPatch)
  /\ UpdateExits(IF upc = "read" THEN "notOffered" ELSE "failed")
  /\ UNCHANGED <<platformVars, flags, shelf, exact, wrote, pinned, made, touched, complete>>

\* The resource after a write of this command that pins version, or no version.
UpdateWrites(spec, version) ==
  /\ res' = spec
  /\ pinned' = IF version = Nil THEN pinned ELSE version
  /\ made' = spec.gen
  /\ touched' = FALSE
  /\ UNCHANGED <<portal, status, acted, work, verif, tokens, console, foreign>>

\* PATCH /api/portal/operator; the answer carries a generation, or is lost.
UpdatePatches ==
  /\ upc = "patch"
  /\ UpdateWrites(PatchedSpec(Body), Body.version)
  /\ \/ /\ wrote' = Reported(res'.gen)
        /\ IF flags.apply THEN upc' = "apply" /\ UNCHANGED ucode ELSE UpdateAsked
     \/ UpdateExits("failed") /\ UNCHANGED wrote
  /\ UNCHANGED <<flags, shelf, exact, complete>>

\* POST .../apply-update; its answer replaces the one of the PATCH.
UpdateApplies ==
  /\ upc = "apply"
  /\ Applies(Decided)
  /\ UpdateWrites(AppliedSpec, status.update)
  /\ \/ /\ wrote' = IF portal = "older" THEN wrote ELSE res'.gen
        /\ UpdateAsked
     \/ UpdateExits("failed") /\ UNCHANGED wrote
  /\ UNCHANGED <<flags, shelf, exact, complete>>

\* Another update is on the shelf by now, or none.
ApplyRefused ==
  /\ upc = "apply"
  /\ ~Applies(Decided)
  /\ UpdateExits("refused")
  /\ UNCHANGED <<platformVars, flags, shelf, exact, wrote, pinned, made, touched, complete>>

\* A reading that settles the wait.
UpdatePolls ==
  /\ upc = "wait"
  /\ Reconciled(console)
  /\ UpdateExits("ok")
  /\ UNCHANGED <<platformVars, flags, shelf, exact, wrote, pinned, made, touched, complete>>

\* --timeout, or a call that fails for good.
UpdateGivesUp ==
  /\ upc = "wait"
  /\ UpdateExits("failed")
  /\ UNCHANGED <<platformVars, flags, shelf, exact, wrote, pinned, made, touched, complete>>

Update ==
  \/ UpdateReads
  \/ UpdateStops
  \/ UpdatePatches
  \/ UpdateApplies
  \/ ApplyRefused
  \/ UpdatePolls
  \/ UpdateGivesUp

\* What the update asked for is so, in the cluster itself.
Complete ==
  /\ acted.gen >= made
  /\ \A w \in Workloads : work[w].rolled /\ (Target # Nil => work[w].version = Target)

\* History, as the world moves on while the command waits.
UpdateNotes ==
  /\ UNCHANGED <<upc, flags, shelf, exact, wrote, ucode, pinned, made>>
  /\ touched' = (touched \/ (made # 0 /\ res' # res))
  /\ complete' = (complete \/ (upc = "wait" /\ Complete'))

----------------------------------------------------------------------------
(* What the command promises. *)

\* A portal that checks never rolls a platform to a version nobody chose: what an
\* update pins is what was named, or the update that was shown, whatever the
\* operator discovers between the reading and the apply.  And an update that the
\* platform refuses, after the PATCH that comes before it, leaves the version as it
\* was (platform.go:440-463; README.md:393-401).
AppliesWhatWasDecided ==
  /\ portal = "current" /\ pinned # Nil =>
       pinned = IF flags.apply THEN shelf ELSE flags.version
  /\ ucode = "refused" => pinned = Nil

\* An exact wait that ended well saw its own write through: since the write, the
\* operator rendered that generation, and at one moment every workload it manages
\* was rolled out - at the version that was asked for - also when consoles lag or
\* come without the workloads (platformSettled, wait.go:108-144).  When somebody
\* else writes meanwhile, their rollout may be the one that ended.
UpdateOkSawIt == ucode = "ok" /\ exact /\ wrote # 0 /\ ~touched => complete

\* A wait is for something that comes: once the operator has rendered and reported
\* what this update wrote, and every workload is rolled out, a reading of that ends
\* it - also when the version asked for was `latest`, or none (waitVersion,
\* platform.go:643-658).  An older portal may apply another update than the one that
\* was read, whose version then never comes.
SettledIsAccepted ==
  /\ upc = "wait"
  /\ portal = "current"
  /\ ~touched
  /\ acted.gen = res.gen
  /\ status.obs = res.gen
  /\ \A w \in Workloads : work[w].rolled
  /\ console = Picture(Workloads)
  => Reconciled(console)

=============================================================================
