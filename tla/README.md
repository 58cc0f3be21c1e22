# zae, modelled in TLA+

`zae` is the command line of a zaentrum instance. Every command is a process of
its own that lives for seconds and keeps nothing but a credentials file. What
makes it hard is what it talks to: the instance's portal-api (HTTP), behind it a
Kubernetes operator that acts on resources in its own time, an OIDC issuer, and
other administrators (the console, kubectl, another `zae`) who write the same
resources at the same time. A command reads, asks, writes, and waits until the
effect of *its own* write is there. Getting "its own" right is most of the code
this project models.

## 1. The system

| component | source (`src/internal/`) | state | operations | what makes it correct | modules |
|---|---|---|---|---|---|
| addon upgrade | `addon/upgrade.go`, `wait.go`, `session.go`, `portal.go` | what it read, the generation it wrote, the plan shown, the signal | read, PATCH (suspended), wait for the plan, ask, install, wait until ready, restore | it shows the plan of its own write, installs only that, and puts the addon back when it does not install | `AddonResource`, `AddonWait`, `AddonUpgrade` |
| addon add | `addon/addon.go`, `values.go`, `secrets.go` | as above | create suspended, wait, ask, install | never installs a plan nobody consented to; says what it leaves behind | `AddonResource`, `AddonWait`, `AddonAdd` |
| addon address, remove | `addon/address.go`, `address_add.go`, `addon.go` | the answer of the check | check, move with consent, install, refresh, remove | asks before it writes; an address moves only when told to; says truly what it did | `AddressAddon` |
| stored sessions | `creds/`, `instance/` | one JSON file, an entry for each instance | Get, Put, Remove, Clear, List; Token with its renewal | no session is lost, and none outlives its sign-out | `Credentials` |
| sign-in, sign-out | `auth/`, `oidc/` | device code, interval, deadline | login, logout, logout --all, whoami, me | logout ends the session at the issuer | `Credentials` (partly) |
| platform restart, scale | `platform/platform.go`, `wait.go`, `portal.go` | stamp before, generation and stamp of the write | read, ask, POST, poll the listing | `--wait` says ok only for a rollout that took place, and ends when it did | `Deployment`, `Rollout` |
| platform update | the same | version read, generation written | PATCH, apply, poll | the version decided on is the one applied and waited for | `OperatorResource`, `PlatformUpdate` |
| platform verify | `platform/verify.go` | the token of the request | ask, poll | the result reported is of the run asked for | `OperatorResource`, `PlatformVerify`; with the update `PlatformCommands` |
| logs, follow | `debug/logs.go`, `follow.go` | for each container: last stamp, lines at it | read, follow | no line printed twice or lost unsaid | `LogFollow`, which implements `Transcript` |
| authorization-code check | `oidc/authcode.go` | state, nonce, verifier of one sign-in | callback, exchange, check of the tokens | a token is of this very sign-in | `SignIn` |
| doctor | `doctor/` | the results of the checks so far | a fixed sequence of reads | the password goes once, to the identity provider; a sound platform passes, and none passes signed in that was not | `SignIn`, `DeepChecks`, `Doctor` |
| doctor report | `doctor/report.go` | - | fit a report under a limit | it fits, details and all, and gives up what is worth least first | `Report` |
| setup | `setup/` | the checklist read | metadata, scan, pipeline, done, reopen | says truly what it did | `Setup` |
| command dispatch | `invoke/`, `capability/`, `exitcode/`, `main.go` | the discovery of the instance | find, call, discover once more | exit codes say what happened | `Invoke`, `Dispatch`, `Commands` |
| events, debug bundle, rendering, redaction, terminal | `debug/events.go`, `bundle.go`, `*/render.go`, `redact/`, `term/` | - | read and print | - | not modelled (section 6) |

**How they interact.** Every command that calls the instance takes its bearer
from `instance.Token`, which reads the credentials file and may renew and write
it; so any two commands share that file. `addon add`, `upgrade`, `remove` and
others' commands share the `ZaentrumAddon` resource; `platform restart`, `scale`
and `update` share workloads and the operator's own resource, and `verify` is
about what an update made of it. `setup` shares its checklist with whoever else
is setting up. Nothing is locked, and no write carries a precondition;
generations, stamps and tokens that the answers carry are what a command can
tell its own effect by. Inside a process there is one goroutine besides the
command's own, the one that listens for a signal (`addon/session.go`), plus one
for a question that is waiting for its answer.

**What is hard.** Interleavings with the operator and other administrators at
every call; an answer that is lost after the portal acted; a signal during a
call; a late plan, count, console or listing; portals of several ages that report
less; processes that share a file without a lock; log lines that arrive at one
timestamp in several reads. `PROJECT.json` lists each hazard at its line, with
the property that covers it, or why none can.

## 2. The plan, and where it stands

The order was by what matters most. Built, checked and proved:

1. `AddonResource`, `AddonWait`, `AddonUpgrade` - the resource two commands and
   the operator share, how they judge a reading of it, the upgrade on it.
2. `Credentials` - the session file and every command that touches it.
3. `Deployment`, `Rollout` - the workload, and the wait of restart and scale.
4. `OperatorResource`, `PlatformUpdate`, `PlatformVerify`, and `PlatformCommands`,
   which composes an update with the verification after it.
5. `AddonAdd` on the same resource as the upgrade, through a portal that lags;
   `AddressAddon`; `Setup` and `Invoke`, composed in `Dispatch`.
6. `Transcript`, the abstract specification of a follow, and `LogFollow`, which
   implements it.
7. `SignIn`, `DeepChecks`, `Report`, composed in `Doctor`.
8. `Commands`, the choice `main.go` makes, over `Dispatch`, `LogFollow` and
`AddressAddon`.


Not built, and what each would add: the polling of the device grant
(`oidc.Poll`), which stores nothing before it ends and is one step of
`Credentials`; two `zae` on one addon, of which each sees the other as it sees
every administrator (`ForeignWrite`); the lag of readings in the upgrade, which
`AddonAdd` has for the same predicates.

## 3. The modules

In each, an action is one step of the command between two calls or questions,
and the world - operator, portal, other administrators, issuers - moves between
any two of them. History variables are named as such where they are declared:
no action of the command reads them.

### AddonResource

The resource as portal-api and the operator treat it; both are external and
modelled from the way `addon/portal.go` and `wait.go` read their answers and from
the portal that `addon_test.go` stands in. A write that changes the spec moves the
generation (`Merged`); the operator takes a snapshot (`OperatorReads`) and writes
the status it makes of it later (`OperatorWrites`), so a status may be of an older
spec; others write, install, delete and create at any time (`ForeignWrite`).
`uid` is there only to state properties: the code never sees it.

### AddonWait

The predicates by which `add` and `upgrade` judge one reading: `PlanFor`,
`Changed`, `ReadyFor` (`wait.go`) and `PlanRefused` (`addon.go`).

### AddonUpgrade

One run of `upgrade()`; `pc` follows the function.

| `pc` | action | code |
|---|---|---|
| read | `Read`, `ReadFails` | `upgrade.go` up to the PATCH: `getAddon`, `asksForChange` |
| patch | `Patch`, `PatchFails`, `PatchUnanswered` | the PATCH; an answer with the generation of before is "nothing to do" |
| plan | `PollPlan`, `PlanGone`, `PlanFails` | `poll` with `planFor`; `changedError` |
| confirm | `AnswerYes`, `AnswerNo` | the question |
| install | `Install`, `InstallFails`, `InstallUnanswered`, `LateInstall` | `install()`; an install that is given up may still arrive |
| ready | `PollReady`, `ReadyFails` | `waitReady`, `readyFor` |
| reread, putback | `Reread`, `RereadFails`, `WriteBack`, `WriteBackFails` | `restore()`, on its own context |
| any | `Signal`, `SecondSignal` | `session.go`: the first signal cancels the context, the second kills |

A poll that settles nothing changes nothing, so it is not a step of its own.
`wrote = 0` is a portal whose writes answer no generation
(`AnswersGeneration = FALSE`), where the code falls back to weaker tests.
Readings are of the moment they are made.

### AddonAdd

One run of `add()` for a chart, on an addon that is not there, planned, or running.
`Read` refuses one that runs; `PortalCreates` makes the addon or plans it anew,
suspended either way; from there `PollPlan`, `PollSees`, `PlanGone`, `PlanFails` and
`PlanInterrupted` are the ways `poll` goes on, then the question, the install and
`waitReady` as in the upgrade, but nothing is put back. Every reading is of
`cached`, the addon as the portal knows it, which `CacheCatches` brings up to date
at any time; `GraceEnds` is the end of the 15 s in which a 404 is asked again
(`notFoundGrace`), taken to be longer than the cache lags. `met` says that there has
been a reading: the timeout of a wait that has had nothing but 404 ends as one.
A `--timeout` shorter than the grace is among its behaviours.

### AddressAddon

`zae addon add http://...`, `refresh` and `remove`. The portal reads the manifest at the
address, has one row for each addon and moves one only when told to; the manifest at an
address may change, others install, remove and move. `Check` is the dry run
(`address_add.go:171-200`), which a portal that predates it takes for an install
(`CheckInstalls`); `Decides` is everything between its answer and the question;
`Install` and `Delete` are the writes, each with its lost answers. Somebody may delete
an addon's resource past the portal (`ResourceDeleted`): its row stays, and `Delete`
then succeeds on what is left (`ResourceGone`, `RemovesWhatIsLeft`, `SaysWhatWasLeft`;
`addon.go:649-655`).

### Credentials

The file is one value, read whole and replaced whole; `PutLoads`/`PutSaves` and
`RemoveLoads`/`RemoveSaves` are the two halves of `creds.Put` and `creds.Remove`,
since nothing locks the file between them. A process is a slot in `Procs`, which
is used again by the next command. `Use` is any command that sends a bearer
(`instance.Token`), `Login`, `Logout`, `LogoutAll` are those of `auth.go`. An
issuer keeps for every session the token it takes (`current`) and rotates it at a
renewal or not (`Rotating`); tokens are numbers. `Killed` ends a process between
any two steps, every call may fail, or be done and its answer lost. `logout --all`
reads the file twice (`LoadAll`, `ListAll`) before it clears it: a first read that
fails removes the file with a warning (`LoadAllFails`), the error of the second is
ignored (`ListAllFails`, `auth.go:350`), and what follows is a clear of sessions that
nobody was asked to end. `mishap` is
history: something an issuer gave out was never stored, which no client can undo.

### Deployment, Rollout

`Deployment` is the workload in the cluster: a spec with a generation, pods that
follow it one at a time with a surge of one, a status that counts at a moment of
its own, and the portal's listing of a moment later still (`NowListed`), which calls the
workload degraded or not (`CountsWell`). A restart stamps the
template with the current second. `Rollout` is `restart` or `scale` with `--wait`:
`Read` (the stamp before), `Write` (`rolloutOf` its answer), `Poll`
(`workloadSettled`, through `observed` and `pendingFor`; a workload that is degraded is
never settled, whatever its counts, `portal.go:365-369`), `Stops` and `PollEnds`
(every refusal, failure, decline and timeout). `Reports` says what the portal is
new enough to report.

### OperatorResource, PlatformUpdate, PlatformVerify, PlatformCommands

`OperatorResource` is the custom resource, the operator that renders and reports
it, the workloads it rolls, the verifications it runs, and the console portal-api
shows: one moment's picture of all that, served as long as the portal likes.
`PlatformUpdate` reads a console, asks, PATCHes what was named
(`UpdatePatches`), applies the update that was read (`UpdateApplies`,
`ApplyRefused` after a PATCH that was made) and polls (`UpdatePolls`:
`platformSettled` with its observed generation, phase, version and workloads).
`PlatformVerify` asks with a token, may be joined to a request that waits
already, and follows the last run the console records. `PlatformCommands` runs a
verification after an update.

### Transcript, LogFollow

`Transcript` says what a follow promises of each container: its lines in their order,
each once, and none left out unless the log went before it could be read or it is said
that lines are missing. `LogFollow` is the code: the first read of each container and
those of the rounds (`Reads`, `Fresh`, `Remembered`: lines at the last stamp are told
apart by their text), the fallback to windows when the portal does not take `sinceTime`
(`ignores`, `refuses`), the listing of a round (`Lists`), containers that start again,
pods that go and come, lines the cluster stamps by the second. The refinement is `T ==
INSTANCE Transcript WITH said <- said \cup full`, and `IsATranscript`, which is
`T!Spec`, is a property of the run: `full` are containers whose first read was cut,
which the code does not say (section 4, notes).

### SignIn, DeepChecks, Report, Doctor

`SignIn` walks a login page the way the doctor does: redirects wherever they
point, a form of any method and address, a callback and tokens that may be
another sign-in's. Pages are abstracted to what the doctor finds in them; random
values to whose sign-in they belong to. `DeepChecks` is the platform used with the
token, against a library and apps that others change between two reads. `Report` is
`buildReport` as operators over the results: each budget in turn clips the details and
drops the lines it may (`Within`), the first whose bytes (`encode`) fit is taken, and
when none fits, as many failures as do by name (`FirstLines`).
`Doctor` composes them after the checks from outside, and ends with the exit code.

### Setup, Invoke, Dispatch, Commands

`Setup` is each writing command of `zae setup`: the checklist read, the question,
one write and its answers, while others work through the same checklist and the
catalog behind the portal comes and goes. `Invoke` is a command that the instance
declares, or `zae require`: discovery, lookup, the call, and after a 404 the
second discovery, while services come, go and declare anew. `Dispatch` is
`main.go`'s choice between the two kinds. `Commands` is the same choice over more of the
commands: a run is a setup, a declared command, a follow or an addon by address, and
what the other three keep does not exist in it.

## 4. What is checked

| run | bounds | properties |
|---|---|---|
| `upgrade` | 2 charts, 1 value, 3 kinds of flags, 2 writes by others | `TypeOK`, `ShownIsWritten`, `InstallsWhatWasShown`, `EndsAsFound`, `PutsBackOnlyTheUnmoved`, `ReadyIsWhatWasInstalled` |
| `upgrade_older` | 1 write by others, a portal that answers no generations, fairness | `ShownIsWritten` (what is left of it), `EndsOrAsks` |
| `add` | 2 charts, 2 kinds of flags, 2 writes by others, late readings | `AddShowsItsOwnPlan`, `AddInstallsWhatItShowed`, `StaysPlanned`, `AddReadyIsWhatWasInstalled` |
| `sessions` | 2 instances, one that rotates and one that does not, 4 commands one at a time, 3 tokens | `StoredIsRenewable`, `SignedOutIsOver`, `EndsWhatItForgets` |
| `rollout` | up to 1 replica (2 pods with the surge), 2 seconds, 2 writes by others, portals of 3 ages | `OkSawItsRollout`, `FinishedIsAccepted` |
| `platform` | 2 versions, 1 channel, 1 workload, 1 write by others, current and older portals | `AppliesWhatWasDecided`, `UpdateOkSawIt`, `SettledIsAccepted`, `ReportsItsOwnRun`, `VerifiesTheUpdate` |
| `doctor` | 2 titles, 1 person, 1 app, 1 redirect, 1 odd answer, 1 change by others, 3 limits of the report, details of 4 sizes | `TypeOK`, `PasswordGoesOnce`, `TokenIsItsOwn`, `SoundPlatformPasses`, `GreenIsSignedIn`, `EveryCheckOnce`, `ReportGivesUpInOrder` |
| `commands` | setup: 1 other admin with 2 acts; a declared command: 2 paths, 3 turns of the instance; a follow: 1 container, 2 texts, 3 lines in 5 ticks (2 to the second), reads of at most 2 lines, 3 kinds of portals; an addon by address: 2 addresses, 2 addons, 3 deeds of others, portals with and without the check | `SaysWhatItDid`; `GoneIsDefinitive`; `FollowTypeOK`, `IsATranscript`; `AsksFirst`, `MovesOnlyWhenTold`, `AnswersTruly`, `RemovesItsKind` |

**Why the bounds are enough.** Two charts are an old and a new one; a third
could only be somebody else's, which `touched` tells already. `add` has no values to
switch on: a chart and a secret input tell two specs apart as well. Two writes by
others make delete-and-create possible, and a change of a change. In `commands` two
addons and two addresses make a move and a name that is taken possible; three deeds
of others remove, install, delete past the portal and redeploy between the check and the
write. In `sessions` four commands are enough for login, login elsewhere, renewal and
sign-out in any order, and three tokens for a session that is renewed twice. In
`rollout` one replica already surges: old and new pod run side by side, and the
count of one is taken while the other is there. Two seconds give a restart in the
same second and one in a later. In `platform` one write by others is a change
under the question or under the wait. In a follow three lines, two of which may
share a stamp, with reads of two, make the cut between two lines of one stamp
happen; five ticks are two whole seconds and a half. One odd answer in `doctor` is
enough for every property, all of which are about the first. `MaxGone` is 3 there and
with two titles never reached: what happens at it is proved and not checked. The detail
of a failure is longer than any budget grants and the others are cut by the later ones;
with the three limits a report fits at the first budget, at a later one, and by name
only. In every case the theorems of section 5 do not depend on the bound.

Every bound is a constant in a guard: `MaxForeign`, `MaxOthers`, `MaxRunning`,
`MaxCommands`, `MaxIssued`, `MaxReplicas`, `MaxTime`, `MaxLines`, `MaxOdd`,
`MaxChanges`, `MaxTurns`, `MaxDeeds`; `MaxTail`, `MaxHops` and `MaxGone` are limits of
the code itself, made small; and the world moves only as long as the command can still
act or a property still looks. Deadlock checking is off in all runs, since a command
ends.

**Symmetry** is used for the process slots of `Credentials` and, in `commands`, the
addresses and addons of `AddressAddon` and the texts of `LogFollow`, which their modules
treat alike; no liveness property is checked in those runs.

**Fairness** is assumed in `upgrade_older` only, and only of the command itself
(`WF_vars(Zae)`): every call has the client's timeout of 30 s, every wait has
`--timeout`, so some step of the command is always taken in the end. Nothing is
assumed of the operator, of other administrators, of signals or of the person who
is asked: the property says that the command ends or is asking. That the other
waits end with what they wait for is a matter of safety here:
`FinishedIsAccepted` and `SettledIsAccepted` say that the next reading ends them.

### Findings

Four runs check a sentence of the documentation, or of a comment, and find it violated.
Each is in `PROJECT.json` with its lines. The last three let two commands run at once.

| run | property | what happens |
|---|---|---|
| `upgrade_shown` | `InstallsOnlyWhatWasShown` | an addon changed and planned anew while zae asks is installed as the other person left it |
| `sessions_sign_out` | `SignedOutIsOver` | a renewal at the same time brings a session back after its logout |
| `sessions_renew` | `RenewsOncePerExpiry` | two commands that find the same token expired both renew it: one expiry costs a round trip for each (README.md:631-633) |
| `sessions_store` | `PutChangesOneInstance` | of two processes that store at once, one loses the other's session: `Put` writes the whole file it read before (`creds.go:179`) |

### Notes on what the properties leave out

The properties name their exceptions; this is what the code does in them.

- *Upgrade.* Ctrl-C that cuts off the PATCH (`upgrade.go:143`) leaves the addon
  suspended at the new spec. "The install went through" may be somebody else's change
  (`upgrade.go:238-241`). A second signal ends the process in the middle of the restore.
  `--set` sends the whole values document it read and with it puts back a value changed
  meanwhile (`upgrade.go:113`). A change that lands between the re-read and the
  restoring write is overwritten (`upgrade.go:238` and `257`; README.md:227-230 promises
  otherwise). A PATCH whose answer is lost (`said = "unknown"`) leaves the addon as the
  portal took it, suspended at the new spec if it did: the command says that it cannot
  tell, and `EndsAsFound` excludes it. An addon that was only planned when it was found
  is put back as it was, and the operator plans it again; an install that zae gave up
  and that arrives after that releases the spec that was put back, which was never
  printed. `InstallsWhatWasShown` says so (`SpecPutBack`). Who deletes an addon and
  creates it again starts its generations anew, and the properties leave that addon out.
- *Sessions.* `logout --all` deletes a session stored after its list was read,
  without ending it (`auth.go:361`). It also forgets every session without ending any,
  with a warning, when the file cannot be read (`auth.go:338-348`), and with exit 0 and
  no word, when its second read of the file fails (`auth.go:350`): these two are the
  exceptions `EndsWhatItForgets` names. That sessions are sound for commands that overlap
  is not so: the last three findings.
- *Address.* `refresh` does not compare the key at the address with the name it was
  asked to refresh. The consent to move one addon may move another when the service
  at the address is redeployed in between (README.md:260-268).
- *Rollout.* A workload deleted and created anew while an older listing is served may
  look settled (`anew`); one rolled back to an older template shows the stamp of
  before for good, and the wait ends at its timeout (`movedBack`).
- *Platform.* An operator that has not observed anything yet (observedGeneration 0)
  passes the generation test of `platformSettled`. A result that another run
  overwrites between two polls is never seen (`verify.go:133`): the wait ends at its
  timeout. A portal older than the check of the version applies what it has.
- *Follow.* A first read that the cluster cuts (`--tail`) between two lines of one
  stamp prints the older one later. In windows, lines are lost unsaid when a round
  takes longer than the margin. A container that comes later with more lines than one
  read answers loses lines unsaid. A text written twice at one stamp, read in two
  reads, is printed once.
- *Doctor.* Titles and people that are all removed, or an app that is deployed anew,
  between two reads of one run fail a check that `deep.go:18-23` says is skipped. A list
  of packages that was stale before the run began is not modelled. A registry that cannot
  be reached is a warning, and a discovery that is not answered a skip: a run with nothing
  worse ends with 0.
- *Setup.* A step that opens between what `done` named and its write is marked done with
  the others, unnamed: the write carries no precondition (`writes.go:68-112`). `reopen`
  may delete a record other than the one it names. A scan that has run for 30 minutes,
  or is not seen because the catalog is silent, gets a second one. A gateway's 502 or
  504 to a write that arrived ends with 1 and "failed".
- *Invoke.* A command declared at another path between discovery and call ends with 1.

## 5. What is proved

Every theorem is for all values of the constants, under the named assumptions of
the modules that declare them (`NilAssumption`, `ForeignAssumption`, ...): `Nil` is
none of the values it is told from, bounds are natural numbers, flags are some of
those there are. For every property of the runs `upgrade`, `add`, `sessions`,
`rollout`, `platform`, `commands` and `doctor` the run shows a small instance and the
theorem every instance; the theorems about the parts of `commands` are of `Dispatch`,
`LogFollow` and `AddressAddon` by themselves.

| module | theorems | property |
|---|---|---|
| `AddonUpgradeProofs` | `TypeCorrect`, `ShowsItsOwnPlan`, `ReleasesWhatItShowed`, `RestoreIsJustified`, `LeavesAsFound`, `OkIsInstalled` | `TypeOK`, `ShownIsWritten`, `InstallsWhatWasShown`, `PutsBackOnlyTheUnmoved`, `EndsAsFound`, `ReadyIsWhatWasInstalled` |
| `AddonAddProofs` | `ShowsItsOwnPlan`, `InstallsWhatItShowed`, `Stays`, `OkIsInstalled` | `AddShowsItsOwnPlan`, `AddInstallsWhatItShowed`, `StaysPlanned`, `AddReadyIsWhatWasInstalled` |
| `CredentialsProofs` | `StaysRenewable`, `LogoutIsOver`, `ForgetsNoneUnasked`, for commands that do not overlap | `StoredIsRenewable`, `SignedOutIsOver`, `EndsWhatItForgets` |
| `CommandProofs` (of `Rollout`) | `TypeCorrect`, `OkIsReached`, `EndIsAccepted` | `OkSawItsRollout`, `FinishedIsAccepted` |
| `PlatformProofs` | `TypeCorrect`, `NothingElseApplied`, `OkSawItsUpdate`, `FinishedIsAccepted`, `OwnRun`, `UpdateIsVerified` | the five of `platform` |
| `AddressAddonProofs` | `TypeCorrect`, `AsksBeforeWriting`, `NoUnaskedMove`, `TrueAnswers`, `OnlyItsKind` | `AsksFirst`, `MovesOnlyWhenTold`, `AnswersTruly`, `RemovesItsKind` |
| `CommandProofs` (of `Dispatch`) | `DispatchTypeCorrect`, `TrueReports`, `Definitive` | `SaysWhatItDid`, `GoneIsDefinitive` |
| `DiagnosisProofs` (of `Doctor`) | `TypeCorrect`, `PasswordStaysHome`, `TokenStaysHome`, `SoundPasses`, `GreenIsEarned`, `ChecksAreSaidOnce`, `ReportHolds` | the seven of `doctor` |
| `DiagnosisProofs` (of `LogFollow`) | `FollowTypeCorrect`, `FollowImplements` | `FollowTypeOK`, `IsATranscript` |

`AddonResourceProofs` has the lemmas about the resource that the first two share. For
each component a theorem `Inductive` (`FollowInductive`), or a lemma `Invariance`, is
the invariant the others follow from. None of the properties is inductive itself; what
it takes:

- **Upgrade.** That a plan at or past the generation zae wrote is the plan of zae's
  spec says nothing about the next state, unless one knows what the operator is
  working on and what the resource is at that generation. `OperatorInv`: a status,
  or a snapshot under way, with the resource's generation is of the resource's
  spec. `MineInv`: at the generation zae wrote the resource is still what zae wrote,
  untouched and not released; every write moves the generation past it.
  `UidInv` keeps apart a resource that was deleted and created anew.
  `UntouchedInv` and `InstallsWhatWasShown` carry the same fact past the install as
  long as nobody else writes. `BeforeInv` and `SettledInv` are the argument of a
  portal without generations. `PlaceInv` says what is known at each `pc`. Over this,
  a second layer (`EInv`) follows the command to its end: `ReadInv` (the addon at the
  generation read is what was read), `FoundInv` (a PATCH without values leaves those
  that were found), `FrozenInv` (nobody moved it, so the re-read does not say
  otherwise), `ReleasedInv` (at the install's generation the addon is what the
  install released), `EndsInv`.
- **Add.** What the portal has cached was the addon once (`CachedInv`), and `SoundInv`
  of the resource's own status then holds of the reading; `MineInv`, `UntouchedInv`,
  `FreshInv` and `ReleasedInv` as above.
- **Sessions** (each theorem is `ASSUME OneAtATime`, that is `MaxRunning = 1`: commands
  of one person that do not overlap. Nothing in the code sees to it, and with two the
  findings show what happens). `AloneInv`: one process acts. `ActsInv`: the file it read
  is the file it replaces. `KeptInv`: what the issuer keeps of a stored session is the
  stored token, but between a renewal and its being stored. `ApartInv`: no two instances
  share a session. `AskedInv`, `RevokedInv`: what a sign-out has asked for and seen
  done.
- **Rollout.** That a listing which looks settled is of a rollout that took place
  follows from the moment its counts were made: counts of the spec's generation were
  made of the pods of that generation (`CountedInv`), and the listing is of a moment
  when the counts were that (`ListedInv`).
- **Platform.** `Moves`: the operator reports what it rendered, and no console is ahead of
  it. `OwnTokens`: a request has a token of its own. `Bears`: the spec is what the update
  wrote until somebody else writes. `Seen`: a console that would settle the wait was
  taken when all was so. `Follows`: a verification has seen its run end before any
  console shows it.
- **Address.** `Quiet`: nothing is written or said before the run ends; `Reads`,
  `Shown`, `Consented`: each step carries what the write relies on; `ChartsRecorded`: a
  chart addon whose resource is there has its row, though a row may outlive its
  resource.
- **Dispatch.** `SetupQuiet` for setup: nothing is written or said before its one write;
  `Followed` and `CallsDeclared` for a declared command.
- **Doctor.** `PasswordInv`: nothing is typed before the login form, and then once.
  `TokenInv`: once anything was sent, the token is this sign-in's own or the user's.
  `TroubleInv`: what went wrong stands in the results. `GreenInv`: past the sign-in,
  something failed, or a line says why nobody was signed in, or there is a token the
  APIs accept. That a sound platform passes (`SoundStep`) needs what a run still relies
  on. `ReadInv`: what it read is so until others change it. `PlaylistInv`: among the
  packaged titles still to try is every one that is still packaged, and those found gone
  are missing, so that a run which gives up after `MaxGone` of them has met more than
  were removed; how many that is is a matter of cardinalities, and takes the finiteness
  of the library. `CheckInv`: how often each check was spoken of, by where the run is -
  the lines of a check are counted by their places (`Times`), so that a line more counts
  for one check (`LineAdded`). The report is a lemma about every sequence of results and
  sizes of details (`ReportFacts`): each budget grants a line no less than one worth
  less and drops none before it (`Sparing`, `BudgetFacts`), so that whichever fits first
  gives up in order (`SparingIsInOrder`); the last keeps failures by name, of which
  those kept are the first (`NamesAreInOrder`), as many as up to the last that fits,
  which none at all do when the document does.
- **Follow.** The refinement: `Reads` and `Prints` are steps of `Transcript`'s `Prints`,
  the containers that start again, go and come its `Begins`, everything else a stutter
  (`FollowStep`). That what `Prints` puts out continues what was printed is to be known
  when it is read, and then about two reads. `MemoryInv`: what is remembered is the last
  stamp printed and the texts printed at it, so that `fresh` keeps what was not printed
  and nothing else. `NoneSkipped`: at that stamp no line before a printed one is missing,
  unless a read tore the stamp apart. `ReadUpTo`: what is older than the last read is not
  after what was printed. A read starts at the last stamp or at the last read, whichever
  way it asks (`FromIs`: windows are whole seconds rounded up, and a round takes no longer
  than the margin), so that with `ReadUpTo` an answer that was not cut leaves out nothing
  that was not printed (`AnswerIs`, `ReadKeeps`). `UnreadInv`: of a source that is tracked
  anew, nothing of its present log was printed. `ClockInv` is the margin. What is printed
  is a set of places put in order (`InOrder`); that it is a run without gaps is `NoGaps`
  and `RunInOrder`, by cardinalities and without induction. The theorem assumes that no
  text is written twice at one stamp and that a round takes no longer than the margin:
  they are guards of `Writes` and `MayTick`.

**Only model-checked.** `EndsOrAsks`, which is liveness under fairness and out of the
prover's reach, and `InstallsOnlyWhatWasShown` and, for commands that overlap,
`SignedOutIsOver`, `RenewsOncePerExpiry` and `PutChangesOneInstance`, which are refuted
(section 4).

## 6. What is not modelled

- *Rendering* (`platform/render.go`, `addon/render.go`, most of `setup/render.go`),
  *redaction* (`redact/`), terminal modes (`term/`), flag parsing and HTTP itself: pure
  functions of what was read, with no state that a property could relate to another.
  `openSteps` and `scanRunning` of `setup/render.go` decide something and are in
  `Setup`.
- *Events and the debug bundle* (`debug/events.go`, `bundle.go`): independent reads,
  printed or written once into a file created with O_EXCL.
- *Device grant*: `oidc.Poll` changes nothing before it ends; the sign-in is one step.
  `whoami`, `me`, `status`, `list` only read.
- The portal, the operator, the cluster, the identity provider, the catalog and other
  administrators are *external*; their modules say what zae can observe of them and no
  more. Secret inputs of an addon are one Boolean, since zae never reads them back.
- Readings of the *upgrade* are of the moment they are made; that the portal may answer
  with an older one is modelled in `AddonAdd`.
- Exit codes that no property tells apart share a value, and where they do a comment
  says so. Components with status `partly` or `not_modelled` in `PROJECT.json` name
  the reason.
