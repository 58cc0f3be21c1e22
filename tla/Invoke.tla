------------------------------- MODULE Invoke -------------------------------
(***************************************************************************)
(* `zae <service> <command>` and `zae require` (internal/invoke,           *)
(* internal/capability): find the command in what the instance declares,   *)
(* make the call it declares, and, when that is answered 404, ask once     *)
(* more what is declared now.  Meanwhile services come and go, and declare *)
(* their commands anew.                                                    *)
(*                                                                         *)
(* Covered: discovery that is not there, not reachable or of a newer       *)
(* schema, at the first and at the second time of asking; a command that   *)
(* is gone, comes back or moved to another path; calls that get no answer. *)
(***************************************************************************)
EXTENDS Naturals

CONSTANTS
  NoPath,       \* no path, and no exit code yet
  Paths,        \* what a command may be declared at
  MaxTurns      \* bound: what happens to the instance

ASSUME InvokeAssumption == NoPath \notin Paths \cup 0..6 /\ MaxTurns \in Nat

VARIABLES
  discovery,    \* how discovery answers
  service,      \* the service is declared
  path,         \* where its command is declared to be, or NoPath
  turns,        \* how much of MaxTurns is used
  invokeOp,     \* the command
  invokeAt,     \* where it is
  found,        \* the path it read
  invokeCode,   \* its exit code
  beenThere,    \* history: it was declared at some moment of the run,
  beenAway      \* and it was not, at some moment

instance == <<discovery, service, path, turns>>
invokeVars == <<instance, invokeOp, invokeAt, found, invokeCode, beenThere, beenAway>>

Invocations == [kind : {"run", "require", "require service"}, fits : BOOLEAN]
ExitCodes == 0..6

\* The values of the variables.
InvokeTypeOK ==
  /\ discovery \in {"answers", "missing", "down", "newer"}
  /\ service \in BOOLEAN
  /\ path \in Paths \cup {NoPath}
  /\ turns \in 0..MaxTurns
  /\ invokeOp \in Invocations
  /\ invokeAt \in {"discover", "call", "again", "done"}
  /\ found \in Paths \cup {NoPath}
  /\ invokeCode \in ExitCodes \cup {NoPath}
  /\ beenThere \in BOOLEAN
  /\ beenAway \in BOOLEAN

----------------------------------------------------------------------------

InvokeEnds(code) == invokeCode' = code /\ invokeAt' = "done"

\* Find, as far as what is asked for goes.
Declared == IF invokeOp.kind = "require service" THEN service ELSE path # NoPath

\* What discovery says when it does not answer: not there, not reachable, or newer.
Undiscovered == IF discovery = "newer" THEN 6 ELSE 4

Discovers ==
  /\ invokeAt = "discover"
  /\ IF discovery # "answers" THEN InvokeEnds(Undiscovered) /\ UNCHANGED found
     ELSE IF ~Declared THEN InvokeEnds(3) /\ UNCHANGED found
     ELSE IF invokeOp.kind # "run" THEN InvokeEnds(0) /\ UNCHANGED found
     ELSE IF ~invokeOp.fits THEN InvokeEnds(2) /\ UNCHANGED found
     ELSE /\ found' = path
          /\ invokeAt' = "call"
          /\ UNCHANGED invokeCode
  /\ UNCHANGED <<instance, invokeOp, beenThere, beenAway>>

\* Credentials there are, and cannot be made usable.
Unauthorized ==
  /\ invokeAt = "call"
  /\ InvokeEnds(5)
  /\ UNCHANGED <<instance, invokeOp, found, beenThere, beenAway>>

\* No answer, 2xx, 401 or 403, or an error; where nothing is declared any more, and for
\* reasons of the service, 404.
Calls ==
  /\ invokeAt = "call"
  /\ \/ InvokeEnds(4)
     \/ path = found /\ \E code \in {0, 1, 5} : InvokeEnds(code)
     \/ invokeAt' = "again" /\ UNCHANGED invokeCode
  /\ UNCHANGED <<instance, invokeOp, found, beenThere, beenAway>>

\* Fault: without an answer the second time the command is taken to be gone.
SilenceIsGone == discovery # "answers" \/ ~Declared

\* Only a discovery that answers says that it is gone.
GoneNow == discovery = "answers" /\ ~Declared

DiscoversAgain ==
  /\ invokeAt = "again"
  /\ InvokeEnds(IF GoneNow THEN 3 ELSE 1)
  /\ UNCHANGED <<instance, invokeOp, found, beenThere, beenAway>>

InvokeCommand == Discovers \/ Unauthorized \/ Calls \/ DiscoversAgain

InvokeStarts ==
  /\ invokeAt = "discover"
  /\ found = NoPath
  /\ invokeCode = NoPath

InvokeInit ==
  /\ discovery \in {"answers", "missing", "down", "newer"}
  /\ service \in BOOLEAN
  /\ path \in IF service THEN Paths \cup {NoPath} ELSE {NoPath}
  /\ turns = 0
  /\ invokeOp \in Invocations
  /\ beenThere = Declared
  /\ beenAway = ~Declared
  /\ InvokeStarts

\* Services are installed, removed and declare their commands anew.
InvokeWorld ==
  /\ invokeAt # "done"
  /\ turns < MaxTurns
  /\ turns' = turns + 1
  /\ discovery' \in {"answers", "missing", "down", "newer"}
  /\ service' \in BOOLEAN
  /\ path' \in IF service' THEN Paths \cup {NoPath} ELSE {NoPath}
  /\ UNCHANGED <<invokeOp, invokeAt, found, invokeCode>>
  /\ beenThere' = (beenThere \/ Declared')
  /\ beenAway' = (beenAway \/ ~Declared')

----------------------------------------------------------------------------
(* What it promises. *)

\* Exit 3 is definitive and exit 4 never is: not offered is said only of what the instance
\* did not declare at some moment of the run, and that a command ran, failed, or may not
\* be run only of one it did declare then, whatever is removed, declared anew or not
\* reachable between the discovery, the call and the second discovery (Run, invoke.go:
\* 143-157; discover, 207-224; exitcode.go:22-30).
GoneIsDefinitive ==
  /\ invokeCode = 3 => beenAway
  /\ invokeCode \in {0, 1, 5} => beenThere

=============================================================================
