------------------------------- MODULE Setup -------------------------------
(***************************************************************************)
(* The writes of `zae setup` (internal/setup): metadata, scan, pipeline,   *)
(* done and reopen.  Each reads the checklist, or the record that setup is *)
(* done, may ask, and makes one write, while other admins work through the *)
(* same checklist.                                                         *)
(*                                                                         *)
(* Covered: writes that the portal hands on to a catalog manager which is  *)
(* not there, refuses, is silent or fails; answers that are lost; a        *)
(* process that is killed - nothing here catches a signal once the key is  *)
(* read - and everything that can change between the read and the write.   *)
(* Limit: a checklist is read at one moment.                               *)
(***************************************************************************)
EXTENDS Naturals

CONSTANTS
  Unset,
  Me,           \* the admin who runs the command
  Others,       \* the other admins
  MaxOthers     \* bound: what others, and the platform, do

ASSUME SetupAssumption == Me \notin Others /\ Unset \notin Others \cup {Me} /\ MaxOthers \in Nat

VARIABLES
  catalog,      \* the catalog manager, as the portal reaches it
  key,          \* the TMDB key in effect
  scan,         \* the latest scan: "long" is one that began half an hour ago
  titled,       \* the catalog holds titles
  switch,       \* the pipeline on the operator's resource, Unset without one
  rolled,       \* its workers are rolled out
  secure,       \* devices reach the platform over https
  record,       \* who marked setup done
  acts,         \* how much of MaxOthers is used
  setupOp,      \* the command
  setupAt,      \* where it is
  doc,          \* the checklist it read
  setupEnd,     \* its exit code, and what it said of the platform
  mine,         \* history: what its write did,
  held          \* and that what was asked for was so at some moment

platform == <<catalog, key, scan, titled, switch, rolled, secure, record, acts>>
setupVars == <<platform, setupOp, setupAt, doc, setupEnd, mine, held>>

Kinds == {"metadata", "scan", "on", "off", "done", "reopen"}
StepNames == {"metadata", "library", "processing", "devices"}
States == {"done", "optional", "todo", "working", "unknown"}
Scans == {"none", "running", "long", "ended"}
SetupCodes == {"ok", "failed", "not offered", "undetermined", "forbidden", "usage", "killed"}

\* The values of the variables.
SetupTypeOK ==
  /\ catalog \in {"none", "silent", "refuses", "fails", "answers"}
  /\ key \in {"none", "environment", "setting"}
  /\ scan \in Scans
  /\ titled \in BOOLEAN
  /\ switch \in {"on", "off", Unset}
  /\ rolled \in BOOLEAN
  /\ secure \in BOOLEAN
  /\ record \in Others \cup {Me, Unset}
  /\ acts \in 0..MaxOthers
  /\ setupOp \in [kind : Kinds, yes : BOOLEAN]
  /\ setupAt \in {"read", "ask", "write", "done"}
  /\ doc \in [state : [StepNames -> States], none : BOOLEAN, scan : Scans,
              switch : {"on", "off", Unset}, record : Others \cup {Me, Unset}] \cup {Unset}
  /\ setupEnd \in [code : SetupCodes, word : {"nothing", "changed", "unsaid"}] \cup {Unset}
  /\ mine \in {"none", "wrote"}
  /\ held \in BOOLEAN

----------------------------------------------------------------------------
(* The checklist, read live. *)

StateOf(step) ==
  CASE step = "metadata" ->
         IF catalog # "answers" THEN "unknown" ELSE IF key = "none" THEN "todo" ELSE "done"
    [] step = "library" ->
         IF catalog # "answers" THEN "unknown"
         ELSE IF scan \in {"running", "long"} THEN "working"
         ELSE IF titled THEN "done" ELSE "todo"
    [] step = "processing" ->
         IF switch = Unset THEN "unknown"
         ELSE IF switch = "off" THEN "optional"
         ELSE IF rolled THEN "done" ELSE "working"
    [] step = "devices" -> IF secure THEN "done" ELSE "todo"

Checklist ==
  [state |-> [s \in StepNames |-> StateOf(s)], none |-> catalog = "none",
   scan |-> IF catalog = "answers" THEN scan ELSE "none", switch |-> switch, record |-> record]

\* The counted steps that are not done; an optional one is.
openSteps(d) == {s \in StepNames : d.state[s] \notin {"done", "optional"}}

----------------------------------------------------------------------------
(* The command. *)

SetupEnds(code, word) ==
  /\ setupEnd' = [code |-> code, word |-> word]
  /\ setupAt' = "done"

\* Nothing reaches the instance: what is given does not do, or cannot be a key, or there
\* is nobody to ask, or the prompt for the key is interrupted.
KeyUnfit ==
  /\ setupAt = "read"
  /\ \E code \in {"usage", "killed"} : SetupEnds(code, "unsaid")
  /\ UNCHANGED <<platform, setupOp, doc, mine, held>>

\* The state the command is to bring about is there.
AsAsked ==
  CASE setupOp.kind = "metadata" -> key = "setting"
    [] setupOp.kind = "scan" -> scan \in {"running", "long"}
    [] setupOp.kind \in {"on", "off"} -> switch = setupOp.kind
    [] setupOp.kind = "done" -> record # Unset
    [] setupOp.kind = "reopen" -> record = Unset

\* A scan that began half an hour ago has most likely stopped.
Already(d) ==
  CASE setupOp.kind = "metadata" -> FALSE
    [] setupOp.kind = "scan" -> d.scan = "running"
    [] setupOp.kind \in {"on", "off"} -> d.switch = setupOp.kind
    [] setupOp.kind = "done" -> d.record # Unset
    [] setupOp.kind = "reopen" -> d.record = Unset

NotOffered(d) ==
  \/ setupOp.kind \in {"metadata", "scan"} /\ d.none
  \/ setupOp.kind \in {"on", "off"} /\ d.switch = Unset

\* done asks only while steps are open, scan and reopen never.
AsksFor(d) ==
  /\ ~setupOp.yes
  /\ setupOp.kind \in {"metadata", "on", "off"} \/ (setupOp.kind = "done" /\ openSteps(d) # {})

ReadsChecklist ==
  /\ setupAt = "read"
  /\ doc' = Checklist
  /\ held' = AsAsked
  /\ IF NotOffered(Checklist) THEN SetupEnds("not offered", "unsaid")
     ELSE IF Already(Checklist) THEN SetupEnds("ok", "nothing")
     ELSE /\ setupAt' = IF AsksFor(Checklist) THEN "ask" ELSE "write"
          /\ UNCHANGED setupEnd
  /\ UNCHANGED <<platform, setupOp, mine>>

\* No answer, not the API's, not an admin.
ReadRefused ==
  /\ setupAt = "read"
  /\ \E code \in {"undetermined", "forbidden", "not offered", "failed"} : SetupEnds(code, "unsaid")
  /\ UNCHANGED <<platform, setupOp, doc, mine, held>>

\* Anything but y or yes is no.
SetupAsks ==
  /\ setupAt = "ask"
  /\ \/ setupAt' = "write" /\ UNCHANGED setupEnd
     \/ SetupEnds("failed", "nothing")
  /\ UNCHANGED <<platform, setupOp, doc, mine, held>>

\* What a write does to the platform.  The first record that setup is done stays.
Takes(kind) ==
  /\ key' = IF kind = "metadata" THEN "setting" ELSE key
  /\ scan' = IF kind = "scan" THEN "running" ELSE scan
  /\ switch' = IF kind \in {"on", "off"} THEN kind ELSE switch
  /\ rolled' = IF kind \in {"on", "off"} THEN FALSE ELSE rolled
  /\ record' = CASE kind = "done" -> IF record = Unset THEN Me ELSE record
                 [] kind = "reopen" -> Unset
                 [] OTHER -> record
  /\ UNCHANGED <<catalog, titled, secure, acts>>

ByCatalog == setupOp.kind \in {"metadata", "scan"}

\* Fault: a catalog manager that is not heard of did nothing.
SilenceIsFailure == SetupEnds("failed", "nothing")

\* The portal took the write, and cannot say whether it arrived.
CatalogSilent == SetupEnds("undetermined", "unsaid")

\* A write that arrives.  Its answer may be lost, or be a gateway's.
SetupWrites ==
  /\ setupAt = "write"
  /\ ByCatalog => catalog \in {"answers", "silent"}
  /\ setupOp.kind \in {"on", "off"} => switch # Unset
  /\ UNCHANGED <<setupOp, doc>>
  /\ Takes(setupOp.kind)
  /\ mine' = "wrote"
  /\ held' = (held \/ AsAsked')
  /\ \/ \E code \in {"undetermined", "failed"} : SetupEnds(code, "unsaid")
     \/ IF ByCatalog /\ catalog = "silent" THEN CatalogSilent ELSE SetupEnds("ok", "changed")

\* One that does not, or is refused: by the portal, or by a catalog manager that is not
\* there or fails.
SetupRefused ==
  /\ setupAt = "write"
  /\ \/ \E code \in {"undetermined", "forbidden", "not offered", "failed"} :
          SetupEnds(code, "unsaid")
     \/ ByCatalog /\ catalog = "silent" /\ CatalogSilent
  /\ UNCHANGED <<platform, setupOp, doc, mine, held>>

SetupKilled ==
  /\ setupAt # "done"
  /\ SetupEnds("killed", "unsaid")
  /\ UNCHANGED <<platform, setupOp, doc, mine, held>>

SetupCommand ==
  KeyUnfit \/ ReadsChecklist \/ ReadRefused \/ SetupAsks \/ SetupWrites \/ SetupRefused \/ SetupKilled

SetupStarts ==
  /\ setupAt = "read"
  /\ doc = Unset
  /\ setupEnd = Unset
  /\ mine = "none"
  /\ held = FALSE

SetupInit ==
  /\ catalog \in {"none", "silent", "refuses", "fails", "answers"}
  /\ key \in {"none", "environment", "setting"}
  /\ scan \in Scans
  /\ titled \in BOOLEAN
  /\ switch \in {"on", "off", Unset}
  /\ rolled = (switch = "on")
  /\ secure \in BOOLEAN
  /\ record \in Others \cup {Unset}
  /\ acts = 0
  /\ setupOp \in [kind : Kinds, yes : BOOLEAN]
  /\ setupOp.kind \in {"scan", "reopen"} => ~setupOp.yes
  /\ SetupStarts

----------------------------------------------------------------------------
(* Other admins, and the platform itself. *)

CatalogTurns == \E c \in {"silent", "answers"} :
  catalog # "none" /\ catalog' = c /\ UNCHANGED <<key, scan, titled, switch, rolled, secure, record>>

ScanGoesOn ==
  /\ \/ scan = "running" /\ scan' \in {"long", "ended"} /\ titled' \in {titled, TRUE}
     \/ scan \in {"none", "long", "ended"} /\ scan' = "running" /\ UNCHANGED titled
  /\ UNCHANGED <<catalog, key, switch, rolled, secure, record>>

KeyChanges ==
  /\ key' \in {"none", "setting"}
  /\ UNCHANGED <<catalog, scan, titled, switch, rolled, secure, record>>

PipelineTurns ==
  /\ switch # Unset
  /\ \/ switch' \in {"on", "off"} /\ rolled' = FALSE
     \/ rolled' = TRUE /\ UNCHANGED switch
  /\ UNCHANGED <<catalog, key, scan, titled, secure, record>>

RecordChanges ==
  /\ \/ record = Unset /\ record' \in Others
     \/ record # Unset /\ record' = Unset
  /\ UNCHANGED <<catalog, key, scan, titled, switch, rolled, secure>>

SetupWorld ==
  /\ setupAt # "done"
  /\ acts < MaxOthers
  /\ acts' = acts + 1
  /\ CatalogTurns \/ ScanGoesOn \/ KeyChanges \/ PipelineTurns \/ RecordChanges
  /\ UNCHANGED <<setupOp, setupAt, doc, setupEnd, mine>>
  /\ held' = (held \/ AsAsked')

----------------------------------------------------------------------------
(* What it promises. *)

\* What a run says is so: with exit 0, what was asked for was so at some moment of the
\* run, by its own write or found so already; and it says that nothing changed only when
\* it has not written, also when a catalog manager falls silent behind the portal
\* (writes.go:40-60, 92-112, 155-169; pipeline.go:43-77; do, portal.go:243-247).
SaysWhatItDid ==
  setupEnd # Unset =>
    /\ setupEnd.code = "ok" => held
    /\ setupEnd.word = "nothing" => mine = "none"
    /\ setupEnd.word = "changed" => mine = "wrote"

=============================================================================
