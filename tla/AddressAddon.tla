---------------------------- MODULE AddressAddon ----------------------------
(***************************************************************************)
(* Addons added by their address: `zae addon add http://...`, `refresh`,   *)
(* and `remove` (internal/addon/address_add.go, address.go, addon.go), on  *)
(* a portal whose rows others change meanwhile and on services that are    *)
(* redeployed.  The portal, which is not under src/, is the one the calls  *)
(* and their tests describe: it reads the manifest at the address, has one *)
(* row for each addon, moves one only when told to, and keeps its hands    *)
(* off chart addons.  The resource of a chart addon can be deleted past it *)
(* (kubectl); the addon's row is then what is left.                        *)
(*                                                                         *)
(* Covered: a portal that predates the check and installs instead, calls   *)
(* whose answer is lost before or after they took effect, an interrupt at  *)
(* any point, everything that can change between the check, the question   *)
(* and the write.  Limit: the space an addon's tiles go to is only found   *)
(* to be there or not.                                                     *)
(***************************************************************************)
EXTENDS Naturals, FiniteSets

CONSTANTS
  Addrs,
  Keys,
  Chart,        \* the row of a chart addon
  Nil,
  MaxDeeds     \* bound: what others do

ASSUME AddressAssumption ==
  /\ Chart \notin Addrs
  /\ Nil \notin Addrs \cup Keys \cup {Chart}
  /\ MaxDeeds \in Nat

VARIABLES
  older,        \* the portal predates the check
  serves,       \* the addon that each address serves
  rows,         \* the address each addon is recorded at, or Chart
  charts,       \* the addons that have a chart resource
  others,       \* how much others have done
  op,           \* the command
  stage,
  at,           \* the address it reads, or Chart
  chk,          \* what the check answered
  agreed,       \* the question was answered, or --yes given
  outcome,      \* the exit code, and what was said of the portal's records
  wrote         \* history: what zae's calls changed

portalVars == <<older, serves, rows, charts, others>>
vars == <<portalVars, op, stage, at, chk, agreed, outcome, wrote>>

Ops ==
  [kind : {"add"}, addr : Addrs, dryRun : BOOLEAN, replace : BOOLEAN, yes : BOOLEAN]
  \cup [kind : {"refresh"}, name : Keys, yes : BOOLEAN]
  \cup [kind : {"remove"}, name : Keys, keep : BOOLEAN, yes : BOOLEAN]

Checks == [key : Keys, from : Addrs \cup {Nil}]
Codes == {"ok", "failed", "not offered", "usage", "undetermined", "interrupted"}
Words == {"nothing", "may", "done", "left", "unsaid"}
Changes == [key : Keys, from : Addrs \cup {Chart, Nil}, to : Addrs \cup {Nil}]

\* Every variable holds a value of its kind.
TypeOK ==
  /\ older \in BOOLEAN
  /\ serves \in [Addrs -> Keys \cup {Nil}]
  /\ rows \in [Keys -> Addrs \cup {Chart, Nil}]
  /\ charts \in SUBSET Keys
  /\ others \in 0..MaxDeeds
  /\ op \in Ops
  /\ stage \in {"find", "check", "decide", "ask", "install", "listed", "delete", "done"}
  /\ at \in Addrs \cup {Chart, Nil}
  /\ chk \in Checks \cup {Nil}
  /\ agreed \in BOOLEAN
  /\ outcome \in [code : Codes, word : Words] \cup {Nil}
  /\ wrote \in SUBSET Changes

IsAdd == op.kind = "add"
IsRemove == op.kind = "remove"

Init ==
  /\ older \in BOOLEAN
  /\ serves \in [Addrs -> Keys \cup {Nil}]
  /\ rows \in [Keys -> Addrs \cup {Chart, Nil}]
  /\ charts \in SUBSET {k \in Keys : rows[k] = Chart}
  /\ others = 0
  /\ op \in Ops
  /\ stage = IF IsAdd THEN "check" ELSE "find"
  /\ at = IF IsAdd THEN op.addr ELSE Nil
  /\ chk = Nil
  /\ agreed = FALSE
  /\ outcome = Nil
  /\ wrote = {}

Ends(code, word) ==
  /\ outcome' = [code |-> code, word |-> word]
  /\ stage' = "done"

----------------------------------------------------------------------------
(* The portal. *)

\* The row a manifest read at an address makes.
Records(a) ==
  /\ rows' = [rows EXCEPT ![serves[a]] = a]
  /\ wrote' = wrote \cup {[key |-> serves[a], from |-> rows[serves[a]], to |-> a]}

Removes(k) ==
  /\ rows' = [rows EXCEPT ![k] = Nil]
  /\ charts' = charts \ {k}
  /\ wrote' = wrote \cup {[key |-> k, from |-> rows[k], to |-> Nil]}

\* Nothing answers there, or the addon is a chart's.
Refuses(a) == serves[a] = Nil \/ rows[serves[a]] = Chart

MovedBy(a) == rows[serves[a]] \notin {a, Nil}

----------------------------------------------------------------------------
(* What zae does. *)

\* A read or a check that gets no answer, or an interrupt.
NoAnswer ==
  /\ stage \in {"find", "listed", "check"}
  /\ \E code \in {"undetermined", "interrupted"} : Ends(code, "unsaid")
  /\ UNCHANGED <<portalVars, op, at, chk, agreed, wrote>>

\* A space the launchpad does not have is said before anything is checked.
NoSuchSpace ==
  /\ stage = "check"
  /\ ~IsRemove
  /\ Ends("not offered", "unsaid")
  /\ UNCHANGED <<portalVars, op, at, chk, agreed, wrote>>

\* refresh: the addon's row of the list.
FindListed ==
  /\ stage = "find" /\ op.kind = "refresh"
  /\ at' = rows[op.name]
  /\ CASE at' = Nil -> Ends("not offered", "unsaid")
       [] at' = Chart -> Ends("usage", "unsaid")
       [] OTHER -> stage' = "check" /\ UNCHANGED outcome
  /\ UNCHANGED <<portalVars, op, chk, agreed, wrote>>

\* The check writes nothing, and answers what an install would do.
Check ==
  /\ stage = "check" /\ ~older
  /\ IF Refuses(at)
     THEN Ends("failed", "unsaid") /\ UNCHANGED chk
     ELSE /\ chk' = [key |-> serves[at], from |-> IF MovedBy(at) THEN rows[serves[at]] ELSE Nil]
          /\ stage' = "decide"
          /\ UNCHANGED outcome
  /\ UNCHANGED <<portalVars, op, at, agreed, wrote>>

InstalledInstead == Ends(IF IsAdd /\ op.dryRun THEN "failed" ELSE "ok", "done")

\* A portal that predates the check installs.
CheckInstalls ==
  /\ stage = "check" /\ older
  /\ IF Refuses(at) \/ MovedBy(at)
     THEN Ends("failed", "unsaid") /\ UNCHANGED <<rows, wrote>>
     ELSE /\ Records(at)
          /\ InstalledInstead \/ \E code \in {"undetermined", "interrupted"} : Ends(code, "unsaid")
  /\ UNCHANGED <<older, serves, charts, others, op, at, chk, agreed>>

Moving == chk.from # Nil

\* Fault: --replace-address is taken for the answer too.
ReplaceIsConsent == IF Moving THEN "install" ELSE "ask"

\* What follows a check that nothing speaks against.
AfterCheck == "ask"

\* A dry run stops here, a move without --replace-address too; a refresh never moves.
Decides ==
  /\ stage = "decide"
  /\ IF IsAdd /\ op.dryRun THEN Ends("ok", "nothing")
     ELSE IF Moving /\ (IsAdd => ~op.replace) THEN Ends("failed", "nothing")
     ELSE stage' = AfterCheck /\ UNCHANGED outcome
  /\ UNCHANGED <<portalVars, op, at, chk, agreed, wrote>>

Asks ==
  /\ stage = "ask"
  /\ \E answer \in IF op.yes THEN {"yes"} ELSE {"yes", "no", "interrupt"} :
       IF answer = "yes"
       THEN /\ agreed' = TRUE
            /\ stage' = IF IsRemove THEN "delete" ELSE "install"
            /\ UNCHANGED outcome
       ELSE /\ Ends(IF answer = "no" THEN "failed" ELSE "interrupted", "nothing")
            /\ UNCHANGED agreed
  /\ UNCHANGED <<portalVars, op, at, chk, wrote>>

\* Fault: the flag goes along whatever the check showed.
WhateverWasShown == IsAdd /\ op.replace

\* replaceAddress is sent for a move that was shown.
SendsReplace == Moving

\* Fault: an interrupted call is taken to have done nothing.
WroteNothing(code) == Ends(code, "nothing")

\* A call whose answer is lost may have taken effect.
Lost(code) == Ends(code, IF code = "interrupted" THEN "may" ELSE "unsaid")

Install ==
  /\ stage = "install"
  /\ \/ /\ IF Refuses(at) \/ (MovedBy(at) /\ ~SendsReplace)
           THEN Ends("failed", "unsaid") /\ UNCHANGED <<rows, wrote>>
           ELSE /\ Records(at)
                /\ Ends("ok", "done") \/ \E code \in {"undetermined", "interrupted"} : Lost(code)
     \/ /\ \E code \in {"undetermined", "interrupted"} : Lost(code)
        /\ UNCHANGED <<rows, wrote>>
  /\ UNCHANGED <<older, serves, charts, others, op, at, chk, agreed>>

\* remove: a chart addon, or else a row of the list.
GetChart ==
  /\ stage = "find" /\ IsRemove
  /\ IF op.name \in charts
     THEN at' = Chart /\ stage' = "ask"
     ELSE stage' = "listed" /\ UNCHANGED at
  /\ UNCHANGED <<portalVars, op, chk, agreed, outcome, wrote>>

\* A chart addon whose resource cannot be read is not removed by its row.
GetListed ==
  /\ stage = "listed"
  /\ at' = rows[op.name]
  /\ CASE at' \in {Nil, Chart} -> Ends("not offered", "unsaid")
       [] at' \in Addrs /\ op.keep -> Ends("usage", "unsaid")
       [] OTHER -> stage' = "ask" /\ UNCHANGED outcome
  /\ UNCHANGED <<portalVars, op, chk, agreed, wrote>>

\* Fault: an address addon is removed through the chart API too.
RemovesAnyKind == op.name \in charts \/ rows[op.name] # Nil

\* What the call that removes a kind finds to remove.
FindsItsKind ==
  IF at = Chart THEN op.name \in charts ELSE rows[op.name] \in Addrs

\* The resource of the chart addon it described has gone since.
ResourceGone == at = Chart /\ op.name \notin charts

\* The portal then takes away what is left: the row, unless it went too.
RemovesWhatIsLeft ==
  IF rows[op.name] = Chart THEN Removes(op.name) ELSE UNCHANGED <<rows, charts, wrote>>

\* With --keep-values it says "removed" and what is kept all the same.
SaysWhatWasLeft ==
  \E word \in {"left"} \cup (IF op.keep THEN {"done"} ELSE {}) : Ends("ok", word)

Delete ==
  /\ stage = "delete"
  /\ \/ /\ FindsItsKind
        /\ Removes(op.name)
        /\ Ends("ok", "done") \/ \E code \in {"undetermined", "interrupted"} : Lost(code)
     \/ /\ ResourceGone
        /\ RemovesWhatIsLeft
        /\ SaysWhatWasLeft \/ \E code \in {"undetermined", "interrupted"} : Lost(code)
     \/ /\ ~FindsItsKind
        /\ Ends("not offered", "unsaid")
        /\ UNCHANGED <<rows, charts, wrote>>
     \/ /\ \E code \in {"undetermined", "interrupted"} : Lost(code)
        /\ UNCHANGED <<rows, charts, wrote>>
  /\ UNCHANGED <<older, serves, others, op, at, chk, agreed>>

Zae ==
  \/ NoAnswer
  \/ NoSuchSpace
  \/ FindListed
  \/ Check
  \/ CheckInstalls
  \/ Decides
  \/ Asks
  \/ Install
  \/ GetChart
  \/ GetListed
  \/ Delete

----------------------------------------------------------------------------
(* What others do meanwhile. *)

Redeployed(a, k) == serves' = [serves EXCEPT ![a] = k] /\ UNCHANGED <<rows, charts>>

Installed(a) ==
  /\ ~Refuses(a)
  /\ rows' = [rows EXCEPT ![serves[a]] = a]
  /\ UNCHANGED <<serves, charts>>

ChartInstalled(k) ==
  /\ rows[k] \in {Nil, Chart} /\ k \notin charts
  /\ rows' = [rows EXCEPT ![k] = Chart]
  /\ charts' = charts \cup {k}
  /\ UNCHANGED serves

Removed(k) ==
  /\ rows[k] # Nil
  /\ rows' = [rows EXCEPT ![k] = Nil]
  /\ charts' = charts \ {k}
  /\ UNCHANGED serves

\* Past the portal, which keeps the row.
ResourceDeleted(k) ==
  /\ k \in charts
  /\ charts' = charts \ {k}
  /\ UNCHANGED <<serves, rows>>

OthersAct ==
  /\ stage # "done"
  /\ others < MaxDeeds
  /\ others' = others + 1
  /\ \/ \E a \in Addrs, k \in Keys \cup {Nil} : Redeployed(a, k)
     \/ \E a \in Addrs : Installed(a)
     \/ \E k \in Keys : ChartInstalled(k) \/ Removed(k) \/ ResourceDeleted(k)
  /\ UNCHANGED <<older, op, stage, at, chk, agreed, outcome, wrote>>

Next == Zae \/ OthersAct

Spec == Init /\ [][Next]_vars

----------------------------------------------------------------------------
(* What it promises. *)

\* Nothing is written before the question is answered with yes, whatever declines,
\* dry runs and interrupts there are, unless the portal predates the check and installs
\* what it was asked to check (addAddress, address_add.go:95-166; confirm,
\* session.go:118-133).
AsksFirst == wrote # {} /\ (IsRemove \/ ~older) => agreed

\* An addon moves to another address only by an add with --replace-address whose check
\* showed a move, also when it was moved or removed by others since (address_add.go:
\* 127-166; refresh, 242-325).
MovesOnlyWhenTold ==
  \A c \in wrote : c.from \in Addrs /\ c.to \in Addrs \ {c.from} =>
    IsAdd /\ op.replace /\ Moving

\* No addon of the kind that the removal described is left under its name.
NoneOfItsKind ==
  IF at = Chart THEN op.name \notin charts /\ rows[op.name] # Chart ELSE rows[op.name] = Nil

\* What zae says of the portal's records is so.  A run that says that nothing was written
\* wrote nothing; one that says what was done did just that, only a removal with
\* --keep-values may find that others did it first.  An add or a refresh that ends well has
\* written, unless it was a dry run, which fails when it wrote; a removal that ends well
\* leaves no addon of the kind it described, also when the resource had gone already and
\* only its row was left (failOr, addon.go:131-141; remove, 634-655; check,
\* address_add.go:171-200; installAddress, 203-217; removeAddress, address.go:202-245).
AnswersTruly ==
  outcome # Nil =>
    /\ outcome.word = "nothing" => wrote = {}
    /\ outcome.word = "done" =>
         Cardinality(wrote) = 1 \/ (IsRemove /\ op.keep /\ wrote = {} /\ at = Chart)
    /\ outcome.code = "ok" =>
         IF IsRemove THEN NoneOfItsKind ELSE (wrote = {}) = (IsAdd /\ op.dryRun)

\* A removal takes away an addon of the kind it described, also when one of the other kind
\* has taken its name since, and never the row of a chart addon alone (remove,
\* addon.go:568-655; removeAddress, address.go:202-245).
RemovesItsKind ==
  IsRemove => \A c \in wrote : c.key = op.name /\ (c.from = Chart <=> at = Chart)

=============================================================================
