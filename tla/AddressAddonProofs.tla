------------------------- MODULE AddressAddonProofs -------------------------
(***************************************************************************)
(* What AddressAddon promises, proved for every number of addresses,       *)
(* addons and acts of others.                                              *)
(*                                                                         *)
(* The argument: until the run ends nothing is written and nothing is      *)
(* said (Quiet); each step on the way to a write carries what the write    *)
(* relies on (Reads, Shown, Consented); and the portal has a row for each  *)
(* chart addon whose resource is there (ChartsRecorded).  The one write is *)
(* then made from a state in which the four properties are plain.          *)
(***************************************************************************)
EXTENDS AddressAddon, FiniteSetTheorems, TLAPS

Quiet == stage # "done" => wrote = {} /\ outcome = Nil

ChartsRecorded == \A k \in charts : rows[k] = Chart

Reads ==
  /\ stage \in {"check", "decide", "install"} => ~IsRemove /\ at \in Addrs
  /\ stage = "ask" /\ ~IsRemove => at \in Addrs
  /\ stage \in {"listed", "delete"} => IsRemove

Shown ==
  /\ stage = "decide" => chk \in Checks
  /\ stage \in {"ask", "install"} /\ ~IsRemove =>
       /\ chk \in Checks
       /\ ~(IsAdd /\ op.dryRun)
       /\ Moving => IsAdd /\ op.replace

Consented == stage \in {"install", "delete"} => agreed

Inv ==
  /\ TypeOK
  /\ Quiet
  /\ ChartsRecorded
  /\ Reads
  /\ Shown
  /\ Consented
  /\ AsksFirst
  /\ MovesOnlyWhenTold
  /\ AnswersTruly
  /\ RemovesItsKind

----------------------------------------------------------------------------

\* The flags and names that a command of each kind has (add, refresh and remove,
\* address_add.go and addon.go).
LEMMA OpFields ==
  ASSUME op \in Ops
  PROVE  /\ IsAdd => op.addr \in Addrs
         /\ ~IsAdd => op.name \in Keys
         /\ IsAdd => ~IsRemove
         /\ op.kind = "refresh" => ~IsAdd /\ ~IsRemove
BY DEF Ops, IsAdd, IsRemove

\* A run that ends without having written, and says only that: every property holds of
\* where it leaves the portal (failOr, addon.go:131-141).
LEMMA EndsUnwritten ==
  ASSUME Inv, stage # "done",
         UNCHANGED <<portalVars, op, at, chk, wrote>>, agreed' = agreed,
         NEW code \in Codes, NEW word \in {"nothing", "may", "unsaid"},
         Ends(code, word),
         code = "ok" => (IsAdd /\ op.dryRun) \/ (IsRemove /\ NoneOfItsKind)
  PROVE  Inv'
<1>1. wrote = {} /\ wrote' = {}
  BY DEF Inv, Quiet
<1>2. TypeOK'
  BY DEF Inv, TypeOK, Ends, portalVars, Words
<1>3. (Quiet /\ ChartsRecorded /\ Reads /\ Shown /\ Consented)'
  BY DEF Inv, Quiet, ChartsRecorded, Reads, Shown, Consented, Ends, portalVars
<1>4. AnswersTruly'
  BY <1>1 DEF AnswersTruly, Ends, IsAdd, IsRemove, NoneOfItsKind, portalVars
<1> QED
  BY <1>1, <1>2, <1>3, <1>4 DEF Inv, AsksFirst, MovesOnlyWhenTold, RemovesItsKind

\* A step of zae that neither writes nor ends keeps the four properties (the calls between
\* the first read and the write, address_add.go:95-166).
LEMMA GoesOn ==
  ASSUME Inv, stage # "done", stage' # "done", UNCHANGED <<wrote, outcome>>
  PROVE  (Quiet /\ AsksFirst /\ MovesOnlyWhenTold /\ AnswersTruly /\ RemovesItsKind)'
BY DEF Inv, Quiet, AsksFirst, MovesOnlyWhenTold, AnswersTruly, RemovesItsKind

\* What reading a manifest at an address does to the portal's rows (POST of addAddress,
\* address_add.go:171-217).
LEMMA RecordsRow ==
  ASSUME Inv, stage # "done", NEW a \in Addrs, ~Refuses(a), Records(a), charts' = charts
  PROVE  /\ serves[a] \in Keys
         /\ rows' \in [Keys -> Addrs \cup {Chart, Nil}]
         /\ wrote' = {[key |-> serves[a], from |-> rows[serves[a]], to |-> a]}
         /\ wrote' \in SUBSET Changes
         /\ Cardinality(wrote') = 1
         /\ ChartsRecorded'
<1>1. serves[a] \in Keys /\ rows[serves[a]] \in Addrs \cup {Nil}
  BY DEF Inv, TypeOK, Refuses
<1>2. rows' \in [Keys -> Addrs \cup {Chart, Nil}]
  BY DEF Inv, TypeOK, Records
<1>3. wrote' = {[key |-> serves[a], from |-> rows[serves[a]], to |-> a]}
  BY DEF Inv, Quiet, Records
<1>4. wrote' \in SUBSET Changes
  BY <1>1, <1>3 DEF Changes
<1>5. Cardinality(wrote') = 1
  BY <1>3, FS_Singleton
<1>6. ChartsRecorded'
  BY <1>1, AddressAssumption DEF Inv, TypeOK, ChartsRecorded, Records
<1> QED
  BY <1>1, <1>2, <1>3, <1>4, <1>5, <1>6

----------------------------------------------------------------------------

\* The first state (add, refresh and remove before their first call).
LEMMA InvInit == Init => Inv
<1> SUFFICES ASSUME Init
             PROVE  Inv
  OBVIOUS
<1>1. TypeOK
  <2>1. at \in Addrs \cup {Chart, Nil} /\ stage \in {"check", "find"}
    BY OpFields DEF Init
  <2>2. charts \in SUBSET Keys /\ others \in 0..MaxDeeds /\ wrote \in SUBSET Changes
    BY AddressAssumption DEF Init
  <2> QED
    BY <2>1, <2>2 DEF Init, TypeOK
<1> QED
  BY <1>1, OpFields, AddressAssumption
     DEF Init, Inv, Quiet, ChartsRecorded, Reads, Shown, Consented, AsksFirst,
         MovesOnlyWhenTold, AnswersTruly, RemovesItsKind

\* Reads and checks that end or go on (NoAnswer to Asks).
LEMMA InvReads ==
  ASSUME Inv,
         NoAnswer \/ NoSuchSpace \/ FindListed \/ Check \/ Decides \/ GetChart \/ GetListed
  PROVE  Inv'
<1> USE DEF Codes
<1>1. CASE NoAnswer
  <2> PICK code \in {"undetermined", "interrupted"} : Ends(code, "unsaid")
    BY <1>1 DEF NoAnswer
  <2> QED
    BY <1>1, EndsUnwritten DEF NoAnswer
<1>2. CASE NoSuchSpace
  BY <1>2, EndsUnwritten DEF NoSuchSpace
<1>3. CASE FindListed
  <2>0. op.name \in Keys /\ ~IsAdd /\ ~IsRemove /\ stage # "done"
    BY <1>3, OpFields DEF FindListed, Inv, TypeOK
  <2>1. at' = rows[op.name] /\ at' \in Addrs \cup {Chart, Nil}
    BY <1>3, <2>0 DEF FindListed, Inv, TypeOK
  <2>2. CASE stage' = "check" /\ outcome' = outcome /\ at' \in Addrs
    <3>1. TypeOK'
      BY <1>3, <2>1, <2>2 DEF FindListed, Inv, TypeOK, portalVars
    <3>2. (ChartsRecorded /\ Reads /\ Shown /\ Consented)'
      BY <1>3, <2>0, <2>2
         DEF FindListed, Inv, ChartsRecorded, Reads, Shown, Consented, portalVars, IsRemove
    <3>3. (Quiet /\ AsksFirst /\ MovesOnlyWhenTold /\ AnswersTruly /\ RemovesItsKind)'
      BY <1>3, <2>0, <2>2, GoesOn DEF FindListed
    <3> QED
      BY <3>1, <3>2, <3>3 DEF Inv
  <2>3. CASE \E code \in {"not offered", "usage"} : Ends(code, "unsaid")
    <3> PICK code \in {"not offered", "usage"} : Ends(code, "unsaid")
      BY <2>3
    <3>0. wrote = {} /\ wrote' = {}
      BY <1>3, <2>0 DEF Inv, Quiet, FindListed
    <3>1. TypeOK'
      BY <1>3, <2>1 DEF FindListed, Inv, TypeOK, portalVars, Ends, Words
    <3>2. (Quiet /\ ChartsRecorded /\ Reads /\ Shown /\ Consented)'
      BY <1>3, <2>3
         DEF FindListed, Inv, Quiet, ChartsRecorded, Reads, Shown, Consented, portalVars, Ends
    <3>3. (AsksFirst /\ MovesOnlyWhenTold /\ AnswersTruly /\ RemovesItsKind)'
      BY <3>0
         DEF AsksFirst, MovesOnlyWhenTold, AnswersTruly, RemovesItsKind, Ends
    <3> QED
      BY <3>1, <3>2, <3>3 DEF Inv
  <2> QED
    BY <1>3, <2>1, <2>2, <2>3 DEF FindListed
<1>4. CASE Check
  <2>0. stage = "check" /\ at \in Addrs /\ ~IsRemove
    BY <1>4 DEF Check, Inv, Reads
  <2>1. CASE Refuses(at)
    BY <1>4, <2>0, <2>1, EndsUnwritten DEF Check
  <2>2. CASE ~Refuses(at)
    <3>0. serves[at] \in Keys /\ rows[serves[at]] \in Addrs \cup {Nil}
      BY <2>0, <2>2 DEF Inv, TypeOK, Refuses
    <3>1. chk' \in Checks
      <4> DEFINE from == IF MovedBy(at) THEN rows[serves[at]] ELSE Nil
      <4>1. from \in Addrs \cup {Nil}
        BY <3>0
      <4>2. chk' = [key |-> serves[at], from |-> from]
        BY <1>4, <2>2 DEF Check
      <4> HIDE DEF from
      <4> QED
        BY <3>0, <4>1, <4>2 DEF Checks
    <3>2. TypeOK'
      BY <1>4, <2>0, <2>2, <3>1 DEF Check, Inv, TypeOK, portalVars
    <3>3. (ChartsRecorded /\ Reads /\ Shown /\ Consented)'
      BY <1>4, <2>0, <2>2, <3>1
         DEF Check, Inv, ChartsRecorded, Reads, Shown, Consented, portalVars, IsRemove
    <3>4. (Quiet /\ AsksFirst /\ MovesOnlyWhenTold /\ AnswersTruly /\ RemovesItsKind)'
      BY <1>4, <2>0, <2>2, GoesOn DEF Check
    <3> QED
      BY <3>2, <3>3, <3>4 DEF Inv
  <2> QED
    BY <2>1, <2>2
<1>5. CASE Decides
  <2>0. stage = "decide" /\ at \in Addrs /\ ~IsRemove /\ chk \in Checks
    BY <1>5 DEF Decides, Inv, Reads, Shown
  <2>1. CASE IsAdd /\ op.dryRun
    BY <1>5, <2>0, <2>1, EndsUnwritten DEF Decides
  <2>2. CASE ~(IsAdd /\ op.dryRun) /\ Moving /\ (IsAdd => ~op.replace)
    BY <1>5, <2>0, <2>2, EndsUnwritten DEF Decides
  <2>3. CASE ~(IsAdd /\ op.dryRun) /\ ~(Moving /\ (IsAdd => ~op.replace))
    <3>1. /\ stage' = "ask" /\ outcome' = outcome
          /\ UNCHANGED <<portalVars, op, at, chk, agreed, wrote>>
      BY <1>5, <2>3 DEF Decides, AfterCheck
    <3>2. TypeOK'
      BY <3>1 DEF Inv, TypeOK, portalVars
    <3>3. (ChartsRecorded /\ Reads /\ Consented)'
      BY <2>0, <3>1 DEF Inv, ChartsRecorded, Reads, Consented, portalVars, IsRemove
    <3>4. Shown'
      BY <2>0, <2>3, <3>1 DEF Shown, Moving, IsAdd, IsRemove
    <3>5. (Quiet /\ AsksFirst /\ MovesOnlyWhenTold /\ AnswersTruly /\ RemovesItsKind)'
      BY <2>0, <3>1, GoesOn
    <3> QED
      BY <3>2, <3>3, <3>4, <3>5 DEF Inv
  <2> QED
    BY <2>1, <2>2, <2>3
<1>6. CASE GetChart
  <2>0. op.name \in Keys /\ stage = "find" /\ IsRemove
    BY <1>6, OpFields DEF GetChart, Inv, TypeOK
  <2>1. stage' \in {"ask", "listed"} /\ at' \in {at, Chart}
    BY <1>6 DEF GetChart
  <2>2. TypeOK'
    BY <1>6, <2>1 DEF GetChart, Inv, TypeOK, portalVars
  <2>3. (ChartsRecorded /\ Reads /\ Shown /\ Consented)'
    BY <1>6, <2>0, <2>1
       DEF GetChart, Inv, ChartsRecorded, Reads, Shown, Consented, portalVars, IsRemove
  <2>4. (Quiet /\ AsksFirst /\ MovesOnlyWhenTold /\ AnswersTruly /\ RemovesItsKind)'
    BY <1>6, <2>0, <2>1, GoesOn DEF GetChart
  <2> QED
    BY <2>2, <2>3, <2>4 DEF Inv
<1>7. CASE GetListed
  <2>0. op.name \in Keys /\ stage = "listed" /\ IsRemove /\ ~IsAdd
    BY <1>7, OpFields DEF GetListed, Inv, TypeOK, Reads
  <2>1. at' = rows[op.name] /\ at' \in Addrs \cup {Chart, Nil}
    BY <1>7, <2>0 DEF GetListed, Inv, TypeOK
  <2>2. CASE stage' = "ask" /\ outcome' = outcome
    <3>1. TypeOK'
      BY <1>7, <2>1, <2>2 DEF GetListed, Inv, TypeOK, portalVars
    <3>2. (ChartsRecorded /\ Reads /\ Shown /\ Consented)'
      BY <1>7, <2>0, <2>2
         DEF GetListed, Inv, ChartsRecorded, Reads, Shown, Consented, portalVars, IsRemove
    <3>3. (Quiet /\ AsksFirst /\ MovesOnlyWhenTold /\ AnswersTruly /\ RemovesItsKind)'
      BY <1>7, <2>0, <2>2, GoesOn DEF GetListed
    <3> QED
      BY <3>1, <3>2, <3>3 DEF Inv
  <2>3. CASE \E code \in {"not offered", "usage"} : Ends(code, "unsaid")
    <3> PICK code \in {"not offered", "usage"} : Ends(code, "unsaid")
      BY <2>3
    <3>0. wrote = {} /\ wrote' = {}
      BY <1>7, <2>0 DEF Inv, Quiet, GetListed
    <3>1. TypeOK'
      BY <1>7, <2>1 DEF GetListed, Inv, TypeOK, portalVars, Ends, Words
    <3>2. (Quiet /\ ChartsRecorded /\ Reads /\ Shown /\ Consented)'
      BY <1>7, <2>3
         DEF GetListed, Inv, Quiet, ChartsRecorded, Reads, Shown, Consented, portalVars, Ends
    <3>3. (AsksFirst /\ MovesOnlyWhenTold /\ AnswersTruly /\ RemovesItsKind)'
      BY <3>0
         DEF AsksFirst, MovesOnlyWhenTold, AnswersTruly, RemovesItsKind, Ends
    <3> QED
      BY <3>1, <3>2, <3>3 DEF Inv
  <2> QED
    BY <1>7, <2>1, <2>2, <2>3 DEF GetListed
<1> QED
  BY <1>1, <1>2, <1>3, <1>4, <1>5, <1>6, <1>7

\* The question (confirm, session.go:118-133).
LEMMA InvAsks ==
  ASSUME Inv, Asks
  PROVE  Inv'
<1>0. stage = "ask" /\ UNCHANGED <<portalVars, op, at, chk, wrote>>
  BY DEF Asks
<1>1. CASE agreed' = TRUE /\ stage' = (IF IsRemove THEN "delete" ELSE "install") /\ outcome' = outcome
  <2>1. TypeOK'
    BY <1>0, <1>1 DEF Inv, TypeOK, portalVars
  <2>2. (ChartsRecorded /\ Reads /\ Consented)'
    BY <1>0, <1>1 DEF Inv, ChartsRecorded, Reads, Consented, portalVars, IsRemove
  <2>3. Shown'
    BY <1>0, <1>1 DEF Inv, Shown, Moving, IsAdd, IsRemove
  <2>4. (Quiet /\ AsksFirst /\ MovesOnlyWhenTold /\ AnswersTruly /\ RemovesItsKind)'
    BY <1>0, <1>1, GoesOn
  <2> QED
    BY <2>1, <2>2, <2>3, <2>4 DEF Inv
<1>2. CASE agreed' = agreed /\ \E code \in {"failed", "interrupted"} : Ends(code, "nothing")
  BY <1>0, <1>2, EndsUnwritten DEF Codes
<1> QED
  BY <1>1, <1>2 DEF Asks

\* The check that installs on an older portal (check, address_add.go:171-200).
LEMMA InvCheckInstalls ==
  ASSUME Inv, CheckInstalls
  PROVE  Inv'
<1>0. /\ stage = "check" /\ older /\ at \in Addrs /\ ~IsRemove
      /\ UNCHANGED <<older, serves, charts, others, op, at, chk, agreed>>
  BY DEF CheckInstalls, Inv, Reads
<1>1. CASE Refuses(at) \/ MovedBy(at)
  BY <1>0, <1>1, EndsUnwritten DEF CheckInstalls, Codes, portalVars
<1>2. CASE ~Refuses(at) /\ ~MovedBy(at)
  <2>0. Records(at)
    BY <1>2 DEF CheckInstalls
  <2>1. /\ rows' \in [Keys -> Addrs \cup {Chart, Nil}]
        /\ wrote' = {[key |-> serves[at], from |-> rows[serves[at]], to |-> at]}
        /\ wrote' \in SUBSET Changes
        /\ Cardinality(wrote') = 1
        /\ ChartsRecorded'
    BY <1>0, <1>2, <2>0, RecordsRow
  <2>2. PICK code \in Codes, word \in {"done", "unsaid"} :
          /\ Ends(code, word)
          /\ code = "ok" => ~(IsAdd /\ op.dryRun)
    BY <1>2 DEF CheckInstalls, InstalledInstead, Codes
  <2>3. TypeOK'
    BY <1>0, <2>1, <2>2 DEF Inv, TypeOK, Ends, Words
  <2>4. (Quiet /\ Reads /\ Shown /\ Consented)'
    BY <2>2 DEF Quiet, Reads, Shown, Consented, Ends
  <2>5. AsksFirst'
    BY <1>0 DEF AsksFirst, IsRemove
  <2>6. MovesOnlyWhenTold'
    BY <1>2, <2>1, AddressAssumption DEF MovesOnlyWhenTold, MovedBy
  <2>7. AnswersTruly'
    BY <1>0, <2>1, <2>2 DEF AnswersTruly, Ends, IsAdd, IsRemove
  <2>8. RemovesItsKind'
    BY <1>0 DEF RemovesItsKind, IsRemove
  <2> QED
    BY <2>1, <2>3, <2>4, <2>5, <2>6, <2>7, <2>8 DEF Inv
<1> QED
  BY <1>1, <1>2

\* The install, and what may become of its answer (installAddress, address_add.go:203-217).
LEMMA InvInstall ==
  ASSUME Inv, Install
  PROVE  Inv'
<1>0. /\ stage = "install" /\ at \in Addrs /\ ~IsRemove /\ agreed
      /\ ~(IsAdd /\ op.dryRun)
      /\ Moving => IsAdd /\ op.replace
      /\ UNCHANGED <<older, serves, charts, others, op, at, chk, agreed>>
  BY DEF Install, Inv, Reads, Shown, Consented
<1>1. CASE rows' = rows /\ wrote' = wrote
  <2>1. \E code \in {"failed", "undetermined", "interrupted"}, word \in {"may", "unsaid"} :
          Ends(code, word)
    <3>1. CASE Refuses(at) \/ (MovedBy(at) /\ ~SendsReplace)
      BY <3>1 DEF Install, Lost
    <3>2. CASE ~(Refuses(at) \/ (MovedBy(at) /\ ~SendsReplace))
      <4>1. ~Records(at)
        <5>1. wrote = {}
          BY <1>0 DEF Inv, Quiet
        <5> QED
          BY <1>1, <5>1 DEF Records
      <4> QED
        BY <3>2, <4>1 DEF Install, Lost
    <3> QED
      BY <3>1, <3>2
  <2> QED
    BY <1>0, <1>1, <2>1, EndsUnwritten DEF Codes, portalVars
<1>2. CASE ~Refuses(at) /\ ~(MovedBy(at) /\ ~SendsReplace) /\ Records(at)
           /\ (Ends("ok", "done") \/ \E code \in {"undetermined", "interrupted"} : Lost(code))
  <2>1. /\ rows' \in [Keys -> Addrs \cup {Chart, Nil}]
        /\ wrote' = {[key |-> serves[at], from |-> rows[serves[at]], to |-> at]}
        /\ wrote' \in SUBSET Changes
        /\ Cardinality(wrote') = 1
        /\ ChartsRecorded'
    BY <1>0, <1>2, RecordsRow
  <2>2. PICK code \in Codes, word \in {"done", "may", "unsaid"} : Ends(code, word)
    BY <1>2 DEF Lost, Codes
  <2>3. TypeOK'
    BY <1>0, <2>1, <2>2 DEF Inv, TypeOK, Ends, Words
  <2>4. (Quiet /\ Reads /\ Shown /\ Consented)'
    BY <2>2 DEF Quiet, Reads, Shown, Consented, Ends
  <2>5. AsksFirst'
    BY <1>0 DEF AsksFirst
  <2>6. MovesOnlyWhenTold'
    BY <1>0, <1>2, <2>1, AddressAssumption
       DEF MovesOnlyWhenTold, MovedBy, SendsReplace, Moving, IsAdd
  <2>7. AnswersTruly'
    BY <1>0, <2>1, <2>2 DEF AnswersTruly, Ends, IsAdd, IsRemove
  <2>8. RemovesItsKind'
    BY <1>0 DEF RemovesItsKind, IsRemove
  <2> QED
    BY <2>1, <2>3, <2>4, <2>5, <2>6, <2>7, <2>8 DEF Inv
<1> QED
  BY <1>1, <1>2 DEF Install

\* A removal that took a row away, and what it may say: every property holds of where it
\* leaves the portal (remove, addon.go:568-655; removeAddress, address.go:202-245).
LEMMA EndsRemoved ==
  ASSUME Inv, stage = "delete", Removes(op.name),
         UNCHANGED <<older, serves, others, op, at, chk, agreed>>,
         rows[op.name] = Chart <=> at = Chart,
         NEW code \in Codes, NEW word \in {"done", "left", "may", "unsaid"},
         Ends(code, word)
  PROVE  Inv'
<1>0. IsRemove /\ ~IsAdd /\ agreed /\ op.name \in Keys
  BY OpFields DEF Inv, TypeOK, Reads, Consented, IsAdd, IsRemove
<1>1. wrote' = {[key |-> op.name, from |-> rows[op.name], to |-> Nil]}
  BY <1>0 DEF Inv, Quiet, Removes
<1>2. wrote' \in SUBSET Changes
  BY <1>0, <1>1 DEF Inv, TypeOK, Changes
<1>3. Cardinality(wrote') = 1
  BY <1>1, FS_Singleton
<1>4. /\ rows' = [rows EXCEPT ![op.name] = Nil]
      /\ charts' = charts \ {op.name} /\ rows'[op.name] = Nil
  BY <1>0 DEF Removes, Inv, TypeOK
<1>5. TypeOK'
  BY <1>0, <1>2, <1>4 DEF Inv, TypeOK, Ends, Words
<1>6. ChartsRecorded'
  BY <1>0, <1>4 DEF Inv, TypeOK, ChartsRecorded
<1>7. (Quiet /\ Reads /\ Shown /\ Consented)'
  BY DEF Quiet, Reads, Shown, Consented, Ends
<1>8. AsksFirst'
  BY <1>0 DEF AsksFirst
<1>9. MovesOnlyWhenTold'
  BY <1>1, AddressAssumption DEF MovesOnlyWhenTold
<1>10. AnswersTruly'
  <2>1. NoneOfItsKind'
    BY <1>4, AddressAssumption DEF NoneOfItsKind
  <2>2. outcome' = [code |-> code, word |-> word]
    BY DEF Ends
  <2> QED
    BY <1>0, <1>3, <2>1, <2>2 DEF AnswersTruly, IsRemove
<1>11. RemovesItsKind'
  BY <1>0, <1>1 DEF RemovesItsKind, IsRemove
<1> QED
  BY <1>5, <1>6, <1>7, <1>8, <1>9, <1>10, <1>11 DEF Inv

\* The removal (remove, addon.go:634-655; removeAddress, address.go:202-245).
LEMMA InvDelete ==
  ASSUME Inv, Delete
  PROVE  Inv'
<1>0. /\ stage = "delete" /\ IsRemove /\ ~IsAdd /\ op.name \in Keys
      /\ UNCHANGED <<older, serves, others, op, at, chk, agreed>>
  BY OpFields DEF Delete, Inv, TypeOK, Reads, IsAdd, IsRemove
<1>1. CASE /\ UNCHANGED <<rows, charts, wrote>>
           /\ \E code \in {"not offered", "undetermined", "interrupted"},
                 word \in {"may", "unsaid"} : Ends(code, word)
  BY <1>0, <1>1, EndsUnwritten DEF Codes, portalVars
<1>2. CASE FindsItsKind /\ Removes(op.name)
           /\ (Ends("ok", "done") \/ \E code \in {"undetermined", "interrupted"} : Lost(code))
  <2>1. rows[op.name] = Chart <=> at = Chart
    BY <1>0, <1>2, AddressAssumption DEF Inv, ChartsRecorded, FindsItsKind
  <2>2. PICK code \in Codes, word \in {"done", "may", "unsaid"} : Ends(code, word)
    BY <1>2 DEF Lost, Codes
  <2> QED
    BY <1>0, <1>2, <2>1, <2>2, EndsRemoved
<1>3. CASE /\ ResourceGone /\ RemovesWhatIsLeft
           /\ SaysWhatWasLeft \/ \E code \in {"undetermined", "interrupted"} : Lost(code)
  <2>1. PICK code \in Codes, word \in {"done", "left", "may", "unsaid"} : Ends(code, word)
    BY <1>3 DEF SaysWhatWasLeft, Lost, Codes
  <2>2. CASE rows[op.name] = Chart
    BY <1>0, <1>3, <2>1, <2>2, EndsRemoved DEF ResourceGone, RemovesWhatIsLeft
  <2>3. CASE rows[op.name] # Chart
    <3>0. UNCHANGED <<rows, charts, wrote>> /\ at = Chart /\ op.name \notin charts
      BY <1>3, <2>3 DEF ResourceGone, RemovesWhatIsLeft
    <3>1. wrote = {} /\ wrote' = {}
      BY <1>0, <3>0 DEF Inv, Quiet
    <3>2. NoneOfItsKind'
      BY <1>0, <2>3, <3>0 DEF NoneOfItsKind
    <3>3. word = "done" => op.keep
      <4>1. CASE SaysWhatWasLeft
        <5> PICK w \in {"left"} \cup (IF op.keep THEN {"done"} ELSE {}) : Ends("ok", w)
          BY <4>1 DEF SaysWhatWasLeft
        <5> QED
          BY <2>1 DEF Ends
      <4>2. CASE \E c \in {"undetermined", "interrupted"} : Lost(c)
        BY <2>1, <4>2 DEF Ends, Lost
      <4> QED
        BY <1>3, <4>1, <4>2
    <3>4. TypeOK'
      BY <1>0, <2>1, <3>0 DEF Inv, TypeOK, Ends, Words
    <3>5. (Quiet /\ ChartsRecorded /\ Reads /\ Shown /\ Consented)'
      BY <2>1, <3>0 DEF Inv, Quiet, ChartsRecorded, Reads, Shown, Consented, Ends
    <3>6. AnswersTruly'
      BY <1>0, <2>1, <3>0, <3>1, <3>2, <3>3 DEF AnswersTruly, Ends, IsRemove
    <3> QED
      BY <3>1, <3>4, <3>5, <3>6 DEF Inv, AsksFirst, MovesOnlyWhenTold, RemovesItsKind
  <2> QED
    BY <2>2, <2>3
<1> QED
  <2>1. CASE FindsItsKind
    BY <1>1, <1>2, <2>1 DEF Delete, Lost, FindsItsKind, ResourceGone
  <2>2. CASE ~FindsItsKind
    BY <1>1, <1>3, <2>2 DEF Delete, Lost
  <2> QED
    BY <2>1, <2>2

\* What others do to the portal and the services.
LEMMA InvOthers ==
  ASSUME Inv, OthersAct
  PROVE  Inv'
<1>0. stage # "done" /\ UNCHANGED <<older, op, stage, at, chk, agreed, outcome, wrote>>
  BY DEF OthersAct
<1>1. /\ serves' \in [Addrs -> Keys \cup {Nil}]
      /\ rows' \in [Keys -> Addrs \cup {Chart, Nil}]
      /\ charts' \in SUBSET Keys
      /\ ChartsRecorded'
  <2> USE AddressAssumption
  <2>1. CASE \E a \in Addrs, k \in Keys \cup {Nil} : Redeployed(a, k)
    BY <2>1 DEF Inv, TypeOK, ChartsRecorded, Redeployed
  <2>2. CASE \E a \in Addrs : Installed(a)
    <3> PICK a \in Addrs : Installed(a)
      BY <2>2
    <3>1. serves[a] \in Keys /\ rows[serves[a]] # Chart
      BY DEF Inv, TypeOK, Installed, Refuses
    <3> QED
      BY <3>1 DEF Inv, TypeOK, ChartsRecorded, Installed
  <2>3. CASE \E k \in Keys : ChartInstalled(k)
    BY <2>3 DEF Inv, TypeOK, ChartsRecorded, ChartInstalled
  <2>4. CASE \E k \in Keys : Removed(k)
    BY <2>4 DEF Inv, TypeOK, ChartsRecorded, Removed
  <2>5. CASE \E k \in Keys : ResourceDeleted(k)
    BY <2>5 DEF Inv, TypeOK, ChartsRecorded, ResourceDeleted
  <2> QED
    BY <2>1, <2>2, <2>3, <2>4, <2>5 DEF OthersAct
<1>2. others' \in 0..MaxDeeds
  BY AddressAssumption DEF OthersAct, Inv, TypeOK
<1>3. TypeOK'
  BY <1>0, <1>1, <1>2 DEF Inv, TypeOK
<1> QED
  BY <1>0, <1>1, <1>3
     DEF Inv, Quiet, Reads, Shown, Consented, AsksFirst, MovesOnlyWhenTold, AnswersTruly,
         RemovesItsKind, Moving, IsAdd, IsRemove

\* Every step keeps the invariant (the commands of address_add.go, address.go and addon.go,
\* and what others do between their calls).
LEMMA InvNext == Inv /\ [Next]_vars => Inv'
<1> SUFFICES ASSUME Inv, [Next]_vars
             PROVE  Inv'
  OBVIOUS
<1>1. CASE Zae
  BY <1>1, InvReads, InvAsks, InvCheckInstalls, InvInstall, InvDelete DEF Zae
<1>2. CASE OthersAct
  BY <1>2, InvOthers
<1>3. CASE UNCHANGED vars
  BY <1>3
     DEF vars, portalVars, Inv, TypeOK, Quiet, ChartsRecorded, Reads, Shown, Consented,
         AsksFirst, MovesOnlyWhenTold, AnswersTruly, RemovesItsKind, Moving, IsAdd,
         IsRemove, NoneOfItsKind
<1> QED
  BY <1>1, <1>2, <1>3 DEF Next

\* The invariant holds in every state (the same commands).
LEMMA Invariance == Spec => []Inv
<1>1. Init => Inv
  BY InvInit
<1>2. Inv /\ [Next]_vars => Inv'
  BY InvNext
<1> QED
  BY <1>1, <1>2, PTL DEF Spec

----------------------------------------------------------------------------

\* Every variable holds a value of its kind (add, refresh and remove).
THEOREM TypeCorrect == Spec => []TypeOK
<1>1. Inv => TypeOK
  BY DEF Inv
<1> QED
  BY <1>1, Invariance, PTL

\* Nothing is written before the question is answered with yes, unless the portal predates
\* the check (addAddress, address_add.go:95-166; confirm, session.go:118-133).
THEOREM AsksBeforeWriting == Spec => []AsksFirst
<1>1. Inv => AsksFirst
  BY DEF Inv
<1> QED
  BY <1>1, Invariance, PTL

\* An addon moves only by an add with --replace-address whose check showed a move
\* (address_add.go:127-166; refresh, 242-325).
THEOREM NoUnaskedMove == Spec => []MovesOnlyWhenTold
<1>1. Inv => MovesOnlyWhenTold
  BY DEF Inv
<1> QED
  BY <1>1, Invariance, PTL

\* The exit code and the words agree with what was written (failOr, addon.go:131-141;
\* installAddress, address_add.go:203-217; removeAddress, address.go:202-245).
THEOREM TrueAnswers == Spec => []AnswersTruly
<1>1. Inv => AnswersTruly
  BY DEF Inv
<1> QED
  BY <1>1, Invariance, PTL

\* A removal takes away an addon of the kind it described (remove, addon.go:568-655).
THEOREM OnlyItsKind == Spec => []RemovesItsKind
<1>1. Inv => RemovesItsKind
  BY DEF Inv
<1> QED
  BY <1>1, Invariance, PTL

=============================================================================
