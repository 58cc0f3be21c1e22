------------------------------- MODULE Report -------------------------------
(***************************************************************************)
(* The report of a doctor run (internal/doctor/report.go): as much of each *)
(* result as fits a limit, giving up first the details of what passed,     *)
(* those of skips, warnings and failures less and later, then whole lines, *)
(* failures last.                                                          *)
(*                                                                         *)
(* A result is its check and its status; how long its detail is, is given  *)
(* by the status, and what the names and the document around them take are *)
(* constants.  A character takes a byte.                                   *)
(***************************************************************************)
EXTENDS Naturals, Sequences, FiniteSets

CONSTANTS
  HeaderSize,   \* bytes of the document without its checks,
  LineSize,     \* of a check without its detail,
  FieldSize     \* and of the field around a detail

ASSUME ReportAssumption == {HeaderSize, LineSize, FieldSize} \subseteq Nat

\* The most a detail keeps, and whether lines are dropped at all.
Budget(ok, skip, warn, fail, drops) ==
  [limit |-> [ok |-> ok, skip |-> skip, warn |-> warn, fail |-> fail], drops |-> drops]

\* Fault: failures go with the warnings.
BudgetsThatDropFailures ==
  << Budget(300, 300, 300, 500, {}),
     Budget(0, 60, 120, 300, {}),
     Budget(0, 0, 40, 120, {"ok", "skip", "fail"}),
     Budget(0, 0, 0, 0, {"ok", "skip", "warn", "fail"}) >>

budgets ==
  << Budget(300, 300, 300, 500, {}),
     Budget(0, 300, 300, 500, {}),
     Budget(0, 120, 200, 400, {}),
     Budget(0, 60, 120, 300, {}),
     Budget(0, 0, 60, 200, {}),
     Budget(0, 0, 60, 200, {"ok"}),
     Budget(0, 0, 40, 120, {"ok", "skip"}),
     Budget(0, 0, 0, 80, {"ok", "skip"}),
     Budget(0, 0, 0, 60, {"ok", "skip", "warn"}),
     Budget(0, 0, 0, 30, {"ok", "skip", "warn"}),
     Budget(0, 0, 0, 0, {"ok", "skip", "warn"}) >>

\* What a line takes, by how much it says.
LineBytes(detail) == LineSize + (IF detail = 0 THEN 0 ELSE FieldSize + detail)

\* What a report takes: the document, and the lines it has of each status.
encode(doc, results) ==
  LET taken(st) ==
        Cardinality({i \in doc.places : results[i].status = st}) * LineBytes(doc.detail[st])
  IN  HeaderSize + taken("ok") + taken("skip") + taken("warn") + taken("fail")

clip(detail, limit) == IF detail <= limit THEN detail ELSE limit

\* What a budget leaves of the results: of whole lines, those in these places, in their
\* order, and of the details as much as it grants their status.
Within(b, results, detail) ==
  [places |-> {i \in DOMAIN results : results[i].status \notin b.drops},
   detail |-> [ok |-> clip(detail.ok, b.limit.ok), skip |-> clip(detail.skip, b.limit.skip),
               warn |-> clip(detail.warn, b.limit.warn), fail |-> clip(detail.fail, b.limit.fail)]]

\* The lines of a report up to a place.
FirstLines(doc, n) == [places |-> {i \in doc.places : i <= n}, detail |-> doc.detail]

\* The first budget that fits; when none does, as many failures as do by name.
buildReport(results, detail, limit) ==
  LET report(i) == Within(budgets[i], results, detail)
      Fits(doc) == encode(doc, results) <= limit
      fitting == {i \in DOMAIN budgets : Fits(report(i))}
      names == report(Len(budgets))
      short == {n \in 0..Len(results) : Fits(FirstLines(names, n))}
  IN  IF fitting # {}
      THEN report(CHOOSE i \in fitting : \A k \in fitting : i <= k)
      ELSE FirstLines(names, IF short = {} THEN 0 ELSE CHOOSE n \in short : \A k \in short : k <= n)

=============================================================================
