----------------------------- MODULE LogFollow -----------------------------
(***************************************************************************)
(* `zae debug logs --follow` (internal/debug/follow.go, logs.go): read the *)
(* log of every container of a workload again and again, and print what    *)
(* was not printed yet.                                                    *)
(*                                                                         *)
(* Covered: lines of one timestamp that come in different reads, stamps    *)
(* the cluster truncates to the second, a portal that ignores or refuses   *)
(* sinceTime and the windows that are read instead, reads that fail, more  *)
(* lines than one read answers, containers that start again, pods that go  *)
(* and come.                                                               *)
(*                                                                         *)
(* Limits: a container never writes one text twice at one timestamp, and a *)
(* round is read within followMargin - the code's own assumptions.         *)
(***************************************************************************)
EXTENDS Naturals, Sequences, FiniteSets, FiniteSetsExt

CONSTANTS
  Sources,      \* containers of the workload's pods
  Texts,
  Untracked,
  Portals,      \* what the portal does with sinceTime
  Second,       \* ticks of the clock in a second
  Margin,       \* followMargin, in ticks
  MaxTail,      \* the most lines one read answers
  FirstTail,    \* --tail
  MaxLines,     \* bound: lines of one source,
  MaxTime       \* and ticks

VARIABLES
  portal,       \* one of Portals
  now,          \* the time
  live,         \* the pods that are there
  log,          \* all lines a source has written
  head,         \* the first of them its present log has
  pc,           \* where the command is
  round,        \* when this round began
  tracked,      \* what is kept of each source it follows
  todo,         \* the sources this round has still to read
  bySinceTime,  \* sinceTime has not been seen to fail
  batch,        \* the lines to print at the end of the round
  out,          \* history: the lines printed of each source,
  young,        \* the sources that were not there at first,
  said,         \* those of which lines are said to be missing,
  full,         \* those whose first read was cut at MaxTail,
  torn          \* and those of which a read was cut between lines of one stamp

worldVars == <<portal, now, live, log, head>>
historyVars == <<out, young, said, full, torn>>
followVars == <<worldVars, pc, round, tracked, todo, bySinceTime, batch, historyVars>>

Lines == [at : 1..MaxTime, text : Texts]
Followed ==
  [last : 0..MaxTime, atLast : SUBSET Texts, read : BOOLEAN, readAt : 0..MaxTime, gone : BOOLEAN]

ASSUME FollowAssumption ==
  /\ Portals \subseteq {"reads", "ignores", "refuses"}
  /\ {Second, MaxTail, FirstTail, MaxLines, MaxTime} \subseteq Nat \ {0}
  /\ Margin \in Nat
  /\ FirstTail <= MaxTail
  /\ Untracked \notin Followed

\* Every variable holds a value of its kind.
FollowTypeOK ==
  /\ portal \in Portals
  /\ now \in 1..MaxTime
  /\ live \in SUBSET Sources
  /\ log \in [Sources -> Seq(Lines)]
  /\ \A s \in Sources : Len(log[s]) <= MaxLines
  /\ head \in [Sources -> 1..(MaxLines + 1)]
  /\ pc \in {"first", "sleep", "list", "read", "done"}
  /\ round \in 1..MaxTime
  /\ tracked \in [Sources -> Followed \cup {Untracked}]
  /\ todo \in SUBSET Sources
  /\ bySinceTime \in BOOLEAN
  /\ batch \in [Sources -> SUBSET (1..MaxLines)]
  /\ young \in SUBSET Sources
  /\ said \in SUBSET Sources
  /\ full \in SUBSET Sources
  /\ torn \in SUBSET Sources

----------------------------------------------------------------------------
(* One read. *)

Truncated(t) == (t \div Second) * Second

\* Windows are asked for in whole seconds, rounded up.
Seconds(d) == ((d + Second - 1) \div Second) * Second

\* The newest of the lines from a stamp on, as the cluster answers them.
Answer(s, from, tail) ==
  {i \in head[s]..Len(log[s]) : log[s][i].at >= from /\ i > Len(log[s]) - tail}

Tears(s, es) ==
  \E i \in head[s]..Len(log[s]), k \in es : i \notin es /\ log[s][i].at = log[s][k].at

ByStamp(f) == bySinceTime /\ f.read /\ f.last # 0

\* Where a window starts, by the time it is served: it is as long as what has
\* passed from the last read, or from the start, to this round, and the margin.
WindowStart(f) ==
  LET length == Seconds(round - (IF f.read THEN f.readAt ELSE 1) + Margin)
  IN  IF now > length THEN now - length ELSE 0

\* Fault: lines of the last stamp are taken to be printed.
OnlyLater(f, line) == line.at > f.last

\* fresh
IsFresh(f, line) ==
  \/ line.at > f.last
  \/ line.at = f.last /\ line.text \notin f.atLast

Fresh(f, s, es) == IF f.read THEN {i \in es : IsFresh(f, log[s][i])} ELSE es

\* Fault: the next read is to begin after the stamp.
RemembersTheNextStamp(f, s, is) == [f EXCEPT !.last = Max({@} \cup {log[s][i].at + 1 : i \in is})]

\* remember
Remembered(f, s, is) ==
  LET last == Max({f.last} \cup {log[s][i].at : i \in is}) IN
  [f EXCEPT !.last = last,
            !.atLast = (IF last = f.last THEN @ ELSE {})
                       \cup {log[s][i].text : i \in {k \in is : log[s][k].at = last}}]

----------------------------------------------------------------------------
(* The follow. *)

New == [last |-> 0, atLast |-> {}, read |-> FALSE, readAt |-> 0, gone |-> FALSE]

FollowInit ==
  /\ portal \in Portals
  /\ now = 1
  /\ live \in (SUBSET Sources) \ {{}}
  /\ \E t \in Texts : log \in [Sources -> {<<>>, <<[at |-> 1, text |-> t]>>}]
  /\ head = [s \in Sources |-> IF s \in live THEN 1 ELSE Len(log[s]) + 1]
  /\ pc = "first"
  /\ round = 1
  /\ tracked = [s \in Sources |-> IF s \in live THEN New ELSE Untracked]
  /\ todo = live
  /\ bySinceTime = TRUE
  /\ batch = [s \in Sources |-> {}]
  /\ out = [s \in Sources |-> <<>>]
  /\ young = Sources \ live
  /\ said = {}
  /\ full = {}
  /\ torn = {}

\* What a read asks for: the first one as the flags say, the next ones from a stamp
\* on, or by window.
From(f) ==
  IF pc = "first" THEN 0
  ELSE IF ByStamp(f) THEN (IF portal = "ignores" THEN 0 ELSE Truncated(f.last))
  ELSE WindowStart(f)

ItsTurn(s) == pc \in {"first", "read"} /\ s \in todo /\ todo' = todo \ {s}

\* A read that is answered.  Lines from before the second that was asked for show
\* that sinceTime is not read.  When all it answers is new and as much as it can
\* answer, lines may be missing.
Reads(s) ==
  LET f == tracked[s]
      es == Answer(s, From(f), IF pc = "first" THEN FirstTail ELSE MaxTail)
      fresh == Fresh(f, s, es)
      isCut == Cardinality(es) >= MaxTail
  IN
  /\ ItsTurn(s)
  /\ s \in live
  /\ ~(pc = "read" /\ ByStamp(f) /\ portal = "refuses")
  /\ bySinceTime' = (bySinceTime /\ ~(pc = "read" /\ ByStamp(f) /\
                       \E i \in es : log[s][i].at < Truncated(f.last)))
  /\ said' = IF f.read /\ isCut /\ fresh = es THEN said \cup {s} ELSE said
  /\ full' = IF ~f.read /\ isCut THEN full \cup {s} ELSE full
  /\ torn' = IF Tears(s, es) THEN torn \cup {s} ELSE torn
  /\ tracked' = [tracked EXCEPT ![s] =
                   [Remembered(f, s, fresh) EXCEPT !.read = TRUE, !.readAt = round, !.gone = FALSE]]
  /\ batch' = [batch EXCEPT ![s] = fresh]
  /\ UNCHANGED <<worldVars, pc, round, out, young>>

\* A portal that refuses sinceTime: the next round reads by window.
StampRefused(s) ==
  /\ ItsTurn(s)
  /\ s \in live
  /\ pc = "read" /\ ByStamp(tracked[s]) /\ portal = "refuses"
  /\ bySinceTime' = FALSE
  /\ UNCHANGED <<worldVars, pc, round, tracked, batch, historyVars>>

ReadGone(s) ==
  /\ ItsTurn(s)
  /\ s \notin live
  /\ tracked' = [tracked EXCEPT ![s].gone = TRUE]
  /\ UNCHANGED <<worldVars, pc, round, bySinceTime, batch, historyVars>>

\* No answer, a container that waits to start, or one its pod no longer runs.
ReadFails(s) ==
  /\ ItsTurn(s)
  /\ UNCHANGED <<worldVars, pc, round, tracked, bySinceTime, batch, historyVars>>

\* The numbers of a set, from the least one on.
InOrder(S) ==
  [k \in 1..Cardinality(S) |-> CHOOSE i \in S : Cardinality({j \in S : j <= i}) = k]

\* The lines of the round, merged; each source's own stay in order.
Prints ==
  /\ pc \in {"first", "read"}
  /\ todo = {}
  /\ out' = [s \in Sources |-> out[s] \o InOrder(batch[s])]
  /\ batch' = [s \in Sources |-> {}]
  /\ pc' = "sleep"
  /\ UNCHANGED <<worldVars, round, tracked, todo, bySinceTime, young, said, full, torn>>

NextRound ==
  /\ pc = "sleep"
  /\ round' = now
  /\ pc' = "list"
  /\ UNCHANGED <<worldVars, tracked, todo, bySinceTime, batch, historyVars>>

\* The pods again: those that went are dropped, new ones are read from the start of
\* the follow on.
Lists ==
  /\ pc = "list"
  /\ tracked' = [s \in Sources |->
                   IF s \notin live THEN Untracked ELSE IF tracked[s] = Untracked THEN New ELSE tracked[s]]
  /\ todo' = live
  /\ pc' = "read"
  /\ UNCHANGED <<worldVars, round, bySinceTime, batch, historyVars>>

\* No listing: the pods listed before are read.
ListFails ==
  /\ pc = "list"
  /\ todo' = {s \in Sources : tracked[s] # Untracked}
  /\ pc' = "read"
  /\ UNCHANGED <<worldVars, round, tracked, bySinceTime, batch, historyVars>>

\* Ctrl-C, or a failure that asking again does not cure: what was read and not
\* printed is not.
Stops ==
  /\ pc # "done"
  /\ pc' = "done"
  /\ round' = 1
  /\ tracked' = [s \in Sources |-> Untracked]
  /\ todo' = {}
  /\ bySinceTime' = TRUE
  /\ batch' = [s \in Sources |-> {}]
  /\ UNCHANGED <<worldVars, historyVars>>

Follow ==
  \/ \E s \in Sources : Reads(s) \/ StampRefused(s) \/ ReadGone(s) \/ ReadFails(s)
  \/ Prints
  \/ NextRound
  \/ Lists
  \/ ListFails
  \/ Stops

----------------------------------------------------------------------------
(* The cluster. *)

Writes(s, t) ==
  /\ s \in live
  /\ Len(log[s]) < MaxLines
  /\ \A i \in DOMAIN log[s] : log[s][i] # [at |-> now, text |-> t]
  /\ log' = [log EXCEPT ![s] = Append(@, [at |-> now, text |-> t])]
  /\ UNCHANGED <<now, live, head>>

\* Bound: a round takes no longer than Margin, and time ends.
MayTick == now < MaxTime /\ (pc \in {"list", "read"} => now - round < Margin)

Ticks ==
  /\ MayTick
  /\ now' = now + 1
  /\ UNCHANGED <<live, log, head>>

\* A container starts again, under the same name; that takes its time.
Restarts(s) ==
  /\ s \in live
  /\ MayTick
  /\ now' = now + 1
  /\ head' = [head EXCEPT ![s] = Len(log[s]) + 1]
  /\ UNCHANGED <<live, log>>

PodGoes(s) ==
  /\ s \in live
  /\ live' = live \ {s}
  /\ head' = [head EXCEPT ![s] = Len(log[s]) + 1]
  /\ UNCHANGED <<now, log>>

PodComes(s) ==
  /\ s \notin live
  /\ MayTick
  /\ now' = now + 1
  /\ live' = live \cup {s}
  /\ UNCHANGED <<log, head>>

Cluster ==
  /\ pc # "done"
  /\ \/ \E s \in Sources : \/ \E t \in Texts : Writes(s, t)
                           \/ Restarts(s)
                           \/ PodGoes(s)
                           \/ PodComes(s)
     \/ Ticks
  /\ UNCHANGED <<portal, pc, round, tracked, todo, bySinceTime, batch, historyVars>>

FollowNext == Follow \/ Cluster

FollowSpec == FollowInit /\ [][FollowNext]_followVars

----------------------------------------------------------------------------
(* What it promises. *)

\* The follow is a transcript of the logs.  Of a first read that was cut the code
\* says nothing, so that lines may be missing before it is taken as said.
T == INSTANCE Transcript WITH said <- said \cup full

\* Each line of a source is printed once, in order, and none is left out unsaid, by
\* sinceTime as well as by window, whatever reads fail, however lines share stamps
\* and pods and containers are replaced; pods that come later are read from their
\* first line on (fresh and remember, follow.go:51-75; the reads, 142-187, 250-274).
IsATranscript == T!Spec

=============================================================================
