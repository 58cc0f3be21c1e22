---------------------------- MODULE Credentials ----------------------------
(***************************************************************************)
(* The stored sessions of internal/creds, and the commands that read and   *)
(* write them: every command that sends a bearer (instance.Token, which    *)
(* renews an expired one), `zae login`, `zae logout` and `zae logout --all`*)
(* (internal/auth), against the issuers that hold the sessions.            *)
(*                                                                         *)
(* The file is read whole and replaced whole: replacing it is atomic (a    *)
(* rename), reading and replacing is not, and nothing locks it.  Commands  *)
(* are processes of their own; MaxRunning says how many run at once.       *)
(*                                                                         *)
(* Covered: issuers that rotate refresh tokens and ones that do not,       *)
(* issuers that give none, an issuer that is away, answers lost after the  *)
(* issuer acted, a file that cannot be written, Ctrl-C, a process killed   *)
(* between any two steps.  The issuers are external: modelled from how     *)
(* internal/oidc reads their answers.                                      *)
(***************************************************************************)
EXTENDS Naturals, FiniteSets

CONSTANTS
  Procs,        \* slots for the commands a person has running
  Bases,        \* instances, each with an issuer of its own
  Nil,          \* no entry
  Rotating,     \* the instances whose issuer's refresh tokens are good for one renewal
  MaxRunning,   \* bound: commands running at once
  MaxCommands,  \* bound: commands started
  MaxIssued     \* bound: times an issuer gives out tokens

ASSUME CredentialsAssumption ==
  /\ Rotating \subseteq Bases
  /\ MaxRunning \in Nat /\ MaxCommands \in Nat /\ MaxIssued \in Nat

VARIABLES
  file,       \* the credentials file: an entry or Nil for every instance
  current,    \* issuers: the token that keeps each session alive, Nil once ended
  expired,    \* access tokens that are no longer valid
  issued,     \* tokens issued so far: they are numbered
  started,    \* commands started so far
  cmd, base,  \* each process: its command and its instance,
  pc,         \* where it is,
  seen,       \* the entry it acts on,
  mem,        \* the file as it read it,
  got,        \* the entry it is about to store,
  todo,       \* the instances it still has to sign out of,
  code,       \* its outcome
  mishap,     \* history: what an issuer gave out was not stored
  renewals,   \* history: renewals so far
  asked       \* history: the entries whose session an issuer was asked to end

issuerVars == <<current, expired, issued>>
vars == <<file, issuerVars, started, cmd, base, pc, seen, mem, got, todo, code,
          mishap, renewals, asked>>

Serials == 1..MaxIssued

\* session: the number of its first token; refresh 0: the issuer gave none.
Entries == [session : Serials, access : Serials, refresh : 0..MaxIssued]

Tokens == {"access", "refresh"} \X Serials

ASSUME NoEntryAssumption == Nil \notin Entries \cup Tokens

Files == [Bases -> Entries \cup {Nil}]

NoFile == [b \in Bases |-> Nil]

Commands == {"use", "login", "logout", "logoutAll"}

Places == {"idle", "get", "renew", "signin", "put", "save", "revoke", "remove",
           "removeSave", "load", "list", "endAll", "clear", "clearUnlisted"}

\* "failed" stands for the exit codes 1, 2 and 3, which no property tells apart.
Outcomes == {"none", "anonymous", "sent", "expired", "ok", "failed",
             "interrupted", "killed"}

\* Every variable holds a value of its kind.
TypeOK ==
  /\ file \in Files
  /\ current \in [Serials -> Tokens \cup {Nil}]
  /\ expired \subseteq Serials
  /\ issued \in 0..MaxIssued
  /\ started \in 0..MaxCommands
  /\ cmd \in [Procs -> Commands]
  /\ base \in [Procs -> Bases]
  /\ pc \in [Procs -> Places]
  /\ seen \in [Procs -> Entries \cup {Nil}]
  /\ mem \in [Procs -> Files]
  /\ got \in [Procs -> Entries \cup {Nil}]
  /\ todo \in [Procs -> SUBSET Bases]
  /\ code \in [Procs -> Outcomes]
  /\ mishap \in BOOLEAN
  /\ renewals \in Nat
  /\ asked \in SUBSET Entries

----------------------------------------------------------------------------
(* What the parts of a command decide. *)

Valid(e) == e.access \notin expired

\* Fault: the access token is revoked, which leaves the session.
RevokesAccess(e) == <<"access", e.access>>

\* The token logout revokes: the refresh token, else the access token.
Revocable(e) ==
  IF e.refresh # 0 THEN <<"refresh", e.refresh>> ELSE <<"access", e.access>>

\* The issuer still takes token t for e's session.
Takes(e, t) == current[e.session] = t

\* Fault: the rotated refresh token is not kept.
KeepsOldRefresh(b, e, n) == [e EXCEPT !.access = n]

\* The entry for b after a renewal that gave token n, and a new refresh token
\* with it or none, in which case the old one stays.
Renewed(b, e, n) ==
  [e EXCEPT !.access = n, !.refresh = IF b \in Rotating THEN n ELSE @]

Running == {p \in Procs : pc[p] # "idle"}

\* The process is gone, and what it had in memory with it.
Ends(p, outcome) ==
  /\ pc' = [pc EXCEPT ![p] = "idle"]
  /\ code' = [code EXCEPT ![p] = outcome]
  /\ mem' = [mem EXCEPT ![p] = NoFile]
  /\ got' = [got EXCEPT ![p] = Nil]
  /\ todo' = [todo EXCEPT ![p] = {}]

Goes(p, place) ==
  /\ pc' = [pc EXCEPT ![p] = place]
  /\ UNCHANGED code

Init ==
  /\ file = NoFile
  /\ current = [s \in Serials |-> Nil]
  /\ expired = {}
  /\ issued = 0
  /\ started = 0
  /\ cmd = [p \in Procs |-> "use"]
  /\ \E b \in Bases : base = [p \in Procs |-> b]
  /\ pc = [p \in Procs |-> "idle"]
  /\ seen = [p \in Procs |-> Nil]
  /\ mem = [p \in Procs |-> NoFile]
  /\ got = [p \in Procs |-> Nil]
  /\ todo = [p \in Procs |-> {}]
  /\ code = [p \in Procs |-> "none"]
  /\ mishap = FALSE
  /\ renewals = 0
  /\ asked = {}

Begins(p, c) ==
  /\ pc[p] = "idle"
  /\ Cardinality(Running) < MaxRunning
  /\ started < MaxCommands
  /\ started' = started + 1
  /\ cmd' = [cmd EXCEPT ![p] = c]
  /\ \E b \in Bases :
       base' = IF c = "logoutAll" THEN base ELSE [base EXCEPT ![p] = b]
  /\ pc' = [pc EXCEPT ![p] = CASE c \in {"use", "logout"} -> "get"
                               [] c = "login"             -> "signin"
                               [] c = "logoutAll"         -> "load"]
  /\ code' = [code EXCEPT ![p] = "none"]
  /\ seen' = [seen EXCEPT ![p] = Nil]
  /\ UNCHANGED <<file, issuerVars, mem, got, todo, mishap, renewals, asked>>

----------------------------------------------------------------------------
(* A command that sends a bearer. *)

\* creds.Get, and what Token makes of the entry.
Get(p) ==
  /\ pc[p] = "get"
  /\ cmd[p] = "use"
  /\ LET e == file[base[p]] IN
       /\ seen' = [seen EXCEPT ![p] = e]
       /\ \/ e = Nil /\ Ends(p, "anonymous")
          \/ e # Nil /\ Valid(e) /\ Ends(p, "sent")
          \/ e # Nil /\ ~Valid(e) /\ e.refresh = 0 /\ Ends(p, "expired")
          \/ e # Nil /\ ~Valid(e) /\ e.refresh # 0
             /\ Goes(p, "renew") /\ UNCHANGED <<mem, got, todo>>
  /\ UNCHANGED <<file, issuerVars, started, cmd, base, mishap, renewals, asked>>

\* The file cannot be read: neither for a bearer nor for a sign-out.
GetFails(p) ==
  /\ pc[p] = "get"
  /\ Ends(p, "failed")
  /\ UNCHANGED <<file, issuerVars, started, cmd, base, seen, mishap, renewals, asked>>

\* The issuer takes the refresh token and gives a new access token for it.
Exchanges(p) ==
  /\ pc[p] = "renew"
  /\ issued < MaxIssued
  /\ Takes(seen[p], <<"refresh", seen[p].refresh>>)
  /\ issued' = issued + 1
  /\ current' = [current EXCEPT ![seen[p].session] =
                   IF base[p] \in Rotating THEN <<"refresh", issued'>> ELSE @]
  /\ renewals' = renewals + 1
  /\ UNCHANGED expired

Renew(p) ==
  /\ Exchanges(p)
  /\ got' = [got EXCEPT ![p] = Renewed(base[p], seen[p], issued')]
  /\ Goes(p, "put")
  /\ UNCHANGED <<file, started, cmd, base, seen, mem, todo, mishap, asked>>

\* Refused, or the issuer is away, or it has no device endpoint any more.
RenewFails(p) ==
  /\ pc[p] = "renew"
  /\ Ends(p, "expired")
  /\ UNCHANGED <<file, issuerVars, started, cmd, base, seen, mishap, renewals, asked>>

\* Exchanged, but the answer never came.
RenewUnanswered(p) ==
  /\ Exchanges(p)
  /\ Ends(p, "expired")
  /\ mishap' = TRUE
  /\ UNCHANGED <<file, started, cmd, base, seen, asked>>

----------------------------------------------------------------------------
(* creds.Put: read the file, change one entry, replace the file. *)

PutLoads(p) ==
  /\ pc[p] = "put"
  /\ mem' = [mem EXCEPT ![p] = file]
  /\ Goes(p, "save")
  /\ UNCHANGED <<file, issuerVars, started, cmd, base, seen, got, todo, mishap,
                 renewals, asked>>

PutSaves(p) ==
  /\ pc[p] = "save"
  /\ file' = [mem[p] EXCEPT ![base[p]] = got[p]]
  /\ Ends(p, IF cmd[p] = "login" THEN "ok" ELSE "sent")
  /\ UNCHANGED <<issuerVars, started, cmd, base, seen, mishap, renewals, asked>>

\* A renewed token is used all the same; a login failed.
PutFails(p) ==
  /\ pc[p] \in {"put", "save"}
  /\ Ends(p, IF cmd[p] = "login" THEN "failed" ELSE "sent")
  /\ mishap' = TRUE
  /\ UNCHANGED <<file, issuerVars, started, cmd, base, seen, renewals, asked>>

----------------------------------------------------------------------------
(* zae login. *)

\* The person approves in a browser: a session begins, with a refresh token or
\* without one.
Grants(p) ==
  /\ pc[p] = "signin"
  /\ issued < MaxIssued
  /\ issued' = issued + 1
  /\ \E kind \in {"access", "refresh"} :
       current' = [current EXCEPT ![issued'] = <<kind, issued'>>]
  /\ UNCHANGED expired

SignIn(p) ==
  /\ Grants(p)
  /\ got' = [got EXCEPT ![p] =
               [session |-> issued', access |-> issued',
                refresh |-> IF current'[issued'][1] = "refresh" THEN issued' ELSE 0]]
  /\ Goes(p, "put")
  /\ UNCHANGED <<file, started, cmd, base, seen, mem, todo, mishap, renewals, asked>>

\* Approved, but the poll's answer never came.
SignInUnanswered(p) ==
  /\ Grants(p)
  /\ \E c \in {"failed", "interrupted"} : Ends(p, c)
  /\ mishap' = TRUE
  /\ UNCHANGED <<file, started, cmd, base, seen, renewals, asked>>

SignInFails(p) ==
  /\ pc[p] = "signin"
  /\ \E c \in {"failed", "interrupted"} : Ends(p, c)
  /\ UNCHANGED <<file, issuerVars, started, cmd, base, seen, mishap, renewals, asked>>

----------------------------------------------------------------------------
(* zae logout. *)

GetForLogout(p) ==
  /\ pc[p] = "get"
  /\ cmd[p] = "logout"
  /\ seen' = [seen EXCEPT ![p] = file[base[p]]]
  /\ IF seen'[p] = Nil THEN Ends(p, "ok")
     ELSE Goes(p, "revoke") /\ UNCHANGED <<mem, got, todo>>
  /\ UNCHANGED <<file, issuerVars, started, cmd, base, mishap, renewals, asked>>

\* What asking the issuer to end e's session may come to.  It answers a token
\* it no longer takes as it answers the one it takes (oidc.Revoke); it may act
\* and its answer be lost; or nothing reaches it.
EndSession(e, outcome) ==
  \/ /\ outcome \in {"ok", "failed"}
     /\ current' = IF Takes(e, Revocable(e))
                   THEN [current EXCEPT ![e.session] = Nil] ELSE current
     /\ UNCHANGED <<expired, issued>>
  \/ /\ outcome = "failed"
     /\ UNCHANGED issuerVars

Revoke(p) ==
  /\ pc[p] = "revoke"
  /\ \E c \in Outcomes :
       /\ EndSession(seen[p], c)
       /\ pc' = [pc EXCEPT ![p] = "remove"]
       /\ code' = [code EXCEPT ![p] = c]
  /\ asked' = asked \cup {seen[p]}
  /\ UNCHANGED <<file, started, cmd, base, seen, mem, got, todo, mishap, renewals>>

\* Ctrl-C before the answer keeps the entry, whatever the issuer did.
RevokeInterrupted(p) ==
  /\ pc[p] = "revoke"
  /\ EndSession(seen[p], "failed")
  /\ asked' = asked \cup {seen[p]}
  /\ Ends(p, "interrupted")
  /\ UNCHANGED <<file, started, cmd, base, seen, mishap, renewals>>

\* creds.Remove: nothing is written when the entry is gone already.
RemoveLoads(p) ==
  /\ pc[p] = "remove"
  /\ IF file[base[p]] = Nil THEN Ends(p, code[p])
     ELSE /\ Goes(p, "removeSave")
          /\ mem' = [mem EXCEPT ![p] = file]
          /\ UNCHANGED <<got, todo>>
  /\ UNCHANGED <<file, issuerVars, started, cmd, base, seen, mishap, renewals, asked>>

RemoveSaves(p) ==
  /\ pc[p] = "removeSave"
  /\ file' = [mem[p] EXCEPT ![base[p]] = Nil]
  /\ Ends(p, code[p])
  /\ UNCHANGED <<issuerVars, started, cmd, base, seen, mishap, renewals, asked>>

RemoveFails(p) ==
  /\ pc[p] \in {"remove", "removeSave"}
  /\ Ends(p, "failed")
  /\ UNCHANGED <<file, issuerVars, started, cmd, base, seen, mishap, renewals, asked>>

----------------------------------------------------------------------------
(* zae logout --all reads the file for its entries, again for the list of   *)
(* instances, and deletes whatever file there is in the end.                *)

LoadAll(p) ==
  /\ pc[p] = "load"
  /\ mem' = [mem EXCEPT ![p] = file]
  /\ code' = [code EXCEPT ![p] = "ok"]
  /\ pc' = [pc EXCEPT ![p] = "list"]
  /\ UNCHANGED <<file, issuerVars, started, cmd, base, seen, got, todo, mishap,
                 renewals, asked>>

\* A file that cannot be read is deleted as it is, if that can be done; what
\* sessions it held is not known, and the command says so.
LoadAllFails(p) ==
  /\ pc[p] = "load"
  /\ \/ file' = NoFile /\ Ends(p, "ok")
     \/ file' = file /\ Ends(p, "failed")
  /\ UNCHANGED <<issuerVars, started, cmd, base, seen, mishap, renewals, asked>>

ListAll(p) ==
  /\ pc[p] = "list"
  /\ todo' = [todo EXCEPT ![p] = {b \in Bases : file[b] # Nil}]
  /\ Goes(p, "endAll")
  /\ UNCHANGED <<file, issuerVars, started, cmd, base, seen, mem, got, mishap,
                 renewals, asked>>

\* The list cannot be read: nobody looks at that, and nothing is on it.
ListAllFails(p) ==
  /\ pc[p] = "list"
  /\ Goes(p, "clearUnlisted")
  /\ UNCHANGED <<file, issuerVars, started, cmd, base, seen, mem, got, todo, mishap,
                 renewals, asked>>

\* An instance that came into the file between the two reads has no entry here:
\* there is nothing to end.  The first outcome that is not ok is kept.
EndOne(p) ==
  /\ pc[p] = "endAll"
  /\ \E b \in todo[p], c \in Outcomes :
       /\ IF mem[p][b] = Nil
          THEN c = "ok" /\ UNCHANGED issuerVars
          ELSE EndSession(mem[p][b], c)
       /\ asked' = asked \cup ({mem[p][b]} \ {Nil})
       /\ todo' = [todo EXCEPT ![p] = @ \ {b}]
       /\ code' = [code EXCEPT ![p] = IF @ = "ok" THEN c ELSE @]
  /\ UNCHANGED <<file, started, cmd, base, pc, seen, mem, got, mishap, renewals>>

\* Ctrl-C while one of them is being ended.
EndInterrupted(p) ==
  /\ pc[p] = "endAll"
  /\ \E b \in todo[p] :
       /\ IF mem[p][b] = Nil
          THEN UNCHANGED issuerVars
          ELSE EndSession(mem[p][b], "failed")
       /\ asked' = asked \cup ({mem[p][b]} \ {Nil})
  /\ Ends(p, "interrupted")
  /\ UNCHANGED <<file, started, cmd, base, seen, mishap, renewals>>

\* Fault: the first session that could not be ended ends the loop.
StopsAtTheFirst(p) ==
  /\ pc[p] = "endAll"
  /\ todo[p] = {} \/ code[p] # "ok"
  /\ todo' = [todo EXCEPT ![p] = {}]
  /\ Goes(p, "clear")
  /\ UNCHANGED <<file, issuerVars, started, cmd, base, seen, mem, got, mishap,
                 renewals, asked>>

EndsAll(p) ==
  /\ pc[p] = "endAll"
  /\ todo[p] = {}
  /\ Goes(p, "clear")
  /\ UNCHANGED <<file, issuerVars, started, cmd, base, seen, mem, got, todo, mishap,
                 renewals, asked>>

Clear(p) ==
  /\ pc[p] \in {"clear", "clearUnlisted"}
  /\ file' = NoFile
  /\ Ends(p, code[p])
  /\ UNCHANGED <<issuerVars, started, cmd, base, seen, mishap, renewals, asked>>

ClearFails(p) ==
  /\ pc[p] \in {"clear", "clearUnlisted"}
  /\ Ends(p, "failed")
  /\ UNCHANGED <<file, issuerVars, started, cmd, base, seen, mishap, renewals, asked>>

----------------------------------------------------------------------------
(* What happens to commands and sessions from outside. *)

\* A process dies, and with it an entry it had not stored yet.
Killed(p) ==
  /\ pc[p] # "idle"
  /\ Ends(p, "killed")
  /\ mishap' = (mishap \/ pc[p] \in {"put", "save"})
  /\ UNCHANGED <<file, issuerVars, started, cmd, base, seen, renewals, asked>>

Expires ==
  /\ \E n \in (1..issued) \ expired : expired' = expired \cup {n}
  /\ UNCHANGED <<file, current, issued, started, cmd, base, pc, seen, mem, got,
                 todo, code, mishap, renewals, asked>>

----------------------------------------------------------------------------

Use(p) == Get(p) \/ GetFails(p) \/ Renew(p) \/ RenewFails(p) \/ RenewUnanswered(p)
Put(p) == PutLoads(p) \/ PutSaves(p) \/ PutFails(p)
Login(p) == SignIn(p) \/ SignInUnanswered(p) \/ SignInFails(p)
Remove(p) == RemoveLoads(p) \/ RemoveSaves(p) \/ RemoveFails(p)
Logout(p) == GetForLogout(p) \/ Revoke(p) \/ RevokeInterrupted(p) \/ Remove(p)
LogoutAll(p) == \/ LoadAll(p) \/ LoadAllFails(p) \/ ListAll(p) \/ ListAllFails(p)
                \/ EndOne(p) \/ EndInterrupted(p) \/ EndsAll(p) \/ Clear(p) \/ ClearFails(p)

Next ==
  \/ \E p \in Procs :
       \/ \E c \in Commands : Begins(p, c)
       \/ Use(p) \/ Put(p) \/ Login(p) \/ Logout(p) \/ LogoutAll(p)
       \/ Killed(p)
  \/ Expires

Spec == Init /\ [][Next]_vars

----------------------------------------------------------------------------
(* What a person may rely on while commands do not overlap (MaxRunning = 1), *)
(* however they are interrupted or killed.  Nothing in the code keeps them    *)
(* apart: RenewsOncePerExpiry, PutChangesOneInstance and SignedOutIsOver are  *)
(* what its docs say of any commands, and fail of two that overlap.           *)

\* A stored session its issuer still keeps can be renewed with what is stored,
\* once no renewal or login is under way for it: a rotated refresh token is
\* never left behind (renew, instance.go), unless an issuer's answer, or the
\* write of it, was lost.
StoredIsRenewable ==
  ~mishap =>
    \A b \in Bases :
      LET e == file[b] IN
      /\ e # Nil
      /\ e.refresh # 0
      /\ current[e.session] # Nil
      /\ \A p \in Procs : base[p] = b => pc[p] \notin {"put", "save"}
      => Takes(e, <<"refresh", e.refresh>>)

\* README.md:631-633: a renewal is written back, "so one expiry costs one extra
\* round trip and not one per command".  Two commands that read the same expired
\* token both renew it, at an issuer that does not rotate.
RenewsOncePerExpiry == ~mishap => renewals <= Cardinality(expired)

\* README.md:640-647: a sign-out that ended with 0 ended the session where it
\* lives and forgot it here (Logout, auth.go).
SignedOutIsOver ==
  ~mishap =>
    \A p \in Procs :
      pc[p] = "idle" /\ cmd[p] = "logout" /\ code[p] = "ok" /\ seen[p] # Nil
      => /\ current[seen[p].session] = Nil
         /\ \A b \in Bases : file[b] # Nil => file[b].session # seen[p].session

\* auth.go:326: `logout --all` will "end and forget every stored session".  What
\* it forgets, on whatever way it ends, it has asked the issuer to end - but for
\* two ways that are the code's: a file it cannot read is removed with a warning
\* (place "load", auth.go:338-348), and where only the second read fails, which
\* nobody looks at (auth.go:350), every session is forgotten without a word.
EndsWhatItForgets ==
  [][\A p \in Procs, b \in Bases :
       /\ cmd[p] = "logoutAll" /\ pc[p] \notin {"idle", "load", "clearUnlisted"}
       /\ pc'[p] # pc[p]
       /\ file[b] # Nil /\ file'[b] = Nil
       => file[b] \in asked]_vars

\* creds.go:179: "Put stores (or replaces) one instance's session"; the others
\* stay as they are.  Of two processes that store at once, the second replaces
\* the file by what it read before the first.
PutChangesOneInstance ==
  [][\A p \in Procs, b \in Bases :
       pc[p] = "save" /\ pc'[p] = "idle" /\ b # base[p] => file'[b] = file[b]]_vars

============================================================================
