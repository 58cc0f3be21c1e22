------------------------- MODULE CredentialsProofs -------------------------
(***************************************************************************)
(* What a person whose commands do not overlap may rely on, for every set  *)
(* of instances, either kind of issuer, any number of commands and of      *)
(* tokens, and whatever fails or is killed.                                *)
(*                                                                         *)
(* The argument: as only one command runs, the file it read is the file it *)
(* replaces (ActsInv); what an issuer keeps of a stored session is the     *)
(* token that is stored (KeptInv), except between a renewal and its being  *)
(* stored; and no two instances share a session (ApartInv).                *)
(***************************************************************************)
EXTENDS Credentials, FiniteSetTheorems, TLAPS

\* Commands do not overlap.
OneAtATime == MaxRunning = 1

AloneInv == \A p, q \in Procs : pc[p] # "idle" /\ pc[q] # "idle" => p = q

\* A command is at a place of its own.
CmdInv ==
  \A p \in Procs :
    /\ pc[p] \in {"revoke", "remove", "removeSave"} => cmd[p] = "logout"
    /\ pc[p] \in {"load", "list", "endAll", "clear", "clearUnlisted"}
         => cmd[p] = "logoutAll"
    /\ pc[p] = "renew" => cmd[p] = "use"
    /\ pc[p] \in {"put", "save"} => cmd[p] \in {"use", "login"}
    /\ pc[p] = "signin" => cmd[p] = "login"
    /\ pc[p] = "get" => cmd[p] \in {"use", "logout"}

\* The tokens of an entry have been issued.
Known(e) == e # Nil => e.session <= issued /\ e.access <= issued

KnownInv ==
  /\ \A n \in expired : n <= issued
  /\ \A b \in Bases : Known(file[b])
  /\ \A p \in Procs : Known(seen[p]) /\ Known(got[p])

\* Two entries are of different sessions and have different tokens.
Apart(e, f) == e # Nil /\ f # Nil => e.session # f.session /\ e.access # f.access

ApartInv == \A b, c \in Bases : b # c => Apart(file[b], file[c])

\* What a command acts on is so: nobody else has changed it.
ActsInv ==
  \A p \in Procs :
    /\ pc[p] \in {"renew", "revoke", "remove", "removeSave"}
         => seen[p] # Nil /\ seen[p] = file[base[p]]
    /\ pc[p] = "renew" => seen[p].refresh # 0 /\ seen[p].access \in expired
    /\ pc[p] \in {"save", "removeSave", "list", "endAll"} => mem[p] = file
    /\ pc[p] \in {"put", "save"} =>
         /\ got[p] # Nil
         /\ current[got[p].session] = Revocable(got[p])
         /\ \A c \in Bases : c # base[p] => Apart(file[c], got[p])

\* logout --all has asked for every session that it does not have to do yet.
AskedInv ==
  \A p \in Procs, b \in Bases :
    file[b] # Nil /\ (pc[p] = "clear" \/ (pc[p] = "endAll" /\ b \notin todo[p]))
      => file[b] \in asked

\* The issuer keeps the session by the token that e has, or not at all.
Kept(e) == current[e.session] \in {Nil, Revocable(e)}

\* No new entry for b is under way.
Settled(b) == \A p \in Procs : base[p] = b => pc[p] \notin {"put", "save"}

KeptInv ==
  ~mishap => \A b \in Bases : file[b] # Nil /\ Settled(b) => Kept(file[b])

\* A logout that has been answered has ended the session.
RevokedInv ==
  ~mishap =>
    \A p \in Procs :
      pc[p] \in {"remove", "removeSave"} /\ code[p] = "ok" => current[seen[p].session] = Nil

IInv ==
  /\ TypeOK
  /\ AloneInv
  /\ CmdInv
  /\ KnownInv
  /\ ApartInv
  /\ ActsInv
  /\ AskedInv
  /\ KeptInv
  /\ RevokedInv
  /\ SignedOutIsOver

----------------------------------------------------------------------------
(* Type correctness. *)

\* A process that ends (creds, auth.go) leaves nothing in memory.
LEMMA EndsKeepsTypes ==
  ASSUME TypeOK, NEW p \in Procs, NEW c \in Outcomes, Ends(p, c)
  PROVE  /\ pc' \in [Procs -> Places] /\ code' \in [Procs -> Outcomes]
         /\ mem' \in [Procs -> Files] /\ got' \in [Procs -> Entries \cup {Nil}]
         /\ todo' \in [Procs -> SUBSET Bases]
<1>1. NoFile \in Files
  BY DEF NoFile, Files
<1> QED
  BY <1>1 DEF TypeOK, Ends, Places

\* What an issuer takes and gives (oidc.go): another token, for the session it was.
LEMMA ExchangeFacts ==
  ASSUME TypeOK, NEW p \in Procs, Exchanges(p), seen[p] # Nil
  PROVE  /\ seen[p] \in Entries
         /\ issued' = issued + 1 /\ issued' \in Serials
         /\ current' \in [Serials -> Tokens \cup {Nil}]
         /\ renewals' = renewals + 1
         /\ Renewed(base[p], seen[p], issued') \in Entries
         /\ Renewed(base[p], seen[p], issued').session = seen[p].session
         /\ Renewed(base[p], seen[p], issued').access = issued'
<1>1. seen[p] \in Entries /\ issued' = issued + 1 /\ issued' \in Serials
  BY CredentialsAssumption DEF TypeOK, Exchanges, Serials
<1>2. <<"refresh", issued'>> \in Tokens
  BY <1>1 DEF Tokens
<1>3. current' \in [Serials -> Tokens \cup {Nil}]
  BY <1>2 DEF TypeOK, Exchanges
<1>4. issued' \in 0..MaxIssued
  BY <1>1 DEF Serials
<1>5. /\ Renewed(base[p], seen[p], issued') \in Entries
      /\ Renewed(base[p], seen[p], issued').session = seen[p].session
      /\ Renewed(base[p], seen[p], issued').access = issued'
  BY <1>1, <1>4 DEF Renewed, Entries
<1> QED
  BY <1>1, <1>3, <1>5 DEF Exchanges

\* A session that begins (oidc.go): of its own number, kept by its first token.
LEMMA GrantFacts ==
  ASSUME TypeOK, NEW p \in Procs, Grants(p)
  PROVE  /\ issued' = issued + 1 /\ issued' \in Serials
         /\ current' \in [Serials -> Tokens \cup {Nil}]
         /\ current'[issued'] \in {<<"access", issued'>>, <<"refresh", issued'>>}
         /\ \A s \in Serials : s # issued' => current'[s] = current[s]
<1>1. issued' = issued + 1 /\ issued' \in Serials
  BY CredentialsAssumption DEF TypeOK, Grants, Serials
<1>2. PICK kind \in {"access", "refresh"} :
        current' = [current EXCEPT ![issued'] = <<kind, issued'>>]
  BY DEF Grants
<1>3. <<kind, issued'>> \in Tokens
  BY <1>1 DEF Tokens
<1> QED
  BY <1>1, <1>2, <1>3 DEF TypeOK

\* What a login stores (auth.go) is what the issuer keeps the session by.
LEMMA SignInFacts ==
  ASSUME TypeOK, NEW p \in Procs, SignIn(p)
  PROVE  /\ got'[p] \in Entries
         /\ got' = [got EXCEPT ![p] = got'[p]]
         /\ got'[p].session = issued' /\ got'[p].access = issued'
         /\ current'[issued'] = Revocable(got'[p])
<1>1. Grants(p)
  BY DEF SignIn
<1> DEFINE e == [session |-> issued', access |-> issued',
                 refresh |-> IF current'[issued'][1] = "refresh" THEN issued' ELSE 0]
<1>2. got' = [got EXCEPT ![p] = e] /\ got'[p] = e
  BY DEF SignIn, TypeOK
<1>3. issued' \in Serials /\ issued' \in 0..MaxIssued /\ issued' # 0 /\ 0 \in 0..MaxIssued
  BY <1>1, GrantFacts, CredentialsAssumption DEF Serials
<1>4. e \in Entries
  BY <1>3 DEF Entries
<1> DEFINE t == current'[issued']
<1>5. e.session = issued' /\ e.access = issued'
      /\ e.refresh = IF t[1] = "refresh" THEN issued' ELSE 0
  OBVIOUS
<1> HIDE DEF e, t
<1>6. CASE t = <<"access", issued'>>
  <2>1. t[1] = "access"
    BY <1>6
  <2>2. e.refresh = 0
    BY <1>5, <2>1
  <2>3. Revocable(e) = t
    BY <1>5, <1>6, <2>2 DEF Revocable
  <2> QED
    BY <1>2, <1>4, <1>5, <2>3 DEF t
<1>7. CASE t = <<"refresh", issued'>>
  <2>1. t[1] = "refresh"
    BY <1>7
  <2>2. e.refresh = issued'
    BY <1>5, <2>1
  <2>3. Revocable(e) = t
    BY <1>3, <1>5, <1>7, <2>2 DEF Revocable
  <2> QED
    BY <1>2, <1>4, <1>5, <2>3 DEF t
<1>8. t \in {<<"access", issued'>>, <<"refresh", issued'>>}
  BY <1>1, GrantFacts DEF t
<1> QED
  BY <1>6, <1>7, <1>8

\* What asking an issuer to end a session (oidc.go) may do to it.
LEMMA EndSessionFacts ==
  ASSUME TypeOK, NEW e \in Entries, NEW c \in Outcomes, EndSession(e, c)
  PROVE  /\ issued' = issued /\ expired' = expired
         /\ current' = current \/ current' = [current EXCEPT ![e.session] = Nil]
         /\ current' \in [Serials -> Tokens \cup {Nil}]
         /\ c = "ok" /\ Kept(e) => current'[e.session] = Nil
<1>1. e.session \in Serials
  BY DEF Entries
<1>2. CASE UNCHANGED issuerVars /\ c = "failed"
  BY <1>2 DEF issuerVars, TypeOK
<1>3. CASE /\ current' = IF Takes(e, Revocable(e))
                         THEN [current EXCEPT ![e.session] = Nil] ELSE current
           /\ UNCHANGED <<expired, issued>>
  BY <1>1, <1>3 DEF TypeOK, Takes, Kept
<1> QED
  BY <1>2, <1>3 DEF EndSession

\* The outcomes that processes end with, by name.
LEMMA OutcomeNames ==
  /\ {"none", "anonymous", "sent", "expired", "ok", "failed", "interrupted", "killed"}
       \subseteq Outcomes
  /\ \A p \in Procs, c \in Outcomes, d \in Outcomes :
       (IF cmd[p] = "login" THEN c ELSE d) \in Outcomes
BY DEF Outcomes

\* Every action of a bearer's command (instance.go) keeps each variable of its kind.
LEMMA UseTypes ==
  ASSUME TypeOK, ActsInv, NEW p \in Procs, Use(p)
  PROVE  TypeOK'
<1> USE DEF TypeOK, issuerVars
<1>1. CASE Get(p)
  <2>1. file[base[p]] \in Entries \cup {Nil}
    BY DEF Files
  <2>2. seen' \in [Procs -> Entries \cup {Nil}]
    BY <1>1, <2>1 DEF Get
  <2>3. CASE Goes(p, "renew") /\ UNCHANGED <<mem, got, todo>>
    BY <1>1, <2>2, <2>3 DEF Get, Goes, Places
  <2>4. CASE \E c \in {"anonymous", "sent", "expired"} : Ends(p, c)
    BY <1>1, <2>2, <2>4, EndsKeepsTypes, OutcomeNames DEF Get
  <2> QED
    BY <1>1, <2>3, <2>4 DEF Get
<1>2. CASE GetFails(p) \/ RenewFails(p)
  BY <1>2, EndsKeepsTypes, OutcomeNames DEF GetFails, RenewFails
<1>3. CASE Renew(p)
  <2>1. Exchanges(p) /\ seen[p] # Nil /\ expired' = expired
    BY <1>3 DEF Renew, Exchanges, ActsInv
  <2>2. got' \in [Procs -> Entries \cup {Nil}]
    BY <1>3, <2>1, ExchangeFacts DEF Renew
  <2>3. expired' \subseteq Serials /\ issued' \in 0..MaxIssued /\ renewals' \in Nat
    BY <2>1, ExchangeFacts DEF Serials
  <2> QED
    BY <1>3, <2>1, <2>2, <2>3, ExchangeFacts DEF Renew, Goes, Places
<1>4. CASE RenewUnanswered(p)
  <2>1. Exchanges(p) /\ seen[p] # Nil /\ expired' = expired
    BY <1>4 DEF RenewUnanswered, Exchanges, ActsInv
  <2>2. issued' \in 0..MaxIssued /\ renewals' \in Nat
    BY <2>1, ExchangeFacts DEF Serials
  <2> QED
    BY <1>4, <2>1, <2>2, ExchangeFacts, EndsKeepsTypes, OutcomeNames DEF RenewUnanswered
<1> QED
  BY <1>1, <1>2, <1>3, <1>4 DEF Use

\* So does every action of creds.Put and of a login (auth.go).
LEMMA PutTypes ==
  ASSUME TypeOK, ActsInv, NEW p \in Procs, Put(p) \/ Login(p)
  PROVE  TypeOK'
<1> USE DEF TypeOK, issuerVars
<1>1. CASE PutLoads(p)
  BY <1>1 DEF PutLoads, Goes, Places
<1>2. CASE PutSaves(p)
  <2>1. file' \in Files
    BY <1>2 DEF PutSaves, Files
  <2> QED
    BY <1>2, <2>1, EndsKeepsTypes, OutcomeNames DEF PutSaves
<1>3. CASE PutFails(p)
  BY <1>3, EndsKeepsTypes, OutcomeNames DEF PutFails
<1>4. CASE SignIn(p)
  <2>1. Grants(p) /\ expired' = expired
    BY <1>4 DEF SignIn, Grants
  <2>2. got' \in [Procs -> Entries \cup {Nil}]
    BY <1>4, SignInFacts
  <2>3. issued' \in 0..MaxIssued
    BY <2>1, GrantFacts DEF Serials
  <2> QED
    BY <1>4, <2>1, <2>2, <2>3, GrantFacts DEF SignIn, Goes, Places
<1>5. CASE SignInUnanswered(p)
  <2>1. Grants(p) /\ expired' = expired
    BY <1>5 DEF SignInUnanswered, Grants
  <2>2. issued' \in 0..MaxIssued
    BY <2>1, GrantFacts DEF Serials
  <2> QED
    BY <1>5, <2>1, <2>2, GrantFacts, EndsKeepsTypes, OutcomeNames DEF SignInUnanswered
<1>6. CASE SignInFails(p)
  BY <1>6, EndsKeepsTypes, OutcomeNames DEF SignInFails
<1> QED
  BY <1>1, <1>2, <1>3, <1>4, <1>5, <1>6 DEF Put, Login

\* So does every action of a logout (auth.go) and of creds.Remove.
LEMMA LogoutTypes ==
  ASSUME TypeOK, ActsInv, NEW p \in Procs, Logout(p)
  PROVE  TypeOK'
<1> USE DEF TypeOK, issuerVars
<1>1. CASE GetForLogout(p)
  <2>1. seen' \in [Procs -> Entries \cup {Nil}]
    BY <1>1 DEF GetForLogout, Files
  <2>2. CASE Ends(p, "ok")
    BY <1>1, <2>1, <2>2, EndsKeepsTypes, OutcomeNames DEF GetForLogout
  <2>3. CASE Goes(p, "revoke") /\ UNCHANGED <<mem, got, todo>>
    BY <1>1, <2>1, <2>3 DEF GetForLogout, Goes, Places
  <2> QED
    BY <1>1, <2>2, <2>3 DEF GetForLogout
<1>2. CASE Revoke(p) \/ RevokeInterrupted(p)
  <2>1. PICK c \in Outcomes : EndSession(seen[p], c)
    BY <1>2, OutcomeNames DEF Revoke, RevokeInterrupted
  <2>2. seen[p] \in Entries
    BY <1>2 DEF Revoke, RevokeInterrupted, ActsInv
  <2>3. asked' \in SUBSET Entries
    BY <1>2, <2>2 DEF Revoke, RevokeInterrupted
  <2>4. /\ current' \in [Serials -> Tokens \cup {Nil}]
        /\ expired' = expired /\ issued' = issued
    BY <2>1, <2>2, EndSessionFacts
  <2>5. CASE Revoke(p)
    BY <2>3, <2>4, <2>5 DEF Revoke, Places
  <2>6. CASE RevokeInterrupted(p)
    BY <2>3, <2>4, <2>6, EndsKeepsTypes, OutcomeNames DEF RevokeInterrupted
  <2> QED
    BY <1>2, <2>5, <2>6
<1>3. CASE RemoveLoads(p)
  <2>1. CASE Ends(p, code[p])
    BY <1>3, <2>1, EndsKeepsTypes DEF RemoveLoads
  <2>2. CASE Goes(p, "removeSave") /\ mem' = [mem EXCEPT ![p] = file] /\ UNCHANGED <<got, todo>>
    BY <1>3, <2>2 DEF RemoveLoads, Goes, Places
  <2> QED
    BY <1>3, <2>1, <2>2 DEF RemoveLoads
<1>4. CASE RemoveSaves(p)
  <2>1. file' \in Files
    BY <1>4 DEF RemoveSaves, Files
  <2> QED
    BY <1>4, <2>1, EndsKeepsTypes DEF RemoveSaves
<1>5. CASE RemoveFails(p)
  BY <1>5, EndsKeepsTypes, OutcomeNames DEF RemoveFails
<1> QED
  BY <1>1, <1>2, <1>3, <1>4, <1>5 DEF Logout, Remove

\* So does every action of logout --all (auth.go).
LEMMA LogoutAllTypes ==
  ASSUME TypeOK, NEW p \in Procs, LogoutAll(p)
  PROVE  TypeOK'
<1> USE DEF TypeOK, issuerVars
<1>0. NoFile \in Files
  BY DEF NoFile, Files
<1>1. CASE LoadAll(p)
  BY <1>1, OutcomeNames DEF LoadAll, Places
<1>2. CASE LoadAllFails(p)
  BY <1>0, <1>2, EndsKeepsTypes, OutcomeNames DEF LoadAllFails
<1>3. CASE ListAll(p)
  BY <1>3 DEF ListAll, ListAllFails, Goes, Places
<1>8. CASE ListAllFails(p)
  BY <1>8 DEF ListAllFails, Goes, Places
<1>4. CASE EndOne(p)
  <2>1. PICK b \in todo[p], c \in Outcomes :
          /\ IF mem[p][b] = Nil
             THEN c = "ok" /\ UNCHANGED issuerVars
             ELSE EndSession(mem[p][b], c)
          /\ asked' = asked \cup ({mem[p][b]} \ {Nil})
          /\ todo' = [todo EXCEPT ![p] = @ \ {b}]
          /\ code' = [code EXCEPT ![p] = IF @ = "ok" THEN c ELSE @]
    BY <1>4 DEF EndOne
  <2>2. mem[p][b] \in Entries \cup {Nil}
    BY DEF Files
  <2>3. /\ current' \in [Serials -> Tokens \cup {Nil}]
        /\ expired' = expired /\ issued' = issued
    BY <2>1, <2>2, EndSessionFacts
  <2>4. asked' \in SUBSET Entries
    BY <2>1, <2>2
  <2>5. todo' \in [Procs -> SUBSET Bases] /\ code' \in [Procs -> Outcomes]
    BY <2>1
  <2> QED
    BY <1>4, <2>3, <2>4, <2>5 DEF EndOne
<1>5. CASE EndInterrupted(p)
  <2>1. PICK b \in todo[p] :
          /\ IF mem[p][b] = Nil
             THEN UNCHANGED issuerVars
             ELSE EndSession(mem[p][b], "failed")
          /\ asked' = asked \cup ({mem[p][b]} \ {Nil})
    BY <1>5 DEF EndInterrupted
  <2>2. mem[p][b] \in Entries \cup {Nil}
    BY DEF Files
  <2>3. /\ current' \in [Serials -> Tokens \cup {Nil}]
        /\ expired' = expired /\ issued' = issued
    BY <2>1, <2>2, EndSessionFacts, OutcomeNames
  <2>4. asked' \in SUBSET Entries
    BY <2>1, <2>2
  <2> QED
    BY <1>5, <2>3, <2>4, EndsKeepsTypes, OutcomeNames DEF EndInterrupted
<1>6. CASE EndsAll(p)
  BY <1>6 DEF EndsAll, Goes, Places
<1>7. CASE Clear(p) \/ ClearFails(p)
  BY <1>0, <1>7, EndsKeepsTypes, OutcomeNames DEF Clear, ClearFails
<1> QED
  BY <1>1, <1>2, <1>3, <1>4, <1>5, <1>6, <1>7, <1>8 DEF LogoutAll

\* A command that begins (main.go) is at its first place.
LEMMA BeginsFacts ==
  ASSUME TypeOK, NEW p \in Procs, NEW c \in Commands, Begins(p, c)
  PROVE  /\ pc[p] = "idle" /\ code' = [code EXCEPT ![p] = "none"]
         /\ cmd' = [cmd EXCEPT ![p] = c] /\ seen' = [seen EXCEPT ![p] = Nil]
         /\ base' \in [Procs -> Bases]
         /\ \A q \in Procs : q # p => base'[q] = base[q]
         /\ pc' \in [Procs -> Places]
         /\ \A q \in Procs : q # p => pc'[q] = pc[q]
         /\ c \in {"use", "logout"} => pc'[p] = "get"
         /\ c = "login" => pc'[p] = "signin"
         /\ c = "logoutAll" => pc'[p] = "load"
<1>1. \E b \in Bases :
        base' = IF c = "logoutAll" THEN base ELSE [base EXCEPT ![p] = b]
  BY DEF Begins
<1>2. base' \in [Procs -> Bases] /\ (\A q \in Procs : q # p => base'[q] = base[q])
  BY <1>1 DEF TypeOK
<1>3. pc' = [pc EXCEPT ![p] = CASE c \in {"use", "logout"} -> "get"
                               [] c = "login"             -> "signin"
                               [] c = "logoutAll"         -> "load"]
  BY DEF Begins
<1>4. CASE c \in {"use", "logout"}
  BY <1>2, <1>3, <1>4 DEF Begins, TypeOK, Places
<1>5. CASE c = "login"
  BY <1>2, <1>3, <1>5 DEF Begins, TypeOK, Places
<1>6. CASE c = "logoutAll"
  BY <1>2, <1>3, <1>6 DEF Begins, TypeOK, Places
<1> QED
  BY <1>4, <1>5, <1>6 DEF Commands

\* Every step keeps each variable of its kind (creds.go, auth.go, instance.go).
LEMMA TypeStep ==
  ASSUME TypeOK, ActsInv, [Next]_vars
  PROVE  TypeOK'
<1>1. ASSUME NEW p \in Procs, NEW c \in Commands, Begins(p, c)
      PROVE  TypeOK'
  <2>1. started' \in 0..MaxCommands
    BY <1>1, CredentialsAssumption DEF TypeOK, Begins
  <2> QED
    BY <1>1, <2>1, BeginsFacts, OutcomeNames DEF TypeOK, Begins, issuerVars
<1>2. ASSUME NEW p \in Procs, Killed(p)
      PROVE  TypeOK'
  <2>1. mishap' \in BOOLEAN
    BY <1>2 DEF Killed
  <2> QED
    BY <1>2, <2>1, EndsKeepsTypes, OutcomeNames DEF TypeOK, Killed, issuerVars
<1>3. CASE Expires
  <2>1. expired' \subseteq Serials
    BY <1>3, CredentialsAssumption DEF Expires, TypeOK, Serials
  <2> QED
    BY <1>3, <2>1 DEF Expires, TypeOK
<1>4. CASE UNCHANGED vars
  BY <1>4 DEF TypeOK, vars, issuerVars
<1> QED
  BY <1>1, <1>2, <1>3, <1>4, UseTypes, PutTypes, LogoutTypes, LogoutAllTypes DEF Next

----------------------------------------------------------------------------
(* One command at a time. *)

\* A step of the command in p, once it has begun.
Acts(p) == Use(p) \/ Put(p) \/ Login(p) \/ Logout(p) \/ LogoutAll(p) \/ Killed(p)

\* The next command begins (main.go) when there is none.
LEMMA BeginsAlone ==
  ASSUME OneAtATime, TypeOK, AloneInv, NEW p \in Procs, NEW c \in Commands, Begins(p, c)
  PROVE  \A q \in Procs : pc[q] = "idle"
<1>1. SUFFICES ASSUME NEW q \in Procs, pc[q] # "idle" PROVE FALSE
  OBVIOUS
<1>2. Running = {q}
  BY <1>1 DEF AloneInv, Running
<1>3. Cardinality(Running) = 1
  BY <1>2, FS_Singleton
<1>4. Cardinality(Running) < 1
  BY DEF Begins, OneAtATime
<1> QED
  BY <1>3, <1>4

\* A command acts for itself: the others are not there (auth.go, instance.go).
LEMMA ActsAlone ==
  ASSUME TypeOK, AloneInv, NEW p \in Procs, Acts(p)
  PROVE  /\ pc[p] # "idle"
         /\ cmd' = cmd /\ base' = base
         /\ \A q \in Procs : q # p =>
              /\ pc[q] = "idle" /\ pc'[q] = "idle"
              /\ seen'[q] = seen[q] /\ got'[q] = got[q] /\ code'[q] = code[q]
<1>1. pc[p] # "idle"
  BY DEF Acts, Use, Put, Login, Logout, LogoutAll, Killed, Remove, Get, GetFails, Renew,
     RenewFails, RenewUnanswered, Exchanges, PutLoads, PutSaves, PutFails, SignIn,
     SignInUnanswered, SignInFails, Grants, GetForLogout, Revoke, RevokeInterrupted,
     RemoveLoads, RemoveSaves, RemoveFails, LoadAll, LoadAllFails, ListAll,
     ListAllFails, EndOne,
     EndInterrupted, EndsAll, Clear, ClearFails
<1>2. cmd' = cmd /\ base' = base
  BY DEF Acts, Use, Put, Login, Logout, LogoutAll, Killed, Remove, Get, GetFails, Renew,
     RenewFails, RenewUnanswered, PutLoads, PutSaves, PutFails, SignIn,
     SignInUnanswered, SignInFails, GetForLogout, Revoke, RevokeInterrupted,
     RemoveLoads, RemoveSaves, RemoveFails, LoadAll, LoadAllFails, ListAll,
     ListAllFails, EndOne,
     EndInterrupted, EndsAll, Clear, ClearFails
<1>3. ASSUME NEW q \in Procs, q # p
      PROVE  /\ pc'[q] = pc[q] /\ seen'[q] = seen[q] /\ got'[q] = got[q]
             /\ code'[q] = code[q]
  <2> USE <1>3 DEF TypeOK, Ends, Goes
  <2>1. CASE Use(p)
    BY <2>1 DEF Use, Get, GetFails, Renew, RenewFails, RenewUnanswered
  <2>2. CASE Put(p)
    BY <2>2 DEF Put, PutLoads, PutSaves, PutFails
  <2>3. CASE Login(p)
    BY <2>3 DEF Login, SignIn, SignInUnanswered, SignInFails
  <2>4. CASE Logout(p)
    BY <2>4 DEF Logout, Remove, GetForLogout, Revoke, RevokeInterrupted, RemoveLoads,
       RemoveSaves, RemoveFails
  <2>5. CASE LogoutAll(p)
    BY <2>5 DEF LogoutAll, LoadAll, LoadAllFails, ListAll, ListAllFails, EndOne,
     EndInterrupted, EndsAll,
       Clear, ClearFails
  <2>6. CASE Killed(p)
    BY <2>6 DEF Killed
  <2> QED
    BY <2>1, <2>2, <2>3, <2>4, <2>5, <2>6 DEF Acts
<1> QED
  BY <1>1, <1>2, <1>3 DEF AloneInv

\* Where a command goes next, if it does not end (instance.go, auth.go, creds.go).
LEMMA PlaceMoves ==
  ASSUME TypeOK, NEW p \in Procs, Acts(p)
  PROVE  \/ pc'[p] = "idle" /\ pc'[p] # pc[p]
         \/ Get(p) /\ pc'[p] = "renew"
         \/ Renew(p) /\ pc'[p] = "put"
         \/ SignIn(p) /\ pc'[p] = "put"
         \/ PutLoads(p) /\ pc'[p] = "save"
         \/ GetForLogout(p) /\ pc'[p] = "revoke"
         \/ Revoke(p) /\ pc'[p] = "remove"
         \/ RemoveLoads(p) /\ pc'[p] = "removeSave"
         \/ LoadAll(p) /\ pc'[p] = "list"
         \/ ListAll(p) /\ pc'[p] = "endAll"
         \/ ListAllFails(p) /\ pc'[p] = "clearUnlisted"
         \/ EndOne(p) /\ pc'[p] = "endAll"
         \/ EndsAll(p) /\ pc'[p] = "clear"
<1> USE DEF TypeOK, Ends, Goes
<1>1. CASE Use(p)
  BY <1>1 DEF Use, Get, GetFails, Renew, RenewFails, RenewUnanswered, Exchanges
<1>2. CASE Put(p)
  BY <1>2 DEF Put, PutLoads, PutSaves, PutFails
<1>3. CASE Login(p)
  BY <1>3 DEF Login, SignIn, SignInUnanswered, SignInFails, Grants
<1>4. CASE Logout(p)
  BY <1>4 DEF Logout, Remove, GetForLogout, Revoke, RevokeInterrupted, RemoveLoads,
     RemoveSaves, RemoveFails
<1>5. CASE LogoutAll(p)
  BY <1>5 DEF LogoutAll, LoadAll, LoadAllFails, ListAll,
     ListAllFails, EndOne,
     EndInterrupted, EndsAll, Clear, ClearFails
<1>6. CASE Killed(p)
  BY <1>6 DEF Killed
<1> QED
  BY <1>1, <1>2, <1>3, <1>4, <1>5, <1>6 DEF Acts

\* logout --all forgets sessions where it clears the file and where it could not read
\* it, and nowhere else (auth.go).
LEMMA ForgetsByClearing ==
  ASSUME TypeOK, ActsInv, CmdInv, NEW p \in Procs, Acts(p), cmd[p] = "logoutAll",
         NEW b \in Bases, file'[b] # file[b]
  PROVE  pc[p] \in {"load", "clear", "clearUnlisted"}
<1>1. CASE PutSaves(p) \/ RemoveSaves(p)
  BY <1>1 DEF PutSaves, RemoveSaves, CmdInv
<1>2. CASE Clear(p) \/ LoadAllFails(p)
  BY <1>2 DEF Clear, LoadAllFails
<1>3. CASE ~PutSaves(p) /\ ~RemoveSaves(p) /\ ~Clear(p) /\ ~LoadAllFails(p)
  BY <1>3
     DEF Acts, Use, Put, Login, Logout, LogoutAll, Killed, Remove, Get, GetFails, Renew,
     RenewFails, RenewUnanswered, PutLoads, PutFails, SignIn, SignInUnanswered,
     SignInFails, GetForLogout, Revoke, RevokeInterrupted, RemoveLoads, RemoveFails,
     LoadAll, ListAll, ListAllFails, EndOne, EndInterrupted, EndsAll, ClearFails
<1> QED
  BY <1>1, <1>2, <1>3

\* What a command does to the file (creds.go): as it read it itself, it loses
\* entries or puts its own.
LEMMA FileMoves ==
  ASSUME TypeOK, ActsInv, NEW p \in Procs, Acts(p)
  PROVE  \/ file' = file
         \/ \A b \in Bases : file'[b] \in {file[b], Nil}
         \/ PutSaves(p) /\ file' = [file EXCEPT ![base[p]] = got[p]]
<1>1. CASE PutSaves(p)
  BY <1>1 DEF PutSaves, ActsInv
<1>2. CASE RemoveSaves(p)
  BY <1>2 DEF RemoveSaves, ActsInv, TypeOK, Files
<1>3. CASE Clear(p) \/ LoadAllFails(p)
  BY <1>3 DEF Clear, LoadAllFails, NoFile
<1>4. CASE ~PutSaves(p) /\ ~RemoveSaves(p) /\ ~Clear(p) /\ ~LoadAllFails(p)
  BY <1>4
     DEF Acts, Use, Put, Login, Logout, LogoutAll, Killed, Remove, Get, GetFails, Renew,
     RenewFails, RenewUnanswered, PutLoads, PutFails, SignIn, SignInUnanswered,
     SignInFails, GetForLogout, Revoke, RevokeInterrupted, RemoveLoads, RemoveFails,
     LoadAll, ListAll, ListAllFails, EndOne, EndInterrupted, EndsAll, ClearFails
<1> QED
  BY <1>1, <1>2, <1>3, <1>4

\* What a command does to the sessions (oidc.go): renews one, begins one, or ends
\* some.
LEMMA SessionMoves ==
  ASSUME TypeOK, ActsInv, NEW p \in Procs, Acts(p)
  PROVE  /\ expired' = expired
         /\ \/ /\ issued' = issued
               /\ \A s \in Serials : current'[s] \in {current[s], Nil}
            \/ Renew(p) \/ RenewUnanswered(p) \/ SignIn(p) \/ SignInUnanswered(p)
<1>1. CASE Renew(p) \/ RenewUnanswered(p) \/ SignIn(p) \/ SignInUnanswered(p)
  BY <1>1 DEF Renew, RenewUnanswered, SignIn, SignInUnanswered, Exchanges, Grants
<1>2. ASSUME NEW e \in Entries, NEW c \in Outcomes, EndSession(e, c)
      PROVE  /\ issued' = issued /\ expired' = expired
             /\ \A s \in Serials : current'[s] \in {current[s], Nil}
  BY <1>2, EndSessionFacts DEF TypeOK
<1>3. CASE Revoke(p) \/ RevokeInterrupted(p)
  <2>1. seen[p] \in Entries
    BY <1>3 DEF Revoke, RevokeInterrupted, ActsInv, TypeOK
  <2> QED
    BY <1>2, <1>3, <2>1, OutcomeNames DEF Revoke, RevokeInterrupted
<1>4. CASE EndOne(p) \/ EndInterrupted(p)
  <2>1. PICK b \in todo[p], c \in Outcomes :
          UNCHANGED issuerVars \/ (mem[p][b] # Nil /\ EndSession(mem[p][b], c))
    BY <1>4, OutcomeNames DEF EndOne, EndInterrupted
  <2>2. mem[p][b] \in Entries \cup {Nil}
    BY DEF TypeOK, Files
  <2> QED
    BY <1>2, <2>1, <2>2 DEF issuerVars
<1>5. CASE /\ ~Renew(p) /\ ~RenewUnanswered(p) /\ ~SignIn(p) /\ ~SignInUnanswered(p)
           /\ ~Revoke(p) /\ ~RevokeInterrupted(p) /\ ~EndOne(p) /\ ~EndInterrupted(p)
  BY <1>5
     DEF Acts, Use, Put, Login, Logout, LogoutAll, Killed, Remove, Get, GetFails,
     RenewFails, PutLoads, PutSaves, PutFails, SignInFails, GetForLogout, RemoveLoads,
     RemoveSaves, RemoveFails, LoadAll, LoadAllFails, ListAll, ListAllFails, EndsAll,
     Clear, ClearFails,
     issuerVars
<1> QED
  BY <1>1, <1>3, <1>4, <1>5

\* What a command keeps in memory (instance.go, auth.go) is an entry of the file, or
\* one it was just given.
LEMMA MemoryMoves ==
  ASSUME TypeOK, NEW p \in Procs, Acts(p)
  PROVE  /\ seen'[p] \in {seen[p], file[base[p]]}
         /\ got'[p] \in {got[p], Nil} \/ Renew(p) \/ SignIn(p)
         /\ mishap' \/ ~mishap
         /\ renewals' = renewals \/ Renew(p) \/ RenewUnanswered(p)
<1> USE DEF TypeOK, Ends, Goes
<1>1. CASE Use(p)
  BY <1>1 DEF Use, Get, GetFails, Renew, RenewFails, RenewUnanswered
<1>2. CASE Put(p)
  BY <1>2 DEF Put, PutLoads, PutSaves, PutFails
<1>3. CASE Login(p)
  BY <1>3 DEF Login, SignIn, SignInUnanswered, SignInFails
<1>4. CASE Logout(p)
  BY <1>4 DEF Logout, Remove, GetForLogout, Revoke, RevokeInterrupted, RemoveLoads,
     RemoveSaves, RemoveFails
<1>5. CASE LogoutAll(p)
  BY <1>5 DEF LogoutAll, LoadAll, LoadAllFails, ListAll, ListAllFails, EndOne,
     EndInterrupted, EndsAll,
     Clear, ClearFails
<1>6. CASE Killed(p)
  BY <1>6 DEF Killed
<1> QED
  BY <1>1, <1>2, <1>3, <1>4, <1>5, <1>6 DEF Acts

\* What the clock (Expires) and nothing at all leave alone.
LEMMA IdleFacts ==
  ASSUME TypeOK, Expires \/ UNCHANGED vars
  PROVE  /\ UNCHANGED <<file, current, issued, started, cmd, base, pc, seen, mem, got,
                        todo, code, mishap, renewals, asked>>
         /\ \A n \in expired' : n \in expired \/ n <= issued
         /\ expired \subseteq expired'
<1>1. CASE Expires
  BY <1>1 DEF Expires, TypeOK
<1>2. CASE UNCHANGED vars
  BY <1>2 DEF vars, issuerVars
<1> QED
  BY <1>1, <1>2

\* No second command begins while one runs, and each keeps to its places (main.go).
LEMMA AloneStep ==
  ASSUME OneAtATime, TypeOK, AloneInv, CmdInv, [Next]_vars
  PROVE  AloneInv' /\ CmdInv'
<1>1. ASSUME NEW p \in Procs, NEW c \in Commands, Begins(p, c)
      PROVE  AloneInv' /\ CmdInv'
  <2>1. \A q \in Procs : q # p => pc'[q] = "idle"
    BY <1>1, BeginsAlone, BeginsFacts
  <2>2. cmd'[p] = c
    BY <1>1, BeginsFacts DEF TypeOK
  <2> QED
    BY <1>1, <2>1, <2>2, BeginsFacts DEF AloneInv, CmdInv, Commands
<1>2. ASSUME NEW p \in Procs, Acts(p)
      PROVE  AloneInv' /\ CmdInv'
  <2>1. \A q \in Procs : q # p => pc'[q] = "idle"
    BY <1>2, ActsAlone
  <2>2. cmd' = cmd
    BY <1>2, ActsAlone
  <2>3. AloneInv'
    BY <2>1 DEF AloneInv
  <2>4. CmdInv'
    <3>1. CASE pc'[p] \in {"list", "endAll", "clear", "clearUnlisted"}
      <4>1. pc[p] \in {"load", "list", "endAll"}
        BY <1>2, <3>1, PlaceMoves DEF LoadAll, ListAll, ListAllFails, EndOne, EndsAll
      <4> QED
        BY <2>1, <2>2, <3>1, <4>1 DEF CmdInv
    <3>2. CASE pc'[p] \notin {"list", "endAll", "clear", "clearUnlisted"}
      BY <1>2, <2>1, <2>2, <3>2, PlaceMoves
         DEF CmdInv, Get, Renew, Exchanges, SignIn, Grants, PutLoads, GetForLogout, Revoke,
             RemoveLoads
    <3> QED
      BY <3>1, <3>2
  <2> QED
    BY <2>3, <2>4
<1>3. CASE Expires \/ UNCHANGED vars
  BY <1>3, IdleFacts DEF AloneInv, CmdInv
<1> QED
  BY <1>1, <1>2, <1>3 DEF Next, Acts

\* A renewal is of the stored session, by its own token (instance.go).
LEMMA RenewFacts ==
  ASSUME TypeOK, ActsInv, NEW p \in Procs, Renew(p) \/ RenewUnanswered(p)
  PROVE  /\ pc[p] = "renew" /\ seen[p] \in Entries /\ seen[p] = file[base[p]]
         /\ issued' = issued + 1 /\ issued' \in Serials
         /\ current[seen[p].session] = <<"refresh", seen[p].refresh>>
         /\ seen[p].refresh # 0
         /\ \A s \in Serials : s # seen[p].session => current'[s] = current[s]
         /\ current'[seen[p].session] = Revocable(Renewed(base[p], seen[p], issued'))
         /\ renewals' = renewals + 1
<1>1. Exchanges(p) /\ pc[p] = "renew"
  BY DEF Renew, RenewUnanswered, Exchanges
<1>2. /\ seen[p] \in Entries /\ seen[p] = file[base[p]] /\ seen[p].refresh # 0
      /\ seen[p] # Nil
  BY <1>1 DEF ActsInv, TypeOK
<1>3. issued' = issued + 1 /\ issued' \in Serials /\ renewals' = renewals + 1
  BY <1>1, <1>2, ExchangeFacts
<1>4. current[seen[p].session] = <<"refresh", seen[p].refresh>>
  BY <1>1 DEF Exchanges, Takes
<1>5. seen[p].session \in Serials
  BY <1>2 DEF Entries
<1>6. \A s \in Serials : s # seen[p].session => current'[s] = current[s]
  BY <1>1 DEF Exchanges, TypeOK
<1> DEFINE e == Renewed(base[p], seen[p], issued')
<1>7. current'[seen[p].session] = Revocable(e)
  <2>1. CASE base[p] \in Rotating
    <3>1. current'[seen[p].session] = <<"refresh", issued'>>
      BY <1>1, <1>5, <2>1 DEF Exchanges, TypeOK
    <3>2. e.refresh = issued' /\ issued' # 0
      BY <1>2, <1>3, <2>1 DEF Renewed, Entries, Serials
    <3> QED
      BY <3>1, <3>2 DEF Revocable
  <2>2. CASE base[p] \notin Rotating
    <3>1. current'[seen[p].session] = <<"refresh", seen[p].refresh>>
      BY <1>1, <1>4, <1>5, <2>2 DEF Exchanges, TypeOK
    <3>2. e.refresh = seen[p].refresh
      BY <1>2, <2>2 DEF Renewed, Entries
    <3> QED
      BY <1>2, <3>1, <3>2 DEF Revocable
  <2> QED
    BY <2>1, <2>2
<1> QED
  BY <1>1, <1>2, <1>3, <1>4, <1>6, <1>7

\* A session that begins is nobody else's (oidc.go), and is kept by a token.
LEMMA BeginFacts ==
  ASSUME TypeOK, NEW p \in Procs, SignIn(p) \/ SignInUnanswered(p)
  PROVE  /\ pc[p] = "signin" /\ issued' = issued + 1 /\ issued' \in Serials
         /\ \A s \in Serials : s # issued' => current'[s] = current[s]
         /\ renewals' = renewals
<1>1. Grants(p) /\ pc[p] = "signin" /\ renewals' = renewals
  BY DEF SignIn, SignInUnanswered, Grants
<1> QED
  BY <1>1, GrantFacts

\* The new entry that a command has to store (instance.go, auth.go).
LEMMA NewEntry ==
  ASSUME TypeOK, ActsInv, KnownInv, ApartInv, NEW p \in Procs, Renew(p) \/ SignIn(p)
  PROVE  /\ got'[p] \in Entries /\ got'[p] # Nil
         /\ got'[p].access = issued'
         /\ got'[p].session <= issued'
         /\ current'[got'[p].session] = Revocable(got'[p])
         /\ \A c \in Bases : c # base[p] => Apart(file[c], got'[p])
         /\ file' = file
<1>0. issued \in Nat /\ \A c \in Bases : file[c] # Nil =>
        /\ file[c].session \in Nat /\ file[c].access \in Nat
        /\ file[c].session <= issued /\ file[c].access <= issued
  BY CredentialsAssumption DEF TypeOK, Files, Entries, Serials, KnownInv, Known
<1>1. CASE Renew(p)
  <2>1. seen[p] \in Entries /\ seen[p] = file[base[p]] /\ seen[p] # Nil /\ Exchanges(p)
    BY <1>1, RenewFacts, NoEntryAssumption DEF Renew
  <2>2. got'[p] = Renewed(base[p], seen[p], issued') /\ file' = file
    BY <1>1 DEF Renew, TypeOK
  <2>3. /\ got'[p] \in Entries /\ got'[p].session = seen[p].session
        /\ got'[p].access = issued' /\ issued' = issued + 1
    BY <2>1, <2>2, ExchangeFacts
  <2>4. current'[got'[p].session] = Revocable(got'[p])
    BY <1>1, <2>2, <2>3, RenewFacts
  <2>5. base[p] \in Bases
    BY DEF TypeOK
  <2>6. ASSUME NEW c \in Bases, c # base[p] PROVE Apart(file[c], got'[p])
    BY <1>0, <2>1, <2>3, <2>5, <2>6 DEF ApartInv, Apart
  <2> QED
    BY <1>0, <2>1, <2>2, <2>3, <2>4, <2>5, <2>6, NoEntryAssumption
<1>2. CASE SignIn(p)
  <2>1. /\ got'[p] \in Entries /\ got'[p].session = issued' /\ got'[p].access = issued'
        /\ current'[issued'] = Revocable(got'[p])
        /\ issued' = issued + 1
    BY <1>2, SignInFacts, BeginFacts
  <2>2. file' = file
    BY <1>2 DEF SignIn
  <2>3. ASSUME NEW c \in Bases PROVE Apart(file[c], got'[p])
    BY <1>0, <2>1 DEF Apart
  <2> QED
    BY <1>0, <2>1, <2>2, <2>3, NoEntryAssumption
<1> QED
  BY <1>1, <1>2

\* What is stored or in memory has been issued (oidc.go).
LEMMA KnownStep ==
  ASSUME TypeOK, AloneInv, ActsInv, KnownInv, ApartInv, [Next]_vars
  PROVE  KnownInv'
<1>0. /\ issued \in Nat /\ MaxIssued \in Nat
      /\ \A e \in Entries : e.session \in Nat /\ e.access \in Nat
      /\ \A b \in Bases : file[b] \in Entries \cup {Nil}
      /\ \A p \in Procs : seen[p] \in Entries \cup {Nil} /\ got[p] \in Entries \cup {Nil}
      /\ \A p \in Procs : base[p] \in Bases
      /\ \A n \in expired : n \in Nat
  BY CredentialsAssumption DEF TypeOK, Entries, Files, Serials
<1>1. ASSUME NEW p \in Procs, NEW c \in Commands, Begins(p, c)
      PROVE  KnownInv'
  BY <1>1, BeginsFacts DEF KnownInv, Known, Begins, TypeOK, issuerVars
<1>2. ASSUME NEW p \in Procs, Acts(p)
      PROVE  KnownInv'
  <2>1. issued' \in Nat /\ issued' >= issued /\ expired' = expired
    BY <1>0, <1>2, SessionMoves, RenewFacts, BeginFacts
  <2>2. ASSUME NEW e \in Entries \cup {Nil}, Known(e) PROVE Known(e)'
    BY <1>0, <2>1, <2>2 DEF Known
  <2>3. \A n \in expired' : n <= issued'
    BY <1>0, <2>1 DEF KnownInv
  <2>4. ASSUME NEW b \in Bases PROVE Known(file[b])'
    <3>1. file'[b] \in {file[b], Nil, got[p]}
      BY <1>0, <1>2, FileMoves DEF TypeOK, Files
    <3> QED
      BY <1>0, <2>1, <3>1 DEF KnownInv, Known
  <2>5. ASSUME NEW q \in Procs PROVE Known(seen[q])' /\ Known(got[q])'
    <3>1. seen'[q] \in {seen[q], file[base[q]]}
      BY <1>2, ActsAlone, MemoryMoves
    <3>2. Known(seen[q])'
      BY <1>0, <2>1, <3>1 DEF KnownInv, Known
    <3>3. CASE got'[q] \in {got[q], Nil}
      BY <1>0, <2>1, <3>2, <3>3 DEF KnownInv, Known
    <3>4. CASE q = p /\ (Renew(p) \/ SignIn(p))
      <4>1. got'[p].access = issued' /\ got'[p].session <= issued'
        BY <3>4, NewEntry
      <4> QED
        BY <2>1, <3>2, <3>4, <4>1 DEF Known
    <3> QED
      BY <1>2, <3>3, <3>4, ActsAlone, MemoryMoves
  <2> QED
    BY <2>3, <2>4, <2>5 DEF KnownInv
<1>3. CASE Expires \/ UNCHANGED vars
  BY <1>3, IdleFacts DEF KnownInv, Known
<1> QED
  BY <1>1, <1>2, <1>3 DEF Next, Acts

\* No two instances come to share a session (creds.go).
LEMMA ApartStep ==
  ASSUME TypeOK, AloneInv, ActsInv, ApartInv, [Next]_vars
  PROVE  ApartInv'
<1>1. ASSUME NEW p \in Procs, NEW c \in Commands, Begins(p, c)
      PROVE  ApartInv'
  BY <1>1 DEF ApartInv, Apart, Begins
<1>2. ASSUME NEW p \in Procs, Acts(p)
      PROVE  ApartInv'
  <2>1. CASE \A b \in Bases : file'[b] \in {file[b], Nil}
    BY <2>1 DEF ApartInv, Apart
  <2>2. CASE PutSaves(p) /\ file' = [file EXCEPT ![base[p]] = got[p]]
    <3>1. \A c \in Bases : c # base[p] => Apart(file[c], got[p])
      BY <2>2 DEF PutSaves, ActsInv
    <3>2. base[p] \in Bases /\ file'[base[p]] = got[p]
          /\ \A c \in Bases : c # base[p] => file'[c] = file[c]
      BY <2>2 DEF TypeOK, Files
    <3> QED
      BY <3>1, <3>2 DEF ApartInv, Apart
  <2> QED
    BY <1>2, <2>1, <2>2, FileMoves
<1>3. CASE Expires \/ UNCHANGED vars
  BY <1>3, IdleFacts DEF ApartInv, Apart
<1> QED
  BY <1>1, <1>2, <1>3 DEF Next, Acts

\* What a command acts on stays so while it acts (creds.go, instance.go, auth.go).
LEMMA ActsStep ==
  ASSUME OneAtATime, TypeOK, AloneInv, ActsInv, KnownInv, ApartInv, [Next]_vars
  PROVE  ActsInv'
<1>1. ASSUME NEW p \in Procs, NEW c \in Commands, Begins(p, c)
      PROVE  ActsInv'
  <2>1. \A q \in Procs : pc'[q] \in {"idle", "get", "signin", "load"}
    BY <1>1, BeginsAlone, BeginsFacts DEF Commands
  <2> QED
    BY <2>1 DEF ActsInv
<1>2. ASSUME NEW p \in Procs, Acts(p)
      PROVE  ActsInv'
  <2>1. \A q \in Procs : q # p => pc'[q] = "idle"
    BY <1>2, ActsAlone
  <2>2. base' = base /\ base[p] \in Bases
    BY <1>2, ActsAlone DEF TypeOK
  <2>3. CASE Get(p) /\ pc'[p] = "renew"
    <3>1. /\ seen'[p] = file[base[p]] /\ file' = file /\ expired' = expired
          /\ seen'[p] # Nil /\ ~Valid(seen'[p]) /\ seen'[p].refresh # 0
      BY <2>3 DEF Get, Ends, Goes, TypeOK, issuerVars
    <3> QED
      BY <2>1, <2>2, <2>3, <3>1 DEF ActsInv, Valid
  <2>4. CASE (Renew(p) \/ SignIn(p)) /\ pc'[p] = "put"
    BY <2>1, <2>2, <2>4, NewEntry DEF ActsInv, Revocable
  <2>5. CASE PutLoads(p) /\ pc'[p] = "save"
    <3>1. /\ pc[p] = "put" /\ mem'[p] = file /\ file' = file /\ got' = got
          /\ current' = current
      BY <2>5 DEF PutLoads, TypeOK, issuerVars
    <3> QED
      BY <2>1, <2>2, <2>5, <3>1 DEF ActsInv, Revocable
  <2>6. CASE GetForLogout(p) /\ pc'[p] = "revoke"
    <3>1. seen'[p] = file[base[p]] /\ file' = file /\ seen'[p] # Nil
      BY <2>6 DEF GetForLogout, Ends, TypeOK
    <3> QED
      BY <2>1, <2>2, <2>6, <3>1 DEF ActsInv
  <2>7. CASE Revoke(p) /\ pc'[p] = "remove"
    <3>1. pc[p] = "revoke" /\ seen' = seen /\ file' = file
      BY <2>7 DEF Revoke
    <3> QED
      BY <2>1, <2>2, <2>7, <3>1 DEF ActsInv
  <2>8. CASE RemoveLoads(p) /\ pc'[p] = "removeSave"
    <3>1. pc[p] = "remove" /\ seen' = seen /\ file' = file /\ mem'[p] = file
      BY <2>8 DEF RemoveLoads, Ends, TypeOK
    <3> QED
      BY <2>1, <2>2, <2>8, <3>1 DEF ActsInv
  <2>9. CASE LoadAll(p) /\ pc'[p] = "list"
    <3>1. mem'[p] = file /\ file' = file
      BY <2>9 DEF LoadAll, TypeOK
    <3> QED
      BY <2>1, <2>9, <3>1 DEF ActsInv
  <2>10. CASE (ListAll(p) \/ EndOne(p)) /\ pc'[p] = "endAll"
    <3>1. pc[p] \in {"list", "endAll"} /\ mem' = mem /\ file' = file
      BY <2>10 DEF ListAll, ListAllFails, EndOne
    <3> QED
      BY <2>1, <2>10, <3>1 DEF ActsInv
  <2>11. CASE pc'[p] \in {"idle", "clear", "clearUnlisted"}
    BY <2>1, <2>11 DEF ActsInv
  <2> QED
    BY <1>2, <2>3, <2>4, <2>5, <2>6, <2>7, <2>8, <2>9, <2>10, <2>11, PlaceMoves
<1>3. CASE Expires \/ UNCHANGED vars
  BY <1>3, IdleFacts DEF ActsInv, Revocable
<1> QED
  BY <1>1, <1>2, <1>3 DEF Next, Acts

\* logout --all passes over no stored session (auth.go).
LEMMA AskedStep ==
  ASSUME OneAtATime, TypeOK, AloneInv, ActsInv, AskedInv, [Next]_vars
  PROVE  AskedInv'
<1>1. ASSUME NEW p \in Procs, NEW c \in Commands, Begins(p, c)
      PROVE  AskedInv'
  <2>1. \A q \in Procs : pc'[q] \in {"idle", "get", "signin", "load"}
    BY <1>1, BeginsAlone, BeginsFacts DEF Commands
  <2> QED
    BY <2>1 DEF AskedInv
<1>2. ASSUME NEW p \in Procs, Acts(p)
      PROVE  AskedInv'
  <2>1. \A q \in Procs : q # p => pc'[q] = "idle"
    BY <1>2, ActsAlone
  <2>2. CASE ListAll(p) /\ pc'[p] = "endAll"
    <3>1. file' = file /\ asked' = asked /\ todo'[p] = {b \in Bases : file[b] # Nil}
      BY <2>2 DEF ListAll, ListAllFails, TypeOK
    <3> QED
      BY <2>1, <2>2, <3>1 DEF AskedInv
  <2>3. CASE EndOne(p) /\ pc'[p] = "endAll"
    <3>1. PICK b \in todo[p] :
            /\ asked' = asked \cup ({mem[p][b]} \ {Nil})
            /\ todo'[p] = todo[p] \ {b}
      BY <2>3 DEF EndOne, TypeOK
    <3>2. mem[p] = file /\ pc[p] = "endAll" /\ file' = file
      BY <2>3 DEF EndOne, ActsInv
    <3> QED
      BY <2>1, <2>3, <3>1, <3>2 DEF AskedInv
  <2>4. CASE EndsAll(p) /\ pc'[p] = "clear"
    <3>1. file' = file /\ asked' = asked /\ todo[p] = {} /\ pc[p] = "endAll"
      BY <2>4 DEF EndsAll
    <3> QED
      BY <2>1, <2>4, <3>1 DEF AskedInv
  <2>5. CASE pc'[p] \notin {"endAll", "clear"}
    BY <2>1, <2>5 DEF AskedInv
  <2> QED
    BY <1>2, <2>2, <2>3, <2>4, <2>5, PlaceMoves
<1>3. CASE Expires \/ UNCHANGED vars
  BY <1>3, IdleFacts DEF AskedInv
<1> QED
  BY <1>1, <1>2, <1>3 DEF Next, Acts

\* The token that a logout revokes (auth.go) is one.
LEMMA RevocableIsToken ==
  ASSUME NEW e \in Entries
  PROVE  Revocable(e) \in Tokens /\ Revocable(e) # Nil
<1>1. e.access \in Serials /\ (e.refresh # 0 => e.refresh \in Serials)
  BY CredentialsAssumption DEF Entries, Serials
<1>2. Revocable(e) \in Tokens
  BY <1>1 DEF Revocable, Tokens
<1> QED
  BY <1>2, NoEntryAssumption

\* An entry that is about to be stored is stored, or lost (creds.go).
LEMMA StoringFacts ==
  ASSUME TypeOK, AloneInv, CmdInv, NEW p \in Procs, Acts(p), pc[p] \in {"put", "save"}
  PROVE  PutLoads(p) \/ PutSaves(p) \/ mishap'
BY DEF Acts, Use, Put, Login, Logout, LogoutAll, Killed, Remove, Get, GetFails, Renew,
   RenewFails, RenewUnanswered, Exchanges, PutFails, SignIn, SignInUnanswered, SignInFails,
   Grants, GetForLogout, Revoke, RevokeInterrupted, RemoveLoads, RemoveSaves, RemoveFails,
   LoadAll, LoadAllFails, ListAll, ListAllFails, EndOne,
   EndInterrupted, EndsAll, Clear, ClearFails

\* While a command acts on a stored entry, none is under way (creds.go).
LEMMA SettledFacts ==
  ASSUME TypeOK, AloneInv, NEW p \in Procs, Acts(p)
  PROVE  /\ pc[p] \notin {"put", "save"} => \A b \in Bases : Settled(b)
         /\ \A b \in Bases : b # base[p] => Settled(b)
         /\ pc'[p] \in {"put", "save"} => \A b \in Bases : Settled(b)' => b # base[p]
BY ActsAlone DEF Settled

\* The issuer's token and the stored one stay the same (instance.go), unless one of
\* them was lost.
LEMMA KeptStep ==
  ASSUME OneAtATime, TypeOK, AloneInv, CmdInv, ActsInv, KnownInv, ApartInv, KeptInv,
         [Next]_vars
  PROVE  KeptInv'
<1>0. /\ \A b \in Bases : file[b] \in Entries \cup {Nil}
      /\ \A e \in Entries : e.session \in Serials
      /\ issued \in Nat /\ \A s \in Serials : s \in Nat
      /\ \A p \in Procs : base[p] \in Bases
  BY CredentialsAssumption DEF TypeOK, Entries, Files, Serials
<1>1. ASSUME NEW p \in Procs, NEW c \in Commands, Begins(p, c)
      PROVE  KeptInv'
  <2>1. \A b \in Bases : Settled(b)
    BY <1>1, BeginsAlone DEF Settled
  <2> QED
    BY <1>1, <2>1 DEF KeptInv, Kept, Revocable, Begins, issuerVars
<1>2. ASSUME NEW p \in Procs, Acts(p), ~mishap', NEW b \in Bases, file'[b] # Nil,
             Settled(b)'
      PROVE  Kept(file[b])'
  <2>0. ~mishap
    BY <1>2, MemoryMoves
  <2>1. CASE pc[p] \in {"put", "save"}
    <3>1. PutLoads(p) \/ PutSaves(p)
      BY <1>2, <2>1, StoringFacts
    <3>2. current' = current
      BY <3>1 DEF PutLoads, PutSaves, issuerVars
    <3>3. CASE b = base[p]
      <4>1. PutSaves(p)
        BY <1>2, <3>1, <3>3, SettledFacts DEF PutLoads, Goes, TypeOK
      <4>2. file'[b] = got[p] /\ current[got[p].session] = Revocable(got[p])
        BY <1>0, <3>3, <4>1 DEF PutSaves, ActsInv, TypeOK, Files
      <4> QED
        BY <3>2, <4>2 DEF Kept, Revocable
    <3>4. CASE b # base[p]
      <4>1. file'[b] = file[b]
        BY <3>1, <3>4 DEF PutLoads, PutSaves, ActsInv, TypeOK, Files
      <4>2. Settled(b)
        BY <1>2, <3>4, SettledFacts
      <4> QED
        BY <1>2, <2>0, <3>2, <4>1, <4>2 DEF KeptInv, Kept, Revocable
    <3> QED
      BY <3>3, <3>4
  <2>2. CASE pc[p] \notin {"put", "save"}
    <3>1. file'[b] = file[b]
      BY <1>2, <2>2, FileMoves DEF PutSaves
    <3>2. Kept(file[b]) /\ file[b] \in Entries
      BY <1>0, <1>2, <2>0, <2>2, <3>1, SettledFacts DEF KeptInv
    <3>3. current'[file[b].session] \in {current[file[b].session], Nil}
      <4>1. CASE Renew(p)
        <5>1. pc'[p] = "put" /\ b # base[p]
          BY <1>2, <4>1, SettledFacts DEF Renew, Goes, TypeOK
        <5>2. file[b].session # seen[p].session
          BY <1>0, <3>2, <4>1, <5>1, RenewFacts, NoEntryAssumption DEF ApartInv, Apart
        <5> QED
          BY <1>0, <3>2, <4>1, <5>2, RenewFacts
      <4>2. CASE SignIn(p)
        <5>1. file[b].session <= issued /\ issued' = issued + 1
          BY <3>2, <4>2, BeginFacts, NoEntryAssumption DEF KnownInv, Known
        <5> QED
          BY <1>0, <3>2, <4>2, <5>1, BeginFacts
      <4>3. CASE RenewUnanswered(p) \/ SignInUnanswered(p)
        BY <1>2, <4>3 DEF RenewUnanswered, SignInUnanswered
      <4> QED
        BY <1>0, <1>2, <3>2, <4>1, <4>2, <4>3, SessionMoves
    <3> QED
      BY <3>1, <3>2, <3>3 DEF Kept, Revocable
  <2> QED
    BY <2>1, <2>2
<1>3. CASE Expires \/ UNCHANGED vars
  BY <1>3, IdleFacts DEF KeptInv, Kept, Settled, Revocable
<1>4. ASSUME NEW p \in Procs, Acts(p) PROVE KeptInv'
  BY <1>2, <1>4 DEF KeptInv
<1> QED
  BY <1>1, <1>3, <1>4 DEF Next, Acts

\* A logout's 0 says that the issuer has ended the session (auth.go).
LEMMA RevokedStep ==
  ASSUME OneAtATime, TypeOK, AloneInv, ActsInv, KeptInv, RevokedInv, [Next]_vars
  PROVE  RevokedInv'
<1>1. ASSUME NEW p \in Procs, NEW c \in Commands, Begins(p, c)
      PROVE  RevokedInv'
  <2>1. \A q \in Procs : pc'[q] \in {"idle", "get", "signin", "load"}
    BY <1>1, BeginsAlone, BeginsFacts DEF Commands
  <2> QED
    BY <2>1 DEF RevokedInv
<1>2. ASSUME NEW p \in Procs, Acts(p)
      PROVE  RevokedInv'
  <2>1. \A q \in Procs : q # p => pc'[q] = "idle"
    BY <1>2, ActsAlone
  <2>2. CASE Revoke(p) /\ pc'[p] = "remove"
    <3>1. PICK c \in Outcomes : EndSession(seen[p], c) /\ code'[p] = c
      BY <2>2 DEF Revoke, TypeOK
    <3>2. /\ pc[p] = "revoke" /\ seen' = seen /\ mishap' = mishap
          /\ seen[p] = file[base[p]] /\ seen[p] # Nil /\ seen[p] \in Entries
          /\ base[p] \in Bases
      BY <2>2 DEF Revoke, ActsInv, TypeOK
    <3>3. ~mishap => Kept(seen[p])
      BY <1>2, <3>2, SettledFacts DEF KeptInv
    <3> QED
      BY <2>1, <2>2, <3>1, <3>2, <3>3, EndSessionFacts DEF RevokedInv
  <2>3. CASE RemoveLoads(p) /\ pc'[p] = "removeSave"
    <3>1. /\ pc[p] = "remove" /\ seen' = seen /\ mishap' = mishap
          /\ current' = current /\ code' = code
      BY <2>3 DEF RemoveLoads, Ends, Goes, TypeOK, issuerVars
    <3> QED
      BY <2>1, <2>3, <3>1 DEF RevokedInv
  <2>4. CASE pc'[p] \notin {"remove", "removeSave"}
    BY <2>1, <2>4 DEF RevokedInv
  <2> QED
    BY <1>2, <2>2, <2>3, <2>4, PlaceMoves
<1>3. CASE Expires \/ UNCHANGED vars
  BY <1>3, IdleFacts DEF RevokedInv
<1> QED
  BY <1>1, <1>2, <1>3 DEF Next, Acts

\* A logout that ends with 0, having had something to end, has removed the entry
\* (auth.go, creds.go).
LEMMA LogoutEnds ==
  ASSUME TypeOK, CmdInv, ActsInv, NEW p \in Procs, Acts(p), cmd[p] = "logout",
         pc'[p] = "idle", code'[p] = "ok", seen'[p] # Nil
  PROVE  RemoveSaves(p) /\ code[p] = "ok"
<1> USE DEF TypeOK, Ends, Goes
<1>1. pc[p] \in {"get", "revoke", "remove", "removeSave", "idle"}
  BY DEF CmdInv, Places
<1>2. CASE Use(p)
  BY <1>2 DEF Use, Get, GetFails, Renew, RenewFails, RenewUnanswered
<1>3. CASE Put(p) \/ Login(p) \/ LogoutAll(p)
  BY <1>1, <1>3 DEF Put, PutLoads, PutSaves, PutFails, Login, SignIn, SignInUnanswered,
     SignInFails, Grants, LogoutAll, LoadAll, LoadAllFails, ListAll, ListAllFails,
     EndOne, EndInterrupted,
     EndsAll, Clear, ClearFails
<1>4. CASE Killed(p)
  BY <1>4 DEF Killed
<1>5. CASE GetForLogout(p) \/ Revoke(p) \/ RevokeInterrupted(p) \/ RemoveFails(p)
  BY <1>5 DEF GetForLogout, Revoke, RevokeInterrupted, RemoveFails
<1>6. CASE RemoveLoads(p)
  BY <1>6 DEF RemoveLoads, ActsInv
<1>7. CASE RemoveSaves(p)
  BY <1>7 DEF RemoveSaves
<1> QED
  BY <1>2, <1>3, <1>4, <1>5, <1>6, <1>7 DEF Acts, Logout, Remove

\* What a logout has ended and forgotten nobody brings back (auth.go, instance.go).
LEMMA OverStep ==
  ASSUME OneAtATime, TypeOK, AloneInv, CmdInv, ActsInv, KnownInv, ApartInv, RevokedInv,
         SignedOutIsOver, [Next]_vars
  PROVE  SignedOutIsOver'
<1>0. /\ \A q \in Procs : seen[q] # Nil => seen[q].session \in Serials
      /\ \A q \in Procs : seen[q] \in Entries \cup {Nil} /\ got[q] \in Entries \cup {Nil}
      /\ \A s \in Serials : s \in Nat
      /\ issued \in Nat
      /\ \A b \in Bases : file[b] \in Entries \cup {Nil}
      /\ \A q \in Procs : base[q] \in Bases
  BY CredentialsAssumption DEF TypeOK, Entries, Serials, Files
<1>1. ASSUME NEW q \in Procs, NEW c \in Commands, Begins(q, c)
      PROVE  SignedOutIsOver'
  <2>1. /\ file' = file /\ current' = current /\ mishap' = mishap
        /\ seen'[q] = Nil
        /\ \A p \in Procs : p # q =>
             /\ pc'[p] = pc[p] /\ cmd'[p] = cmd[p] /\ code'[p] = code[p]
             /\ seen'[p] = seen[p]
    BY <1>1, BeginsFacts DEF Begins, TypeOK, issuerVars
  <2> QED
    BY <2>1 DEF SignedOutIsOver
<1>2. ASSUME NEW q \in Procs, Acts(q), ~mishap', NEW p \in Procs,
             pc'[p] = "idle", cmd'[p] = "logout", code'[p] = "ok", seen'[p] # Nil
      PROVE  /\ current'[seen'[p].session] = Nil
             /\ \A b \in Bases : file'[b] # Nil => file'[b].session # seen'[p].session
  <2>0. ~mishap /\ cmd' = cmd
    BY <1>2, MemoryMoves, ActsAlone
  <2>1. CASE p = q
    <3>1. RemoveSaves(p) /\ code[p] = "ok"
      BY <1>2, <2>0, <2>1, LogoutEnds
    <3>2. /\ seen' = seen /\ current' = current /\ pc[p] = "removeSave"
          /\ seen[p] = file[base[p]] /\ file' = [file EXCEPT ![base[p]] = Nil]
      BY <3>1 DEF RemoveSaves, ActsInv, issuerVars
    <3>3. current[seen[p].session] = Nil
      BY <2>0, <3>1, <3>2 DEF RevokedInv
    <3> QED
      BY <1>0, <1>2, <3>2, <3>3 DEF ApartInv, Apart, TypeOK, Files
  <2>2. CASE p # q
    <3>1. /\ pc[p] = "idle" /\ cmd[p] = "logout" /\ code[p] = "ok"
          /\ seen'[p] = seen[p] /\ seen[p] # Nil
      BY <1>2, <2>0, <2>2, ActsAlone
    <3>2. /\ current[seen[p].session] = Nil
          /\ \A b \in Bases : file[b] # Nil => file[b].session # seen[p].session
      BY <2>0, <3>1 DEF SignedOutIsOver
    <3>3. current'[seen[p].session] = Nil
      <4>1. CASE Renew(q) \/ RenewUnanswered(q)
        <5>1. current[seen[q].session] = <<"refresh", seen[q].refresh>>
              /\ seen[q] \in Entries /\ seen[q].refresh # 0
          BY <4>1, RenewFacts
        <5>2. current[seen[q].session] # Nil
          BY <5>1, RevocableIsToken DEF Revocable
        <5>3. seen[p].session # seen[q].session
          BY <3>2, <5>2
        <5> QED
          BY <1>0, <3>1, <3>2, <4>1, <5>3, RenewFacts
      <4>2. CASE SignIn(q) \/ SignInUnanswered(q)
        <5>1. seen[p].session <= issued /\ issued' = issued + 1
          BY <3>1, <4>2, BeginFacts DEF KnownInv, Known
        <5> QED
          BY <1>0, <3>1, <3>2, <4>2, <5>1, BeginFacts
      <4> QED
        BY <1>0, <1>2, <3>1, <3>2, <4>1, <4>2, SessionMoves
    <3>4. \A b \in Bases : file'[b] # Nil => file'[b].session # seen[p].session
      <4>1. CASE \A b \in Bases : file'[b] \in {file[b], Nil}
        BY <3>2, <4>1
      <4>2. CASE PutSaves(q) /\ file' = [file EXCEPT ![base[q]] = got[q]]
        <5>1. got[q] # Nil /\ current[got[q].session] = Revocable(got[q])
          BY <4>2 DEF PutSaves, ActsInv
        <5>2. got[q].session # seen[p].session
          BY <1>0, <3>2, <5>1, RevocableIsToken
        <5> QED
          BY <1>0, <3>2, <4>2, <5>2 DEF TypeOK, Files
      <4> QED
        BY <1>2, <4>1, <4>2, FileMoves
    <3> QED
      BY <3>1, <3>3, <3>4
  <2> QED
    BY <2>1, <2>2
<1>3. CASE Expires \/ UNCHANGED vars
  BY <1>3, IdleFacts DEF SignedOutIsOver
<1>4. ASSUME NEW q \in Procs, Acts(q) PROVE SignedOutIsOver'
  BY <1>2, <1>4 DEF SignedOutIsOver
<1> QED
  BY <1>1, <1>3, <1>4 DEF Next, Acts

----------------------------------------------------------------------------
(* The invariant, and what follows from it. *)

\* Before the first command (main.go) there is no file and no session.
LEMMA InitInv == Init => IInv
<1> SUFFICES ASSUME Init PROVE IInv
  OBVIOUS
<1>1. NoFile \in Files /\ \A b \in Bases : NoFile[b] = Nil
  BY DEF NoFile, Files
<1>2. TypeOK
  <2>1. base \in [Procs -> Bases]
    BY DEF Init
  <2>2. 0 \in 0..MaxIssued /\ 0 \in 0..MaxCommands
    BY CredentialsAssumption
  <2>3. /\ file \in Files /\ mem \in [Procs -> Files]
        /\ current \in [Serials -> Tokens \cup {Nil}]
        /\ seen \in [Procs -> Entries \cup {Nil}] /\ got \in [Procs -> Entries \cup {Nil}]
    BY <1>1 DEF Init
  <2>4. /\ cmd \in [Procs -> Commands] /\ pc \in [Procs -> Places]
        /\ code \in [Procs -> Outcomes] /\ todo \in [Procs -> SUBSET Bases]
    BY DEF Init, Commands, Places, Outcomes
  <2> QED
    BY <2>1, <2>2, <2>3, <2>4 DEF Init, TypeOK
<1>3. AloneInv /\ CmdInv /\ KnownInv /\ ApartInv /\ ActsInv /\ AskedInv
  BY <1>1 DEF Init, AloneInv, CmdInv, KnownInv, Known, ApartInv, Apart, ActsInv, AskedInv
<1>4. KeptInv /\ RevokedInv /\ SignedOutIsOver
  BY <1>1 DEF Init, KeptInv, RevokedInv, SignedOutIsOver
<1> QED
  BY <1>2, <1>3, <1>4 DEF IInv

\* Every step of a command (instance.go, auth.go, creds.go) keeps it, while no other
\* runs.
LEMMA StepInv ==
  ASSUME OneAtATime
  PROVE  IInv /\ [Next]_vars => IInv'
BY TypeStep, AloneStep, KnownStep, ApartStep, ActsStep, AskedStep, KeptStep, RevokedStep,
   OverStep DEF IInv

\* The inductive invariant holds always, for commands that do not overlap (creds.go).
THEOREM Inductive ==
  ASSUME OneAtATime
  PROVE  Spec => []IInv
BY InitInv, StepInv, PTL DEF Spec

\* While commands do not overlap - nothing in the code keeps them apart - a stored
\* session that its issuer keeps can be renewed with what is stored (renew,
\* instance.go), unless an answer or the writing of it was lost.
THEOREM StaysRenewable ==
  ASSUME OneAtATime
  PROVE  Spec => []StoredIsRenewable
<1>1. IInv => StoredIsRenewable
  BY DEF IInv, KeptInv, Kept, Settled, StoredIsRenewable, Takes, Revocable
<1> QED
  BY Inductive, <1>1, PTL

\* A sign-out that ended with 0 ended the session and forgot it, for good (Logout,
\* auth.go).
THEOREM LogoutIsOver ==
  ASSUME OneAtATime
  PROVE  Spec => []SignedOutIsOver
<1>1. IInv => SignedOutIsOver
  BY DEF IInv
<1> QED
  BY Inductive, <1>1, PTL

\* What logout --all forgets it has asked the issuer to end, but where it could not
\* read the file or did not see that the list failed (auth.go); for commands that do
\* not overlap.
THEOREM ForgetsNoneUnasked ==
  ASSUME OneAtATime
  PROVE  Spec => EndsWhatItForgets
<1> DEFINE A == \A p \in Procs, b \in Bases :
                  /\ cmd[p] = "logoutAll" /\ pc[p] \notin {"idle", "load", "clearUnlisted"}
                  /\ pc'[p] # pc[p]
                  /\ file[b] # Nil /\ file'[b] = Nil
                  => file[b] \in asked
<1>1. ASSUME IInv, [Next]_vars PROVE [A]_vars
  <2>1. SUFFICES ASSUME NEW p \in Procs, NEW b \in Bases, cmd[p] = "logoutAll",
                        pc[p] \notin {"idle", "load", "clearUnlisted"},
                        file[b] # Nil, file'[b] = Nil
                 PROVE  file[b] \in asked
    BY DEF A
  <2>2. pc[p] \in {"list", "endAll", "clear"}
    BY <1>1, <2>1 DEF IInv, CmdInv, TypeOK, Places
  <2>3. ASSUME NEW q \in Procs, Acts(q) PROVE file[b] \in asked
    <3>1. q = p
      BY <1>1, <2>1, <2>3, ActsAlone DEF IInv
    <3>2. pc[p] = "clear"
      BY <1>1, <2>1, <2>2, <2>3, <3>1, ForgetsByClearing DEF IInv
    <3> QED
      BY <1>1, <2>1, <3>2 DEF IInv, AskedInv
  <2>4. ASSUME NEW q \in Procs, NEW c \in Commands, Begins(q, c) PROVE FALSE
    BY <2>1, <2>4 DEF Begins
  <2>5. CASE Expires \/ UNCHANGED vars
    BY <1>1, <2>1, <2>5, IdleFacts DEF IInv
  <2> QED
    BY <1>1, <2>3, <2>4, <2>5 DEF Next, Acts
<1> QED
  BY Inductive, <1>1, PTL DEF Spec, EndsWhatItForgets

============================================================================
