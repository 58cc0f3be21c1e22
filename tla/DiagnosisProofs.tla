-------------------------- MODULE DiagnosisProofs --------------------------
(***************************************************************************)
(* What a run of the doctor promises, for every library, every number of   *)
(* mounts, titles and people, of hops and of odd answers, and for every    *)
(* size of a line and limit of a report; and that following logs is a      *)
(* transcript of them, for every number of containers and lines, however   *)
(* the reads fall.                                                         *)
(*                                                                         *)
(* The doctor: the password is typed in one place (PasswordInv), the token *)
(* is its sign-in's own before anything is sent (TokenInv), and what went  *)
(* wrong stands in the results (TroubleInv).  A run that is over failed, or *)
(* says why nobody was signed in, or has a token (GreenInv).  That a sound *)
(* platform passes                                                         *)
(* needs what a run still relies on: what it read of the library and the   *)
(* apps is so until others change it (ReadInv), and the packaged titles it *)
(* still has to try contain one that will be found, because fewer were     *)
(* removed than it may find gone (PlaylistInv).  Which checks were spoken  *)
(* of follows from where a run is (CheckInv).  A report is about the       *)
(* results alone, whatever they are.                                       *)
(*                                                                         *)
(* The follow: what is remembered of a source is the last stamp that was   *)
(* printed and the texts at it (MemoryInv), so that what a read answers    *)
(* and was printed is told from what is new; and whatever is older than    *)
(* the last read is not after what was printed (ReadUpTo), so that a read  *)
(* from there on, or from the last stamp on, leaves nothing out (GoesOn).  *)
(***************************************************************************)
EXTENDS Doctor, LogFollow, FiniteSetTheorems, SequenceTheorems, TLAPS

----------------------------------------------------------------------------
(* Numbers. *)

\* A set of numbers that is not empty has a least one.
LEMMA LeastOf ==
  ASSUME NEW S \in SUBSET Nat, S # {}
  PROVE  \E i \in S : \A k \in S : i <= k
<1> DEFINE less == {ss \in Nat \X Nat : ss[1] < ss[2]}
<1>1. IsWellFoundedOn(less, Nat)
  BY NatLessThanWellFounded DEF OpToRel
<1> HIDE DEF less
<1>2. \E i \in S : \A k \in S : ~(<<k, i>> \in less)
  BY <1>1, WFMin
<1>3. \A i, k \in S : ~(<<k, i>> \in less) => i <= k
  BY DEF less
<1> QED
  BY <1>2, <1>3

\* One within a bound has a greatest one.
LEMMA GreatestOf ==
  ASSUME NEW n \in Nat, NEW S \in SUBSET (0..n), S # {}
  PROVE  \E i \in S : \A k \in S : k <= i
<1> DEFINE rest == {n - i : i \in S}
<1>1. rest \in SUBSET Nat /\ rest # {}
  <2>1. \A i \in S : n - i \in Nat
    OBVIOUS
  <2> QED
    BY <2>1
<1>2. PICK t \in rest : \A u \in rest : t <= u
  BY <1>1, LeastOf
<1>3. PICK i \in S : t = n - i
  BY <1>2
<1>4. \A k \in S : n - i <= n - k
  BY <1>2, <1>3
<1>5. \A k \in S : k <= i
  BY <1>4
<1> QED
  BY <1>5

----------------------------------------------------------------------------
(* The doctor: the inductive invariant. *)

SigningIn ==
  {"outside", "credentials", "config", "issuer", "authorization", "form", "submitted", "callback",
   "exchange", "access"}

BeforeThePassword ==
  {"outside", "credentials", "config", "issuer", "authorization", "form"}

OwnToken == token # Nil /\ (token.signedIn => token.session = "own")

\* The password was not typed before the login form was sent, and then once.
PasswordInv ==
  /\ visited \subseteq {"provider"}
  /\ step \in BeforeThePassword => typed = <<>>
  /\ typed = <<>> \/ typed = << [to |-> "provider", by |-> "post"] >>
  /\ step = "form" => form \in Forms

\* Nothing is sent before the token is known to be this sign-in's own, or the user's.
TokenInv ==
  /\ bearerTo \subseteq {"instance"}
  /\ bearerTo # {} => OwnToken
  /\ step \notin SigningIn \cup {"report", "done"} => OwnToken
  /\ step = "config" /\ creds = {} => token # Nil /\ ~token.signedIn
  /\ step = "access" => OwnToken
  /\ step \in SigningIn \cup {"launchpad"} => bearerTo = {}
  /\ step \notin SigningIn \cup {"launchpad", "report", "done"} => bearerTo # {}

\* Whatever went wrong stands in the results, and so in the exit code.
TroubleInv ==
  /\ odd > 0 => HasFailed
  /\ step \in SigningIn => odd <= 1
  /\ step = "done" => code = IF HasFailed THEN 1 ELSE 0

\* A check that was not made.
Skipped(check) == \E i \in DOMAIN results : results[i] = Result(check, "skip")

\* Once the sign-in is over, something failed, or a line says why nobody was signed in, or
\* there is a token for the deep checks that the APIs accept.
GreenInv ==
  /\ creds # {} /\ token # Nil => token.signedIn
  /\ signIn /\ step \notin SigningIn =>
       \/ HasFailed
       \/ creds = {} /\ Skipped("sign-in")
       \/ Skipped("chino-api: config")
       \/ creds = {} /\ bearerTo = {} /\ step \in {"report", "done"} /\ Skipped("signed-in checks")
       \/ /\ token # Nil /\ (token.signedIn => token.claims \in {"opaque", "good"})
          /\ step \in {"report", "done"} => bearerTo # {}

\* What is read stays true of the library and the apps, but for what others change.
ReadInv ==
  /\ "person removed" \notin changed => people = People
  /\ "app redeployed" \notin changed =>
       build = [m \in Mounts \cup {Portal} |-> 0] /\ (step = "asset" => page = 0)
  /\ "title removed" \notin changed => item \in titles \cup {Nil}
  /\ step = "asset" => mounts # <<>>

\* The packaged titles still to try are distinct, with all of those among them that are
\* still packaged, and the ones that were gone are missing.
PlaylistInv ==
  /\ step = "playlist" =>
       /\ \A i, j \in DOMAIN left : left[i] = left[j] => i = j
       /\ \A t \in packages : \E i \in DOMAIN left : left[i] = t
       /\ \A i \in DOMAIN left : left[i] \in packages \cup missing
       /\ gone <= Cardinality({t \in missing : \A i \in DOMAIN left : left[i] # t})
       /\ left = <<>> => gone > 0
  /\ step \notin {"playlist", "console"} => gone = 0

\* Nothing was taken from the platform but packages, of which some are left, fewer than
\* what a run looks for.
LeftAlone ==
  /\ odd = 0
  /\ changed \subseteq {"title added", "package removed"}
  /\ missing # {} => packages # {} /\ Cardinality(missing) < MaxGone

\* Before and after which steps the checks of the web client's API are made.
SaidBy(check) ==
  CASE check = "chino-api: items" ->
         {"detail", "poster", "search", "person", "portrait", "packaged", "playlist"}
    [] check = "chino-api: item detail" ->
         {"poster", "search", "person", "portrait", "packaged", "playlist"}
    [] check = "chino-api: poster" -> {"search", "person", "portrait", "packaged", "playlist"}
    [] check = "chino-api: people search" -> {"person", "portrait", "packaged", "playlist"}
    [] check = "chino-api: person" -> {"portrait", "packaged", "playlist"}
    [] check = "chino-api: portrait" -> {"packaged", "playlist"}
    [] OTHER -> {}

ChinoChecks ==
  {"chino-api: items", "chino-api: item detail", "chino-api: poster", "chino-api: people search",
   "chino-api: person", "chino-api: portrait", "chino-api: playback"}

OnceChecks ==
  ChinoChecks \cup {"chino-api", "portal: launchpad", "katalog-manager: graphql", "signed-in checks"}

Unsaid(check) == Times(check, results) = 0
SaidOnce(check) == Times(check, results) = 1

\* How often each check was spoken of, by where the run is.
CheckInv ==
  /\ bearerTo = {} =>
       /\ \A c \in OnceChecks \ {"signed-in checks"} : Unsaid(c)
       /\ \/ Unsaid("signed-in checks")
          \/ /\ SaidOnce("signed-in checks")
             /\ step \in {"report", "done"}
             /\ token # Nil \/ HasFailed
  /\ bearerTo # {} =>
       /\ SaidOnce("portal: launchpad")
       /\ Unsaid("signed-in checks")
       /\ IF step \in {"report", "done"} THEN SaidOnce("katalog-manager: graphql")
          ELSE Unsaid("katalog-manager: graphql")
       /\ IF step \in {"console", "report", "done"}
          THEN \/ Unsaid("chino-api") /\ \A c \in ChinoChecks : SaidOnce(c)
               \/ SaidOnce("chino-api") /\ \A c \in ChinoChecks : Unsaid(c)
          ELSE /\ Unsaid("chino-api")
               /\ \A c \in ChinoChecks : IF step \in SaidBy(c) THEN SaidOnce(c) ELSE Unsaid(c)

IInv ==
  /\ TypeOK
  /\ PasswordInv
  /\ TokenInv
  /\ TroubleInv
  /\ ReadInv
  /\ PlaylistInv
  /\ (LeftAlone => ~HasFailed)
  /\ CheckInv
  /\ GreenInv

----------------------------------------------------------------------------
(* What a line more does to the results. *)

HasFailure(lines) == \E i \in DOMAIN lines : lines[i].status = "fail"

\* Every other check is spoken of as often as it was.
SameBut(checks, longer, lines) ==
  \A c : c \notin checks => Times(c, longer) = Times(c, lines)

\* How often a check is spoken of is a number (the lines of doctor.go).
LEMMA TimesAreNumbers ==
  ASSUME NEW lines \in Seq(ResultLines), NEW c
  PROVE  Times(c, lines) \in Nat
<1>1. DOMAIN lines = 1..Len(lines) /\ Len(lines) \in Nat
  BY LenProperties
<1>2. IsFiniteSet(1..Len(lines))
  BY <1>1, FS_Interval
<1>3. {i \in DOMAIN lines : lines[i].check = c} \subseteq 1..Len(lines)
  BY <1>1
<1> QED
  BY <1>2, <1>3, FS_Subset, FS_CardinalityType DEF Times

\* A line more (add, doctor.go) counts for its check and no other.
LEMMA LineAdded ==
  ASSUME NEW lines \in Seq(ResultLines), NEW line \in ResultLines
  PROVE  /\ Append(lines, line) \in Seq(ResultLines)
         /\ SameBut({line.check}, Append(lines, line), lines)
         /\ Times(line.check, Append(lines, line)) = Times(line.check, lines) + 1
         /\ HasFailure(Append(lines, line)) <=> HasFailure(lines) \/ line.status = "fail"
<1> DEFINE longer == Append(lines, line)
           n == Len(lines)
           of(c, s) == {i \in DOMAIN s : s[i].check = c}
<1>1. /\ longer \in Seq(ResultLines) /\ n \in Nat /\ Len(longer) = n + 1
      /\ DOMAIN longer = 1..(n + 1) /\ DOMAIN lines = 1..n
      /\ \A i \in 1..n : longer[i] = lines[i]
      /\ longer[n + 1] = line
  BY AppendProperties, LenProperties
<1> HIDE DEF longer, n
<1>2. SameBut({line.check}, longer, lines)
  <2> SUFFICES ASSUME NEW c, c # line.check
               PROVE  of(c, longer) = of(c, lines)
    BY Zenon DEF SameBut, Times
  <2> QED
    BY <1>1
<1>3. Times(line.check, longer) = Times(line.check, lines) + 1
  <2>1. /\ of(line.check, longer) = of(line.check, lines) \cup {n + 1}
        /\ n + 1 \notin of(line.check, lines)
        /\ of(line.check, lines) \subseteq 1..n
    BY <1>1
  <2>2. IsFiniteSet(1..n)
    BY <1>1, FS_Interval
  <2> HIDE DEF of
  <2>3. Cardinality(of(line.check, longer)) = Cardinality(of(line.check, lines)) + 1
    BY <2>1, <2>2, FS_Subset, FS_AddElement
  <2> QED
    BY <2>3 DEF of, Times
<1>4. HasFailure(longer) <=> HasFailure(lines) \/ line.status = "fail"
  BY <1>1 DEF HasFailure
<1> QED
  BY <1>1, <1>2, <1>3, <1>4 DEF longer

\* Two lines, of two checks.
LEMMA TwoLinesAdded ==
  ASSUME NEW lines \in Seq(ResultLines), NEW x \in ResultLines, NEW y \in ResultLines,
         x.check # y.check
  PROVE  /\ lines \o <<x, y>> \in Seq(ResultLines)
         /\ SameBut({x.check, y.check}, lines \o <<x, y>>, lines)
         /\ Times(y.check, lines \o <<x, y>>) = Times(y.check, lines) + 1
         /\ HasFailure(lines \o <<x, y>>)
              <=> HasFailure(lines) \/ x.status = "fail" \/ y.status = "fail"
<1> DEFINE first == Append(lines, x)
           second == Append(first, y)
<1>1. lines \o <<x, y>> = second
  OBVIOUS
<1>2. /\ first \in Seq(ResultLines)
      /\ SameBut({x.check}, first, lines)
      /\ HasFailure(first) <=> HasFailure(lines) \/ x.status = "fail"
  BY LineAdded
<1> HIDE DEF first
<1>3. /\ second \in Seq(ResultLines)
      /\ SameBut({y.check}, second, first)
      /\ Times(y.check, second) = Times(y.check, first) + 1
      /\ HasFailure(second) <=> HasFailure(first) \/ y.status = "fail"
  BY <1>2, LineAdded
<1> HIDE DEF second
<1>4. SameBut({x.check, y.check}, second, lines)
  BY <1>2, <1>3 DEF SameBut
<1>5. Times(y.check, first) = Times(y.check, lines)
  BY <1>2 DEF SameBut
<1> QED
  BY <1>1, <1>2, <1>3, <1>4, <1>5

\* Three lines, of three checks.
LEMMA ThreeLinesAdded ==
  ASSUME NEW lines \in Seq(ResultLines),
         NEW x \in ResultLines, NEW y \in ResultLines, NEW z \in ResultLines,
         x.check # z.check, y.check # z.check
  PROVE  /\ lines \o <<x, y, z>> \in Seq(ResultLines)
         /\ SameBut({x.check, y.check, z.check}, lines \o <<x, y, z>>, lines)
         /\ Times(z.check, lines \o <<x, y, z>>) = Times(z.check, lines) + 1
         /\ HasFailure(lines \o <<x, y, z>>)
              <=> HasFailure(lines) \/ x.status = "fail" \/ y.status = "fail" \/ z.status = "fail"
<1> DEFINE first == Append(lines, x)
           longer == first \o <<y, z>>
<1>1. lines \o <<x, y, z>> = longer
  OBVIOUS
<1>2. /\ first \in Seq(ResultLines)
      /\ SameBut({x.check}, first, lines)
      /\ HasFailure(first) <=> HasFailure(lines) \/ x.status = "fail"
  BY LineAdded
<1> HIDE DEF first
<1>3. /\ longer \in Seq(ResultLines)
      /\ SameBut({y.check, z.check}, longer, first)
      /\ Times(z.check, longer) = Times(z.check, first) + 1
      /\ HasFailure(longer) <=> HasFailure(first) \/ y.status = "fail" \/ z.status = "fail"
  BY <1>2, TwoLinesAdded
<1> HIDE DEF longer
<1>4. SameBut({x.check, y.check, z.check}, longer, lines)
  BY <1>2, <1>3 DEF SameBut
<1>5. Times(z.check, first) = Times(z.check, lines)
  BY <1>2 DEF SameBut
<1> QED
  BY <1>1, <1>2, <1>3, <1>4, <1>5

\* What a line says (Result, doctor.go:36-50).
LEMMA ResultFacts ==
  ASSUME NEW check \in Checks, NEW status \in Statuses
  PROVE  /\ Result(check, status) \in ResultLines
         /\ Result(check, status).check = check
         /\ Result(check, status).status = status
BY DEF Result, ResultLines

\* The one line for the checks that are not run is a skip (signin.go:120-125).
LEMMA NotRunFacts ==
  NotRun \in ResultLines /\ NotRun.check = "signed-in checks" /\ NotRun.status = "skip"
<1>1. "skip" \in Statuses /\ "signed-in checks" \in Checks
  BY DEF Statuses, Checks
<1> QED
  BY <1>1, ResultFacts DEF NotRun

\* The kinds and the names the sign-in gives its lines.
LEMMA LineKinds ==
  /\ "ok" \in Statuses /\ "warn" \in Statuses /\ "fail" \in Statuses /\ "skip" \in Statuses
  /\ "sign-in" \in Checks /\ "chino-api: config" \in Checks /\ "sign-in: issuer" \in Checks
  /\ "sign-in: authorization" \in Checks /\ "sign-in: login form" \in Checks
  /\ "sign-in: callback" \in Checks /\ "sign-in: token exchange" \in Checks
  /\ "sign-in: id token" \in Checks /\ "sign-in: access token" \in Checks
BY DEF Checks, Statuses

\* A check adds its own line, with what it found.
LEMMA SaysFacts ==
  ASSUME results \in Seq(ResultLines), NEW check \in Checks, NEW status \in Statuses, NEW next,
         Says(check, status, next)
  PROVE  /\ results' \in Seq(ResultLines)
         /\ SameBut({check}, results', results)
         /\ Times(check, results') = Times(check, results) + 1
         /\ HasFailed' <=> HasFailed \/ status = "fail"
         /\ step' = next
<1> DEFINE line == Result(check, status)
<1>1. line \in ResultLines /\ line.check = check /\ line.status = status
  BY ResultFacts
<1>2. results' = Append(results, line) /\ step' = next
  BY DEF Says
<1> HIDE DEF line
<1> QED
  BY <1>1, <1>2, LineAdded DEF HasFailed, HasFailure

\* A check that stops the run fails, and one line stands for those after it (fail, skip
\* and the calls of run, signin.go:112-156).
LEMMA StopsFacts ==
  ASSUME results \in Seq(ResultLines), NEW check \in Checks, check # "signed-in checks",
         StopsAt(check)
  PROVE  /\ results' \in Seq(ResultLines)
         /\ SameBut({check, "signed-in checks"}, results', results)
         /\ Times("signed-in checks", results') = Times("signed-in checks", results) + 1
         /\ HasFailed'
         /\ step' = "report" /\ odd' = odd + 1
<1> DEFINE line == Result(check, "fail")
<1>1. results' = results \o <<line, NotRun>> /\ step' = "report" /\ odd' = odd + 1
  BY DEF StopsAt
<1>2. line \in ResultLines /\ line.check = check /\ line.status = "fail"
  BY LineKinds, ResultFacts
<1> HIDE DEF line
<1>3. /\ results' \in Seq(ResultLines)
      /\ SameBut({line.check, NotRun.check}, results', results)
      /\ Times(NotRun.check, results') = Times(NotRun.check, results) + 1
      /\ HasFailure(results')
  BY <1>1, <1>2, NotRunFacts, TwoLinesAdded
<1> QED
  BY <1>1, <1>2, <1>3, NotRunFacts DEF HasFailed, HasFailure

\* The lines of the run so far are those of the sign-in and one for what is not run.
Stopped ==
  /\ results' \in Seq(ResultLines)
  /\ \A c \in OnceChecks \ {"signed-in checks"} : Times(c, results') = Times(c, results)
  /\ Times("signed-in checks", results') = Times("signed-in checks", results) + 1
  /\ step' = "report"

\* The lines of the run so far are those of the sign-in.
WentOn ==
  /\ results' \in Seq(ResultLines)
  /\ \A c \in OnceChecks : Times(c, results') = Times(c, results)

SignInChecks ==
  {"sign-in", "chino-api: config", "sign-in: issuer", "sign-in: authorization",
   "sign-in: login form", "sign-in: callback", "sign-in: token exchange", "sign-in: id token",
   "sign-in: access token"}

\* The lines of the sign-in are of checks of their own.
LEMMA SignInLines ==
  /\ SignInChecks \subseteq Checks /\ SignInChecks \cap OnceChecks = {}
  /\ "signed-in checks" \in OnceChecks /\ "signed-in checks" \notin SignInChecks
  /\ {"ok", "warn", "fail", "skip"} = Statuses
<1>1. SignInChecks \subseteq Checks
  BY DEF SignInChecks, Checks
<1>2. SignInChecks \cap OnceChecks = {}
  BY DEF SignInChecks, OnceChecks, ChinoChecks
<1> QED
  BY <1>1, <1>2 DEF SignInChecks, OnceChecks, Statuses

\* A step of the sign-in that speaks of its check and goes on (run, signin.go:112-156).
LEMMA SignInSays ==
  ASSUME results \in Seq(ResultLines), NEW check \in SignInChecks, NEW status \in Statuses,
         NEW next, Says(check, status, next)
  PROVE  /\ WentOn
         /\ HasFailed' <=> HasFailed \/ status = "fail"
         /\ step' = next
<1>1. check \in Checks /\ check \notin OnceChecks
  BY SignInLines
<1> QED
  BY <1>1, SaysFacts DEF WentOn, SameBut

\* One that fails ends the sign-in, and with it the run (signin.go:112-156).
LEMMA SignInStops ==
  ASSUME results \in Seq(ResultLines), NEW check \in SignInChecks, StopsAt(check)
  PROVE  Stopped /\ HasFailed' /\ odd' = odd + 1
<1>1. check \in Checks /\ check \notin OnceChecks /\ check # "signed-in checks"
  BY SignInLines
<1> QED
  BY <1>1, StopsFacts DEF Stopped, SameBut

\* The exchange ends with both its lines, and stops at the second unless the ID token is
\* the sign-in's own (exchange, signin.go:560-615; CheckIDToken, authcode.go:189-228).
LEMMA ExchangeFacts ==
  ASSUME results \in Seq(ResultLines), Exchange
  PROVE  \/ /\ WentOn /\ step' = "access" /\ odd' = odd /\ (HasFailed' <=> HasFailed)
            /\ token' \in Tokens /\ token'.signedIn /\ token'.session = "own"
         \/ /\ Stopped /\ odd' = odd + 1 /\ HasFailed'
            /\ token' \in Tokens \cup {token}
<1> DEFINE ok == Result("sign-in: token exchange", "ok")
           own == Result("sign-in: id token", "ok")
           alien == Result("sign-in: id token", "fail")
<1>1. /\ ok \in ResultLines /\ ok.check = "sign-in: token exchange" /\ ok.status = "ok"
      /\ own \in ResultLines /\ own.check = "sign-in: id token" /\ own.status = "ok"
      /\ alien \in ResultLines /\ alien.check = "sign-in: id token" /\ alien.status = "fail"
  BY LineKinds, ResultFacts
<1>2. /\ "sign-in: token exchange" \in SignInChecks /\ "sign-in: token exchange" \notin OnceChecks
      /\ "sign-in: id token" \notin OnceChecks
      /\ "sign-in: token exchange" # "signed-in checks" /\ "sign-in: id token" # "signed-in checks"
      /\ "sign-in: token exchange" # "sign-in: id token"
  BY SignInLines DEF SignInChecks
<1>3. \/ StopsAt("sign-in: token exchange") /\ UNCHANGED token
      \/ \E s \in Sessions, c \in Claims, id \in IDTokens \cup {Nil} :
           /\ id # Nil => id.nonce = s
           /\ token' = [signedIn |-> TRUE, session |-> s, claims |-> c]
           /\ IF id # Nil /\ CheckIDToken(id)
              THEN results' = results \o <<ok, own>> /\ step' = "access" /\ UNCHANGED odd
              ELSE /\ results' = results \o <<ok, alien, NotRun>>
                   /\ step' = "report" /\ odd' = odd + 1
  BY DEF Exchange
<1> HIDE DEF ok, own, alien
<1>4. CASE StopsAt("sign-in: token exchange") /\ UNCHANGED token
  BY <1>2, <1>4, SignInStops
<1>5. ASSUME results' = results \o <<ok, own>>
      PROVE  WentOn /\ (HasFailed' <=> HasFailed)
  BY <1>1, <1>2, <1>5, TwoLinesAdded DEF HasFailed, HasFailure, WentOn, SameBut
<1>6. ASSUME results' = results \o <<ok, alien, NotRun>>, step' = "report"
      PROVE  Stopped /\ HasFailed'
  <2>1. /\ results' \in Seq(ResultLines) /\ HasFailure(results')
        /\ SameBut({ok.check, alien.check, NotRun.check}, results', results)
        /\ Times(NotRun.check, results') = Times(NotRun.check, results) + 1
    <3>1. ok.check # NotRun.check /\ alien.check # NotRun.check
      BY <1>1, <1>2, NotRunFacts
    <3> DEFINE longer == results \o <<ok, alien, NotRun>>
    <3>2. ok \in ResultLines /\ alien \in ResultLines /\ NotRun \in ResultLines
      BY <1>1, NotRunFacts
    <3>3. /\ longer \in Seq(ResultLines)
          /\ SameBut({ok.check, alien.check, NotRun.check}, longer, results)
          /\ Times(NotRun.check, longer) = Times(NotRun.check, results) + 1
          /\ HasFailure(longer) <=> HasFailure(results) \/ ok.status = "fail"
                                    \/ alien.status = "fail" \/ NotRun.status = "fail"
      BY <3>1, <3>2, ThreeLinesAdded
    <3>4. results' = longer
      BY <1>6
    <3> HIDE DEF longer
    <3> QED
      BY <1>1, <3>3, <3>4
  <2> QED
    BY <1>1, <1>2, <1>6, <2>1, NotRunFacts DEF HasFailed, HasFailure, Stopped, SameBut
<1>7. ASSUME NEW s \in Sessions, NEW c \in Claims, NEW id \in IDTokens \cup {Nil},
             id # Nil => id.nonce = s,
             token' = [signedIn |-> TRUE, session |-> s, claims |-> c]
      PROVE  /\ token' \in Tokens /\ token'.signedIn
             /\ id # Nil /\ CheckIDToken(id) => token'.session = "own"
  BY <1>7 DEF CheckIDToken, Tokens
<1> QED
  BY <1>3, <1>4, <1>5, <1>6, <1>7

\* An access token of another issuer stops the run, one for another audience does not;
\* each counts against the platform only when the doctor got it itself
\* (checkAccessToken, signin.go:344-374).
LEMMA AccessFacts ==
  ASSUME results \in Seq(ResultLines), token \in Tokens, CheckAccessToken
  PROVE  /\ \/ odd' = odd /\ (HasFailed' <=> HasFailed)
            \/ odd' = odd + 1 /\ HasFailed'
         /\ Stopped \/ (WentOn /\ step' = "launchpad")
<1> DEFINE check == "sign-in: access token"
           v == Verdict(token)
           line == Result(check, v)
<1>1. check \in SignInChecks /\ check \in Checks /\ check \notin OnceChecks
  BY SignInLines DEF SignInChecks
<1>2. v \in Statuses /\ v = (IF token.signedIn THEN "fail" ELSE "skip")
  BY DEF Verdict, Statuses
<1>3. token.claims \in {"opaque", "issuer", "audience", "good"}
  BY DEF Tokens, Claims
<1> HIDE DEF check
<1>4. CASE token.claims = "issuer"
  <2>1. /\ results' = results \o <<line, NotRun>> /\ step' = "report"
        /\ odd' = IF token.signedIn THEN odd + 1 ELSE odd
    BY <1>4 DEF CheckAccessToken, check
  <2>2. line \in ResultLines /\ line.check = check /\ line.status = v
    BY <1>1, <1>2, ResultFacts
  <2> HIDE DEF line, v
  <2>3. check # "signed-in checks"
    BY DEF check
  <2>4. /\ results' \in Seq(ResultLines)
        /\ SameBut({line.check, NotRun.check}, results', results)
        /\ Times(NotRun.check, results') = Times(NotRun.check, results) + 1
        /\ HasFailure(results') <=> HasFailure(results) \/ v = "fail"
    BY <2>1, <2>2, <2>3, NotRunFacts, TwoLinesAdded
  <2>5. Stopped /\ (HasFailed' <=> HasFailed \/ v = "fail")
    BY <1>1, <2>1, <2>2, <2>4, NotRunFacts DEF HasFailed, HasFailure, Stopped, SameBut
  <2>6. CASE token.signedIn
    <3>1. odd' = odd + 1 /\ v = "fail"
      BY <1>2, <2>1, <2>6
    <3> QED
      BY <2>5, <3>1
  <2>7. CASE ~token.signedIn
    <3>1. odd' = odd /\ v = "skip"
      BY <1>2, <2>1, <2>7
    <3> QED
      BY <2>5, <3>1
  <2> QED
    BY <2>6, <2>7
<1>5. CASE token.claims = "audience"
  <2>1. /\ Says(check, v, "launchpad")
        /\ odd' = IF token.signedIn THEN odd + 1 ELSE odd
    BY <1>5 DEF CheckAccessToken, check
  <2> HIDE DEF v
  <2> QED
    BY <1>1, <1>2, <2>1, SignInSays
<1>6. CASE token.claims \in {"opaque", "good"}
  <2>1. (Says(check, "skip", "launchpad") \/ Says(check, "ok", "launchpad")) /\ odd' = odd
    BY <1>6 DEF CheckAccessToken, check
  <2> QED
    BY <1>1, <2>1, SignInSays, LineKinds
<1> QED
  BY <1>3, <1>4, <1>5, <1>6

----------------------------------------------------------------------------
(* What is found from outside. *)

OutsideChecks ==
  {"tls", "routes", "oidc issuer", "issuer identity", "image registry", "capability discovery"}

OfOutside(lines) ==
  lines \in Seq(ResultLines) /\ \A i \in DOMAIN lines : lines[i].check \in OutsideChecks

\* The lines of two checks from outside, one after the other.
LEMMA Joined ==
  ASSUME NEW s, NEW t, OfOutside(s), OfOutside(t)
  PROVE  /\ OfOutside(s \o t)
         /\ HasFailure(s \o t) <=> HasFailure(s) \/ HasFailure(t)
<1> DEFINE u == s \o t
<1>1. /\ s \in Seq(ResultLines) /\ t \in Seq(ResultLines)
      /\ u \in Seq(ResultLines) /\ Len(s) \in Nat /\ Len(t) \in Nat
      /\ DOMAIN s = 1..Len(s) /\ DOMAIN t = 1..Len(t) /\ DOMAIN u = 1..(Len(s) + Len(t))
      /\ \A i \in 1..(Len(s) + Len(t)) : u[i] = IF i <= Len(s) THEN s[i] ELSE t[i - Len(s)]
  BY ConcatProperties, LenProperties DEF OfOutside
<1>2. \A i \in 1..Len(t) : u[i + Len(s)] = t[i] /\ i + Len(s) \in 1..(Len(s) + Len(t))
  BY <1>1
<1>3. \A i \in 1..Len(s) : u[i] = s[i] /\ i \in 1..(Len(s) + Len(t))
  BY <1>1
<1> HIDE DEF u
<1>n. ASSUME NEW i \in DOMAIN u
      PROVE  (\E k \in DOMAIN s : u[i] = s[k]) \/ (\E k \in DOMAIN t : u[i] = t[k])
  <2>1. CASE i <= Len(s)
    BY <1>1, <2>1
  <2>2. CASE ~(i <= Len(s))
    <3>1. i - Len(s) \in DOMAIN t /\ u[i] = t[i - Len(s)]
      BY <1>1, <2>2
    <3> QED
      BY <3>1
  <2> QED
    BY <2>1, <2>2
<1>4. OfOutside(u)
  BY <1>1, <1>n DEF OfOutside
<1>5. HasFailure(u) => HasFailure(s) \/ HasFailure(t)
  BY <1>n DEF HasFailure
<1>6. HasFailure(s) \/ HasFailure(t) => HasFailure(u)
  BY <1>1, <1>2, <1>3 DEF HasFailure
<1> QED
  BY <1>4, <1>5, <1>6 DEF u

\* What is found from outside speaks of its own checks only, and what is wrong there is
\* a failure (Run, doctor.go:102-160).
LEMMA OutsideFacts ==
  ASSUME DoctorAssumption, StaticChecks
  PROVE  /\ OfOutside(results')
         /\ odd' \in {0, 1}
         /\ HasFailed' <=> odd' = 1
         /\ \A c : c \notin OutsideChecks => Times(c, results') = 0
<1>1. PICK o \in OutsideAnswers :
         /\ results' = <<checkTLS(o), checkRoutes(o)>> \o checkIssuer(o)
                        \o <<checkRegistry(o), checkDiscovery(o)>>
         /\ odd' = IF o.tls = "rejected" \/ ~o.routes \/ o.issuer = "fails" \/ o.registry = "refuses"
                   THEN 1 ELSE 0
  BY DEF StaticChecks, DoctorAssumption
<1> DEFINE door == <<checkTLS(o), checkRoutes(o)>>
           issuer == checkIssuer(o)
           rest == <<checkRegistry(o), checkDiscovery(o)>>
<1>2. {"ok", "warn", "fail", "skip"} = Statuses /\ OutsideChecks \subseteq Checks
  BY DEF Statuses, Checks, OutsideChecks
<1>3. OfOutside(door) /\ (HasFailure(door) <=> o.tls = "rejected" \/ ~o.routes)
  <2> DEFINE x == checkTLS(o)  y == checkRoutes(o)
  <2>1. x \in ResultLines /\ x.check \in OutsideChecks /\ (x.status = "fail" <=> o.tls = "rejected")
    BY <1>2 DEF checkTLS, Result, ResultLines, OutsideAnswers, OutsideChecks
  <2>2. y \in ResultLines /\ y.check \in OutsideChecks /\ (y.status = "fail" <=> ~o.routes)
    BY <1>2 DEF checkRoutes, Result, ResultLines, OutsideAnswers, OutsideChecks
  <2> HIDE DEF x, y
  <2>3. OfOutside(<<x, y>>) /\ (HasFailure(<<x, y>>) <=> x.status = "fail" \/ y.status = "fail")
    BY <2>1, <2>2 DEF OfOutside, HasFailure
  <2> QED
    BY <2>1, <2>2, <2>3 DEF x, y
<1>4. OfOutside(rest) /\ (HasFailure(rest) <=> o.registry = "refuses")
  <2> DEFINE x == checkRegistry(o)  y == checkDiscovery(o)
  <2>1. /\ x \in ResultLines /\ x.check \in OutsideChecks
        /\ x.status = "fail" <=> o.registry = "refuses"
    BY <1>2 DEF checkRegistry, Result, ResultLines, OutsideAnswers, OutsideChecks
  <2>2. y \in ResultLines /\ y.check \in OutsideChecks /\ y.status # "fail"
    BY <1>2 DEF checkDiscovery, Result, ResultLines, OutsideAnswers, OutsideChecks
  <2> HIDE DEF x, y
  <2>3. OfOutside(<<x, y>>) /\ (HasFailure(<<x, y>>) <=> x.status = "fail" \/ y.status = "fail")
    BY <2>1, <2>2 DEF OfOutside, HasFailure
  <2> QED
    BY <2>1, <2>2, <2>3 DEF x, y
<1>5. OfOutside(issuer) /\ (HasFailure(issuer) <=> o.issuer = "fails")
  <2> DEFINE x == Result("oidc issuer", "fail")
             y == Result("oidc issuer", "ok")
             z == Result("issuer identity", "warn")
  <2>1. /\ {x, y, z} \subseteq ResultLines
        /\ x.check \in OutsideChecks /\ y.check \in OutsideChecks /\ z.check \in OutsideChecks
        /\ x.status = "fail" /\ y.status # "fail" /\ z.status # "fail"
    <3>1. {"oidc issuer", "issuer identity"} \subseteq Checks \cap OutsideChecks
      BY <1>2 DEF OutsideChecks
    <3>2. x \in ResultLines /\ y \in ResultLines /\ z \in ResultLines
      BY <1>2, <3>1 DEF Result, ResultLines
    <3> QED
      BY <3>1, <3>2 DEF Result
  <2>2. issuer = IF o.issuer = "fails" THEN <<x>>
                 ELSE <<y>> \o (IF o.issuer = "another name" THEN <<z>> ELSE <<>>)
    BY DEF checkIssuer
  <2> HIDE DEF x, y, z
  <2>3. /\ OfOutside(<<x>>) /\ HasFailure(<<x>>)
        /\ OfOutside(<<y>>) /\ ~HasFailure(<<y>>)
        /\ OfOutside(<<z>>) /\ ~HasFailure(<<z>>)
    <3>1. ASSUME NEW r \in ResultLines, r.check \in OutsideChecks
          PROVE  OfOutside(<<r>>) /\ (HasFailure(<<r>>) <=> r.status = "fail")
      BY <3>1 DEF OfOutside, HasFailure
    <3> QED
      BY <2>1, <3>1
  <2>4. OfOutside(<<>>) /\ ~HasFailure(<<>>)
    BY EmptySeq DEF OfOutside, HasFailure
  <2>5. CASE o.issuer = "fails"
    BY <2>2, <2>3, <2>5
  <2>6. CASE o.issuer = "another name"
    <3>1. issuer = <<y>> \o <<z>>
      BY <2>2, <2>6
    <3> QED
      BY <2>3, <2>6, <3>1, Joined
  <2>7. CASE o.issuer = "serves"
    <3>1. issuer = <<y>> \o <<>>
      BY <2>2, <2>7
    <3> QED
      BY <2>3, <2>4, <2>7, <3>1, Joined
  <2> QED
    BY <2>5, <2>6, <2>7 DEF OutsideAnswers
<1> HIDE DEF door, issuer, rest
<1>6. results' = (door \o issuer) \o rest
  BY <1>1 DEF door, issuer, rest
<1>7. OfOutside(results') /\ (HasFailure(results') <=> odd' = 1) /\ odd' \in {0, 1}
  <2>1. OfOutside(door \o issuer) /\ (HasFailure(door \o issuer) <=>
          o.tls = "rejected" \/ ~o.routes \/ o.issuer = "fails")
    BY <1>3, <1>5, Joined
  <2>2. OfOutside(results') /\ (HasFailure(results') <=>
          o.tls = "rejected" \/ ~o.routes \/ o.issuer = "fails" \/ o.registry = "refuses")
    BY <1>4, <1>6, <2>1, Joined
  <2> QED
    BY <1>1, <2>2
<1>8. ASSUME NEW c, c \notin OutsideChecks
      PROVE  Times(c, results') = 0
  <2>1. {i \in DOMAIN results' : results'[i].check = c} = {}
    BY <1>7, <1>8 DEF OfOutside
  <2> QED
    BY <2>1, FS_EmptySet DEF Times
<1> QED
  BY <1>7, <1>8 DEF HasFailed, HasFailure

----------------------------------------------------------------------------
(* What a step of the sign-in and one of the deep checks come to. *)

\* The lines, the token and the next step of a sign-in, whatever it is answered.
SignInMove ==
  /\ step \in SigningIn \ {"outside"}
  /\ step' \in SigningIn \cup {"launchpad", "report"}
  /\ Stopped \/ WentOn
  /\ Stopped => token' # Nil \/ HasFailed'
  /\ \/ odd' = odd /\ (HasFailed' <=> HasFailed)
     \/ odd' = odd + 1 /\ HasFailed' /\ step' \notin SigningIn
  /\ token' \in Tokens \cup {Nil}

\* A step that ends the sign-in without a token is not one that goes on.
LEMMA StoppedOrNot == results \in Seq(ResultLines) => ~(Stopped /\ WentOn)
<1> SUFFICES ASSUME results \in Seq(ResultLines), Stopped, WentOn
             PROVE  FALSE
  OBVIOUS
<1> DEFINE before == Times("signed-in checks", results)
           then == Times("signed-in checks", results')
<1>1. before \in Nat
  BY TimesAreNumbers
<1>2. then = before + 1
  BY DEF Stopped
<1>3. then = before
  BY SignInLines DEF WentOn
<1> HIDE DEF before, then
<1> QED
  BY <1>1, <1>2, <1>3

\* A check of the sign-in that ends it has failed (StopsAt).
LEMMA MoveStops ==
  ASSUME TypeOK, NEW check \in SignInChecks, StopsAt(check), step \in SigningIn \ {"outside"},
         token' = token
  PROVE  SignInMove
<1>1. Stopped /\ HasFailed' /\ odd' = odd + 1
  BY SignInStops DEF TypeOK
<1>2. token' \in Tokens \cup {Nil}
  BY DEF TypeOK
<1>3. step' = "report"
  BY <1>1 DEF Stopped
<1> QED
  BY <1>1, <1>2, <1>3 DEF SignInMove, SigningIn

\* One that says how it went, and goes on or ends the sign-in.
LEMMA MoveSays ==
  ASSUME TypeOK, NEW check \in SignInChecks, NEW status \in Statuses,
         NEW next \in SigningIn \cup {"launchpad", "report"}, Says(check, status, next),
         step \in SigningIn \ {"outside"}, token' \in Tokens \cup {Nil},
         IF status = "fail" THEN odd' = odd + 1 /\ next \notin SigningIn ELSE odd' = odd
  PROVE  SignInMove
<1>1. WentOn /\ (HasFailed' <=> HasFailed \/ status = "fail") /\ step' = next
  BY SignInSays DEF TypeOK
<1>4. ~Stopped
  BY <1>1, StoppedOrNot DEF TypeOK
<1>5. \/ odd' = odd /\ (HasFailed' <=> HasFailed)
      \/ odd' = odd + 1 /\ HasFailed' /\ step' \notin SigningIn
  <2>1. CASE status = "fail"
    BY <1>1, <2>1
  <2>2. CASE status # "fail"
    BY <1>1, <2>2
  <2> QED
    BY <2>1, <2>2
<1> QED
  BY <1>1, <1>4, <1>5 DEF SignInMove

\* One that goes on without a line.
LEMMA MoveSilent ==
  ASSUME TypeOK, step \in SigningIn \ {"outside"}, step' \in SigningIn, UNCHANGED <<results, odd>>,
         token' = token
  PROVE  SignInMove
<1>1. WentOn /\ (HasFailed' <=> HasFailed)
  BY DEF WentOn, TypeOK, HasFailed
<1>3. ~Stopped
  BY <1>1, StoppedOrNot DEF TypeOK
<1>4. token' \in Tokens \cup {Nil}
  BY DEF TypeOK
<1> QED
  BY <1>1, <1>3, <1>4 DEF SignInMove

\* Each step of the sign-in is one of those (signin.go:112-156).
LEMMA SignInMoves ==
  ASSUME TypeOK, TokenInv, SignInNext
  PROVE  SignInMove
<1>1. {"credentials", "config", "issuer", "authorization", "form", "submitted", "callback",
       "exchange", "access"} = SigningIn \ {"outside"}
  BY DEF SigningIn
<1>2. {"ok", "warn", "fail", "skip"} = Statuses
  BY DEF Statuses
<1>3. token \in Tokens \cup {Nil}
  BY DEF TypeOK
<1>4. CASE Credentials
  <2>1. "sign-in" \in SignInChecks
    BY DEF SignInChecks
  <2>2. step \in SigningIn \ {"outside"}
    BY <1>1, <1>4 DEF Credentials
  <2>3. \/ Says("sign-in", "ok", "config") /\ odd' = odd /\ token' = token
        \/ Says("sign-in", "fail", "report") /\ odd' = odd + 1 /\ token' = token
        \/ Says("sign-in", "ok", "config") /\ odd' = odd /\ token' \in Tokens
        \/ Says("sign-in", "skip", "report") /\ odd' = odd /\ token' = token
    <3>1. ASSUME NEW c \in Claims
          PROVE  [signedIn |-> FALSE, session |-> "other", claims |-> c] \in Tokens
      BY DEF Tokens, Sessions
    <3> QED
      BY <1>4, <3>1 DEF Credentials
  <2>4. "config" \in SigningIn /\ "report" \notin SigningIn
    BY DEF SigningIn
  <2> QED
    BY <1>2, <1>3, <2>1, <2>2, <2>3, <2>4, MoveSays
<1>5. CASE ReadConfig
  <2>1. "chino-api: config" \in SignInChecks
    BY DEF SignInChecks
  <2>2. step \in SigningIn \ {"outside"} /\ token' = token
    BY <1>1, <1>5 DEF ReadConfig
  <2>3. \/ StopsAt("chino-api: config")
        \/ Says("chino-api: config", "skip", "report") /\ odd' = odd
        \/ Says("chino-api: config", "ok", "access") /\ odd' = odd
        \/ Says("chino-api: config", "ok", "issuer") /\ odd' = odd
    BY <1>5 DEF ReadConfig
  <2> QED
    BY <1>1, <1>2, <1>3, <2>1, <2>2, <2>3, MoveSays, MoveStops
<1>6. CASE Metadata
  <2>1. "sign-in: issuer" \in SignInChecks
    BY DEF SignInChecks
  <2>2. step \in SigningIn \ {"outside"} /\ token' = token
    BY <1>1, <1>6 DEF Metadata
  <2>3. \/ StopsAt("sign-in: issuer")
        \/ Says("sign-in: issuer", "ok", "authorization") /\ odd' = odd
    BY <1>6 DEF Metadata
  <2> QED
    BY <1>1, <1>2, <1>3, <2>1, <2>2, <2>3, MoveSays, MoveStops
<1>7. CASE \E to \in Origins : Redirected(to)
  <2>1. CheckOf(step) \in SignInChecks
    BY DEF SignInChecks, CheckOf
  <2>2. /\ step \in SigningIn \ {"outside"} /\ token' = token
        /\ UNCHANGED <<step, results, odd>> \/ StopsAt(CheckOf(step))
    BY <1>1, <1>7 DEF Redirected, Browses
  <2> QED
    BY <2>1, <2>2, MoveSilent, MoveStops
<1>8. CASE NoWayForward
  <2>1. CheckOf(step) \in SignInChecks
    BY DEF SignInChecks, CheckOf
  <2> QED
    BY <1>1, <1>8, <2>1, MoveStops DEF NoWayForward, Browses
<1>9. CASE \E f \in Forms : LoginPage(f)
  <2>1. "sign-in: authorization" \in SignInChecks
    BY DEF SignInChecks
  <2>2. /\ step \in SigningIn \ {"outside"} /\ token' = token /\ odd' = odd
        /\ Says("sign-in: authorization", "ok", "form")
    BY <1>1, <1>9 DEF LoginPage
  <2> QED
    BY <1>1, <1>2, <1>3, <2>1, <2>2, MoveSays
<1>10. CASE \E cb \in Callbacks : RedirectedBack(cb)
  <2>1. CheckOf(step) \in SignInChecks /\ "sign-in: authorization" \in SignInChecks
    BY DEF SignInChecks, CheckOf
  <2>2. /\ step \in SigningIn \ {"outside"} /\ token' = token
        /\ \/ StopsAt("sign-in: authorization")
           \/ Says(CheckOf(step), "ok", "callback") /\ odd' = odd
    BY <1>1, <1>10 DEF RedirectedBack, Browses
  <2> QED
    BY <1>1, <1>2, <1>3, <2>1, <2>2, MoveSays, MoveStops
<1>11. CASE SubmitLogin
  <2>1. "sign-in: login form" \in SignInChecks
    BY DEF SignInChecks
  <2>2. /\ step \in SigningIn \ {"outside"} /\ token' = token
        /\ (step' = "submitted" /\ UNCHANGED <<results, odd>>) \/ StopsAt("sign-in: login form")
    BY <1>1, <1>11 DEF SubmitLogin
  <2> QED
    BY <1>1, <2>1, <2>2, MoveSilent, MoveStops
<1>12. CASE ReadCallback
  <2>1. "sign-in: callback" \in SignInChecks
    BY DEF SignInChecks
  <2>2. /\ step \in SigningIn \ {"outside"} /\ token' = token
        /\ (Says("sign-in: callback", "ok", "exchange") /\ odd' = odd) \/ StopsAt("sign-in: callback")
    BY <1>1, <1>12 DEF ReadCallback
  <2> QED
    BY <1>1, <1>2, <1>3, <2>1, <2>2, MoveSays, MoveStops
<1>13. CASE Exchange
  <2>1. step \in SigningIn \ {"outside"} /\ "access" \in SigningIn /\ "report" \notin SigningIn
    BY <1>13 DEF Exchange, SigningIn
  <2>3. ~(Stopped /\ WentOn)
    BY StoppedOrNot DEF TypeOK
  <2>4. CASE WentOn /\ step' = "access" /\ odd' = odd /\ (HasFailed' <=> HasFailed) /\ token' \in Tokens
    BY <2>1, <2>3, <2>4 DEF SignInMove
  <2>5. CASE Stopped /\ odd' = odd + 1 /\ HasFailed' /\ token' \in Tokens \cup {token}
    BY <1>3, <2>1, <2>5 DEF SignInMove, Stopped
  <2> QED
    BY <1>13, <2>4, <2>5, ExchangeFacts DEF TypeOK
<1>14. CASE CheckAccessToken
  <2>1. /\ step = "access" /\ step \in SigningIn \ {"outside"} /\ "launchpad" \notin SigningIn
        /\ "report" \notin SigningIn /\ token' = token
    BY <1>1, <1>14 DEF CheckAccessToken, SigningIn
  <2>2. token \in Tokens
    BY <1>3, <2>1 DEF TokenInv, OwnToken
  <2>3. /\ \/ odd' = odd /\ (HasFailed' <=> HasFailed)
           \/ odd' = odd + 1 /\ HasFailed'
        /\ Stopped \/ (WentOn /\ step' = "launchpad")
    BY <1>14, <2>2, AccessFacts DEF TypeOK
  <2>4. token # Nil
    BY <2>1 DEF TokenInv, OwnToken
  <2>5. step' \in {"launchpad", "report"}
    BY <2>3 DEF Stopped
  <2> QED
    BY <2>1, <2>2, <2>3, <2>4, <2>5 DEF SignInMove
<1> QED
  BY <1>4, <1>5, <1>6, <1>7, <1>8, <1>9, <1>10, <1>11, <1>12, <1>13, <1>14 DEF SignInNext

\* The check that speaks at a step, and the step after it.
SpeaksOf(s) ==
  CASE s = "launchpad" -> "portal: launchpad"
    [] s \in {"apps", "asset"} -> "app"
    [] s = "chino-api" -> "chino-api"
    [] s \in {"items", "series"} -> "chino-api: items"
    [] s = "detail" -> "chino-api: item detail"
    [] s = "poster" -> "chino-api: poster"
    [] s = "search" -> "chino-api: people search"
    [] s = "person" -> "chino-api: person"
    [] s = "portrait" -> "chino-api: portrait"
    [] s \in {"packaged", "playlist"} -> "chino-api: playback"
    [] s = "console" -> "katalog-manager: graphql"

NextOf(s) ==
  CASE s \in {"launchpad", "apps", "asset"} -> "apps"
    [] s \in {"items", "series"} -> "detail"
    [] s = "detail" -> "poster"
    [] s = "poster" -> "search"
    [] s = "search" -> "person"
    [] s = "person" -> "portrait"
    [] s = "portrait" -> "packaged"
    [] s \in {"chino-api", "packaged", "playlist"} -> "console"
    [] s = "console" -> "report"

DeepSteps ==
  {"launchpad", "apps", "asset", "chino-api", "items", "series", "detail", "poster", "search",
   "person", "portrait", "packaged", "playlist", "console"}

\* A step that is not the last of its check says nothing.
Silently ==
  /\ UNCHANGED <<results, odd>>
  /\ \/ step = "apps" /\ step' \in {"asset", "chino-api", "items"}
     \/ step = "items" /\ step' = "series"
     \/ step \in {"packaged", "playlist"} /\ step' = "playlist"

Aloud(status) ==
  /\ Says(SpeaksOf(step), status, NextOf(step))
  /\ odd' = odd \/ (odd' = odd + 1 /\ odd < MaxOdd /\ status = "fail")

\* The line and the next step of a deep check, and that its requests go to the instance.
DeepMove ==
  /\ step \in DeepSteps
  /\ bearerTo' \in {bearerTo, bearerTo \cup {"instance"}}
  /\ step = "launchpad" => bearerTo' # {}
  /\ Silently \/ \E status \in Statuses : Aloud(status)

\* Each deep check is one of those (deepChecks, deep.go:191-204).
LEMMA DeepMoves == DeepNext => DeepMove
<1>1. {"ok", "warn", "fail", "skip"} = Statuses
  BY DEF Statuses
<1>2. ASSUME NEW check, NEW next, Fails(check, next), check = SpeaksOf(step), next = NextOf(step)
      PROVE  \E status \in Statuses : Aloud(status)
  <2>1. Aloud("fail")
    BY <1>2 DEF Fails, Aloud
  <2> QED
    BY <1>1, <2>1
<1>3. ASSUME NEW check, NEW next, NEW status \in Statuses, Says(check, status, next),
             check = SpeaksOf(step), next = NextOf(step), odd' = odd
      PROVE  \E st \in Statuses : Aloud(st)
  BY <1>3 DEF Aloud
<1>4. ASSUME NEW check, NEW image, NEW next, LoadsImage(check, image, next),
             check = SpeaksOf(step), next = NextOf(step)
      PROVE  /\ \E status \in Statuses : Aloud(status)
             /\ bearerTo' \in {bearerTo, bearerTo \cup {"instance"}}
  <2>1. bearerTo' \in {bearerTo, bearerTo \cup {"instance"}}
    BY <1>4 DEF LoadsImage, SendsTo
  <2>2. \/ Fails(check, next)
        \/ \E status \in Statuses : Says(check, status, next) /\ odd' = odd
    BY <1>1, <1>4 DEF LoadsImage
  <2> QED
    BY <1>2, <1>3, <1>4, <2>1, <2>2
<1>5. CASE Launchpad
  <2>1. step = "launchpad" /\ Asks
    BY <1>5 DEF Launchpad
  <2>2. Fails("portal: launchpad", "apps") \/ (Says("portal: launchpad", "ok", "apps") /\ odd' = odd)
    BY <1>5 DEF Launchpad
  <2>3. SpeaksOf(step) = "portal: launchpad" /\ NextOf(step) = "apps" /\ step \in DeepSteps
    BY <2>1 DEF SpeaksOf, NextOf, DeepSteps
  <2>4. bearerTo' = bearerTo \cup {"instance"} /\ bearerTo' # {}
    BY <2>1 DEF Asks
  <2> QED
    BY <1>1, <1>2, <1>3, <2>2, <2>3, <2>4 DEF DeepMove
<1>6. CASE AppPage
  <2>1. step = "apps" /\ step \in DeepSteps /\ bearerTo' = bearerTo
    BY <1>6 DEF AppPage, DeepSteps
  <2>2. \/ Fails("app", "apps")
        \/ Says("app", "warn", "apps") /\ odd' = odd
        \/ step' = "asset" /\ UNCHANGED <<results, odd>>
    BY <1>6 DEF AppPage
  <2>3. SpeaksOf(step) = "app" /\ NextOf(step) = "apps"
    BY <2>1 DEF SpeaksOf, NextOf
  <2>4. Silently \/ \E status \in Statuses : Aloud(status)
    BY <1>1, <1>2, <1>3, <2>1, <2>2, <2>3 DEF Silently
  <2> QED
    BY <2>1, <2>4 DEF DeepMove
<1>7. CASE AppAsset
  <2>1. step = "asset" /\ step \in DeepSteps /\ bearerTo' = bearerTo
    BY <1>7 DEF AppAsset, DeepSteps
  <2>2. \/ Fails("app", "apps")
        \/ (Says("app", "ok", "apps") \/ Says("app", "fail", "apps")) /\ odd' = odd
    BY <1>7 DEF AppAsset
  <2>3. SpeaksOf(step) = "app" /\ NextOf(step) = "apps"
    BY <2>1 DEF SpeaksOf, NextOf
  <2> QED
    BY <1>1, <1>2, <1>3, <2>1, <2>2, <2>3 DEF DeepMove
<1>8. CASE AppsChecked
  <2>1. step = "apps" /\ step \in DeepSteps /\ bearerTo' = bearerTo
    BY <1>8 DEF AppsChecked, DeepSteps, deepVars
  <2>2. step' \in {"chino-api", "items"} /\ UNCHANGED <<results, odd>>
    BY <1>8 DEF AppsChecked, AppsDone
  <2>3. Silently
    BY <2>1, <2>2 DEF Silently
  <2> QED
    BY <2>1, <2>3 DEF DeepMove
<1>9. CASE NoChino
  <2>1. step = "chino-api" /\ step \in DeepSteps /\ bearerTo' = bearerTo
    BY <1>9 DEF NoChino, DeepSteps, deepVars
  <2>2. Says("chino-api", "skip", "console") /\ odd' = odd
    BY <1>9 DEF NoChino
  <2>3. SpeaksOf(step) = "chino-api" /\ NextOf(step) = "console"
    BY <2>1 DEF SpeaksOf, NextOf
  <2> QED
    BY <1>1, <1>3, <2>1, <2>2, <2>3 DEF DeepMove
<1>10. CASE ListMovies
  <2>1. step = "items" /\ step \in DeepSteps /\ bearerTo' = bearerTo \cup {"instance"}
    BY <1>10 DEF ListMovies, Items, DeepSteps, Asks
  <2>2. \/ Fails("chino-api: items", "detail")
        \/ Says("chino-api: items", "ok", "detail") /\ odd' = odd
        \/ step' = "series" /\ UNCHANGED <<results, odd>>
    BY <1>10 DEF ListMovies, Items
  <2>3. SpeaksOf(step) = "chino-api: items" /\ NextOf(step) = "detail"
    BY <2>1 DEF SpeaksOf, NextOf
  <2>4. Silently \/ \E status \in Statuses : Aloud(status)
    BY <1>1, <1>2, <1>3, <2>1, <2>2, <2>3 DEF Silently
  <2> QED
    BY <2>1, <2>4 DEF DeepMove
<1>11. CASE ListSeries
  <2>1. step = "series" /\ step \in DeepSteps /\ bearerTo' = bearerTo \cup {"instance"}
    BY <1>11 DEF ListSeries, Items, DeepSteps, Asks
  <2>2. \/ Fails("chino-api: items", "detail")
        \/ Says("chino-api: items", "ok", "detail") /\ odd' = odd
    BY <1>11 DEF ListSeries, Items, EmptyCatalog
  <2>3. SpeaksOf(step) = "chino-api: items" /\ NextOf(step) = "detail"
    BY <2>1 DEF SpeaksOf, NextOf
  <2> QED
    BY <1>1, <1>2, <1>3, <2>1, <2>2, <2>3 DEF DeepMove
<1>12. CASE ItemDetail
  <2>1. /\ step = "detail" /\ step \in DeepSteps
        /\ bearerTo' \in {bearerTo, bearerTo \cup {"instance"}}
    BY <1>12 DEF ItemDetail, DeepSteps, Asks
  <2>2. \/ Fails("chino-api: item detail", "poster")
        \/ /\ \/ Says("chino-api: item detail", "skip", "poster")
              \/ Says("chino-api: item detail", "fail", "poster")
              \/ Says("chino-api: item detail", "ok", "poster")
           /\ odd' = odd
    BY <1>12 DEF ItemDetail
  <2>3. SpeaksOf(step) = "chino-api: item detail" /\ NextOf(step) = "poster"
    BY <2>1 DEF SpeaksOf, NextOf
  <2> QED
    BY <1>1, <1>2, <1>3, <2>1, <2>2, <2>3 DEF DeepMove
<1>13. CASE Poster
  <2>1. step = "poster" /\ step \in DeepSteps
    BY <1>13 DEF Poster, DeepSteps
  <2>2. \/ Says("chino-api: poster", "skip", "search") /\ UNCHANGED <<bearerTo, odd>>
        \/ \E image : LoadsImage("chino-api: poster", image, "search")
    BY <1>13 DEF Poster
  <2>3. SpeaksOf(step) = "chino-api: poster" /\ NextOf(step) = "search"
    BY <2>1 DEF SpeaksOf, NextOf
  <2>4. CASE \E image : LoadsImage("chino-api: poster", image, "search")
    BY <1>4, <2>1, <2>3, <2>4 DEF DeepMove
  <2> QED
    BY <1>1, <1>3, <2>1, <2>2, <2>3, <2>4 DEF DeepMove
<1>14. CASE PeopleSearch
  <2>1. step = "search" /\ step \in DeepSteps /\ bearerTo' = bearerTo \cup {"instance"}
    BY <1>14 DEF PeopleSearch, DeepSteps, Asks
  <2>2. \/ Fails("chino-api: people search", "person")
        \/ /\ \/ Says("chino-api: people search", "ok", "person")
              \/ Says("chino-api: people search", "warn", "person")
           /\ odd' = odd
    BY <1>14 DEF PeopleSearch
  <2>3. SpeaksOf(step) = "chino-api: people search" /\ NextOf(step) = "person"
    BY <2>1 DEF SpeaksOf, NextOf
  <2> QED
    BY <1>1, <1>2, <1>3, <2>1, <2>2, <2>3 DEF DeepMove
<1>15. CASE Person
  <2>1. /\ step = "person" /\ step \in DeepSteps
        /\ bearerTo' \in {bearerTo, bearerTo \cup {"instance"}}
    BY <1>15 DEF Person, DeepSteps, Asks
  <2>2. \/ Fails("chino-api: person", "portrait")
        \/ /\ \/ Says("chino-api: person", "skip", "portrait")
              \/ Says("chino-api: person", "fail", "portrait")
              \/ Says("chino-api: person", "ok", "portrait")
           /\ odd' = odd
    BY <1>15 DEF Person
  <2>3. SpeaksOf(step) = "chino-api: person" /\ NextOf(step) = "portrait"
    BY <2>1 DEF SpeaksOf, NextOf
  <2> QED
    BY <1>1, <1>2, <1>3, <2>1, <2>2, <2>3 DEF DeepMove
<1>16. CASE Portrait
  <2>1. step = "portrait" /\ step \in DeepSteps
    BY <1>16 DEF Portrait, DeepSteps
  <2>2. \/ /\ \/ Fails("chino-api: portrait", "packaged")
              \/ /\ \/ Says("chino-api: portrait", "skip", "packaged")
                    \/ Says("chino-api: portrait", "fail", "packaged")
                 /\ odd' = odd
           /\ bearerTo' \in {bearerTo, bearerTo \cup {"instance"}}
        \/ \E image : LoadsImage("chino-api: portrait", image, "packaged")
    BY <1>16 DEF Portrait, Asks
  <2>3. SpeaksOf(step) = "chino-api: portrait" /\ NextOf(step) = "packaged"
    BY <2>1 DEF SpeaksOf, NextOf
  <2>4. CASE \E image : LoadsImage("chino-api: portrait", image, "packaged")
    BY <1>4, <2>1, <2>3, <2>4 DEF DeepMove
  <2> QED
    BY <1>1, <1>2, <1>3, <2>1, <2>2, <2>3, <2>4 DEF DeepMove
<1>17. CASE Packaged
  <2>1. step = "packaged" /\ step \in DeepSteps /\ bearerTo' = bearerTo \cup {"instance"}
    BY <1>17 DEF Packaged, DeepSteps, Asks
  <2>2. \/ Fails("chino-api: playback", "console")
        \/ Says("chino-api: playback", "skip", "console") /\ odd' = odd
        \/ step' = "playlist" /\ UNCHANGED <<results, odd>>
    BY <1>17 DEF Packaged
  <2>3. SpeaksOf(step) = "chino-api: playback" /\ NextOf(step) = "console"
    BY <2>1 DEF SpeaksOf, NextOf
  <2>4. Silently \/ \E status \in Statuses : Aloud(status)
    BY <1>1, <1>2, <1>3, <2>1, <2>2, <2>3 DEF Silently
  <2> QED
    BY <2>1, <2>4 DEF DeepMove
<1>18. CASE Playlist
  <2>1. /\ step = "playlist" /\ step \in DeepSteps
        /\ bearerTo' \in {bearerTo, bearerTo \cup {"instance"}}
    BY <1>18 DEF Playlist, DeepSteps, Asks
  <2>2. \/ Fails("chino-api: playback", "console")
        \/ /\ \/ Says("chino-api: playback", "fail", "console")
              \/ Says("chino-api: playback", "warn", "console")
              \/ Says("chino-api: playback", "ok", "console")
           /\ odd' = odd
        \/ UNCHANGED <<step, results, odd>>
    BY <1>18 DEF Playlist
  <2>3. SpeaksOf(step) = "chino-api: playback" /\ NextOf(step) = "console"
    BY <2>1 DEF SpeaksOf, NextOf
  <2>4. Silently \/ \E status \in Statuses : Aloud(status)
    BY <1>1, <1>2, <1>3, <2>1, <2>2, <2>3 DEF Silently
  <2> QED
    BY <2>1, <2>4 DEF DeepMove
<1>19. CASE CatalogConsole
  <2>1. step = "console" /\ step \in DeepSteps /\ bearerTo' = bearerTo \cup {"instance"}
    BY <1>19 DEF CatalogConsole, DeepSteps, Asks
  <2>2. \/ Fails("katalog-manager: graphql", "report")
        \/ /\ \/ Says("katalog-manager: graphql", "ok", "report")
              \/ Says("katalog-manager: graphql", "warn", "report")
           /\ odd' = odd
    BY <1>19 DEF CatalogConsole
  <2>3. SpeaksOf(step) = "katalog-manager: graphql" /\ NextOf(step) = "report"
    BY <2>1 DEF SpeaksOf, NextOf
  <2> QED
    BY <1>1, <1>2, <1>3, <2>1, <2>2, <2>3 DEF DeepMove
<1> QED
  BY <1>5, <1>6, <1>7, <1>8, <1>9, <1>10, <1>11, <1>12, <1>13, <1>14, <1>15, <1>16, <1>17, <1>18,
     <1>19 DEF DeepNext

----------------------------------------------------------------------------
(* Every variable holds a value of its kind. *)

\* A run starts with values of their kinds (Run, doctor.go:102-160).
LEMMA TypeInit == DoctorAssumption /\ DeepAssumption /\ SignInAssumption /\ Init => TypeOK
<1> SUFFICES ASSUME DoctorAssumption, DeepAssumption, SignInAssumption, Init
             PROVE  TypeOK
  OBVIOUS
<1>1. PICK l \in Libraries : titles = l.titles /\ packages = l.packaged
  BY DEF Init
<1>2. titles \in SUBSET Titles /\ packages \in SUBSET titles
  BY <1>1 DEF DoctorAssumption
<1>3. results \in Seq(ResultLines) /\ mounts \in Seq(Mounts \cup {Portal}) /\ left \in Seq(Titles)
  BY EmptySeq DEF Init
<1> QED
  BY <1>2, <1>3 DEF Init, TypeOK, Steps, SignInAssumption, DeepAssumption

\* A set in some order has each of its members once (the apps of the launchpad,
\* deep.go:231-268; the packaged titles, 649-704).
LEMMA ListFacts ==
  ASSUME NEW S, IsFiniteSet(S), NEW s \in SetToSeqs(S)
  PROVE  /\ s \in Seq(S)
         /\ \A i, j \in DOMAIN s : s[i] = s[j] => i = j
         /\ \A t \in S : \E i \in DOMAIN s : s[i] = t
<1> DEFINE n == Cardinality(S)
<1>1. n \in Nat
  BY FS_CardinalityType
<1>2. s \in [1..n -> S] /\ \A i, j \in 1..n : i # j => s[i] # s[j]
  BY DEF SetToSeqs
<1> HIDE DEF n
<1>3. s \in Seq(S) /\ DOMAIN s = 1..n
  BY <1>1, <1>2
<1>4. ASSUME NEW t \in S, \A i \in 1..n : s[i] # t
      PROVE  FALSE
  <2> DEFINE rest == S \ {t}
  <2>1. IsFiniteSet(rest) /\ Cardinality(rest) = n - 1
    BY FS_RemoveElement DEF n
  <2>2. s \in [1..n -> rest]
    BY <1>2, <1>4
  <2>3. IsFiniteSet(1..n) /\ Cardinality(1..n) = n
    BY <1>1, FS_Interval
  <2> HIDE DEF rest
  <2>4. Cardinality(rest) < Cardinality(1..n)
    BY <1>1, <2>1, <2>3
  <2>5. \E i, j \in 1..n : i # j /\ s[i] = s[j]
    BY <2>1, <2>2, <2>3, <2>4, FS_PigeonHole
  <2> QED
    BY <1>2, <2>5
<1> QED
  BY <1>2, <1>3, <1>4

\* What the sign-in itself keeps.
SignInTypes ==
  /\ creds \in SUBSET {"user", "password"}
  /\ bearer \in {"none", "unusable", "usable"}
  /\ form \in Forms \cup {Nil}
  /\ hops \in 0..MaxHops
  /\ callback \in Callbacks \cup {Nil}
  /\ visited \in SUBSET Origins

\* The sign-in keeps the values of what it uses (signin.go).
LEMMA SignInTypesStep ==
  ASSUME SignInAssumption, SignInTypes, SignInNext
  PROVE  SignInTypes'
<1> USE DEF SignInTypes, signInVars
<1>0. 0 \in 0..MaxHops /\ (HopsLeft => hops + 1 \in 0..MaxHops)
  BY DEF SignInAssumption, HopsLeft
<1>1. CASE Credentials
  BY <1>1 DEF Credentials
<1>2. CASE ReadConfig
  BY <1>2 DEF ReadConfig
<1>3. CASE Metadata
  BY <1>0, <1>3 DEF Metadata, Origins
<1>4. CASE \E to \in Origins : Redirected(to)
  BY <1>0, <1>4 DEF Redirected, Follows, Origins
<1>5. CASE NoWayForward
  BY <1>5 DEF NoWayForward
<1>6. CASE \E f \in Forms : LoginPage(f)
  BY <1>6 DEF LoginPage
<1>7. CASE \E cb \in Callbacks : RedirectedBack(cb)
  BY <1>7 DEF RedirectedBack
<1>8. CASE SubmitLogin
  BY <1>0, <1>8 DEF SubmitLogin, MaySend, Origins
<1>9. CASE ReadCallback
  BY <1>9 DEF ReadCallback
<1>10. CASE Exchange
  BY <1>10 DEF Exchange
<1>11. CASE CheckAccessToken
  BY <1>11 DEF CheckAccessToken
<1> QED
  BY <1>1, <1>2, <1>3, <1>4, <1>5, <1>6, <1>7, <1>8, <1>9, <1>10, <1>11 DEF SignInNext

\* What the deep checks hold.
DeepTypes ==
  /\ mounts \in Seq(Mounts \cup {Portal})
  /\ page \in {0, 1, Nil}
  /\ item \in Titles \cup {Nil}
  /\ credited \in People \cup {Nil}
  /\ person \in PersonRecords \cup {Nil}
  /\ left \in Seq(Titles)
  /\ gone \in 0..MaxGone
  /\ bearerTo \in SUBSET Origins

LibraryTypes ==
  /\ titles \in SUBSET Titles
  /\ packages \in SUBSET titles
  /\ missing \in SUBSET Titles
  /\ people \in SUBSET People
  /\ build \in [Mounts \cup {Portal} -> {0, 1}]

\* So do the deep checks (deep.go).
LEMMA DeepTypesStep ==
  ASSUME DeepAssumption, DeepTypes, LibraryTypes, DeepNext,
         step = "asset" => mounts # <<>>
  PROVE  DeepTypes'
<1>0. bearerTo' \in SUBSET Origins
  BY DeepMoves DEF DeepTypes, DeepMove, Origins
<1>1. CASE Launchpad
  <2>1. mounts' \in Seq(Mounts \cup {Portal})
    <3>1. CASE mounts' = <<Portal>>
      BY <3>1
    <3>2. CASE \E ms \in SUBSET Mounts : mounts' \in {<<Portal>> \o m : m \in SetToSeqs(ms)}
      <4>1. PICK ms \in SUBSET Mounts : mounts' \in {<<Portal>> \o m : m \in SetToSeqs(ms)}
        BY <3>2
      <4>0. PICK m \in SetToSeqs(ms) : mounts' = <<Portal>> \o m
        BY <4>1
      <4>2. IsFiniteSet(ms)
        BY FS_Subset DEF DeepAssumption
      <4>3. m \in Seq(ms)
        BY <4>2, ListFacts
      <4>4. m \in Seq(Mounts \cup {Portal}) /\ <<Portal>> \in Seq(Mounts \cup {Portal})
        BY <4>3
      <4> QED
        BY <4>0, <4>4, ConcatProperties
    <3> QED
      BY <1>1, <3>1, <3>2 DEF Launchpad
  <2> QED
    BY <1>0, <1>1, <2>1 DEF Launchpad, DeepTypes
<1>2. CASE AppPage
  <2>1. Tail(mounts) \in Seq(Mounts \cup {Portal}) /\ Head(mounts) \in Mounts \cup {Portal}
    BY <1>2, HeadTailProperties DEF AppPage, DeepTypes
  <2>2. build[Head(mounts)] \in {0, 1}
    BY <2>1 DEF LibraryTypes
  <2> QED
    BY <1>0, <1>2, <2>1, <2>2 DEF AppPage, DeepTypes
<1>3. CASE AppAsset
  <2>1. Tail(mounts) \in Seq(Mounts \cup {Portal})
    BY <1>3, HeadTailProperties DEF AppAsset, DeepTypes
  <2> QED
    BY <1>0, <1>3, <2>1 DEF AppAsset, DeepTypes
<1>4. CASE AppsChecked
  BY <1>0, <1>4 DEF AppsChecked, DeepTypes, deepVars
<1>5. CASE NoChino
  BY <1>0, <1>5 DEF NoChino, DeepTypes, deepVars
<1>6. CASE ListMovies
  <2>1. item' \in Titles \cup {Nil}
    BY <1>6 DEF ListMovies, Items, DeepTypes, LibraryTypes
  <2> QED
    BY <1>0, <1>6, <2>1 DEF ListMovies, Items, DeepTypes
<1>7. CASE ListSeries
  <2>1. item' \in Titles \cup {Nil}
    BY <1>7 DEF ListSeries, Items, DeepTypes, LibraryTypes
  <2> QED
    BY <1>0, <1>7, <2>1 DEF ListSeries, Items, DeepTypes
<1>8. CASE ItemDetail
  <2>1. credited' \in People \cup {Nil}
    BY <1>8 DEF ItemDetail, DeepTypes, LibraryTypes
  <2> QED
    BY <1>0, <1>8, <2>1 DEF ItemDetail, DeepTypes
<1>9. CASE Poster
  BY <1>0, <1>9 DEF Poster, DeepTypes
<1>10. CASE PeopleSearch
  <2>1. credited' \in People \cup {Nil}
    BY <1>10 DEF PeopleSearch, DeepTypes, LibraryTypes
  <2> QED
    BY <1>0, <1>10, <2>1 DEF PeopleSearch, DeepTypes
<1>11. CASE Person
  <2>1. CASE credited = Nil
    BY <1>0, <1>11, <2>1 DEF Person, DeepTypes
  <2>2. CASE credited # Nil
    <3>1. ASSUME NEW image \in Images
          PROVE  [id |-> credited, portrait |-> image] \in PersonRecords
      BY <2>2 DEF DeepTypes, PersonRecords
    <3>2. person' \in PersonRecords \cup {Nil}
      BY <1>11, <2>2, <3>1 DEF Person, DeepTypes
    <3> QED
      BY <1>0, <1>11, <3>2 DEF Person, DeepTypes
  <2> QED
    BY <2>1, <2>2
<1>12. CASE Portrait
  BY <1>0, <1>12 DEF Portrait, DeepTypes
<1>13. CASE Packaged
  <2>1. left' \in Seq(Titles)
    <3>1. CASE left' = left
      BY <3>1 DEF DeepTypes
    <3>2. ASSUME NEW late \in SUBSET missing, left' \in SetToSeqs(packages \cup late)
          PROVE  left' \in Seq(Titles)
      <4>1. packages \cup late \in SUBSET Titles
        BY DEF LibraryTypes
      <4>2. IsFiniteSet(packages \cup late)
        BY <4>1, FS_Subset DEF DeepAssumption
      <4>3. left' \in Seq(packages \cup late)
        BY <3>2, <4>2, ListFacts
      <4> QED
        BY <4>1, <4>3
    <3> QED
      BY <1>13, <3>1, <3>2 DEF Packaged
  <2> QED
    BY <1>0, <1>13, <2>1 DEF Packaged, DeepTypes
<1>14. CASE Playlist
  <2>1. CASE GivesUp
    BY <1>0, <1>14, <2>1 DEF Playlist, DeepTypes
  <2>2. CASE ~GivesUp
    <3>1. left' = Tail(left) /\ left # <<>>
      BY <1>14, <2>2 DEF Playlist, GivesUp
    <3>2. left' \in Seq(Titles)
      BY <3>1, HeadTailProperties DEF DeepTypes
    <3>3. gone' \in {gone, gone + 1} /\ gone # MaxGone
      BY <1>14, <2>2 DEF Playlist, GivesUp
    <3>4. gone' \in 0..MaxGone
      BY <3>3 DEF DeepTypes, DeepAssumption
    <3> QED
      BY <1>0, <1>14, <3>2, <3>4 DEF Playlist, DeepTypes
  <2> QED
    BY <2>1, <2>2
<1>15. CASE CatalogConsole
  <2>1. 0 \in 0..MaxGone
    BY DEF DeepAssumption
  <2>2. <<>> \in Seq(Titles)
    BY EmptySeq
  <2> QED
    BY <1>0, <1>15, <2>1, <2>2 DEF CatalogConsole, DeepTypes
<1> QED
  BY <1>1, <1>2, <1>3, <1>4, <1>5, <1>6, <1>7, <1>8, <1>9, <1>10, <1>11, <1>12, <1>13, <1>14, <1>15
     DEF DeepNext

\* So do those who change the library and the apps meanwhile.
LEMMA LibraryTypesStep ==
  ASSUME LibraryTypes, LibraryNext
  PROVE  LibraryTypes'
<1>1. CASE \E t \in Titles : TitleAdded(t)
  BY <1>1 DEF TitleAdded, LibraryTypes
<1>2. CASE \E t \in Titles : TitleRemoved(t)
  BY <1>2 DEF TitleRemoved, LibraryTypes
<1>3. CASE \E t \in Titles : PackageRemoved(t)
  BY <1>3 DEF PackageRemoved, LibraryTypes
<1>4. CASE \E p \in People : PersonRemoved(p)
  BY <1>4 DEF PersonRemoved, LibraryTypes
<1>5. CASE \E m \in Mounts \cup {Portal} : Redeployed(m)
  BY <1>5 DEF Redeployed, LibraryTypes
<1> QED
  BY <1>1, <1>2, <1>3, <1>4, <1>5 DEF LibraryNext

\* The rest: the results, the token, where the run is and what it was asked for.
RunTypes ==
  /\ step \in Steps
  /\ results \in Seq(ResultLines)
  /\ token \in Tokens \cup {Nil}
  /\ odd \in 0..(MaxOdd + 2)
  /\ signIn \in BOOLEAN
  /\ code \in {0, 1, Nil}

\* These are all the variables there are.
LEMMA TypeParts == TypeOK <=> SignInTypes /\ DeepTypes /\ LibraryTypes /\ RunTypes
BY DEF TypeOK, SignInTypes, DeepTypes, LibraryTypes, RunTypes

\* The names of the deep checks are names of checks.
LEMMA DeepNames ==
  ASSUME NEW s \in DeepSteps
  PROVE  /\ SpeaksOf(s) \in Checks /\ NextOf(s) \in Steps
         /\ NextOf(s) \notin SigningIn \cup {"launchpad", "done"}
<1>1. /\ SpeaksOf(s) \in OnceChecks \cup {"app"}
      /\ NextOf(s) \in (DeepSteps \ {"launchpad"}) \cup {"report"}
  <2>1. CASE s = "chino-api"
    BY <2>1 DEF SpeaksOf, NextOf, OnceChecks, DeepSteps
  <2>2. CASE s \in {"launchpad", "apps", "asset", "console"}
    BY <2>2 DEF SpeaksOf, NextOf, OnceChecks, DeepSteps
  <2>3. CASE s \in {"items", "series", "detail", "poster", "search"}
    BY <2>3 DEF SpeaksOf, NextOf, OnceChecks, ChinoChecks, DeepSteps
  <2>4. CASE s \in {"person", "portrait", "packaged", "playlist"}
    BY <2>4 DEF SpeaksOf, NextOf, OnceChecks, ChinoChecks, DeepSteps
  <2> QED
    BY <2>1, <2>2, <2>3, <2>4 DEF DeepSteps
<1>2. OnceChecks \cup {"app"} \subseteq Checks
  BY DEF OnceChecks, ChinoChecks, Checks
<1>3. (DeepSteps \ {"launchpad"}) \cup {"report"} \subseteq Steps \ (SigningIn \cup {"launchpad", "done"})
  BY DEF DeepSteps, Steps, SigningIn
<1> QED
  BY <1>1, <1>2, <1>3

\* A deep check adds to the results, and counts what was odd (deep.go).
LEMMA DeepLines ==
  ASSUME results \in Seq(ResultLines), DeepMove
  PROVE  /\ results' \in Seq(ResultLines)
         /\ step' \in Steps /\ step' \notin SigningIn \cup {"launchpad", "done"}
         /\ \/ odd' = odd
            \/ odd' = odd + 1 /\ odd < MaxOdd /\ HasFailed'
         /\ HasFailed => HasFailed'
<1>1. CASE Silently
  <2>1. step' \in {"asset", "chino-api", "items", "series", "playlist"}
    BY <1>1 DEF Silently
  <2> QED
    BY <1>1, <2>1 DEF Silently, Steps, SigningIn, HasFailed
<1>2. CASE \E status \in Statuses : Aloud(status)
  <2>1. PICK status \in Statuses : Aloud(status)
    BY <1>2
  <2>2. SpeaksOf(step) \in Checks
    BY DeepNames DEF DeepMove
  <2>3. /\ results' \in Seq(ResultLines)
        /\ HasFailed' <=> HasFailed \/ status = "fail"
        /\ step' = NextOf(step)
    BY <2>1, <2>2, SaysFacts DEF Aloud
  <2>4. odd' = odd \/ (odd' = odd + 1 /\ odd < MaxOdd /\ status = "fail")
    BY <2>1 DEF Aloud
  <2> QED
    BY <2>3, <2>4, DeepNames DEF DeepMove
<1> QED
  BY <1>1, <1>2 DEF DeepMove

\* A step keeps the values of their kinds (Run, doctor.go:102-160).
LEMMA TypeStep ==
  ASSUME SignInAssumption, DeepAssumption, DoctorAssumption, TypeOK, TokenInv, TroubleInv, ReadInv,
         [Next]_doctorVars
  PROVE  TypeOK'
<1>0. SignInTypes /\ DeepTypes /\ LibraryTypes /\ RunTypes
  BY TypeParts
<1>1. CASE StaticChecks
  <2>1. results' \in Seq(ResultLines) /\ odd' \in {0, 1}
    BY <1>1, OutsideFacts DEF OfOutside
  <2>2. step' \in Steps
    BY <1>1 DEF StaticChecks, Steps
  <2>3. RunTypes'
    BY <1>0, <1>1, <2>1, <2>2 DEF StaticChecks, RunTypes, DeepAssumption
  <2>4. SignInTypes' /\ DeepTypes' /\ LibraryTypes'
    BY <1>0, <1>1 DEF StaticChecks, SignInTypes, DeepTypes, LibraryTypes, signInVars, deepVars,
                      libraryVars
  <2> QED
    BY <2>3, <2>4, TypeParts DEF TypeOK, SignInTypes, DeepTypes, LibraryTypes, RunTypes
<1>2. CASE SignInNext /\ UNCHANGED <<libraryVars, deepVars, signIn, code>>
  <2>1. SignInMove
    BY <1>2, SignInMoves
  <2>2. results' \in Seq(ResultLines) /\ step' \in Steps
    BY <2>1 DEF SignInMove, Stopped, WentOn, SigningIn, Steps
  <2>3. odd <= 1 /\ odd' \in {odd, odd + 1}
    BY <2>1 DEF SignInMove, TroubleInv
  <2>4. odd' \in 0..(MaxOdd + 2)
    BY <1>0, <2>3 DEF RunTypes, DeepAssumption
  <2>5. RunTypes'
    BY <1>0, <1>2, <2>1, <2>2, <2>4 DEF SignInMove, RunTypes
  <2>6. SignInTypes'
    BY <1>0, <1>2, SignInTypesStep
  <2>7. DeepTypes' /\ LibraryTypes'
    BY <1>0, <1>2 DEF DeepTypes, LibraryTypes, deepVars, libraryVars
  <2> QED
    BY <2>5, <2>6, <2>7, TypeParts DEF TypeOK, SignInTypes, DeepTypes, LibraryTypes, RunTypes
<1>3. CASE DeepNext /\ UNCHANGED <<signIn, code>>
  <2>1. DeepMove
    BY <1>3, DeepMoves
  <2>2. /\ results' \in Seq(ResultLines) /\ step' \in Steps
        /\ odd' = odd \/ (odd' = odd + 1 /\ odd < MaxOdd)
    BY <1>0, <2>1, DeepLines DEF RunTypes
  <2>3. odd' \in 0..(MaxOdd + 2)
    BY <1>0, <2>2 DEF RunTypes, DeepAssumption
  <2>4. /\ UNCHANGED <<creds, bearer, form, hops, callback, visited>>
        /\ UNCHANGED <<token, titles, packages, missing, people, build>>
    BY <1>3 DEF DeepNext, Launchpad, AppPage, AppAsset, AppsChecked, NoChino, ListMovies, ListSeries,
       Items, ItemDetail, Poster, PeopleSearch, Person, Portrait, Packaged, Playlist, CatalogConsole,
       signInVars, libraryVars
  <2>5. RunTypes' /\ SignInTypes' /\ LibraryTypes'
    BY <1>0, <1>3, <2>2, <2>3, <2>4 DEF RunTypes, SignInTypes, LibraryTypes
  <2>6. DeepTypes'
    BY <1>0, <1>3, DeepTypesStep DEF ReadInv
  <2> QED
    BY <2>5, <2>6, TypeParts DEF TypeOK, SignInTypes, DeepTypes, LibraryTypes, RunTypes
<1>4. CASE Exits
  <2>1. RunTypes'
    BY <1>0, <1>4 DEF Exits, RunTypes, Steps
  <2>2. SignInTypes' /\ DeepTypes' /\ LibraryTypes'
    BY <1>0, <1>4 DEF Exits, SignInTypes, DeepTypes, LibraryTypes, signInVars, deepVars, libraryVars
  <2> QED
    BY <2>1, <2>2, TypeParts DEF TypeOK, SignInTypes, DeepTypes, LibraryTypes, RunTypes
<1>5. CASE LibraryNext /\ UNCHANGED <<signIn, code>>
  <2>1. LibraryTypes'
    BY <1>0, <1>5, LibraryTypesStep
  <2>2. RunTypes' /\ SignInTypes' /\ DeepTypes'
    BY <1>0, <1>5 DEF LibraryNext, RunTypes, SignInTypes, DeepTypes, signInVars, deepVars
  <2> QED
    BY <2>1, <2>2, TypeParts DEF TypeOK, SignInTypes, DeepTypes, LibraryTypes, RunTypes
<1>6. CASE UNCHANGED doctorVars
  BY <1>6 DEF doctorVars, TypeOK, signInVars, deepVars, libraryVars
<1> QED
  BY <1>1, <1>2, <1>3, <1>4, <1>5, <1>6 DEF Next

----------------------------------------------------------------------------
(* The password, the token and the exit code. *)

\* What the deep checks and the exit leave of the sign-in.
LEMMA DeepLeaves ==
  DeepNext => UNCHANGED <<signInVars, token, libraryVars>>
BY DEF DeepNext, Launchpad, AppPage, AppAsset, AppsChecked, NoChino, ListMovies, ListSeries, Items,
       ItemDetail, Poster, PeopleSearch, Person, Portrait, Packaged, Playlist, CatalogConsole

\* What the access token says ends the sign-in, well or not (checkAccessToken,
\* signin.go:344-374).
LEMMA AccessEnds ==
  ASSUME TypeOK, TokenInv, CheckAccessToken
  PROVE  step' \in {"launchpad", "report"}
<1>1. token \in Tokens
  BY DEF TypeOK, TokenInv, OwnToken, CheckAccessToken
<1>2. token.claims \in {"opaque", "issuer", "audience", "good"}
  BY <1>1 DEF Tokens, Claims
<1> QED
  BY <1>2 DEF CheckAccessToken, Says

\* No step but the sending of the form types the password (submitLogin, signin.go:509-548).
LEMMA PasswordStep ==
  ASSUME TypeOK, PasswordInv, TokenInv, [Next]_doctorVars
  PROVE  PasswordInv'
<1> USE DEF PasswordInv
<1>1. CASE StaticChecks
  BY <1>1 DEF StaticChecks, signInVars, BeforeThePassword
<1>2. CASE Credentials
  BY <1>2 DEF Credentials, Says, signInVars, BeforeThePassword
<1>3. CASE ReadConfig
  BY <1>3 DEF ReadConfig, Says, StopsAt, signInVars, BeforeThePassword
<1>4. CASE Metadata
  BY <1>4 DEF Metadata, Says, StopsAt, BeforeThePassword
<1>5. CASE \E to \in Origins : Redirected(to)
  BY <1>5 DEF Redirected, Follows, MayFollow, Browses, StopsAt, BeforeThePassword
<1>6. CASE NoWayForward
  BY <1>6 DEF NoWayForward, Browses, StopsAt, signInVars, BeforeThePassword
<1>7. CASE \E f \in Forms : LoginPage(f)
  BY <1>7 DEF LoginPage, Says, BeforeThePassword
<1>8. CASE \E cb \in Callbacks : RedirectedBack(cb)
  BY <1>8 DEF RedirectedBack, Browses, Says, StopsAt, BeforeThePassword
<1>9. CASE SubmitLogin
  <2>1. CASE MaySend(form)
    <3>1. typed = <<>> /\ form.action = "provider" /\ form.method = "post"
      BY <1>9, <2>1 DEF SubmitLogin, MaySend, BeforeThePassword
    <3>2. typed' = << [to |-> "provider", by |-> "post"] >>
      BY <1>9, <2>1, <3>1 DEF SubmitLogin
    <3>3. step' = "submitted" /\ visited' \subseteq {"provider"}
      BY <1>9, <2>1, <3>1 DEF SubmitLogin
    <3> QED
      BY <3>2, <3>3 DEF BeforeThePassword
  <2>2. CASE ~MaySend(form)
    BY <1>9, <2>2 DEF SubmitLogin, StopsAt, BeforeThePassword
  <2> QED
    BY <2>1, <2>2
<1>10. CASE ReadCallback
  BY <1>10 DEF ReadCallback, Says, StopsAt, BeforeThePassword
<1>11. CASE Exchange
  BY <1>11 DEF Exchange, StopsAt, signInVars, BeforeThePassword
<1>12. CASE CheckAccessToken
  <2>1. typed' = typed /\ visited' = visited
    BY <1>12 DEF CheckAccessToken, signInVars
  <2>2. step = "access" /\ step' \in {"launchpad", "report"}
    BY <1>12, AccessEnds DEF CheckAccessToken
  <2> QED
    BY <1>12, <2>1, <2>2 DEF BeforeThePassword
<1>13. CASE DeepNext /\ UNCHANGED <<signIn, code>>
  <2>1. step' \notin SigningIn
    BY <1>13, DeepMoves, DeepLines DEF TypeOK
  <2>2. typed' = typed /\ visited' = visited
    BY <1>13, DeepLeaves DEF signInVars
  <2> QED
    BY <2>1, <2>2 DEF BeforeThePassword, SigningIn
<1>14. CASE Exits
  BY <1>14 DEF Exits, signInVars, BeforeThePassword
<1>15. CASE LibraryNext
  BY <1>15 DEF LibraryNext, signInVars
<1>16. CASE UNCHANGED doctorVars
  BY <1>16 DEF doctorVars, signInVars
<1> QED
  BY <1>1, <1>2, <1>3, <1>4, <1>5, <1>6, <1>7, <1>8, <1>9, <1>10, <1>11, <1>12, <1>13, <1>14, <1>15,
     <1>16 DEF Next, SignInNext

\* The token that is sent is one whose ID token named this sign-in, or the borrowed one
\* (Exchange, authcode.go:124-187; borrowed, signin.go:165-186).
LEMMA TokenStep ==
  ASSUME SignInAssumption, TypeOK, TokenInv, [Next]_doctorVars
  PROVE  TokenInv'
<1>1. CASE StaticChecks
  <2>1. step = "outside" /\ bearerTo' = bearerTo /\ step' \in {"credentials", "report"}
    BY <1>1 DEF StaticChecks, deepVars
  <2>2. bearerTo = {}
    BY <2>1 DEF TokenInv, SigningIn
  <2> QED
    BY <2>1, <2>2 DEF TokenInv, SigningIn
<1>2. CASE SignInNext /\ UNCHANGED <<libraryVars, deepVars, signIn, code>>
  <2>1. SignInMove
    BY <1>2, SignInMoves
  <2>2. bearerTo' = {}
    BY <1>2, <2>1 DEF TokenInv, SignInMove, deepVars
  <2>3. step' \in SigningIn \cup {"launchpad", "report"}
    BY <2>1 DEF SignInMove
  <2>4. step' = "config" /\ creds' = {} => token' # Nil /\ ~token'.signedIn
    <3>1. CASE Credentials
      <4>1. ASSUME NEW c \in Claims
            PROVE  /\ [signedIn |-> FALSE, session |-> "other", claims |-> c] \in Tokens
                   /\ ~[signedIn |-> FALSE, session |-> "other", claims |-> c].signedIn
        BY DEF Tokens, Sessions
      <4>2. CASE creds = {"user", "password"}
        BY <3>1, <4>2 DEF Credentials, signInVars
      <4>3. CASE creds = {} /\ bearer = "usable"
        BY <3>1, <4>1, <4>3 DEF Credentials, SignInAssumption
      <4> QED
        BY <3>1, <4>2, <4>3 DEF Credentials, Says
    <3>2. step' # "config" \/ Credentials
      BY <1>2, AccessEnds DEF SignInNext, ReadConfig, Metadata, Redirected, Browses, NoWayForward,
         LoginPage, RedirectedBack, SubmitLogin, ReadCallback, Exchange, Says, StopsAt
    <3> QED
      BY <3>1, <3>2
  <2>5. step' \in {"access", "launchpad"} => OwnToken'
    <3>1. CASE ReadConfig
      BY <3>1 DEF ReadConfig, TokenInv, OwnToken, Says, StopsAt, signInVars
    <3>2. CASE Exchange
      <4>1. CASE WentOn /\ token' \in Tokens /\ token'.session = "own"
        BY <4>1 DEF OwnToken, SignInAssumption
      <4>2. CASE Stopped
        BY <4>2 DEF Stopped
      <4> QED
        BY <3>2, <4>1, <4>2, ExchangeFacts DEF TypeOK
    <3>3. CASE CheckAccessToken
      BY <3>3 DEF CheckAccessToken, TokenInv, OwnToken
    <3>4. step' \notin {"access", "launchpad"} \/ ReadConfig \/ Exchange \/ CheckAccessToken
      BY <1>2 DEF SignInNext, Credentials, Metadata, Redirected, Browses, NoWayForward,
         LoginPage, RedirectedBack, SubmitLogin, ReadCallback, Says, StopsAt
    <3> QED
      BY <3>1, <3>2, <3>3, <3>4
  <2> QED
    BY <2>2, <2>3, <2>4, <2>5 DEF TokenInv, SigningIn
<1>3. CASE DeepNext /\ UNCHANGED <<signIn, code>>
  <2>1. DeepMove /\ token' = token
    BY <1>3, DeepMoves, DeepLeaves
  <2>2. step' \notin SigningIn \cup {"launchpad"}
    BY <2>1, DeepLines DEF TypeOK
  <2>3. step \notin SigningIn \cup {"report", "done"}
    BY <2>1 DEF DeepMove, DeepSteps, SigningIn
  <2>4. OwnToken'
    BY <2>1, <2>3 DEF TokenInv, OwnToken
  <2>5. bearerTo' # {} /\ bearerTo' \subseteq {"instance"}
    BY <2>1, <2>3 DEF TokenInv, DeepMove
  <2> QED
    BY <2>2, <2>4, <2>5 DEF TokenInv, SigningIn
<1>4. CASE Exits
  BY <1>4 DEF Exits, TokenInv, OwnToken, SigningIn, signInVars, deepVars
<1>5. CASE LibraryNext
  BY <1>5 DEF LibraryNext, TokenInv, OwnToken, signInVars, deepVars
<1>6. CASE UNCHANGED doctorVars
  BY <1>6 DEF doctorVars, TokenInv, OwnToken, signInVars, deepVars
<1> QED
  BY <1>1, <1>2, <1>3, <1>4, <1>5, <1>6 DEF Next

\* No step takes a line back, and the exit code is theirs (Run, doctor.go:102-160).
LEMMA TroubleStep ==
  ASSUME DoctorAssumption, TypeOK, TokenInv, TroubleInv, [Next]_doctorVars
  PROVE  TroubleInv'
<1>0. odd \in Nat
  BY DEF TypeOK
<1>1. CASE StaticChecks
  <2>1. odd' \in {0, 1} /\ (HasFailed' <=> odd' = 1)
    BY <1>1, OutsideFacts
  <2>2. step' # "done"
    BY <1>1 DEF StaticChecks
  <2> QED
    BY <2>1, <2>2 DEF TroubleInv
<1>2. CASE SignInNext /\ UNCHANGED <<libraryVars, deepVars, signIn, code>>
  <2>1. SignInMove
    BY <1>2, SignInMoves
  <2>2. step' # "done" /\ step \in SigningIn
    BY <2>1 DEF SignInMove, SigningIn
  <2>3. CASE odd' = odd /\ (HasFailed' <=> HasFailed)
    BY <2>2, <2>3 DEF TroubleInv
  <2>4. CASE odd' = odd + 1 /\ HasFailed' /\ step' \notin SigningIn
    BY <2>2, <2>4 DEF TroubleInv
  <2> QED
    BY <2>1, <2>3, <2>4 DEF SignInMove
<1>3. CASE DeepNext /\ UNCHANGED <<signIn, code>>
  <2>1. /\ step' \notin SigningIn \cup {"done"}
        /\ odd' = odd \/ HasFailed'
        /\ HasFailed => HasFailed'
    BY <1>3, DeepMoves, DeepLines DEF TypeOK
  <2> QED
    BY <2>1 DEF TroubleInv
<1>4. CASE Exits
  <2>1. HasFailed' <=> HasFailed
    BY <1>4 DEF Exits, HasFailed
  <2> QED
    BY <1>4, <2>1 DEF Exits, TroubleInv, SigningIn
<1>5. CASE LibraryNext /\ UNCHANGED <<signIn, code>>
  BY <1>5 DEF LibraryNext, TroubleInv, HasFailed
<1>6. CASE UNCHANGED doctorVars
  BY <1>6 DEF doctorVars, TroubleInv, HasFailed
<1> QED
  BY <1>1, <1>2, <1>3, <1>4, <1>5, <1>6 DEF Next

\* The lines that were said stay (add, doctor.go).
LinesStay ==
  /\ HasFailed => HasFailed'
  /\ \A c \in {"sign-in", "chino-api: config", "signed-in checks"} : Skipped(c) => Skipped(c)'

\* A line more, and the lines before it.
LEMMA AppendedStays ==
  ASSUME NEW line, results \in Seq(ResultLines), line \in ResultLines,
         results' = Append(results, line)
  PROVE  LinesStay /\ \E i \in DOMAIN results' : results'[i] = line
<1>1. /\ DOMAIN results' = 1..(Len(results) + 1) /\ DOMAIN results = 1..Len(results)
      /\ \A i \in 1..Len(results) : results'[i] = results[i]
      /\ results'[Len(results) + 1] = line /\ Len(results) \in Nat
  BY AppendProperties, LenProperties
<1>2. \A i \in DOMAIN results : i \in DOMAIN results' /\ results'[i] = results[i]
  BY <1>1
<1>3. HasFailed => HasFailed'
  BY <1>2 DEF HasFailed
<1>4. ASSUME NEW c, Skipped(c)
      PROVE  Skipped(c)'
  BY <1>2, <1>4 DEF Skipped, Result
<1>5. Len(results) + 1 \in DOMAIN results'
  BY <1>1
<1>6. \E i \in DOMAIN results' : results'[i] = line
  BY <1>1, <1>5
<1>7. LinesStay
  BY <1>3, <1>4 DEF LinesStay
<1> QED
  BY <1>6, <1>7

\* What a check says, is said from there on (Result, doctor.go:36-50).
LEMMA SaysStays ==
  ASSUME NEW check \in Checks, NEW status \in Statuses, NEW next, results \in Seq(ResultLines),
         Says(check, status, next)
  PROVE  /\ LinesStay /\ step' = next
         /\ status = "fail" => HasFailed'
         /\ status = "skip" => Skipped(check)'
<1>1. Result(check, status) \in ResultLines /\ results' = Append(results, Result(check, status))
      /\ step' = next
  BY ResultFacts DEF Says
<1>2. LinesStay /\ \E i \in DOMAIN results' : results'[i] = Result(check, status)
  BY <1>1, AppendedStays
<1>3. status = "fail" => HasFailed'
  BY <1>2, ResultFacts DEF HasFailed
<1>4. status = "skip" => Skipped(check)'
  BY <1>2 DEF Skipped, Result
<1> QED
  BY <1>1, <1>2, <1>3, <1>4

\* No step takes a line back (Run, doctor.go:102-160).
LEMMA DeepStays ==
  ASSUME results \in Seq(ResultLines), DeepMove
  PROVE  LinesStay
<1>1. CASE Silently
  BY <1>1 DEF Silently, LinesStay, HasFailed, Skipped
<1>2. CASE \E status \in Statuses : Aloud(status)
  BY <1>2, SaysStays, DeepNames DEF Aloud, DeepMove
<1> QED
  BY <1>1, <1>2 DEF DeepMove

\* An access token of another issuer ends the sign-in: as a failure when the doctor got it
\* itself, with the one line for what is not run when it was borrowed; and one for another
\* audience is a failure only of the doctor's own (checkAccessToken, signin.go:344-374).
LEMMA AccessGreen ==
  ASSUME SignInAssumption, TypeOK, TokenInv, GreenInv, CheckAccessToken
  PROVE  \/ HasFailed'
         \/ creds = {} /\ step' = "report" /\ Skipped("signed-in checks")'
         \/ step' = "launchpad" /\ (token.signedIn => token.claims \in {"opaque", "good"})
<1>1. token \in Tokens /\ token # Nil
  BY DEF TypeOK, TokenInv, OwnToken, CheckAccessToken
<1>2. token.claims \in {"opaque", "issuer", "audience", "good"}
  BY <1>1 DEF Tokens, Claims
<1> DEFINE check == "sign-in: access token"
           v == Verdict(token)
<1>3. /\ check \in Checks /\ v \in Statuses /\ v = (IF token.signedIn THEN "fail" ELSE "skip")
      /\ results \in Seq(ResultLines)
  BY DEF Verdict, Statuses, Checks, TypeOK
<1>4. CASE token.claims \in {"opaque", "good"}
  BY <1>4 DEF CheckAccessToken, Says
<1>5. CASE token.claims = "audience"
  <2>1. Says(check, v, "launchpad")
    BY <1>5 DEF CheckAccessToken
  <2> HIDE DEF check, v
  <2>2. step' = "launchpad" /\ (v = "fail" => HasFailed')
    BY <1>3, <2>1, SaysStays
  <2> QED
    BY <1>3, <2>2
<1>6. CASE token.claims = "issuer"
  <2> DEFINE line == Result(check, v)
  <2>1. results' = results \o <<line, NotRun>> /\ step' = "report"
    BY <1>6 DEF CheckAccessToken
  <2>2. line \in ResultLines /\ line.status = v
    BY <1>3, ResultFacts
  <2> HIDE DEF line, v
  <2> DEFINE first == Append(results, line)
             n == Len(results)
  <2>3. results' = Append(first, NotRun)
    BY <2>1
  <2>7. /\ first \in Seq(ResultLines) /\ n \in Nat /\ Len(first) = n + 1
        /\ first[n + 1] = line
    <3>1. results \in Seq(ResultLines) /\ line \in ResultLines
      BY <2>2 DEF TypeOK
    <3> QED
      BY <3>1, AppendProperties, LenProperties
  <2> HIDE DEF first, n
  <2>8. /\ Len(results') = n + 2 /\ DOMAIN results' = 1..(n + 2)
        /\ \A i \in 1..(n + 1) : results'[i] = first[i]
        /\ results'[n + 2] = NotRun
    <3>1. NotRun \in ResultLines
      BY NotRunFacts
    <3> DEFINE longer == Append(first, NotRun)
    <3>2. /\ longer \in Seq(ResultLines) /\ Len(longer) = Len(first) + 1
          /\ \A i \in 1..Len(first) : longer[i] = first[i]
          /\ longer[Len(first) + 1] = NotRun
      BY <2>7, <3>1, AppendProperties
    <3>3. DOMAIN longer = 1..Len(longer)
      BY <3>2, LenProperties
    <3> HIDE DEF longer
    <3>4. results' = longer
      BY <2>3 DEF longer
    <3> QED
      BY <2>7, <3>2, <3>3, <3>4
  <2>4. /\ n + 1 \in DOMAIN results' /\ n + 2 \in DOMAIN results'
        /\ results'[n + 1] = line /\ results'[n + 2] = NotRun
    BY <2>7, <2>8
  <2>5. CASE token.signedIn
    <3>1. n + 1 \in DOMAIN results' /\ results'[n + 1].status = "fail"
      BY <1>3, <2>2, <2>4, <2>5
    <3> QED
      BY <3>1 DEF HasFailed
  <2>6. CASE ~token.signedIn
    <3>2. Skipped("signed-in checks")'
      BY <2>4 DEF Skipped, NotRun
    <3>3. creds = {}
      BY <1>1, <2>6 DEF GreenInv
    <3> QED
      BY <2>1, <3>2, <3>3
  <2> QED
    BY <2>5, <2>6
<1> QED
  BY <1>2, <1>4, <1>5, <1>6

\* Every step of a sign-in goes on with it, or ends it with a failure, with a line for why
\* nobody is signed in, or with a token (run, signin.go:112-156).
LEMMA SignInGreen ==
  ASSUME SignInAssumption, TypeOK, TokenInv, GreenInv, SignInNext, step' \notin SigningIn
  PROVE  \/ HasFailed'
         \/ creds = {} /\ Skipped("sign-in")'
         \/ Skipped("chino-api: config")'
         \/ creds = {} /\ step' = "report" /\ Skipped("signed-in checks")'
         \/ /\ step' = "launchpad" /\ token' = token /\ token # Nil
            /\ token.signedIn => token.claims \in {"opaque", "good"}
<1>1. results \in Seq(ResultLines) /\ SignInChecks \subseteq Checks
      /\ {"ok", "warn", "fail", "skip"} = Statuses
  BY SignInLines DEF TypeOK
<1>2. ASSUME NEW check \in SignInChecks, StopsAt(check)
      PROVE  HasFailed'
  BY <1>1, <1>2, SignInStops
<1>3. CASE Credentials
  <2>1. "sign-in" \in Checks /\ "config" \in SigningIn
    BY DEF Checks, SigningIn
  <2>2. \/ Says("sign-in", "fail", "report")
        \/ creds = {} /\ Says("sign-in", "skip", "report")
    BY <1>3, <2>1 DEF Credentials, Says
  <2> QED
    BY <1>1, <2>1, <2>2, SaysStays
<1>4. CASE ReadConfig
  <2>1. "chino-api: config" \in SignInChecks /\ {"access", "issuer"} \subseteq SigningIn
    BY DEF SignInChecks, SigningIn
  <2>2. StopsAt("chino-api: config") \/ Says("chino-api: config", "skip", "report")
    BY <1>4, <2>1 DEF ReadConfig, Says
  <2> QED
    BY <1>1, <1>2, <2>1, <2>2, SaysStays
<1>5. CASE Metadata
  <2>1. "sign-in: issuer" \in SignInChecks /\ "authorization" \in SigningIn
    BY DEF SignInChecks, SigningIn
  <2> QED
    BY <1>2, <1>5, <2>1 DEF Metadata, Says
<1>6. CASE \E to \in Origins : Redirected(to)
  <2>1. CheckOf(step) \in SignInChecks /\ (Browses => step \in SigningIn)
    BY DEF SignInChecks, CheckOf, Browses, SigningIn
  <2> QED
    BY <1>2, <1>6, <2>1 DEF Redirected
<1>7. CASE NoWayForward
  <2>1. CheckOf(step) \in SignInChecks
    BY DEF SignInChecks, CheckOf
  <2> QED
    BY <1>2, <1>7, <2>1 DEF NoWayForward
<1>8. CASE \E f \in Forms : LoginPage(f)
  BY <1>8 DEF LoginPage, Says, SigningIn
<1>9. CASE \E cb \in Callbacks : RedirectedBack(cb)
  <2>1. "sign-in: authorization" \in SignInChecks /\ "callback" \in SigningIn
    BY DEF SignInChecks, SigningIn
  <2> QED
    BY <1>2, <1>9, <2>1 DEF RedirectedBack, Says
<1>10. CASE SubmitLogin
  <2>1. "sign-in: login form" \in SignInChecks /\ "submitted" \in SigningIn
    BY DEF SignInChecks, SigningIn
  <2> QED
    BY <1>2, <1>10, <2>1 DEF SubmitLogin
<1>11. CASE ReadCallback
  <2>1. "sign-in: callback" \in SignInChecks /\ "exchange" \in SigningIn
    BY DEF SignInChecks, SigningIn
  <2> QED
    BY <1>2, <1>11, <2>1 DEF ReadCallback, Says
<1>12. CASE Exchange
  <2>1. "access" \in SigningIn
    BY DEF SigningIn
  <2> QED
    BY <1>1, <1>12, <2>1, ExchangeFacts
<1>13. CASE CheckAccessToken
  <2>1. token' = token /\ token # Nil
    BY <1>13 DEF CheckAccessToken, TokenInv, OwnToken
  <2> QED
    BY <1>13, <2>1, AccessGreen
<1> QED
  BY <1>3, <1>4, <1>5, <1>6, <1>7, <1>8, <1>9, <1>10, <1>11, <1>12, <1>13 DEF SignInNext

\* Only an exchange and the borrowing of a session give a token, the latter only without
\* an account in the environment (Credentials, signin.go:158-186; Exchange).
LEMMA OwnWithAccount ==
  ASSUME SignInAssumption, TypeOK, GreenInv, SignInNext
  PROVE  /\ creds' = creds
         /\ creds # {} /\ token' # Nil => token'.signedIn
<1>1. creds' = creds
  BY DEF SignInNext, Credentials, ReadConfig, Metadata, Redirected, NoWayForward, LoginPage,
         RedirectedBack, SubmitLogin, ReadCallback, Exchange, CheckAccessToken, signInVars
<1>2. CASE token' = token
  BY <1>1, <1>2 DEF GreenInv
<1>3. CASE Credentials /\ creds = {}
  BY <1>1, <1>3
<1>4. CASE Exchange
  <2>1. token' = token \/ token'.signedIn
    <3>1. ASSUME NEW s, NEW c
          PROVE  [signedIn |-> TRUE, session |-> s, claims |-> c].signedIn
      OBVIOUS
    <3> QED
      BY <1>4, <3>1 DEF Exchange
  <2> QED
    BY <1>1, <1>2, <2>1
<1>5. token' = token \/ (Credentials /\ creds = {}) \/ Exchange
  BY DEF SignInNext, Credentials, ReadConfig, Metadata, Redirected, NoWayForward, LoginPage,
         RedirectedBack, SubmitLogin, ReadCallback, CheckAccessToken
<1> QED
  BY <1>1, <1>2, <1>3, <1>4, <1>5

\* So a run that is over either failed, or says why nobody was signed in, or used the
\* platform with a token it was right to use.
LEMMA GreenStep ==
  ASSUME SignInAssumption, TypeOK, TokenInv, GreenInv, [Next]_doctorVars
  PROVE  GreenInv'
<1>1. CASE StaticChecks
  <2>1. /\ signIn' = signIn /\ creds' = creds /\ token' = token
        /\ step' = IF signIn THEN "credentials" ELSE "report"
    BY <1>1 DEF StaticChecks, signInVars
  <2>2. "credentials" \in SigningIn
    BY DEF SigningIn
  <2> QED
    BY <2>1, <2>2 DEF GreenInv
<1>2. CASE SignInNext /\ UNCHANGED <<libraryVars, deepVars, signIn, code>>
  <2>1. /\ creds' = creds /\ bearerTo' = bearerTo /\ signIn' = signIn
        /\ creds # {} /\ token' # Nil => token'.signedIn
    BY <1>2, OwnWithAccount DEF deepVars
  <2>2. bearerTo = {}
    BY <1>2, SignInMoves DEF SignInMove, TokenInv
  <2>3. CASE step' \in SigningIn
    BY <2>1, <2>3 DEF GreenInv
  <2>4. CASE step' \notin SigningIn
    BY <1>2, <2>1, <2>2, <2>4, SignInGreen DEF GreenInv
  <2> QED
    BY <2>3, <2>4
<1>3. CASE DeepNext /\ UNCHANGED <<signIn, code>>
  <2>1. DeepMove /\ UNCHANGED <<token, creds, signIn>>
    BY <1>3, DeepMoves, DeepLeaves DEF signInVars
  <2>2. LinesStay
    BY <2>1, DeepStays DEF TypeOK
  <2>3. step \notin SigningIn \cup {"report", "done"}
    BY <2>1 DEF DeepMove, DeepSteps, SigningIn
  <2>4. bearerTo' # {}
    BY <2>1, <2>3 DEF TokenInv, DeepMove
  <2>5. signIn =>
          \/ HasFailed
          \/ creds = {} /\ Skipped("sign-in")
          \/ Skipped("chino-api: config")
          \/ token # Nil /\ (token.signedIn => token.claims \in {"opaque", "good"})
    BY <2>3 DEF GreenInv
  <2> QED
    BY <2>1, <2>2, <2>4, <2>5 DEF GreenInv, LinesStay
<1>4. CASE Exits
  <2>1. /\ UNCHANGED <<results, token, creds, bearerTo, signIn>>
        /\ step = "report" /\ step' = "done"
    BY <1>4 DEF Exits, signInVars, deepVars
  <2>2. "report" \notin SigningIn
    BY DEF SigningIn
  <2> QED
    BY <2>1, <2>2 DEF GreenInv, HasFailed, Skipped
<1>5. CASE LibraryNext /\ UNCHANGED <<signIn, code>>
  BY <1>5 DEF LibraryNext, GreenInv, HasFailed, Skipped, signInVars, deepVars
<1>6. CASE UNCHANGED doctorVars
  BY <1>6 DEF doctorVars, GreenInv, HasFailed, Skipped, signInVars, deepVars
<1> QED
  BY <1>1, <1>2, <1>3, <1>4, <1>5, <1>6 DEF Next

\* An item, a page and an app are what the library and the apps were when they were read
\* (items, deep.go:391-423; appPage and asset, 270-360).
LEMMA ReadStep ==
  ASSUME DeepAssumption, TypeOK, TokenInv, ReadInv, [Next]_doctorVars
  PROVE  ReadInv'
<1> DEFINE still == [m \in Mounts \cup {Portal} |-> 0]
<1>1. CASE StaticChecks
  BY <1>1 DEF StaticChecks, ReadInv, libraryVars, deepVars
<1>2. CASE SignInNext /\ UNCHANGED <<libraryVars, deepVars, signIn, code>>
  <2>1. step' = step \/ step' # "asset"
    BY <1>2, AccessEnds DEF SignInNext, Credentials, ReadConfig, Metadata, Redirected,
       NoWayForward, LoginPage, RedirectedBack, SubmitLogin, ReadCallback, Exchange, Says, StopsAt
  <2> QED
    BY <1>2, <2>1 DEF ReadInv, libraryVars, deepVars
<1>3. CASE AppPage
  <2>1. UNCHANGED <<libraryVars, item>> /\ mounts # <<>>
    BY <1>3 DEF AppPage
  <2>2. step' # "asset" \/ (page' = build[Head(mounts)] /\ mounts' = mounts)
    BY <1>3 DEF AppPage, Fails, Says
  <2>3. Head(mounts) \in Mounts \cup {Portal}
    BY <2>1, HeadTailProperties DEF TypeOK
  <2>4. build = still => build[Head(mounts)] = 0
    BY <2>3
  <2> HIDE DEF still
  <2> QED
    BY <2>1, <2>2, <2>4 DEF ReadInv, libraryVars, still
<1>4. CASE DeepNext /\ ~AppPage
  <2>1. UNCHANGED libraryVars
    BY <1>4, DeepLeaves
  <2>2. item' = item \/ item' \in titles \cup {Nil}
    BY <1>4 DEF DeepNext, Launchpad, AppPage, AppAsset, AppsChecked, NoChino, ListMovies,
       ListSeries, Items, ItemDetail, Poster, PeopleSearch, Person, Portrait, Packaged, Playlist,
       CatalogConsole, deepVars
  <2>3. step' # "asset"
    <3>1. \/ Launchpad \/ AppAsset \/ AppsChecked \/ NoChino \/ ListMovies \/ ListSeries
          \/ ItemDetail \/ Poster \/ PeopleSearch \/ Person \/ Portrait \/ Packaged \/ Playlist
          \/ CatalogConsole
      BY <1>4 DEF DeepNext
    <3> QED
      BY <3>1 DEF Launchpad, AppAsset, AppsChecked, AppsDone, NoChino, ListMovies, ListSeries, Items,
         ItemDetail, Poster, PeopleSearch, Person, Portrait, Packaged, Playlist, CatalogConsole,
         LoadsImage, Fails, Says
  <2> QED
    BY <2>1, <2>2, <2>3 DEF ReadInv, libraryVars
<1>5. CASE Exits
  BY <1>5 DEF Exits, ReadInv, libraryVars, deepVars
<1>6. CASE LibraryNext
  <2>1. UNCHANGED <<step, item, page, mounts>>
    BY <1>6 DEF LibraryNext, deepVars
  <2>2. CASE \E t \in Titles : TitleAdded(t) \/ TitleRemoved(t) \/ PackageRemoved(t)
    BY <2>1, <2>2 DEF TitleAdded, TitleRemoved, PackageRemoved, Changes, ReadInv
  <2>3. CASE \E p \in People : PersonRemoved(p)
    BY <2>1, <2>3 DEF PersonRemoved, Changes, ReadInv
  <2>4. CASE \E m \in Mounts \cup {Portal} : Redeployed(m)
    BY <2>1, <2>4 DEF Redeployed, Changes, ReadInv
  <2> QED
    BY <1>6, <2>2, <2>3, <2>4 DEF LibraryNext
<1>7. CASE UNCHANGED doctorVars
  BY <1>7 DEF doctorVars, ReadInv, libraryVars, deepVars
<1> QED
  BY <1>1, <1>2, <1>3, <1>4, <1>5, <1>6, <1>7 DEF Next

----------------------------------------------------------------------------
(* The packaged titles, and a platform that passes. *)

\* The titles not in the list any more grow with the head that was gone.
LEMMA TailFacts ==
  ASSUME NEW S, NEW list \in Seq(S), list # <<>>,
         \A i, j \in DOMAIN list : list[i] = list[j] => i = j
  PROVE  /\ Tail(list) \in Seq(S)
         /\ \A i, j \in DOMAIN Tail(list) : Tail(list)[i] = Tail(list)[j] => i = j
         /\ \A i \in DOMAIN Tail(list) : Tail(list)[i] # Head(list)
         /\ \A i \in DOMAIN Tail(list) : \E k \in DOMAIN list : Tail(list)[i] = list[k]
         /\ \A k \in DOMAIN list : list[k] = Head(list) \/ \E i \in DOMAIN Tail(list) : Tail(list)[i] = list[k]
         /\ Head(list) = list[1] /\ 1 \in DOMAIN list
<1> DEFINE n == Len(list)
           tail == Tail(list)
<1>1. /\ n \in Nat \ {0} /\ DOMAIN list = 1..n /\ tail \in Seq(S) /\ Head(list) = list[1]
      /\ Len(tail) = n - 1 /\ DOMAIN tail = 1..(n - 1)
      /\ \A i \in 1..(n - 1) : tail[i] = list[i + 1]
  BY HeadTailProperties, LenProperties, EmptySeq
<1> HIDE DEF n, tail
<1>2. \A i \in 1..(n - 1) : i + 1 \in 1..n /\ i + 1 # 1
  BY <1>1
<1>3. \A k \in 1..n : k = 1 \/ (k - 1 \in 1..(n - 1) /\ tail[k - 1] = list[k])
  BY <1>1
<1>4. \A i, j \in DOMAIN tail : tail[i] = tail[j] => i = j
  <2> SUFFICES ASSUME NEW i \in 1..(n - 1), NEW j \in 1..(n - 1), tail[i] = tail[j]
               PROVE  i = j
    BY <1>1
  <2>1. i + 1 = j + 1
    BY <1>1, <1>2
  <2> QED
    BY <2>1
<1>5. 1 \in 1..n
  BY <1>1
<1>6. \A i \in DOMAIN tail : tail[i] # Head(list)
  <2> SUFFICES ASSUME NEW i \in 1..(n - 1), tail[i] = list[1]
               PROVE  FALSE
    BY <1>1
  <2>1. i + 1 = 1
    BY <1>1, <1>2, <1>5
  <2> QED
    BY <1>2, <2>1
<1> QED
  BY <1>1, <1>2, <1>3, <1>4, <1>5, <1>6 DEF tail

\* The titles that are gone are as many at least as those the run has met (playback,
\* deep.go:649-704).
LEMMA PlaylistStep ==
  ASSUME DeepAssumption, TypeOK, TokenInv, PlaylistInv, [Next]_doctorVars
  PROVE  PlaylistInv'
<1> DEFINE met == {t \in missing : \A i \in DOMAIN left : left[i] # t}
<1>0. /\ IsFiniteSet(missing) /\ IsFiniteSet(met) /\ Cardinality(met) \in Nat
      /\ gone \in Nat /\ left \in Seq(Titles)
  <2>1. IsFiniteSet(missing)
    BY FS_Subset DEF DeepAssumption, TypeOK
  <2>2. met \in SUBSET missing
    OBVIOUS
  <2> HIDE DEF met
  <2> QED
    BY <2>1, <2>2, FS_Subset, FS_CardinalityType DEF TypeOK
<1>1. CASE StaticChecks
  BY <1>1 DEF StaticChecks, PlaylistInv, libraryVars, deepVars
<1>2. CASE SignInNext /\ UNCHANGED <<libraryVars, deepVars, signIn, code>>
  <2>1. /\ step' = step \/ step' # "playlist"
        /\ step \notin {"playlist", "console"}
    <3>1. /\ step = "access" => step' \in {"access", "launchpad", "report"}
          /\ CheckAccessToken => step = "access" /\ step' \in {"launchpad", "report"}
      BY <1>2, AccessEnds DEF SignInNext, Credentials, ReadConfig, Metadata, Redirected, Browses,
         NoWayForward, LoginPage, RedirectedBack, SubmitLogin, ReadCallback, Exchange,
         CheckAccessToken
    <3> QED
      BY <1>2, <3>1 DEF SignInNext, Credentials, ReadConfig, Metadata, Redirected, Browses,
         NoWayForward, LoginPage, RedirectedBack, SubmitLogin, ReadCallback, Exchange, Says, StopsAt
  <2> QED
    BY <1>2, <2>1 DEF PlaylistInv, libraryVars, deepVars
<1>3. CASE Packaged
  <2>1. gone' = 0 /\ UNCHANGED <<packages, missing>>
    BY <1>3 DEF Packaged, PlaylistInv, libraryVars
  <2>2. CASE step' # "playlist"
    BY <2>1, <2>2 DEF PlaylistInv
  <2>3. CASE step' = "playlist"
    <3>1. PICK late \in SUBSET missing : left' \in SetToSeqs(packages \cup late) /\ left' # <<>>
      BY <1>3, <2>3 DEF Packaged, Fails, Says
    <3>2. IsFiniteSet(packages \cup late)
      BY <3>1, FS_Subset DEF DeepAssumption, TypeOK
    <3>3. /\ left' \in Seq(packages \cup late)
          /\ \A i, j \in DOMAIN left' : left'[i] = left'[j] => i = j
          /\ \A t \in packages \cup late : \E i \in DOMAIN left' : left'[i] = t
      BY <3>1, <3>2, ListFacts
    <3>4. \A i \in DOMAIN left' : left'[i] \in packages \cup missing
      BY <3>1, <3>3
    <3>5. met' \in SUBSET missing
      BY <2>1
    <3> HIDE DEF met
    <3>6. Cardinality(met') \in Nat
      BY <1>0, <3>5, FS_Subset, FS_CardinalityType
    <3> QED
      BY <2>1, <2>3, <3>1, <3>3, <3>4, <3>6 DEF PlaylistInv, met
  <2> QED
    BY <2>2, <2>3
<1>4. CASE Playlist
  <2>1. CASE step' = "playlist"
    <3>1. /\ left # <<>> /\ left' = Tail(left) /\ Head(left) \notin packages
          /\ gone' = gone + 1 /\ step = "playlist" /\ UNCHANGED <<packages, missing>>
      BY <1>4, <2>1 DEF Playlist, GivesUp, Fails, Says, libraryVars
    <3> DEFINE gap == Head(left)
    <3>2. /\ \A i, j \in DOMAIN left' : left'[i] = left'[j] => i = j
          /\ \A i \in DOMAIN left' : left'[i] # gap
          /\ \A i \in DOMAIN left' : \E k \in DOMAIN left : left'[i] = left[k]
          /\ \A k \in DOMAIN left : left[k] = gap \/ \E i \in DOMAIN left' : left'[i] = left[k]
          /\ gap = left[1] /\ 1 \in DOMAIN left
      BY <1>0, <3>1, TailFacts DEF PlaylistInv
    <3> HIDE DEF gap
    <3>3. gap \in missing /\ gap \notin met
      BY <3>1, <3>2 DEF PlaylistInv, gap
    <3>4. met \cup {gap} \subseteq met' /\ met' \in SUBSET missing
      BY <3>1, <3>2, <3>3
    <3>5. gone <= Cardinality(met)
      BY <3>1 DEF PlaylistInv
    <3> HIDE DEF met
    <3>6. Cardinality(met \cup {gap}) = Cardinality(met) + 1
      BY <1>0, <3>3, FS_AddElement
    <3>7. IsFiniteSet(met') /\ Cardinality(met') \in Nat
      BY <1>0, <3>4, FS_Subset, FS_CardinalityType
    <3>8. Cardinality(met \cup {gap}) <= Cardinality(met')
      BY <3>4, <3>7, FS_Subset
    <3>9. gone' <= Cardinality(met') /\ gone' > 0
      BY <1>0, <3>1, <3>5, <3>6, <3>7, <3>8
    <3>10. \A t \in packages : \E i \in DOMAIN left' : left'[i] = t
      BY <3>1, <3>2 DEF PlaylistInv, gap
    <3>11. \A i \in DOMAIN left' : left'[i] \in packages \cup missing
      BY <3>1, <3>2 DEF PlaylistInv
    <3> QED
      BY <2>1, <3>1, <3>2, <3>9, <3>10, <3>11 DEF PlaylistInv, met
  <2>2. CASE step' # "playlist"
    <3>1. step' = "console"
      BY <1>4, <2>2 DEF Playlist, Fails, Says
    <3> QED
      BY <2>2, <3>1 DEF PlaylistInv
  <2> QED
    BY <2>1, <2>2
<1>5. CASE CatalogConsole
  <2>1. gone' = 0 /\ step' = "report"
    BY <1>5 DEF CatalogConsole, Fails, Says
  <2> QED
    BY <2>1 DEF PlaylistInv
<1>6. CASE DeepNext /\ ~Packaged /\ ~Playlist /\ ~CatalogConsole
  <2>1. \/ Launchpad \/ AppPage \/ AppAsset \/ AppsChecked \/ NoChino \/ ListMovies \/ ListSeries
        \/ ItemDetail \/ Poster \/ PeopleSearch \/ Person \/ Portrait
    BY <1>6 DEF DeepNext
  <2>2. gone' = gone /\ step \notin {"playlist", "console"}
    BY <2>1 DEF Launchpad, AppPage, AppAsset, AppsChecked, NoChino, ListMovies, ListSeries, Items,
       ItemDetail, Poster, PeopleSearch, Person, Portrait, deepVars
  <2>3. step' # "playlist"
    BY <2>1 DEF Launchpad, AppPage, AppAsset, AppsChecked, AppsDone, NoChino, ListMovies, ListSeries,
       Items, ItemDetail, Poster, PeopleSearch, Person, Portrait, LoadsImage, Fails, Says
  <2> QED
    BY <2>2, <2>3 DEF PlaylistInv
<1>7. CASE Exits
  BY <1>7 DEF Exits, PlaylistInv, deepVars
<1>8. CASE LibraryNext
  <2>1. UNCHANGED <<step, left, gone>>
    BY <1>8 DEF LibraryNext, deepVars
  <2>2. packages' \subseteq packages /\ missing \subseteq missing'
        /\ packages \cup missing \subseteq packages' \cup missing' /\ missing' \subseteq Titles
    BY <1>8 DEF LibraryNext, TitleAdded, TitleRemoved, PackageRemoved, PersonRemoved, Redeployed,
       TypeOK
  <2>3. met \subseteq met' /\ met' \in SUBSET Titles
    BY <2>1, <2>2
  <2> HIDE DEF met
  <2>4. IsFiniteSet(met') /\ Cardinality(met') \in Nat
    BY <2>3, FS_Subset, FS_CardinalityType DEF DeepAssumption
  <2>5. Cardinality(met) <= Cardinality(met')
    BY <2>3, <2>4, FS_Subset
  <2>6. gone <= Cardinality(met) => gone' <= Cardinality(met')
    BY <1>0, <2>1, <2>4, <2>5
  <2> QED
    BY <2>1, <2>2, <2>6 DEF PlaylistInv, met
<1>9. CASE UNCHANGED doctorVars
  BY <1>9 DEF doctorVars, PlaylistInv, libraryVars, deepVars
<1> QED
  BY <1>1, <1>2, <1>3, <1>4, <1>5, <1>6, <1>7, <1>8, <1>9 DEF Next

\* A line that is no failure.
LEMMA NoFailure ==
  ASSUME results \in Seq(ResultLines), NEW check \in Checks, NEW status \in {"ok", "warn", "skip"},
         NEW next, Says(check, status, next)
  PROVE  HasFailed' <=> HasFailed
<1>1. status \in Statuses /\ status # "fail"
  BY DEF Statuses
<1> QED
  BY <1>1, SaysFacts

\* With every answer as it has to be, and what was taken away but packages of which some
\* are left, no deep check fails.
LEMMA DeepPasses ==
  ASSUME DeepAssumption, TypeOK, ReadInv, PlaylistInv, LeftAlone, DeepNext, odd' = 0
  PROVE  HasFailed' <=> HasFailed
<1> DEFINE Quiet == results' = results \/
             \E status \in {"ok", "warn", "skip"} : Says(SpeaksOf(step), status, NextOf(step))
<1>0. odd = 0 /\ step \in DeepSteps /\ SpeaksOf(step) \in Checks
  BY DeepMoves, DeepNames DEF LeftAlone, DeepMove
<1>1. SUFFICES Quiet
  <2>1. results' = results => (HasFailed' <=> HasFailed)
    BY DEF HasFailed
  <2> QED
    BY <1>0, <1>1, <2>1, NoFailure DEF TypeOK
<1>2. ASSUME NEW check, NEW next, Fails(check, next)
      PROVE  FALSE
  BY <1>0, <1>2 DEF Fails
<1>3. ASSUME NEW check, NEW image, NEW next, LoadsImage(check, image, next)
      PROVE  \E status \in {"ok", "warn", "skip"} : Says(check, status, next)
  BY <1>2, <1>3 DEF LoadsImage
<1>4. /\ people = People
      /\ build = [m \in Mounts \cup {Portal} |-> 0]
      /\ step = "asset" => page = 0 /\ mounts # <<>>
      /\ item \in titles \cup {Nil}
  BY DEF ReadInv, LeftAlone
<1>5. CASE Launchpad
  BY <1>2, <1>5 DEF Launchpad, SpeaksOf, NextOf
<1>6. CASE AppPage
  BY <1>2, <1>6 DEF AppPage, SpeaksOf, NextOf
<1>7. CASE AppAsset
  <2>1. Head(mounts) \in Mounts \cup {Portal}
    BY <1>4, <1>7, HeadTailProperties DEF TypeOK, AppAsset
  <2>2. build[Head(mounts)] = page
    BY <1>4, <1>7, <2>1 DEF AppAsset
  <2>3. Says("app", "ok", "apps")
    BY <1>2, <1>7, <2>2 DEF AppAsset
  <2> QED
    BY <1>7, <2>3 DEF AppAsset, SpeaksOf, NextOf
<1>8. CASE AppsChecked
  BY <1>8 DEF AppsChecked
<1>9. CASE NoChino
  BY <1>9 DEF NoChino, SpeaksOf, NextOf
<1>10. CASE ListMovies
  BY <1>2, <1>10 DEF ListMovies, Items, SpeaksOf, NextOf
<1>11. CASE ListSeries
  BY <1>2, <1>11 DEF ListSeries, Items, EmptyCatalog, SpeaksOf, NextOf
<1>12. CASE ItemDetail
  BY <1>2, <1>4, <1>12 DEF ItemDetail, SpeaksOf, NextOf
<1>13. CASE Poster
  BY <1>3, <1>13 DEF Poster, SpeaksOf, NextOf
<1>14. CASE PeopleSearch
  BY <1>2, <1>14 DEF PeopleSearch, SpeaksOf, NextOf
<1>15. CASE Person
  BY <1>2, <1>4, <1>15 DEF Person, SpeaksOf, NextOf, TypeOK
<1>16. CASE Portrait
  <2>1. person # Nil => person.id \in people
    BY <1>4 DEF TypeOK, PersonRecords
  <2> QED
    BY <1>2, <1>3, <1>16, <2>1 DEF Portrait, SpeaksOf, NextOf
<1>17. CASE Packaged
  BY <1>2, <1>17 DEF Packaged, SpeaksOf, NextOf
<1>18. CASE Playlist
  <2> DEFINE met == {t \in missing : \A i \in DOMAIN left : left[i] # t}
  <2>1. step = "playlist" /\ gone \in Nat /\ MaxGone \in Nat \ {0}
    <3>1. step = "playlist"
      BY <1>18 DEF Playlist
    <3>2. gone \in Nat /\ MaxGone \in Nat \ {0}
      BY DEF TypeOK, DeepAssumption
    <3> QED
      BY <3>1, <3>2
  <2>2. IsFiniteSet(missing) /\ met \in SUBSET missing
    BY FS_Subset DEF DeepAssumption, TypeOK
  <2>3. gone <= Cardinality(met)
    BY <2>1 DEF PlaylistInv
  <2>4. left = <<>> => packages = {} /\ gone > 0
    <3>1. left = <<>> => DOMAIN left = {}
      BY EmptySeq
    <3> QED
      BY <2>1, <3>1 DEF PlaylistInv
  <2> HIDE DEF met
  <2>5. Cardinality(met) <= Cardinality(missing) /\ Cardinality(missing) \in Nat /\ Cardinality(met) \in Nat
    BY <2>2, FS_Subset, FS_CardinalityType
  <2>6. gone > 0 => missing # {}
    BY <2>1, <2>3, <2>5, FS_EmptySet
  <2>7. ~GivesUp
    <3>1. CASE left = <<>>
      BY <2>4, <2>6, <3>1 DEF LeftAlone
    <3>2. CASE gone = MaxGone
      <4>1. Cardinality(missing) >= MaxGone /\ missing # {}
        BY <2>1, <2>3, <2>5, <2>6, <3>2
      <4>2. ~(Cardinality(missing) < MaxGone)
        BY <2>1, <2>5, <4>1
      <4> QED
        BY <4>1, <4>2 DEF LeftAlone
    <3> QED
      BY <3>1, <3>2 DEF GivesUp
  <2> QED
    BY <1>2, <1>18, <2>7 DEF Playlist, SpeaksOf, NextOf
<1>19. CASE CatalogConsole
  BY <1>2, <1>19 DEF CatalogConsole, SpeaksOf, NextOf
<1> QED
  BY <1>5, <1>6, <1>7, <1>8, <1>9, <1>10, <1>11, <1>12, <1>13, <1>14, <1>15, <1>16, <1>17, <1>18,
     <1>19 DEF DeepNext

\* On a sound platform no step fails a check (deep.go:18-23, 649-704).
LEMMA SoundStep ==
  ASSUME DoctorAssumption, DeepAssumption, TypeOK, TokenInv, TroubleInv, ReadInv, PlaylistInv,
         LeftAlone => ~HasFailed, [Next]_doctorVars
  PROVE  (LeftAlone => ~HasFailed)'
<1>0. SUFFICES ASSUME LeftAlone'
               PROVE  ~HasFailed'
  OBVIOUS
<1>1. odd \in Nat /\ odd' = 0
  <2>1. odd \in Nat
    BY DEF TypeOK
  <2>2. odd' = 0
    BY <1>0 DEF LeftAlone
  <2> QED
    BY <2>1, <2>2
<1>2. CASE StaticChecks
  BY <1>1, <1>2, OutsideFacts
<1>3. CASE SignInNext /\ UNCHANGED <<libraryVars, deepVars, signIn, code>>
  <2>1. odd' = odd /\ (HasFailed' <=> HasFailed)
    BY <1>1, <1>3, SignInMoves DEF SignInMove
  <2>2. LeftAlone
    BY <1>0, <1>3, <2>1 DEF LeftAlone, libraryVars
  <2> QED
    BY <2>1, <2>2
<1>4. CASE DeepNext /\ UNCHANGED <<signIn, code>>
  <2>1. odd' = odd
    BY <1>1, <1>4, DeepMoves, DeepLines DEF TypeOK
  <2>2. LeftAlone
    BY <1>0, <1>4, <2>1, DeepLeaves DEF LeftAlone, libraryVars
  <2> QED
    BY <1>1, <1>4, <2>2, DeepPasses
<1>5. CASE Exits
  BY <1>0, <1>5 DEF Exits, LeftAlone, HasFailed, libraryVars
<1>6. CASE LibraryNext
  <2>1. UNCHANGED <<odd, results>>
    BY <1>6 DEF LibraryNext
  <2>2. changed \subseteq changed' /\ missing \subseteq missing' /\ missing' \subseteq Titles
    BY <1>6 DEF LibraryNext, TitleAdded, TitleRemoved, PackageRemoved, PersonRemoved, Redeployed,
       Changes, TypeOK
  <2>3. packages' \subseteq packages
    BY <1>6 DEF LibraryNext, TitleAdded, TitleRemoved, PackageRemoved, PersonRemoved, Redeployed
  <2>4. IsFiniteSet(missing') /\ Cardinality(missing') \in Nat
    BY <2>2, FS_Subset, FS_CardinalityType DEF DeepAssumption
  <2>5. Cardinality(missing) <= Cardinality(missing') /\ Cardinality(missing) \in Nat
    BY <2>2, <2>4, FS_Subset, FS_CardinalityType
  <2>6. Cardinality(missing') < MaxGone => Cardinality(missing) < MaxGone
    BY <2>4, <2>5 DEF DeepAssumption
  <2>7. LeftAlone
    BY <1>0, <2>1, <2>2, <2>3, <2>6 DEF LeftAlone
  <2> QED
    BY <2>1, <2>7 DEF HasFailed
<1>7. CASE UNCHANGED doctorVars
  BY <1>0, <1>7 DEF doctorVars, LeftAlone, HasFailed, libraryVars
<1> QED
  BY <1>2, <1>3, <1>4, <1>5, <1>6, <1>7 DEF Next

----------------------------------------------------------------------------
(* Every check once. *)

\* The checks of the web client's API, and the steps at which they are made.
ChinoSteps == {"items", "series", "detail", "poster", "search", "person", "portrait"}

\* What has been said at the next step is what had been said at this one, and its check.
LEMMA SaidNext ==
  ASSUME NEW s \in ChinoSteps, NEW c \in ChinoChecks
  PROVE  /\ NextOf(s) \in SaidBy(c) <=> s \in SaidBy(c) \/ c = SpeaksOf(s)
         /\ SpeaksOf(s) \in ChinoChecks /\ s \notin SaidBy(SpeaksOf(s))
         /\ NextOf(s) \in {"detail", "poster", "search", "person", "portrait", "packaged"}
<1>1. CASE s \in {"items", "series"}
  <2>1. NextOf(s) = "detail" /\ SpeaksOf(s) = "chino-api: items"
    BY <1>1 DEF NextOf, SpeaksOf
  <2> QED
    BY <1>1, <2>1 DEF ChinoChecks, SaidBy
<1>2. CASE s = "detail"
  <2>1. NextOf(s) = "poster" /\ SpeaksOf(s) = "chino-api: item detail"
    BY <1>2 DEF NextOf, SpeaksOf
  <2> QED
    BY <1>2, <2>1 DEF ChinoChecks, SaidBy
<1>3. CASE s = "poster"
  <2>1. NextOf(s) = "search" /\ SpeaksOf(s) = "chino-api: poster"
    BY <1>3 DEF NextOf, SpeaksOf
  <2> QED
    BY <1>3, <2>1 DEF ChinoChecks, SaidBy
<1>4. CASE s = "search"
  <2>1. NextOf(s) = "person" /\ SpeaksOf(s) = "chino-api: people search"
    BY <1>4 DEF NextOf, SpeaksOf
  <2> QED
    BY <1>4, <2>1 DEF ChinoChecks, SaidBy
<1>5. CASE s = "person"
  <2>1. NextOf(s) = "portrait" /\ SpeaksOf(s) = "chino-api: person"
    BY <1>5 DEF NextOf, SpeaksOf
  <2> QED
    BY <1>5, <2>1 DEF ChinoChecks, SaidBy
<1>6. CASE s = "portrait"
  <2>1. NextOf(s) = "packaged" /\ SpeaksOf(s) = "chino-api: portrait"
    BY <1>6 DEF NextOf, SpeaksOf
  <2> QED
    BY <1>6, <2>1 DEF ChinoChecks, SaidBy
<1> QED
  BY <1>1, <1>2, <1>3, <1>4, <1>5, <1>6 DEF ChinoSteps

\* The playback is the last, and before and after the API nothing of it is said.
LEMMA SaidLast ==
  ASSUME NEW c \in ChinoChecks
  PROVE  /\ \A s \in {"apps", "asset", "chino-api", "items", "series", "launchpad"} : s \notin SaidBy(c)
         /\ \A s \in {"packaged", "playlist"} : s \in SaidBy(c) <=> c # "chino-api: playback"
BY DEF ChinoChecks, SaidBy

\* A step that says nothing leaves what was said, and one that speaks adds its own line.
LEMMA DeepSays ==
  ASSUME results \in Seq(ResultLines), DeepMove
  PROVE  \/ /\ Silently
            /\ \A c : (Unsaid(c)' <=> Unsaid(c)) /\ (SaidOnce(c)' <=> SaidOnce(c))
         \/ /\ step' = NextOf(step)
            /\ \A c : c = SpeaksOf(step) /\ Unsaid(c) => SaidOnce(c)'
            /\ \A c : c # SpeaksOf(step) =>
                 (Unsaid(c)' <=> Unsaid(c)) /\ (SaidOnce(c)' <=> SaidOnce(c))
<1>1. CASE Silently
  BY <1>1 DEF Silently, Unsaid, SaidOnce
<1>2. CASE \E status \in Statuses : Aloud(status)
  <2>1. PICK status \in Statuses : Aloud(status)
    BY <1>2
  <2>2. SpeaksOf(step) \in Checks
    BY DeepNames DEF DeepMove
  <2>3. /\ step' = NextOf(step)
        /\ SameBut({SpeaksOf(step)}, results', results)
        /\ Times(SpeaksOf(step), results') = Times(SpeaksOf(step), results) + 1
    BY <2>1, <2>2, SaysFacts DEF Aloud
  <2>4. ASSUME NEW c, c # SpeaksOf(step)
        PROVE  (Unsaid(c)' <=> Unsaid(c)) /\ (SaidOnce(c)' <=> SaidOnce(c))
    BY <2>3, <2>4 DEF Unsaid, SaidOnce, SameBut
  <2>5. ASSUME NEW c, c = SpeaksOf(step), Unsaid(c)
        PROVE  SaidOnce(c)'
    <3> DEFINE before == Times(c, results)
               then == Times(c, results')
    <3>1. before = 0 /\ then = before + 1
      BY <2>3, <2>5 DEF Unsaid
    <3> HIDE DEF before, then
    <3>2. then = 1
      BY <3>1
    <3> QED
      BY <3>2 DEF then, SaidOnce
  <2> QED
    BY <2>3, <2>4, <2>5
<1> QED
  BY <1>1, <1>2 DEF DeepMove

\* Where the run is after a check, what was said is what CheckInv says (deepChecks,
\* deep.go:191-204; run, signin.go:112-156).
LEMMA CheckStep ==
  ASSUME DoctorAssumption, TypeOK, TokenInv, CheckInv, [Next]_doctorVars
  PROVE  CheckInv'
<1>0. results \in Seq(ResultLines) /\ ~(\E c : Unsaid(c) /\ SaidOnce(c))
  BY DEF TypeOK, Unsaid, SaidOnce
<1>1. CASE StaticChecks
  <2>1. bearerTo' = {}
    BY <1>1 DEF StaticChecks, TokenInv, SigningIn, deepVars
  <2>2. OnceChecks \cap OutsideChecks = {} /\ "signed-in checks" \in OnceChecks
    BY DEF OnceChecks, ChinoChecks, OutsideChecks
  <2>3. \A c \in OnceChecks : Unsaid(c)'
    BY <1>1, <2>2, OutsideFacts DEF Unsaid
  <2> QED
    BY <2>1, <2>2, <2>3 DEF CheckInv
<1>2. CASE SignInNext /\ UNCHANGED <<libraryVars, deepVars, signIn, code>>
  <2>1. SignInMove
    BY <1>2, SignInMoves
  <2>2. bearerTo = {} /\ bearerTo' = {} /\ step \notin {"report", "done"}
    BY <1>2, <2>1 DEF SignInMove, TokenInv, SigningIn, deepVars
  <2>3. \A c \in OnceChecks : Unsaid(c)
    BY <2>2 DEF CheckInv
  <2>4. CASE WentOn
    <3>1. \A c \in OnceChecks : Unsaid(c)'
      BY <2>3, <2>4 DEF WentOn, Unsaid
    <3> QED
      BY <2>2, <3>1, SignInLines DEF CheckInv
  <2>5. CASE Stopped
    <3>1. \A c \in OnceChecks \ {"signed-in checks"} : Unsaid(c)'
      BY <2>3, <2>5 DEF Stopped, Unsaid
    <3>2. Times("signed-in checks", results) = 0
      BY <2>3, SignInLines DEF Unsaid
    <3>3. Times("signed-in checks", results') = 1
      <4> DEFINE before == Times("signed-in checks", results)
                 then == Times("signed-in checks", results')
      <4>1. before = 0 /\ then = before + 1
        BY <2>5, <3>2 DEF Stopped
      <4> HIDE DEF before, then
      <4>2. then = 1
        BY <4>1
      <4> QED
        BY <4>2 DEF then
    <3>4. SaidOnce("signed-in checks")'
      BY <3>3 DEF SaidOnce
    <3>5. step' = "report" /\ (token' # Nil \/ HasFailed')
      BY <2>1, <2>5 DEF SignInMove, Stopped
    <3> QED
      BY <2>2, <3>1, <3>4, <3>5 DEF CheckInv
  <2> QED
    BY <2>1, <2>4, <2>5 DEF SignInMove
<1>3. CASE DeepNext /\ UNCHANGED <<signIn, code>>
  <2> DEFINE Others == {"portal: launchpad", "katalog-manager: graphql", "signed-in checks", "chino-api"}
             Same(c) == (Unsaid(c)' <=> Unsaid(c)) /\ (SaidOnce(c)' <=> SaidOnce(c))
  <2>0. \A c \in ChinoChecks : c \notin Others /\ c # "app"
    BY DEF ChinoChecks
  <2>1. DeepMove
    BY <1>3, DeepMoves
  <2>2. \/ Silently /\ \A c : Same(c)
        \/ /\ step' = NextOf(step)
           /\ \A c : c = SpeaksOf(step) /\ Unsaid(c) => SaidOnce(c)'
           /\ \A c : c # SpeaksOf(step) => Same(c)
    BY <1>0, <2>1, DeepSays
  <2>3. bearerTo' # {}
    BY <2>1 DEF DeepMove, DeepSteps, TokenInv, SigningIn
  <2>4. step # "launchpad" => bearerTo # {}
    BY <2>1 DEF DeepMove, DeepSteps, TokenInv, SigningIn
  <2>5. CASE Silently /\ \A c : Same(c)
    <3>1. step # "launchpad" /\ step \notin {"console", "report", "done"} /\ step' \notin {"console", "report", "done"}
      BY <2>5 DEF Silently
    <3>2. \A c \in ChinoChecks : step' \in SaidBy(c) <=> step \in SaidBy(c)
      BY <2>5, SaidLast DEF Silently
    <3> QED
      BY <2>3, <2>4, <2>5, <3>1, <3>2 DEF CheckInv
  <2>6. CASE /\ step' = NextOf(step)
             /\ \A c : c = SpeaksOf(step) /\ Unsaid(c) => SaidOnce(c)'
             /\ \A c : c # SpeaksOf(step) => Same(c)
    <3> HIDE DEF Same
    <3>0. \A c : Same(c) => (Unsaid(c)' <=> Unsaid(c)) /\ (SaidOnce(c)' <=> SaidOnce(c))
      BY DEF Same
    <3>1. CASE step = "launchpad"
      <4>1. SpeaksOf(step) = "portal: launchpad" /\ step' = "apps"
        BY <2>6, <3>1 DEF SpeaksOf, NextOf
      <4>2. bearerTo = {}
        BY <3>1 DEF TokenInv
      <4>3. \A c \in OnceChecks : Unsaid(c)
        BY <3>1, <4>2 DEF CheckInv
      <4>4. SaidOnce("portal: launchpad")' /\ \A c \in OnceChecks \ {"portal: launchpad"} : Unsaid(c)'
        BY <2>6, <3>0, <4>1, <4>3 DEF OnceChecks
      <4>5. ChinoChecks \subseteq OnceChecks /\ Others \subseteq OnceChecks
        BY DEF OnceChecks
      <4> QED
        BY <2>0, <2>3, <4>1, <4>4, <4>5, SaidLast DEF CheckInv
    <3>2. CASE step \in {"apps", "asset"}
      <4>1. SpeaksOf(step) = "app" /\ step' = "apps"
        BY <2>6, <3>2 DEF SpeaksOf, NextOf
      <4>2. \A c \in ChinoChecks \cup Others : Same(c)
        BY <2>0, <2>6, <4>1
      <4>3. \A c \in ChinoChecks : step \notin SaidBy(c) /\ step' \notin SaidBy(c)
        BY <3>2, <4>1, SaidLast
      <4> QED
        BY <2>3, <2>4, <3>0, <3>2, <4>1, <4>2, <4>3 DEF CheckInv
    <3>3. CASE step = "chino-api"
      <4>1. SpeaksOf(step) = "chino-api" /\ step' = "console"
        BY <2>6, <3>3 DEF SpeaksOf, NextOf
      <4>2. \A c \in ChinoChecks \cup (Others \ {"chino-api"}) : Same(c)
        BY <2>0, <2>6, <4>1
      <4>3. \A c \in ChinoChecks : step \notin SaidBy(c)
        BY <3>3, SaidLast
      <4> QED
        BY <2>3, <2>4, <2>6, <3>0, <3>3, <4>1, <4>2, <4>3 DEF CheckInv
    <3>4. CASE step \in ChinoSteps
      <4>1. /\ SpeaksOf(step) \in ChinoChecks /\ step \notin SaidBy(SpeaksOf(step))
            /\ step' \notin {"console", "report", "done"}
            /\ step \notin {"launchpad", "console", "report", "done"}
        <5>1. "chino-api: items" \in ChinoChecks
          BY DEF ChinoChecks
        <5> QED
          BY <2>6, <3>4, <5>1, SaidNext DEF ChinoSteps
      <4>2. \A c \in Others : Same(c)
        BY <2>0, <2>6, <4>1
      <4>3. \A c \in ChinoChecks : step' \in SaidBy(c) <=> step \in SaidBy(c) \/ c = SpeaksOf(step)
        BY <2>6, <3>4, SaidNext
      <4>4. \A c \in ChinoChecks : IF step \in SaidBy(c) THEN SaidOnce(c) ELSE Unsaid(c)
        BY <2>4, <4>1 DEF CheckInv
      <4>5. ASSUME NEW c \in ChinoChecks
            PROVE  IF step' \in SaidBy(c) THEN SaidOnce(c)' ELSE Unsaid(c)'
        <5>1. CASE c = SpeaksOf(step)
          BY <2>6, <4>1, <4>3, <4>4, <5>1
        <5>2. CASE c # SpeaksOf(step)
          BY <2>6, <3>0, <4>3, <4>4, <5>2
        <5> QED
          BY <5>1, <5>2
      <4> QED
        BY <2>3, <2>4, <3>0, <4>1, <4>2, <4>5 DEF CheckInv
    <3>5. CASE step \in {"packaged", "playlist"}
      <4>1. SpeaksOf(step) = "chino-api: playback" /\ step' = "console"
        BY <2>6, <3>5 DEF SpeaksOf, NextOf
      <4>2. \A c \in Others : Same(c)
        BY <2>0, <2>6, <4>1 DEF ChinoChecks
      <4>3. \A c \in ChinoChecks : IF c # "chino-api: playback" THEN SaidOnce(c) ELSE Unsaid(c)
        BY <2>4, <3>5, SaidLast DEF CheckInv
      <4>4. \A c \in ChinoChecks : SaidOnce(c)'
        BY <2>6, <3>0, <4>1, <4>3
      <4> QED
        BY <2>3, <2>4, <3>0, <3>5, <4>1, <4>2, <4>4 DEF CheckInv
    <3>6. CASE step = "console"
      <4>1. SpeaksOf(step) = "katalog-manager: graphql" /\ step' = "report"
        BY <2>6, <3>6 DEF SpeaksOf, NextOf
      <4>2. \A c \in ChinoChecks \cup (Others \ {"katalog-manager: graphql"}) : Same(c)
        BY <2>0, <2>6, <4>1
      <4> QED
        BY <2>3, <2>4, <2>6, <3>0, <3>6, <4>1, <4>2 DEF CheckInv
    <3> QED
      BY <2>1, <3>1, <3>2, <3>3, <3>4, <3>5, <3>6 DEF DeepMove, DeepSteps, ChinoSteps
  <2> QED
    BY <2>2, <2>5, <2>6
<1>4. CASE Exits
  <2>1. step = "report" /\ step' = "done" /\ UNCHANGED <<results, token, bearerTo>>
    BY <1>4 DEF Exits, deepVars
  <2> QED
    BY <2>1 DEF CheckInv, Unsaid, SaidOnce, HasFailed
<1>5. CASE LibraryNext
  <2>1. UNCHANGED <<step, results, token, bearerTo>>
    BY <1>5 DEF LibraryNext, deepVars
  <2> QED
    BY <2>1 DEF CheckInv, Unsaid, SaidOnce, HasFailed
<1>6. CASE UNCHANGED doctorVars
  BY <1>6 DEF doctorVars, CheckInv, Unsaid, SaidOnce, HasFailed, deepVars
<1> QED
  BY <1>1, <1>2, <1>3, <1>4, <1>5, <1>6 DEF Next

----------------------------------------------------------------------------
(* The theorems of the doctor. *)

\* The invariant holds at the start of a run (doctor.go:102-160),
LEMMA InvInit == Init => IInv
<1> SUFFICES ASSUME Init PROVE IInv
  OBVIOUS
<1>1. TypeOK
  BY TypeInit, DoctorAssumption, DeepAssumption, SignInAssumption
<1>2. /\ step = "outside" /\ results = <<>> /\ DOMAIN results = {}
      /\ typed = <<>> /\ visited = {} /\ odd = 0 /\ bearerTo = {} /\ gone = 0
      /\ people = People /\ build = [m \in Mounts \cup {Portal} |-> 0] /\ item = Nil
  BY EmptySeq DEF Init
<1>3. ~HasFailed
  BY <1>2 DEF HasFailed
<1>4. PasswordInv
  BY <1>2 DEF PasswordInv
<1>5. TokenInv
  BY <1>2 DEF TokenInv, SigningIn
<1>6. TroubleInv
  BY <1>2 DEF TroubleInv
<1>7. ReadInv
  BY <1>2 DEF ReadInv
<1>8. PlaylistInv
  BY <1>2 DEF PlaylistInv
<1>9. CheckInv
  <2>1. ASSUME NEW c
        PROVE  Unsaid(c)
    <3>1. {i \in DOMAIN results : results[i].check = c} = {}
      BY <1>2
    <3> QED
      BY <3>1, FS_EmptySet DEF Unsaid, Times
  <2> QED
    BY <1>2, <2>1 DEF CheckInv
<1>10. GreenInv
  <2>1. "outside" \in SigningIn /\ token = Nil
    BY DEF SigningIn, Init
  <2> QED
    BY <1>2, <2>1 DEF GreenInv
<1> QED
  BY <1>1, <1>3, <1>4, <1>5, <1>6, <1>7, <1>8, <1>9, <1>10 DEF IInv

\* and every step keeps it, of the doctor as of others,
LEMMA InvNext == IInv /\ [Next]_doctorVars => IInv'
<1> SUFFICES ASSUME IInv, [Next]_doctorVars PROVE IInv'
  OBVIOUS
<1> USE DoctorAssumption, DeepAssumption, SignInAssumption
<1>1. /\ TypeOK /\ PasswordInv /\ TokenInv /\ TroubleInv /\ ReadInv /\ PlaylistInv /\ CheckInv
      /\ GreenInv
      /\ LeftAlone => ~HasFailed
  BY DEF IInv
<1>2. TypeOK'
  BY <1>1, TypeStep
<1>3. PasswordInv'
  BY <1>1, PasswordStep
<1>4. TokenInv'
  BY <1>1, TokenStep
<1>5. TroubleInv'
  BY <1>1, TroubleStep
<1>6. ReadInv'
  BY <1>1, ReadStep
<1>7. PlaylistInv'
  BY <1>1, PlaylistStep
<1>8. (LeftAlone => ~HasFailed)'
  BY <1>1, SoundStep
<1>9. CheckInv'
  BY <1>1, CheckStep
<1>10. GreenInv'
  BY <1>1, GreenStep
<1> QED
  BY <1>2, <1>3, <1>4, <1>5, <1>6, <1>7, <1>8, <1>9, <1>10 DEF IInv

\* so that it holds in every state.
LEMMA Inductive == Spec => []IInv
BY InvInit, InvNext, PTL DEF Spec

\* Every variable of a doctor run holds a value of its kind.
THEOREM TypeCorrect == Spec => []TypeOK
<1>1. IInv => TypeOK
  BY DEF IInv
<1> QED
  BY <1>1, Inductive, PTL

\* The password goes into one request, a POST to the identity provider, and the browser
\* asks nobody else anything (submitLogin, signin.go:509-548; do, 465-505).
THEOREM PasswordStaysHome == Spec => []PasswordGoesOnce
<1>1. IInv => PasswordGoesOnce
  <2> SUFFICES ASSUME PasswordInv PROVE PasswordGoesOnce
    BY DEF IInv
  <2>1. CASE typed = <<>>
    BY <2>1 DEF PasswordInv, PasswordGoesOnce
  <2>2. CASE typed = << [to |-> "provider", by |-> "post"] >>
    BY <2>2 DEF PasswordInv, PasswordGoesOnce
  <2> QED
    BY <2>1, <2>2 DEF PasswordInv
<1> QED
  BY <1>1, Inductive, PTL

\* The deep checks use a token of this very sign-in or a borrowed one, and send it to the
\* instance only (CheckIDToken, authcode.go:189-228; request, deep.go:76-117).
THEOREM TokenStaysHome == Spec => []TokenIsItsOwn
<1>1. IInv => TokenIsItsOwn
  BY DEF IInv, TokenInv, OwnToken, TokenIsItsOwn
<1> QED
  BY <1>1, Inductive, PTL

\* With every answer as it has to be, no check fails, whatever is added to the library
\* and whatever packages are removed, as long as some are left (deep.go:18-23, 649-704).
THEOREM SoundPasses == Spec => []SoundPlatformPasses
<1>1. IInv => SoundPlatformPasses
  BY DEF IInv, LeftAlone, SoundPlatformPasses
<1> QED
  BY <1>1, Inductive, PTL

\* A run with --sign-in that ends with 0 asked the instance with a token, its own when the
\* environment names an account, or a line says why not (run, signin.go:112-156; Run,
\* doctor.go:102-160).
THEOREM GreenIsEarned == Spec => []GreenIsSignedIn
<1>1. IInv => GreenIsSignedIn
  <2> SUFFICES ASSUME GreenInv, TroubleInv, step = "done", signIn, code = 0
               PROVE  GreenIsSignedIn
    BY DEF IInv, GreenIsSignedIn
  <2>1. ~HasFailed
    BY DEF TroubleInv
  <2>2. step \notin SigningIn
    BY DEF SigningIn
  <2> QED
    BY <2>1, <2>2 DEF GreenInv, GreenIsSignedIn, Skipped
<1> QED
  BY <1>1, Inductive, PTL

\* A run that signs in speaks of every check once, or once of all that were not run
\* (deepChecks, deep.go:191-204; run, signin.go:112-156).
THEOREM ChecksAreSaidOnce == Spec => []EveryCheckOnce
<1>1. IInv => EveryCheckOnce
  <2> DEFINE chino == {"chino-api: items", "chino-api: item detail", "chino-api: poster",
                       "chino-api: people search", "chino-api: person", "chino-api: portrait",
                       "chino-api: playback"}
             times(c) == Times(c, results)
  <2> SUFFICES ASSUME IInv, step = "done"
               PROVE  \/ /\ bearerTo # {} /\ times("signed-in checks") = 0
                         /\ times("portal: launchpad") = 1 /\ times("katalog-manager: graphql") = 1
                         /\ \A c \in chino : times(c) = 1 - times("chino-api")
                      \/ /\ bearerTo = {} /\ times("signed-in checks") <= 1
                         /\ times("portal: launchpad") = 0 /\ times("katalog-manager: graphql") = 0
                         /\ \A c \in chino : times(c) = 0
                         /\ times("signed-in checks") = 1 => token # Nil \/ HasFailed
    BY DEF EveryCheckOnce
  <2>0. CheckInv /\ chino = ChinoChecks
    BY DEF IInv, ChinoChecks
  <2> HIDE DEF chino
  <2>1. CASE bearerTo # {}
    <3>1. /\ times("signed-in checks") = 0
          /\ times("portal: launchpad") = 1 /\ times("katalog-manager: graphql") = 1
          /\ \/ times("chino-api") = 0 /\ \A c \in chino : times(c) = 1
             \/ times("chino-api") = 1 /\ \A c \in chino : times(c) = 0
      BY <2>0, <2>1 DEF CheckInv, Unsaid, SaidOnce
    <3> DEFINE no == times("chino-api")
    <3>2. ASSUME NEW c \in chino
          PROVE  times(c) = 1 - no
      <4> DEFINE yes == times(c)
      <4>1. (no = 0 /\ yes = 1) \/ (no = 1 /\ yes = 0)
        BY <3>1
      <4> HIDE DEF no, yes
      <4>2. yes = 1 - no
        BY <4>1
      <4> QED
        BY <4>2 DEF yes
    <3> QED
      BY <2>1, <3>1, <3>2
  <2>2. CASE bearerTo = {}
    <3> DEFINE rest == times("signed-in checks")
    <3>1. /\ \A c \in OnceChecks \ {"signed-in checks"} : times(c) = 0
          /\ rest = 0 \/ (rest = 1 /\ (token # Nil \/ HasFailed))
      BY <2>0, <2>2 DEF CheckInv, Unsaid, SaidOnce
    <3> HIDE DEF rest
    <3>3. rest <= 1 /\ (rest = 1 => token # Nil \/ HasFailed)
      <4>1. CASE rest = 0
        BY <4>1
      <4>2. CASE rest = 1 /\ (token # Nil \/ HasFailed)
        BY <4>2
      <4> QED
        BY <3>1, <4>1, <4>2
    <3>2. /\ ChinoChecks \subseteq OnceChecks \ {"signed-in checks"}
          /\ "portal: launchpad" \in OnceChecks \ {"signed-in checks"}
          /\ "katalog-manager: graphql" \in OnceChecks \ {"signed-in checks"}
      BY DEF OnceChecks, ChinoChecks
    <3>4. /\ \A c \in chino : times(c) = 0
          /\ times("portal: launchpad") = 0 /\ times("katalog-manager: graphql") = 0
      BY <2>0, <3>1, <3>2
    <3> QED
      BY <2>2, <3>3, <3>4 DEF rest
  <2> QED
    BY <2>1, <2>2
<1> QED
  BY <1>1, Inductive, PTL

----------------------------------------------------------------------------
(* The report. *)

\* A budget grants a status no less than one that is worth less, and drops the lines of
\* none before those (report.go:14-24).
Sparing(b) ==
  /\ b.limit.ok \in Nat /\ b.limit.skip \in Nat /\ b.limit.warn \in Nat /\ b.limit.fail \in Nat
  /\ b.limit.ok <= b.limit.skip /\ b.limit.skip <= b.limit.warn /\ b.limit.warn <= b.limit.fail
  /\ "skip" \in b.drops => "ok" \in b.drops
  /\ "warn" \in b.drops => "ok" \in b.drops /\ "skip" \in b.drops
  /\ "fail" \notin b.drops

\* The budgets of report.go:81-93 are such budgets, and the last leaves failures by name.
LEMMA BudgetFacts ==
  /\ Len(budgets) = 11 /\ DOMAIN budgets = 1..11
  /\ \A i \in 1..11 : Sparing(budgets[i])
  /\ budgets[11] = Budget(0, 0, 0, 0, {"ok", "skip", "warn"})
<1>1. ASSUME NEW ok \in Nat, NEW skip \in Nat, NEW warn \in Nat, NEW fail \in Nat,
             ok <= skip, skip <= warn, warn <= fail,
             NEW drops, drops = {} \/ drops = {"ok"} \/ drops = {"ok", "skip"}
                        \/ drops = {"ok", "skip", "warn"}
      PROVE  Sparing(Budget(ok, skip, warn, fail, drops))
  <2> DEFINE b == Budget(ok, skip, warn, fail, drops)
  <2>1. /\ b.limit.ok = ok /\ b.limit.skip = skip /\ b.limit.warn = warn /\ b.limit.fail = fail
        /\ b.drops = drops
    BY DEF Budget
  <2>2. /\ "skip" \in drops => "ok" \in drops
        /\ "warn" \in drops => "ok" \in drops /\ "skip" \in drops
        /\ "fail" \notin drops
    BY <1>1
  <2> HIDE DEF b
  <2> QED
    BY <1>1, <2>1, <2>2 DEF Sparing, b
<1> DEFINE b1 == Budget(300, 300, 300, 500, {})
           b2 == Budget(0, 300, 300, 500, {})
           b3 == Budget(0, 120, 200, 400, {})
           b4 == Budget(0, 60, 120, 300, {})
           b5 == Budget(0, 0, 60, 200, {})
           b6 == Budget(0, 0, 60, 200, {"ok"})
           b7 == Budget(0, 0, 40, 120, {"ok", "skip"})
           b8 == Budget(0, 0, 0, 80, {"ok", "skip"})
           b9 == Budget(0, 0, 0, 60, {"ok", "skip", "warn"})
           b10 == Budget(0, 0, 0, 30, {"ok", "skip", "warn"})
           b11 == Budget(0, 0, 0, 0, {"ok", "skip", "warn"})
<1>2. Sparing(b1) /\ Sparing(b2) /\ Sparing(b3) /\ Sparing(b4)
  BY <1>1
<1>3. Sparing(b5) /\ Sparing(b6) /\ Sparing(b7) /\ Sparing(b8)
  BY <1>1
<1>4. Sparing(b9) /\ Sparing(b10) /\ Sparing(b11)
  BY <1>1
<1>5. budgets = <<b1, b2, b3, b4, b5, b6, b7, b8, b9, b10, b11>>
  BY DEF budgets
<1>8. b11 = Budget(0, 0, 0, 0, {"ok", "skip", "warn"})
  OBVIOUS
<1> HIDE DEF b1, b2, b3, b4, b5, b6, b7, b8, b9, b10, b11
<1>6. /\ Len(budgets) = 11 /\ DOMAIN budgets = 1..11
      /\ budgets[1] = b1 /\ budgets[2] = b2 /\ budgets[3] = b3 /\ budgets[4] = b4
      /\ budgets[5] = b5 /\ budgets[6] = b6 /\ budgets[7] = b7 /\ budgets[8] = b8
      /\ budgets[9] = b9 /\ budgets[10] = b10 /\ budgets[11] = b11
  BY <1>5
<1>7. \A i \in 1..11 : i = 1 \/ i = 2 \/ i = 3 \/ i = 4 \/ i = 5 \/ i = 6 \/ i = 7 \/ i = 8
                        \/ i = 9 \/ i = 10 \/ i = 11
  OBVIOUS
<1> QED
  BY <1>2, <1>3, <1>4, <1>6, <1>7, <1>8

\* What the doc comment of report.go:14-24 asks of the lines and the details of a report.
InOrderOfWorth(doc, lines, detail) ==
  /\ \A i \in doc.places, k \in DOMAIN lines \ doc.places :
       Worth[lines[k].status] <= Worth[lines[i].status]
  /\ \A st, less \in {lines[i].status : i \in doc.places} :
       Worth[less] <= Worth[st] /\ doc.detail[st] < detail[st]
         => doc.detail[less] <= doc.detail[st]

\* The kinds of lines, and what each is worth.
LEMMA WorthIs ==
  /\ Statuses = {"ok", "skip", "warn", "fail"}
  /\ Worth["ok"] = 0 /\ Worth["skip"] = 1 /\ Worth["warn"] = 2 /\ Worth["fail"] = 3
BY DEF Statuses, Worth

\* A detail is kept, or as much of it as it is granted (clip, page.go:382-388).
LEMMA ClipIs ==
  ASSUME NEW b, Sparing(b), NEW lines, NEW detail \in [Statuses -> Nat], NEW st \in Statuses
  PROVE  LET doc == Within(b, lines, detail) IN
         /\ b.limit[st] \in Nat
         /\ doc.detail[st] = IF detail[st] <= b.limit[st] THEN detail[st] ELSE b.limit[st]
<1> DEFINE kept(s) == clip(detail[s], b.limit[s])
<1>1. Within(b, lines, detail).detail
        = [ok |-> kept("ok"), skip |-> kept("skip"), warn |-> kept("warn"), fail |-> kept("fail")]
  BY DEF Within
<1> HIDE DEF kept
<1>2. Within(b, lines, detail).detail[st] = kept(st)
  BY <1>1, WorthIs
<1>3. b.limit[st] \in Nat
  BY WorthIs DEF Sparing
<1> QED
  BY <1>2, <1>3 DEF kept, clip

\* A budget that spares what is worth more gives up in order (report.go:14-24).
LEMMA SparingIsInOrder ==
  ASSUME NEW lines \in Seq(ResultLines), NEW b, Sparing(b), NEW detail \in [Statuses -> Nat]
  PROVE  InOrderOfWorth(Within(b, lines, detail), lines, detail)
<1> DEFINE doc == Within(b, lines, detail)
<1>1. \A i \in DOMAIN lines : lines[i].status \in Statuses
  <2>1. \A i \in DOMAIN lines : lines[i] \in ResultLines
    OBVIOUS
  <2> QED
    BY <2>1 DEF ResultLines
<1>2. doc.places = {i \in DOMAIN lines : lines[i].status \notin b.drops}
  BY DEF Within
<1>3. ASSUME NEW st \in Statuses, NEW less \in Statuses, st \in b.drops, less \notin b.drops
      PROVE  Worth[st] <= Worth[less]
  BY <1>3, WorthIs DEF Sparing
<1>4. ASSUME NEW st \in Statuses, NEW less \in Statuses, Worth[less] <= Worth[st],
             doc.detail[st] < detail[st]
      PROVE  doc.detail[less] <= doc.detail[st]
  <2>1. b.limit[less] <= b.limit[st]
    BY <1>4, WorthIs DEF Sparing
  <2>2. /\ b.limit[st] \in Nat /\ b.limit[less] \in Nat
        /\ doc.detail[st] = IF detail[st] <= b.limit[st] THEN detail[st] ELSE b.limit[st]
        /\ doc.detail[less] = IF detail[less] <= b.limit[less] THEN detail[less] ELSE b.limit[less]
    BY ClipIs
  <2>3. detail[st] \in Nat /\ detail[less] \in Nat
    OBVIOUS
  <2> HIDE DEF doc
  <2> DEFINE x == doc.detail[st]  y == doc.detail[less]  l == b.limit[st]  m == b.limit[less]
             f == detail[st]  g == detail[less]
  <2>4. /\ l \in Nat /\ m \in Nat /\ f \in Nat /\ g \in Nat /\ m <= l /\ x < f
        /\ x = (IF f <= l THEN f ELSE l) /\ y = (IF g <= m THEN g ELSE m)
    BY <1>4, <2>1, <2>2, <2>3
  <2> HIDE DEF x, y, l, m, f, g
  <2>5. y <= x
    BY <2>4
  <2> QED
    BY <2>5 DEF x, y
<1> HIDE DEF doc
<1>5. ASSUME NEW i \in doc.places, NEW k \in DOMAIN lines \ doc.places
      PROVE  Worth[lines[k].status] <= Worth[lines[i].status]
  BY <1>1, <1>2, <1>3
<1>6. \A i \in doc.places : lines[i].status \in Statuses
  BY <1>1, <1>2
<1>7. ASSUME NEW st \in {lines[i].status : i \in doc.places},
             NEW less \in {lines[i].status : i \in doc.places},
             Worth[less] <= Worth[st], doc.detail[st] < detail[st]
      PROVE  doc.detail[less] <= doc.detail[st]
  <2>1. st \in Statuses /\ less \in Statuses
    BY <1>6
  <2> QED
    BY <1>4, <1>7, <2>1
<1> QED
  BY <1>5, <1>7 DEF InOrderOfWorth, doc

\* A report of failures by name gives up nothing else (report.go:138-149).
LEMMA NamesAreInOrder ==
  ASSUME NEW lines \in Seq(ResultLines), NEW detail \in [Statuses -> Nat], NEW n
  PROVE  InOrderOfWorth(FirstLines(Within(budgets[11], lines, detail), n), lines, detail)
<1> DEFINE names == Within(budgets[11], lines, detail)
           doc == FirstLines(names, n)
<1>1. \A i \in DOMAIN lines : lines[i].status \in Statuses
  <2>1. \A i \in DOMAIN lines : lines[i] \in ResultLines
    OBVIOUS
  <2> QED
    BY <2>1 DEF ResultLines
<1>2. \A i \in doc.places : lines[i].status = "fail"
  <2>1. budgets[11].drops = {"ok", "skip", "warn"}
    BY BudgetFacts DEF Budget
  <2>2. \A i \in doc.places : i \in DOMAIN lines /\ lines[i].status \notin {"ok", "skip", "warn"}
    BY <2>1 DEF Within, FirstLines
  <2> HIDE DEF doc
  <2> QED
    BY <1>1, <2>2, WorthIs
<1>3. doc.detail["fail"] = 0
  <2>1. /\ budgets[11].limit.fail = 0 /\ detail["fail"] \in Nat
    BY BudgetFacts, WorthIs DEF Budget
  <2>2. doc.detail.fail = clip(detail.fail, budgets[11].limit.fail)
    BY DEF FirstLines, Within
  <2> QED
    BY <2>1, <2>2 DEF clip
<1> HIDE DEF doc
<1>4. ASSUME NEW i \in doc.places, NEW k \in DOMAIN lines \ doc.places
      PROVE  Worth[lines[k].status] <= Worth[lines[i].status]
  BY <1>1, <1>2, WorthIs
<1>5. ASSUME NEW st \in {lines[i].status : i \in doc.places},
             NEW less \in {lines[i].status : i \in doc.places}
      PROVE  doc.detail[less] <= doc.detail[st]
  <2>1. st = "fail" /\ less = "fail"
    BY <1>2
  <2> QED
    BY <1>3, <2>1
<1> QED
  BY <1>4, <1>5 DEF InOrderOfWorth, doc

\* A report without lines takes what the document does (encode, report.go:151-159).
LEMMA NoLines ==
  ASSUME ReportAssumption, NEW lines, NEW doc, doc.places = {},
         doc.detail.ok \in Nat, doc.detail.skip \in Nat, doc.detail.warn \in Nat,
         doc.detail.fail \in Nat
  PROVE  encode(doc, lines) = HeaderSize
<1>1. HeaderSize \in Nat /\ LineSize \in Nat /\ FieldSize \in Nat
  BY DEF ReportAssumption
<1>2. ASSUME NEW st, NEW d \in Nat
      PROVE  Cardinality({i \in doc.places : lines[i].status = st}) * LineBytes(d) = 0
  <2>1. {i \in doc.places : lines[i].status = st} = {}
    OBVIOUS
  <2>2. Cardinality({i \in doc.places : lines[i].status = st}) = 0
    BY <2>1, FS_EmptySet
  <2>3. LineBytes(d) \in Nat
    BY <1>1 DEF LineBytes
  <2>4. \A m \in Nat : 0 * m = 0
    OBVIOUS
  <2> QED
    BY <2>2, <2>3, <2>4
<1> DEFINE t(st) == Cardinality({i \in doc.places : lines[i].status = st}) * LineBytes(doc.detail[st])
<1>3. t("ok") = 0 /\ t("skip") = 0 /\ t("warn") = 0 /\ t("fail") = 0
  BY <1>2
<1>4. encode(doc, lines) = HeaderSize + t("ok") + t("skip") + t("warn") + t("fail")
  BY DEF encode
<1> HIDE DEF t
<1> QED
  BY <1>1, <1>3, <1>4

\* A report fits its limit, whichever budget it takes to, or else by as many names as fit,
\* and gives up in order (buildReport, report.go:97-149).
LEMMA ReportFacts ==
  ASSUME ReportAssumption, NEW lines \in Seq(ResultLines), NEW detail \in [Statuses -> Nat],
         NEW limit \in Nat
  PROVE  LET doc == buildReport(lines, detail, limit) IN
         /\ HeaderSize <= limit => encode(doc, lines) <= limit
         /\ InOrderOfWorth(doc, lines, detail)
<1> DEFINE doc == buildReport(lines, detail, limit)
           report(i) == Within(budgets[i], lines, detail)
           Fits(d) == encode(d, lines) <= limit
           fitting == {i \in DOMAIN budgets : Fits(report(i))}
           first == CHOOSE i \in fitting : \A k \in fitting : i <= k
           names == report(11)
           short == {n \in 0..Len(lines) : Fits(FirstLines(names, n))}
           most == CHOOSE n \in short : \A k \in short : k <= n
<1>0. Len(lines) \in Nat /\ DOMAIN lines = 1..Len(lines)
  BY LenProperties
<1>1. doc = IF fitting # {} THEN report(first)
            ELSE FirstLines(names, IF short = {} THEN 0 ELSE most)
  BY BudgetFacts DEF buildReport
<1>2. CASE fitting # {}
  <2>1. fitting \in SUBSET Nat /\ fitting \subseteq 1..11
    BY BudgetFacts
  <2>2. first \in fitting
    <3>1. \E i \in fitting : \A k \in fitting : i <= k
      BY <1>2, <2>1, LeastOf
    <3> QED
      BY <3>1
  <2>3. Fits(report(first)) /\ first \in 1..11
    BY <2>1, <2>2
  <2>4. doc = report(first)
    BY <1>1, <1>2
  <2> HIDE DEF first, doc
  <2>5. InOrderOfWorth(doc, lines, detail)
    BY <2>3, <2>4, BudgetFacts, SparingIsInOrder
  <2> QED
    BY <2>3, <2>4, <2>5 DEF doc
<1>3. CASE fitting = {}
  <2>1. PICK n : doc = FirstLines(names, n) /\ (short # {} => n = most)
    BY <1>1, <1>3
  <2>2. InOrderOfWorth(doc, lines, detail)
    BY <2>1, NamesAreInOrder
  <2>3. ASSUME HeaderSize <= limit
        PROVE  encode(doc, lines) <= limit
    <3>1. 0 \in short
      <4> DEFINE none == FirstLines(names, 0)
      <4>1. none.places = {}
        <5>1. \A i \in names.places : i \in 1..Len(lines)
          BY <1>0 DEF Within
        <5> HIDE DEF names
        <5>2. none.places = {i \in names.places : i <= 0}
          BY DEF FirstLines
        <5> HIDE DEF none
        <5> QED
          BY <1>0, <5>1, <5>2
      <4>2. none.detail = names.detail
        BY DEF FirstLines
      <4>3. \A st \in Statuses : names.detail[st] \in Nat
        <5>1. ASSUME NEW st \in Statuses
              PROVE  names.detail[st] \in Nat
          <6>1. /\ budgets[11].limit[st] \in Nat /\ detail[st] \in Nat
                /\ names.detail[st] = IF detail[st] <= budgets[11].limit[st] THEN detail[st]
                                      ELSE budgets[11].limit[st]
            <7>1. Sparing(budgets[11])
              BY BudgetFacts
            <7>2. detail[st] \in Nat
              OBVIOUS
            <7> DEFINE b == budgets[11]
            <7> HIDE DEF b
            <7>3. Sparing(b)
              BY <7>1 DEF b
            <7>4. /\ b.limit[st] \in Nat
                  /\ Within(b, lines, detail).detail[st]
                       = IF detail[st] <= b.limit[st] THEN detail[st] ELSE b.limit[st]
              BY <7>3, ClipIs
            <7> QED
              BY <7>2, <7>4 DEF b
          <6> HIDE DEF names
          <6> QED
            BY <6>1
        <5> QED
          BY <5>1
      <4> HIDE DEF none, names
      <4>4. /\ none.detail.ok \in Nat /\ none.detail.skip \in Nat /\ none.detail.warn \in Nat
            /\ none.detail.fail \in Nat
        BY <4>2, <4>3, WorthIs
      <4>5. encode(none, lines) = HeaderSize
        BY <4>1, <4>4, NoLines
      <4>6. Fits(none)
        BY <2>3, <4>5
      <4> QED
        BY <1>0, <4>6 DEF none
    <3>2. short \in SUBSET (0..Len(lines)) /\ short # {}
      BY <3>1
    <3>3. \E k \in short : \A m \in short : m <= k
      <4> HIDE DEF short
      <4> QED
        BY <1>0, <3>2, GreatestOf
    <3>4. most \in short
      BY <3>3
    <3>5. Fits(FirstLines(names, most))
      BY <3>4
    <3> HIDE DEF most, doc
    <3> QED
      BY <2>1, <3>2, <3>5
  <2> QED
    BY <2>2, <2>3
<1> QED
  BY <1>2, <1>3

\* A report is within its limit whenever one without checks is, leaves out no line while it
\* has one worth less, and cuts no detail shorter than one worth less (buildReport,
\* report.go:97-149).
THEOREM ReportHolds == Spec => []ReportGivesUpInOrder
<1>1. TypeOK => ReportGivesUpInOrder
  <2> SUFFICES ASSUME TypeOK, NEW d \in DetailSizes, NEW limit \in Limits
               PROVE  LET report == buildReport(results, d, limit) IN
                      /\ HeaderSize <= limit => encode(report, results) <= limit
                      /\ InOrderOfWorth(report, results, d)
    BY DEF ReportGivesUpInOrder, InOrderOfWorth
  <2>1. results \in Seq(ResultLines) /\ d \in [Statuses -> Nat] /\ limit \in Nat
    BY DoctorAssumption DEF TypeOK, DoctorAssumption
  <2> QED
    BY <2>1, ReportAssumption, ReportFacts
<1> QED
  BY <1>1, TypeCorrect, PTL

----------------------------------------------------------------------------
(* The follow: the inductive invariant. *)

Shown(s) == {out[s][k] : k \in DOMAIN out[s]}
Printed(s) == Shown(s) \cup batch[s]

\* The lines of a source stand in the order of their stamps, none of them twice, and its
\* present log is the last of them.
LogInv(s) ==
  /\ head[s] <= Len(log[s]) + 1
  /\ s \notin live => head[s] = Len(log[s]) + 1
  /\ \A i \in 1..Len(log[s]) : log[s][i].at <= now
  /\ \A i, k \in 1..Len(log[s]) : i <= k => log[s][i].at <= log[s][k].at
  /\ \A i, k \in 1..Len(log[s]) : log[s][i] = log[s][k] => i = k

\* A round is read within the margin.
ClockInv ==
  /\ round <= now
  /\ pc \in {"list", "read"} => now <= round + Margin

\* What is to be read is tracked, and has not been read in this round.
TurnInv(s) ==
  /\ pc \notin {"first", "read"} => s \notin todo /\ batch[s] = {}
  /\ s \in todo => batch[s] = {} /\ tracked[s] # Untracked
  /\ pc = "first" => out[s] = <<>>
  /\ pc = "first" /\ s \in todo => s \notin young /\ tracked[s] = New

\* What was printed, and is to be, are lines of the source, each once; where no stamp was
\* torn apart, in order.
OutInv(s) ==
  /\ out[s] \in Seq(Nat)
  /\ Printed(s) \subseteq 1..Len(log[s])
  /\ \A i, k \in DOMAIN out[s] : out[s][i] = out[s][k] => i = k
  /\ batch[s] \cap Shown(s) = {}
  /\ s \notin torn =>
       /\ \A i, k \in DOMAIN out[s] : i < k => out[s][i] < out[s][k]
       /\ \A p \in Shown(s), i \in batch[s] : p < i
       /\ \A i, k \in batch[s], j \in 1..Len(log[s]) : i < j /\ j < k => j \in batch[s]

\* Of a source that was not read since it is tracked nothing was printed of its present
\* log, and nothing is remembered.
UnreadInv(s) ==
  /\ pc # "done" /\ tracked[s] = Untracked => \A p \in Printed(s) : p < head[s]
  /\ tracked[s] # Untracked /\ ~tracked[s].read =>
       /\ \A p \in Printed(s) : p < head[s]
       /\ tracked[s].last = 0 /\ tracked[s].atLast = {}

\* What is remembered is the last stamp that was printed, and the texts at it.
MemoryInv(s) ==
  tracked[s] # Untracked =>
    LET f == tracked[s] IN
    /\ f.readAt <= round
    /\ \A p \in Printed(s) : p >= head[s] =>
         \/ log[s][p].at < f.last
         \/ log[s][p].at = f.last /\ log[s][p].text \in f.atLast
    /\ \A t \in f.atLast : \E p \in Printed(s) : log[s][p] = [at |-> f.last, text |-> t]
    /\ f.last > 0 => \E p \in Printed(s) : log[s][p].at = f.last

\* At that stamp nothing was left out before what was printed,
NoneSkipped(s) ==
  tracked[s] # Untracked /\ s \notin torn =>
    \A i \in head[s]..Len(log[s]), k \in Printed(s) :
      log[s][i].at = tracked[s].last /\ i < k => i \in Printed(s)

\* and whatever is older than the last read is not after what was printed.
ReadUpTo(s) ==
  tracked[s] # Untracked /\ tracked[s].read /\ s \notin said \cup full \cup torn =>
    \A i \in head[s]..Len(log[s]) :
      log[s][i].at < tracked[s].readAt => \E p \in Printed(s) : i <= p

\* The lines to print next continue those that were.
GoesOn(s) ==
  s \notin said \cup full \cup torn =>
    \A a \in batch[s] : (\A i \in batch[s] : a <= i) =>
      \/ out[s] = <<>> /\ (s \in young => a <= head[s])
      \/ out[s] # <<>> /\ a <= head[s]
      \/ \E p \in Shown(s) : a <= p + 1

SourceInv(s) ==
  /\ LogInv(s)
  /\ TurnInv(s)
  /\ OutInv(s)
  /\ UnreadInv(s)
  /\ MemoryInv(s)
  /\ NoneSkipped(s)
  /\ ReadUpTo(s)
  /\ GoesOn(s)

FollowInv ==
  /\ FollowTypeOK
  /\ ClockInv
  /\ \A s \in Sources : SourceInv(s)

----------------------------------------------------------------------------
(* Numbers. *)

\* Which is what Max gives.
LEMMA MaxIs ==
  ASSUME NEW n \in Nat, NEW S \in SUBSET (0..n), S # {}
  PROVE  Max(S) \in S /\ \A i \in S : i <= Max(S)
<1>1. \E i \in S : \A k \in S : i >= k
  <2>1. PICK i \in S : \A k \in S : k <= i
    BY GreatestOf
  <2> QED
    BY <2>1
<1>2. Max(S) \in S /\ \A k \in S : Max(S) >= k
  BY <1>1 DEF Max
<1> QED
  BY <1>2

\* A window is no shorter than what it is to cover, and a stamp is truncated to one that is
\* not later (the whole seconds that are asked for, follow.go:250-267).
LEMMA WholeSeconds ==
  /\ \A d \in Nat : Seconds(d) \in Nat /\ d <= Seconds(d)
  /\ \A t \in Nat : Truncated(t) \in Nat /\ Truncated(t) <= t
<1>1. Second \in Nat \ {0}
  BY FollowAssumption
<1>2. ASSUME NEW a \in Nat, NEW b \in Nat \ {0}
      PROVE  (a \div b) * b <= a /\ a < (a \div b) * b + b /\ (a \div b) * b \in Nat
  <2>1. (a \div b) * b <= a /\ a < (a \div b) * b + b
    OBVIOUS
  <2>2. a \div b \in Nat
    OBVIOUS
  <2>3. \A q \in Nat : q * b \in Nat
    OBVIOUS
  <2> QED
    BY <2>1, <2>2, <2>3
<1>3. ASSUME NEW d \in Nat
      PROVE  Seconds(d) \in Nat /\ d <= Seconds(d)
  <2> DEFINE up == d + Second - 1
             whole == (up \div Second) * Second
  <2>1. up \in Nat
    BY <1>1
  <2>2. whole \in Nat /\ up < whole + Second
    BY <1>1, <1>2, <2>1
  <2> HIDE DEF whole
  <2>3. d <= whole
    BY <1>1, <2>2
  <2> QED
    BY <2>2, <2>3 DEF Seconds, whole
<1>4. ASSUME NEW t \in Nat
      PROVE  Truncated(t) \in Nat /\ Truncated(t) <= t
  BY <1>1, <1>2 DEF Truncated
<1> QED
  BY <1>3, <1>4

----------------------------------------------------------------------------
(* The numbers of a set, in order. *)

UpTo(S, i) == Cardinality({j \in S : j <= i})

\* A number has its place: as many as are not greater (Prints, in the order of the lines).
LEMMA PlacesAre ==
  ASSUME NEW n \in Nat, NEW S \in SUBSET (1..n)
  PROVE  /\ IsFiniteSet(S) /\ Cardinality(S) \in Nat
         /\ \A i \in S : UpTo(S, i) \in 1..Cardinality(S)
         /\ \A i, k \in S : i < k => UpTo(S, i) < UpTo(S, k)
<1>1. IsFiniteSet(1..n)
  BY FS_Interval
<1>2. IsFiniteSet(S) /\ Cardinality(S) \in Nat
  BY <1>1, FS_Subset, FS_CardinalityType
<1>3. \A i \in S : IsFiniteSet({j \in S : j <= i}) /\ {j \in S : j <= i} \in SUBSET S
  BY <1>2, FS_Subset
<1>4. ASSUME NEW i \in S
      PROVE  UpTo(S, i) \in 1..Cardinality(S)
  <2> DEFINE below == {j \in S : j <= i}
  <2>1. IsFiniteSet(below) /\ below \in SUBSET S /\ i \in below
    BY <1>3
  <2> HIDE DEF below
  <2>2. Cardinality(below) \in Nat /\ Cardinality(below) <= Cardinality(S) /\ Cardinality(below) # 0
    BY <1>2, <2>1, FS_Subset, FS_CardinalityType, FS_EmptySet
  <2>3. Cardinality(below) \in 1..Cardinality(S)
    BY <1>2, <2>2
  <2> QED
    BY <2>3 DEF below, UpTo
<1>5. ASSUME NEW i \in S, NEW k \in S, i < k
      PROVE  UpTo(S, i) < UpTo(S, k)
  <2> DEFINE lower == {j \in S : j <= i}
             upper == {j \in S : j <= k}
  <2>1. IsFiniteSet(upper) /\ IsFiniteSet(lower)
    BY <1>3
  <2>2. lower \in SUBSET upper /\ k \in upper /\ k \notin lower
    <3>1. \A j \in S : j \in Nat /\ i \in Nat /\ k \in Nat
      OBVIOUS
    <3>2. \A j \in S : j <= i => j <= k
      BY <1>5, <3>1
    <3>3. k <= k /\ ~(k <= i)
      BY <1>5, <3>1
    <3> QED
      BY <3>2, <3>3
  <2> HIDE DEF lower, upper
  <2>3. Cardinality(lower) <= Cardinality(upper) /\ Cardinality(lower) # Cardinality(upper)
    BY <2>1, <2>2, FS_Subset
  <2>4. Cardinality(lower) \in Nat /\ Cardinality(upper) \in Nat
    BY <2>1, FS_CardinalityType
  <2>5. Cardinality(lower) < Cardinality(upper)
    BY <2>3, <2>4
  <2> QED
    BY <2>5 DEF UpTo, lower, upper
<1> QED
  BY <1>2, <1>4, <1>5

\* Put in order, each number of the set is there once.
LEMMA InOrderIs ==
  ASSUME NEW n \in Nat, NEW S \in SUBSET (1..n)
  PROVE  /\ InOrder(S) \in Seq(Nat) /\ Len(InOrder(S)) = Cardinality(S)
         /\ DOMAIN InOrder(S) = 1..Cardinality(S)
         /\ \A k \in 1..Cardinality(S) : InOrder(S)[k] \in S /\ UpTo(S, InOrder(S)[k]) = k
         /\ \A i \in S : UpTo(S, i) \in 1..Cardinality(S) /\ InOrder(S)[UpTo(S, i)] = i
<1> DEFINE c == Cardinality(S)
           place == [i \in S |-> UpTo(S, i)]
<1>1. /\ IsFiniteSet(S) /\ c \in Nat
      /\ \A i \in S : UpTo(S, i) \in 1..c
      /\ \A i, k \in S : i < k => UpTo(S, i) < UpTo(S, k)
  BY PlacesAre
<1>2. \A i, k \in S : UpTo(S, i) = UpTo(S, k) => i = k
  <2> TAKE i \in S, k \in S
  <2>1. i \in Nat /\ k \in Nat /\ UpTo(S, i) \in Nat /\ UpTo(S, k) \in Nat
    BY <1>1
  <2> QED
    BY <1>1, <2>1
<1>3. place \in Injection(S, 1..c)
  BY <1>1, <1>2 DEF Injection, IsInjective
<1>4. IsFiniteSet(1..c) /\ Cardinality(1..c) = c
  BY <1>1, FS_Interval
<1> HIDE DEF c
<1>5. place \in Surjection(S, 1..c)
  <2> HIDE DEF place
  <2> QED
    BY <1>3, <1>4, FS_Injection DEF c
<1>6. \A k \in 1..c : \E i \in S : UpTo(S, i) = k
  BY <1>5 DEF Surjection
<1>7. InOrder(S) = [k \in 1..c |-> CHOOSE i \in S : UpTo(S, i) = k]
  BY DEF InOrder, UpTo, c
<1>8. \A k \in 1..c : InOrder(S)[k] \in S /\ UpTo(S, InOrder(S)[k]) = k
  BY <1>6, <1>7
<1>9. \A i \in S : InOrder(S)[UpTo(S, i)] = i
  BY <1>1, <1>2, <1>8
<1>10. InOrder(S) \in Seq(Nat) /\ Len(InOrder(S)) = c /\ DOMAIN InOrder(S) = 1..c
  <2>1. \A k \in 1..c : InOrder(S)[k] \in Nat
    <3>1. \A i \in S : i \in Nat
      OBVIOUS
    <3> QED
      BY <1>8, <3>1
  <2>2. InOrder(S) \in [1..c -> Nat]
    BY <1>7, <2>1
  <2> QED
    BY <1>1, <2>2
<1> QED
  BY <1>1, <1>8, <1>9, <1>10 DEF c

\* Those of a set without gaps follow one another.
LEMMA RunInOrder ==
  ASSUME NEW n \in Nat, NEW a \in 1..n, NEW b \in 1..n, a <= b
  PROVE  InOrder(a..b) = [k \in 1..(b - a + 1) |-> a + k - 1]
<1> DEFINE S == a..b
<1>1. S \in SUBSET (1..n) /\ Cardinality(S) = b - a + 1
  BY FS_Interval
<1>2. ASSUME NEW k \in 1..(b - a + 1)
      PROVE  UpTo(S, a + k - 1) = k
  <2>1. {j \in S : j <= a + k - 1} = a..(a + k - 1)
    OBVIOUS
  <2>2. Cardinality(a..(a + k - 1)) = k
    <3>1. a + k - 1 \in Int /\ ~(a > a + k - 1) /\ (a + k - 1) - a + 1 = k
      OBVIOUS
    <3> QED
      BY <3>1, FS_Interval
  <2> QED
    BY <2>1, <2>2 DEF UpTo
<1>3. \A k \in 1..(b - a + 1) : a + k - 1 \in S
  OBVIOUS
<1> HIDE DEF S
<1>4. /\ InOrder(S) \in Seq(Nat) /\ DOMAIN InOrder(S) = 1..(b - a + 1)
      /\ \A i \in S : InOrder(S)[UpTo(S, i)] = i
  BY <1>1, InOrderIs
<1>5. \A k \in 1..(b - a + 1) : InOrder(S)[k] = a + k - 1
  BY <1>2, <1>3, <1>4
<1>6. InOrder(S) = [k \in 1..(b - a + 1) |-> InOrder(S)[k]]
  BY <1>4
<1> QED
  BY <1>5, <1>6 DEF S

----------------------------------------------------------------------------
(* One read. *)

\* The lines of a source, and what is remembered of it, are of their kinds.
LEMMA SourceTypes ==
  ASSUME FollowTypeOK, NEW s \in Sources
  PROVE  /\ Len(log[s]) \in Nat /\ Len(log[s]) <= MaxLines /\ head[s] \in Nat /\ head[s] >= 1
         /\ \A i \in 1..Len(log[s]) :
              /\ log[s][i] \in Lines
              /\ log[s][i].at \in Nat /\ 1 <= log[s][i].at /\ log[s][i].at <= MaxTime
         /\ now \in Nat /\ now >= 1 /\ now <= MaxTime
         /\ round \in Nat /\ round >= 1 /\ round <= MaxTime
         /\ batch[s] \in SUBSET (1..MaxLines)
         /\ tracked[s] # Untracked =>
              /\ tracked[s] \in Followed
              /\ tracked[s].last \in Nat /\ tracked[s].readAt \in Nat /\ tracked[s].read \in BOOLEAN
<1>0. MaxLines \in Nat /\ MaxTime \in Nat
  BY FollowAssumption
<1>1. log[s] \in Seq(Lines) /\ Len(log[s]) <= MaxLines
  BY DEF FollowTypeOK
<1>2. Len(log[s]) \in Nat /\ \A i \in 1..Len(log[s]) : log[s][i] \in Lines
  BY <1>1, LenProperties, ElementOfSeq
<1>3. \A line \in Lines : line.at \in Nat /\ 1 <= line.at /\ line.at <= MaxTime
  BY <1>0 DEF Lines
<1>4. head[s] \in Nat /\ head[s] >= 1
  BY <1>0 DEF FollowTypeOK
<1>5. now \in Nat /\ now >= 1 /\ now <= MaxTime /\ round \in Nat /\ round >= 1 /\ round <= MaxTime
  BY <1>0 DEF FollowTypeOK
<1>6. batch[s] \in SUBSET (1..MaxLines)
  BY DEF FollowTypeOK
<1>7. tracked[s] # Untracked => tracked[s] \in Followed
  BY DEF FollowTypeOK
<1>8. \A f \in Followed : f.last \in Nat /\ f.readAt \in Nat /\ f.read \in BOOLEAN
  BY <1>0 DEF Followed
<1> QED
  BY <1>1, <1>2, <1>3, <1>4, <1>5, <1>6, <1>7, <1>8

\* A read starts no later than at the last stamp that was printed, or at the last read; the
\* first one at the beginning (the query, follow.go:250-267).
LEMMA FromIs ==
  ASSUME FollowTypeOK, ClockInv, pc \in {"first", "read"},
         NEW f \in Followed, f.readAt <= round
  PROVE  /\ From(f) \in Nat
         /\ pc = "first" => From(f) = 0
         /\ \/ From(f) <= f.last
            \/ From(f) <= IF f.read THEN f.readAt ELSE 1
<1>0. /\ now \in Nat /\ round \in Nat /\ round >= 1
      /\ MaxTime \in Nat /\ Margin \in Nat
      /\ f.last \in Nat /\ f.readAt \in Nat
  BY FollowAssumption DEF FollowTypeOK, Followed
<1>1. CASE pc = "first"
  BY <1>0, <1>1 DEF From
<1>2. CASE pc = "read" /\ ByStamp(f)
  <2>1. From(f) = 0 \/ From(f) = Truncated(f.last)
    BY <1>2 DEF From
  <2>2. Truncated(f.last) \in Nat /\ Truncated(f.last) <= f.last
    BY <1>0, WholeSeconds
  <2> QED
    BY <1>0, <1>2, <2>1, <2>2
<1>3. CASE pc = "read" /\ ~ByStamp(f)
  <2> DEFINE since == IF f.read THEN f.readAt ELSE 1
             length == Seconds(round - since + Margin)
  <2>1. since \in Nat /\ since <= round
    BY <1>0
  <2>2. From(f) = WindowStart(f) /\ WindowStart(f) = IF now > length THEN now - length ELSE 0
    BY <1>3 DEF From, WindowStart
  <2>3. now <= round + Margin
    BY <1>3 DEF ClockInv
  <2> HIDE DEF since
  <2>4. round - since + Margin \in Nat
    BY <1>0, <2>1
  <2>5. length \in Nat /\ round - since + Margin <= length
    BY <2>4, WholeSeconds
  <2> HIDE DEF length
  <2>6. From(f) \in Nat /\ From(f) <= since
    BY <1>0, <2>1, <2>2, <2>3, <2>5
  <2> QED
    BY <1>3, <2>6 DEF since
<1> QED
  BY <1>1, <1>2, <1>3

\* What a read answers: the newest lines from a stamp on, and all of them when it is not as
\* much as it can answer.
LEMMA AnswerIs ==
  ASSUME FollowTypeOK, NEW s \in Sources, LogInv(s), NEW from \in Nat, NEW tail \in Nat \ {0}
  PROVE  /\ Answer(s, from, tail) \in SUBSET (head[s]..Len(log[s]))
         /\ Answer(s, from, tail) \in SUBSET (1..Len(log[s]))
         /\ \A i \in Answer(s, from, tail), k \in head[s]..Len(log[s]) :
              i <= k => k \in Answer(s, from, tail)
         /\ Cardinality(Answer(s, from, tail)) \in Nat
         /\ Cardinality(Answer(s, from, tail)) < tail =>
              \A i \in head[s]..Len(log[s]) : from <= log[s][i].at => i \in Answer(s, from, tail)
         /\ from = 0 /\ head[s] <= Len(log[s]) => Len(log[s]) \in Answer(s, from, tail)
<1> DEFINE L == log[s]
           n == Len(log[s])
           h == head[s]
           es == Answer(s, from, tail)
<1>1. /\ n \in Nat /\ h \in Nat /\ h >= 1
      /\ \A i \in 1..n : L[i].at \in Nat
      /\ \A i, k \in 1..n : i <= k => L[i].at <= L[k].at
  BY SourceTypes DEF LogInv
<1>2. \A i : i \in es <=> i \in h..n /\ L[i].at >= from /\ i > n - tail
  BY DEF Answer
<1> HIDE DEF L, n, h, es
<1>3. h..n \subseteq 1..n
  BY <1>1
<1>4. es \in SUBSET (h..n) /\ es \in SUBSET (1..n)
  BY <1>2, <1>3
<1>5. ASSUME NEW i \in es, NEW k \in h..n, i <= k
      PROVE  k \in es
  <2>1. i \in h..n /\ L[i].at >= from /\ i > n - tail
    BY <1>2
  <2>2. i \in 1..n /\ k \in 1..n
    BY <1>3, <2>1
  <2>3. L[i].at <= L[k].at /\ L[i].at \in Nat /\ L[k].at \in Nat
    BY <1>1, <1>5, <2>2
  <2>4. L[k].at >= from /\ k > n - tail
    BY <1>1, <1>5, <2>1, <2>2, <2>3
  <2> QED
    BY <1>2, <2>4
<1>6. IsFiniteSet(es) /\ Cardinality(es) \in Nat
  <2>1. IsFiniteSet(1..n)
    BY <1>1, FS_Interval
  <2> QED
    BY <1>4, <2>1, FS_Subset, FS_CardinalityType
<1>7. ASSUME Cardinality(es) < tail, NEW i \in h..n, from <= L[i].at, i \notin es
      PROVE  FALSE
  <2>0. i \in 1..n /\ L[i].at \in Nat
    BY <1>1, <1>3
  <2>1. i <= n - tail
    BY <1>1, <1>2, <1>7, <2>0
  <2>2. ASSUME NEW k \in (n - tail + 1)..n
        PROVE  k \in es
    <3>1. k \in h..n /\ k \in 1..n /\ i <= k /\ k > n - tail
      BY <1>1, <2>0, <2>1
    <3>2. L[i].at <= L[k].at /\ L[k].at \in Nat
      BY <1>1, <2>0, <3>1
    <3>3. L[k].at >= from
      BY <1>7, <2>0, <3>2
    <3> QED
      BY <1>2, <3>1, <3>3
  <2>3. Cardinality((n - tail + 1)..n) = tail
    <3>1. n - tail + 1 \in Int /\ n \in Int /\ ~(n - tail + 1 > n) /\ n - (n - tail + 1) + 1 = tail
      BY <1>1
    <3> QED
      BY <3>1, FS_Interval
  <2>4. (n - tail + 1)..n \in SUBSET es
    BY <2>2
  <2>5. tail <= Cardinality(es)
    BY <1>6, <2>3, <2>4, FS_Subset
  <2> QED
    BY <1>6, <1>7, <2>5
<1>8. ASSUME from = 0, h <= n
      PROVE  n \in es
  <2>1. n \in h..n /\ n \in 1..n /\ n > n - tail
    BY <1>1, <1>8
  <2>2. L[n].at >= from
    BY <1>1, <1>8, <2>1
  <2> QED
    BY <1>2, <2>1, <2>2
<1> QED
  BY <1>4, <1>5, <1>6, <1>7, <1>8 DEF L, n, h, es

----------------------------------------------------------------------------
(* What stays as it is. *)

\* What is remembered of a source is what was.
SameMemory(s) ==
  \/ tracked[s] = Untracked /\ tracked'[s] = Untracked
  \/ /\ tracked[s] # Untracked /\ tracked'[s] # Untracked
     /\ tracked'[s].last = tracked[s].last /\ tracked'[s].atLast = tracked[s].atLast
     /\ tracked'[s].read = tracked[s].read /\ tracked'[s].readAt = tracked[s].readAt

\* Its log may have grown, by lines that are not older than the round, or begun anew.
LogGoesOn(s) ==
  /\ Len(log'[s]) \in Nat /\ Len(log[s]) <= Len(log'[s])
  /\ \A i \in 1..Len(log[s]) : log'[s][i] = log[s][i]
  /\ \A i \in 1..Len(log'[s]) : i \notin 1..Len(log[s]) => log'[s][i].at \in Nat /\ round <= log'[s][i].at
  /\ head'[s] \in Nat /\ head[s] <= head'[s]

\* The part of the invariant that is about what was printed.
PrintInv(s) ==
  OutInv(s) /\ UnreadInv(s) /\ MemoryInv(s) /\ NoneSkipped(s) /\ ReadUpTo(s) /\ GoesOn(s)

\* A step that does not read a source, nor print it, keeps what is known of it, whatever its
\* container writes meanwhile (the rounds, follow.go:142-187).
LEMMA KeepsPrinted ==
  ASSUME FollowTypeOK, NEW s \in Sources, PrintInv(s), LogGoesOn(s), SameMemory(s),
         out'[s] = out[s], batch'[s] = batch[s], young' = young,
         said \subseteq said', full \subseteq full', torn \subseteq torn',
         round' \in Nat, round <= round', pc' # "done" => pc # "done"
  PROVE  PrintInv(s)'
<1> DEFINE n == Len(log[s])
           m == Len(log'[s])
<1>0. /\ n \in Nat /\ m \in Nat /\ n <= m /\ head[s] \in Nat /\ head[s] >= 1
      /\ head'[s] \in Nat /\ head[s] <= head'[s] /\ round \in Nat
  BY SourceTypes DEF LogGoesOn
<1>1. Shown(s)' = Shown(s) /\ Printed(s)' = Printed(s)
  BY DEF Shown, Printed
<1>2. Printed(s) \subseteq 1..n /\ Printed(s) \subseteq 1..m
  BY <1>0 DEF PrintInv, OutInv
<1>3. \A p \in Printed(s) : log'[s][p] = log[s][p] /\ p \in Nat
  BY <1>2 DEF LogGoesOn
<1>4. OutInv(s)'
  <2>1. batch[s] \subseteq 1..n
    BY <1>2 DEF Printed
  <2>2. \A i, k \in batch[s], j \in 1..m : i < j /\ j < k => j \in 1..n
    BY <1>0, <2>1
  <2> HIDE DEF n, m
  <2>3. OutInv(s)' <=> /\ out[s] \in Seq(Nat) /\ Printed(s) \subseteq 1..m
                       /\ \A i, k \in DOMAIN out[s] : out[s][i] = out[s][k] => i = k
                       /\ batch[s] \cap Shown(s) = {}
                       /\ s \notin torn' =>
                          /\ \A i, k \in DOMAIN out[s] : i < k => out[s][i] < out[s][k]
                          /\ \A p \in Shown(s), i \in batch[s] : p < i
                          /\ \A i, k \in batch[s], j \in 1..m : i < j /\ j < k => j \in batch[s]
    BY <1>1 DEF OutInv, m
  <2>4. s \notin torn' => s \notin torn
    OBVIOUS
  <2> QED
    BY <1>2, <2>2, <2>3, <2>4 DEF PrintInv, OutInv, n
<1> HIDE DEF n, m
<1>5. UnreadInv(s)'
  <2>1. \A p \in Printed(s) : p < head[s] => p < head'[s]
    BY <1>0, <1>3
  <2>2. UnreadInv(s)
    BY DEF PrintInv
  <2> QED
    BY <1>1, <2>1, <2>2 DEF UnreadInv, SameMemory
<1>6. MemoryInv(s)'
  <2>0. CASE tracked[s] = Untracked
    BY <2>0 DEF SameMemory, MemoryInv
  <2>1. CASE tracked[s] # Untracked
    <3>1. /\ tracked'[s] # Untracked
          /\ tracked'[s].last = tracked[s].last /\ tracked'[s].atLast = tracked[s].atLast
          /\ tracked'[s].readAt = tracked[s].readAt
      BY <2>1 DEF SameMemory
    <3>2. tracked[s].readAt \in Nat /\ tracked[s].readAt <= round
      BY <2>1, SourceTypes DEF PrintInv, MemoryInv
    <3>3. tracked'[s].readAt <= round'
      BY <1>0, <3>1, <3>2
    <3>4. \A p \in Printed(s) : p >= head'[s] => p >= head[s]
      BY <1>0, <1>3
    <3>5. MemoryInv(s)
      BY DEF PrintInv
    <3>6. \A p \in Printed(s) : p >= head'[s] =>
            \/ log'[s][p].at < tracked[s].last
            \/ log'[s][p].at = tracked[s].last /\ log'[s][p].text \in tracked[s].atLast
      BY <1>3, <2>1, <3>4, <3>5 DEF MemoryInv
    <3>7. /\ \A t \in tracked[s].atLast :
               \E p \in Printed(s) : log'[s][p] = [at |-> tracked[s].last, text |-> t]
          /\ tracked[s].last > 0 => \E p \in Printed(s) : log'[s][p].at = tracked[s].last
      BY <1>3, <2>1, <3>5 DEF MemoryInv
    <3> QED
      BY <1>1, <3>1, <3>3, <3>6, <3>7 DEF MemoryInv
  <2> QED
    BY <2>0, <2>1
<1>7. NoneSkipped(s)'
  <2> SUFFICES ASSUME tracked'[s] # Untracked, s \notin torn',
                      NEW i \in head'[s]..m, NEW k \in Printed(s),
                      log'[s][i].at = tracked'[s].last, i < k
               PROVE  i \in Printed(s)
    BY <1>1 DEF NoneSkipped, m
  <2>1. tracked[s] # Untracked /\ tracked'[s].last = tracked[s].last /\ s \notin torn
    BY DEF SameMemory
  <2>2. k \in 1..n
    BY <1>2
  <2>3. i \in head[s]..n /\ i \in 1..n
    BY <1>0, <2>2
  <2>4. log'[s][i] = log[s][i]
    BY <2>3 DEF LogGoesOn, n
  <2> QED
    BY <2>1, <2>3, <2>4 DEF PrintInv, NoneSkipped, n
<1>8. ReadUpTo(s)'
  <2> SUFFICES ASSUME tracked'[s] # Untracked, tracked'[s].read,
                      s \notin said' \cup full' \cup torn',
                      NEW i \in head'[s]..m, log'[s][i].at < tracked'[s].readAt
               PROVE  \E p \in Printed(s) : i <= p
    BY <1>1 DEF ReadUpTo, m
  <2>1. /\ tracked[s] # Untracked /\ tracked[s].read /\ tracked'[s].readAt = tracked[s].readAt
        /\ s \notin said \cup full \cup torn
    BY DEF SameMemory
  <2>2. tracked[s].readAt \in Nat /\ tracked[s].readAt <= round
    BY <2>1, SourceTypes DEF PrintInv, MemoryInv
  <2>3. i \in 1..m
    BY <1>0
  <2>4. i \in 1..n
    <3> SUFFICES ASSUME i \notin 1..n PROVE FALSE
      OBVIOUS
    <3>1. log'[s][i].at \in Nat /\ round <= log'[s][i].at
      BY <2>3 DEF LogGoesOn, n, m
    <3> QED
      BY <1>0, <2>1, <2>2, <3>1
  <2>5. i \in head[s]..n
    BY <1>0, <2>4
  <2>6. log'[s][i] = log[s][i]
    BY <2>4 DEF LogGoesOn, n
  <2> QED
    BY <2>1, <2>5, <2>6 DEF PrintInv, ReadUpTo, n
<1>9. GoesOn(s)'
  <2>1. \A a \in batch[s] : a \in Nat
    BY <1>3 DEF Printed
  <2>2. \A a \in batch[s] : a <= head[s] => a <= head'[s]
    BY <1>0, <2>1
  <2>3. GoesOn(s)
    BY DEF PrintInv
  <2>4. s \notin said' \cup full' \cup torn' => s \notin said \cup full \cup torn
    OBVIOUS
  <2> QED
    BY <1>1, <2>2, <2>3, <2>4 DEF GoesOn
<1> QED
  BY <1>4, <1>5, <1>6, <1>7, <1>8, <1>9 DEF PrintInv

\* When also the world stands still, all of it.
LEMMA Untouched ==
  ASSUME FollowTypeOK, NEW s \in Sources, SourceInv(s), SameMemory(s),
         UNCHANGED <<live, log, head, now, pc, round, young>>,
         out'[s] = out[s], batch'[s] = batch[s],
         s \in todo' => s \in todo /\ tracked'[s] = tracked[s],
         said \subseteq said', full \subseteq full', torn \subseteq torn'
  PROVE  SourceInv(s)'
<1>1. LogInv(s)'
  BY DEF SourceInv, LogInv
<1>2. TurnInv(s)'
  BY DEF SourceInv, TurnInv
<1>3. LogGoesOn(s)
  BY SourceTypes DEF LogGoesOn
<1>4. round' \in Nat /\ round <= round'
  BY SourceTypes
<1>5. PrintInv(s)
  BY DEF SourceInv, PrintInv
<1>6. PrintInv(s)'
  BY <1>3, <1>4, <1>5, KeepsPrinted
<1> QED
  BY <1>1, <1>2, <1>6 DEF SourceInv, PrintInv

----------------------------------------------------------------------------
(* A read that is answered. *)

\* What a read remembers: the last stamp so far, and all texts seen at it.
LEMMA RememberedIs ==
  ASSUME FollowTypeOK, NEW s \in Sources, NEW f \in Followed, NEW is \in SUBSET (1..Len(log[s])),
         NEW r, r = Remembered(f, s, is)
  PROVE  /\ r \in Followed
         /\ r.last \in 0..MaxTime /\ f.last <= r.last
         /\ \A i \in is : log[s][i].at <= r.last
         /\ r.last = f.last \/ \E i \in is : log[s][i].at = r.last
         /\ \A t : t \in r.atLast <=> \/ r.last = f.last /\ t \in f.atLast
                                     \/ \E i \in is : log[s][i].at = r.last /\ log[s][i].text = t
<1> DEFINE S == {f.last} \cup {log[s][i].at : i \in is}
           top == Max(S)
           texts == (IF top = f.last THEN f.atLast ELSE {})
                    \cup {log[s][i].text : i \in {k \in is : log[s][k].at = top}}
<1>0. MaxTime \in Nat /\ \A i \in is : log[s][i].at \in 0..MaxTime /\ log[s][i].text \in Texts
  <2>1. \A line \in Lines : line.text \in Texts
    BY DEF Lines
  <2> QED
    BY <2>1, FollowAssumption, SourceTypes
<1>1. f.last \in 0..MaxTime /\ f.atLast \in SUBSET Texts
  BY DEF Followed
<1>2. S \in SUBSET (0..MaxTime) /\ S # {}
  BY <1>0, <1>1
<1>3. top \in S /\ \A i \in S : i <= top
  <2> HIDE DEF S
  <2> QED
    BY <1>0, <1>2, MaxIs
<1>4. Remembered(f, s, is) = [f EXCEPT !.last = top, !.atLast = texts]
  BY DEF Remembered
<1>5. top \in 0..MaxTime
  BY <1>2, <1>3
<1> HIDE DEF top
<1>6. texts \in SUBSET Texts
  BY <1>0, <1>1
<1>7. \A t : t \in texts <=> \/ top = f.last /\ t \in f.atLast
                            \/ \E i \in is : log[s][i].at = top /\ log[s][i].text = t
  OBVIOUS
<1> HIDE DEF texts
<1>8. r \in Followed /\ r.last = top /\ r.atLast = texts
  BY <1>4, <1>5, <1>6 DEF Followed
<1> QED
  BY <1>1, <1>3, <1>5, <1>7, <1>8

\* What an answered read leaves known of its source: nothing is printed twice, nothing out
\* of order, and nothing left out unsaid (Reads; follow.go:51-75, 142-187).
LEMMA ReadKeeps ==
  ASSUME FollowTypeOK, ClockInv, NEW s \in Sources, SourceInv(s), Reads(s)
  PROVE  PrintInv(s)'
<1> DEFINE f == tracked[s]
           L == log[s]
           n == Len(log[s])
           h == head[s]
           old == Shown(s)
           tail == IF pc = "first" THEN FirstTail ELSE MaxTail
           from == From(f)
           es == Answer(s, from, tail)
           fresh == Fresh(f, s, es)
           isCut == Cardinality(es) >= MaxTail
           last == Remembered(f, s, fresh).last
\* The state before.
<1>1. /\ pc \in {"first", "read"} /\ s \in todo /\ f # Untracked /\ batch[s] = {}
      /\ UNCHANGED <<log, head, live, now, pc, round, out, young>>
  BY DEF SourceInv, TurnInv, Reads, ItsTurn, worldVars
<1>2. Printed(s) = old
  BY <1>1 DEF Printed
<1>3. /\ n \in Nat /\ h \in Nat /\ h >= 1 /\ round \in Nat
      /\ f \in Followed /\ f.last \in Nat /\ f.readAt \in Nat /\ f.read \in BOOLEAN
      /\ \A i \in 1..n : L[i].at \in Nat /\ 1 <= L[i].at /\ L[i] = [at |-> L[i].at, text |-> L[i].text]
  <2>1. \A line \in Lines : line = [at |-> line.at, text |-> line.text]
    BY DEF Lines
  <2> QED
    BY <1>1, <2>1, SourceTypes
<1>4. /\ \A i, k \in 1..n : i <= k => L[i].at <= L[k].at
      /\ \A i, k \in 1..n : L[i] = L[k] => i = k
  BY DEF SourceInv, LogInv
<1>5. /\ old \subseteq 1..n
      /\ ~f.read => /\ \A p \in old : p < h
                    /\ f.last = 0 /\ f.atLast = {}
      /\ f.readAt <= round
      /\ \A p \in old : p >= h => \/ L[p].at < f.last
                                  \/ L[p].at = f.last /\ L[p].text \in f.atLast
      /\ \A t \in f.atLast : \E p \in old : L[p] = [at |-> f.last, text |-> t]
      /\ f.last > 0 => \E p \in old : L[p].at = f.last
  BY <1>1, <1>2 DEF SourceInv, OutInv, UnreadInv, MemoryInv
<1>6. s \notin torn =>
        \A i \in h..n, k \in old : L[i].at = f.last /\ i < k => i \in old
  BY <1>1, <1>2 DEF SourceInv, NoneSkipped
<1>7. f.read /\ s \notin said \cup full \cup torn =>
        \A i \in h..n : L[i].at < f.readAt => \E p \in old : i <= p
  BY <1>1, <1>2 DEF SourceInv, ReadUpTo
<1>8. /\ pc = "first" => out[s] = <<>> /\ s \notin young /\ ~f.read
  BY <1>1 DEF SourceInv, TurnInv, New
\* What is answered.
<1>9. /\ tail \in Nat \ {0} /\ MaxTail \in Nat /\ tail <= MaxTail
  BY FollowAssumption
<1>10. from \in Nat /\ (pc = "first" => from = 0)
         /\ (from <= f.last \/ from <= IF f.read THEN f.readAt ELSE 1)
  BY <1>1, <1>3, <1>5, FromIs
<1>11. /\ es \in SUBSET (h..n) /\ es \in SUBSET (1..n)
       /\ \A i \in es, k \in h..n : i <= k => k \in es
       /\ Cardinality(es) \in Nat
       /\ Cardinality(es) < tail => \A i \in h..n : from <= L[i].at => i \in es
       /\ from = 0 /\ h <= n => n \in es
  <2> HIDE DEF tail, from
  <2> QED
    BY <1>9, <1>10, AnswerIs DEF SourceInv
<1>12. \A i : i \in fresh <=> i \in es /\ (L[i].at > f.last
                                            \/ (L[i].at = f.last /\ L[i].text \notin f.atLast))
  <2>1. CASE f.read
    BY <2>1 DEF Fresh, IsFresh
  <2>2. CASE ~f.read
    <3>1. fresh = es
      BY <2>2 DEF Fresh
    <3>2. \A i \in 1..n : L[i].at > f.last
      <4> HIDE DEF es, f, L, n, fresh, old, h
      <4>1. f.last = 0
        BY <1>5, <2>2
      <4>2. \A i \in 1..n : L[i].at \in Nat /\ 1 <= L[i].at
        BY <1>3
      <4> QED
        BY <4>1, <4>2
    <3>3. \A i \in es : i \in 1..n
      BY <1>11
    <3> QED
      BY <3>1, <3>2, <3>3
  <2> QED
    BY <2>1, <2>2
\* What follows.
<1>13. /\ batch'[s] = fresh
       /\ tracked'[s] = [Remembered(f, s, fresh) EXCEPT !.read = TRUE, !.readAt = round, !.gone = FALSE]
       /\ said' = IF f.read /\ isCut /\ fresh = es THEN said \cup {s} ELSE said
       /\ full' = IF ~f.read /\ isCut THEN full \cup {s} ELSE full
       /\ torn' = IF Tears(s, es) THEN torn \cup {s} ELSE torn
  BY DEF Reads, FollowTypeOK
<1>14. Tears(s, es) <=> \E i \in h..n, k \in es : i \notin es /\ L[i].at = L[k].at
  BY DEF Tears
<1>15. fresh \in SUBSET (1..n) /\ fresh \in SUBSET es
  BY <1>11, <1>12
<1> HIDE DEF f, L, n, h, old, tail, from, es
<1>16. /\ last \in Nat /\ f.last <= last
       /\ \A i \in fresh : L[i].at <= last
       /\ last = f.last \/ \E i \in fresh : L[i].at = last
       /\ tracked'[s] # Untracked /\ tracked'[s].last = last /\ tracked'[s].read = TRUE
       /\ tracked'[s].readAt = round
       /\ \A t : t \in tracked'[s].atLast <=> \/ last = f.last /\ t \in f.atLast
                                              \/ \E i \in fresh : L[i].at = last /\ L[i].text = t
  <2> DEFINE r == Remembered(f, s, fresh)
  <2> HIDE DEF fresh
  <2>0. MaxTime \in Nat
    BY FollowAssumption
  <2>1. last = r.last
    OBVIOUS
  <2>2. fresh \in SUBSET (1..Len(log[s])) /\ f \in Followed
    BY <1>3, <1>15 DEF n
  <2> HIDE DEF last
  <2>3. tracked'[s] = [r EXCEPT !.read = TRUE, !.readAt = round, !.gone = FALSE]
    BY <1>13
  <2>4. r = Remembered(f, s, fresh)
    OBVIOUS
  <2> HIDE DEF r
  <2>5. /\ r \in Followed
        /\ r.last \in 0..MaxTime /\ f.last <= r.last
        /\ \A i \in fresh : log[s][i].at <= r.last
        /\ r.last = f.last \/ \E i \in fresh : log[s][i].at = r.last
        /\ \A t : t \in r.atLast <=> \/ r.last = f.last /\ t \in f.atLast
                                    \/ \E i \in fresh : log[s][i].at = r.last /\ log[s][i].text = t
    BY <2>2, <2>4, RememberedIs
  <2>6. /\ tracked'[s].last = r.last /\ tracked'[s].atLast = r.atLast
        /\ tracked'[s].read = TRUE /\ tracked'[s].readAt = round
    BY <2>5, <2>3 DEF Followed
  <2>7. tracked'[s] # Untracked
    <3>1. round \in 0..MaxTime
      BY <2>0 DEF FollowTypeOK
    <3>2. tracked'[s] \in Followed
      BY <2>5, <2>3, <3>1 DEF Followed
    <3> QED
      BY <3>2, FollowAssumption
  <2> QED
    BY <2>0, <2>1, <2>5, <2>6, <2>7 DEF L
<1> HIDE DEF fresh, last, isCut
\* What is not fresh was printed, or is before what was.
<1>17. ASSUME NEW i \in es, i \notin fresh
       PROVE  /\ L[i].at = f.last => i \in old
              /\ \E p \in old : i <= p
  <2>1. i \in 1..n /\ L[i].at \in Nat
    BY <1>3, <1>11
  <2>2. L[i].at < f.last \/ (L[i].at = f.last /\ L[i].text \in f.atLast)
    BY <1>3, <1>12, <1>17, <2>1
  <2>3. CASE L[i].at < f.last
    <3>1. PICK p \in old : L[p].at = f.last
      BY <1>3, <1>5, <2>1, <2>3
    <3>2. p \in 1..n
      BY <1>5
    <3>3. ~(p <= i)
      BY <1>3, <1>4, <2>1, <2>3, <3>1, <3>2
    <3>4. i <= p
      BY <1>3, <2>1, <3>2, <3>3
    <3> QED
      BY <1>3, <2>1, <2>3, <3>4
  <2>4. CASE L[i].at = f.last /\ L[i].text \in f.atLast
    <3>1. PICK p \in old : L[p] = [at |-> f.last, text |-> L[i].text]
      BY <1>5, <2>4
    <3>2. L[p] = L[i] /\ p \in 1..n
      BY <1>3, <1>5, <2>1, <2>4, <3>1
    <3>3. p = i
      BY <1>4, <2>1, <3>2
    <3>4. i <= i
      BY <1>3, <2>1
    <3> QED
      BY <3>1, <3>3, <3>4
  <2> QED
    BY <2>2, <2>3, <2>4
\* What is fresh was not printed, and is after what was.
<1>18. ASSUME NEW i \in fresh
       PROVE  /\ i \notin old /\ i \in h..n /\ i \in 1..n /\ i \in Nat /\ L[i].at \in Nat
              /\ L[i].at >= f.last
  <2>1. i \in h..n /\ i \in 1..n /\ L[i].at \in Nat
    BY <1>3, <1>11, <1>15
  <2>2. i >= h
    BY <1>3, <2>1
  <2>3. \/ L[i].at > f.last
        \/ L[i].at = f.last /\ L[i].text \notin f.atLast
    BY <1>12
  <2>4. i \notin old
    BY <1>3, <1>5, <2>1, <2>2, <2>3
  <2> QED
    BY <1>3, <2>1, <2>3, <2>4
<1>19. ASSUME s \notin torn, NEW i \in fresh, NEW p \in old
       PROVE  p < i
  <2>1. p \in 1..n /\ L[p].at \in Nat
    BY <1>3, <1>5
  <2>2. CASE p < h
    BY <1>3, <1>18, <2>1, <2>2
  <2>3. CASE p >= h
    <3> SUFFICES ASSUME i < p PROVE FALSE
      BY <1>18, <2>1
    <3>1. L[p].at <= f.last
      BY <1>3, <1>5, <2>1, <2>3
    <3>2. L[i].at <= L[p].at
      BY <1>3, <1>4, <1>18, <2>1
    <3>3. L[i].at = f.last
      BY <1>3, <1>18, <2>1, <3>1, <3>2
    <3>4. i \in old
      BY <1>6, <1>18, <1>19, <3>3
    <3> QED
      BY <1>18, <3>4
  <2> QED
    BY <1>3, <2>1, <2>2, <2>3
\* The invariant of what is printed.
<1>20. Shown(s)' = old /\ Printed(s)' = old \cup fresh /\ out'[s] = out[s]
  BY <1>1, <1>13 DEF Shown, Printed, old
<1>21. OutInv(s)'
  <2>1. old \cup fresh \subseteq 1..n
    BY <1>5, <1>15
  <2>2. fresh \cap old = {}
    BY <1>18
  <2>3. ASSUME s \notin torn, NEW i \in fresh, NEW k \in fresh, NEW j \in 1..n, i < j, j < k
        PROVE  j \in fresh
    <3>0. i \in 1..n /\ k \in 1..n /\ j \in h..n /\ i <= j
      BY <1>3, <1>18, <2>3
    <3>1. j \in es
      BY <1>11, <1>15, <3>0
    <3>2. L[i].at <= L[j].at /\ L[j].at \in Nat
      BY <1>3, <1>4, <3>0
    <3> SUFFICES ASSUME j \notin fresh PROVE FALSE
      OBVIOUS
    <3>3. L[j].at = f.last
      BY <1>3, <1>12, <1>18, <3>1, <3>2
    <3>4. j \in old
      BY <1>17, <3>1, <3>3
    <3>5. j < i
      BY <1>19, <2>3, <3>4
    <3> QED
      BY <1>3, <2>3, <3>0, <3>5
  <2>4. s \notin torn' => s \notin torn
    BY <1>13
  <2>5. n = Len(log'[s])
    BY <1>1 DEF n
  <2>6. /\ out[s] \in Seq(Nat)
        /\ \A i, k \in DOMAIN out[s] : out[s][i] = out[s][k] => i = k
        /\ s \notin torn => \A i, k \in DOMAIN out[s] : i < k => out[s][i] < out[s][k]
    BY DEF SourceInv, OutInv
  <2> QED
    BY <1>13, <1>19, <1>20, <2>1, <2>2, <2>3, <2>4, <2>5, <2>6 DEF OutInv
<1>22. UnreadInv(s)'
  BY <1>16 DEF UnreadInv
<1>23. MemoryInv(s)'
  <2>1. ASSUME NEW p \in old \cup fresh, p >= h
        PROVE  L[p].at < last \/ (L[p].at = last /\ L[p].text \in tracked'[s].atLast)
    <3>0. p \in 1..n /\ L[p].at \in Nat
      BY <1>3, <1>5, <1>15
    <3>1. CASE p \in fresh
      BY <1>16, <3>0, <3>1
    <3>2. CASE p \in old
      <4>1. L[p].at < f.last \/ (L[p].at = f.last /\ L[p].text \in f.atLast)
        BY <1>5, <2>1, <3>2
      <4> QED
        BY <1>3, <1>16, <3>0, <4>1
    <3> QED
      BY <3>1, <3>2
  <2>2. ASSUME NEW t \in tracked'[s].atLast
        PROVE  \E p \in old \cup fresh : L[p] = [at |-> last, text |-> t]
    <3>1. CASE last = f.last /\ t \in f.atLast
      BY <1>5, <3>1
    <3>2. CASE \E i \in fresh : L[i].at = last /\ t = L[i].text
      <4>1. PICK i \in fresh : L[i].at = last /\ t = L[i].text
        BY <3>2
      <4>2. L[i] = [at |-> last, text |-> t]
        BY <1>3, <1>18, <4>1
      <4> QED
        BY <4>2
    <3> QED
      BY <1>16, <3>1, <3>2
  <2>3. last > 0 => \E p \in old \cup fresh : L[p].at = last
    BY <1>5, <1>16
  <2>4. round' = round /\ round <= round /\ log'[s] = L /\ head'[s] = h
    BY <1>1, <1>3 DEF L, h
  <2> QED
    BY <1>16, <1>20, <2>1, <2>2, <2>3, <2>4 DEF MemoryInv
<1>24. NoneSkipped(s)'
  <2>1. ASSUME s \notin torn', NEW i \in h..n, NEW k \in old \cup fresh, L[i].at = last, i < k
        PROVE  i \in old \cup fresh
    <3>1. s \notin torn /\ ~Tears(s, es)
      BY <1>13, <2>1
    <3>2. i \in 1..n /\ k \in 1..n
      BY <1>3, <1>5, <1>15
    <3>3. k >= h
      <4>1. i \in Nat /\ k \in Nat /\ i >= h
        BY <1>3, <3>2
      <4> QED
        BY <1>3, <2>1, <4>1
    <3>4. /\ i \in 1..n /\ k \in 1..n /\ k >= h /\ L[k].at \in Nat
          /\ s \notin torn /\ ~Tears(s, es)
      BY <1>3, <3>1, <3>2, <3>3
    <3>5. CASE k \in fresh
      <4>1. L[k].at = L[i].at
        <5>1. L[i].at <= L[k].at /\ L[k].at <= last
          BY <1>3, <1>4, <1>16, <2>1, <3>4, <3>5
        <5> QED
          BY <1>16, <2>1, <3>4, <5>1
      <4>2. i \in es
        BY <1>14, <1>15, <3>4, <3>5, <4>1
      <4>3. i \notin fresh => i \in old
        <5> SUFFICES ASSUME i \notin fresh PROVE i \in old
          OBVIOUS
        <5>1. L[i].at = f.last
          BY <1>3, <1>12, <1>16, <2>1, <4>2
        <5> QED
          BY <1>17, <4>2, <5>1
      <4> QED
        BY <4>3
    <3>6. CASE k \in old
      <4>1. L[k].at <= f.last
        BY <1>3, <1>5, <3>4, <3>6
      <4>2. L[i].at <= L[k].at
        BY <1>3, <1>4, <2>1, <3>4
      <4>3. L[i].at = f.last
        BY <1>3, <1>16, <2>1, <3>4, <4>1, <4>2
      <4> QED
        BY <1>6, <2>1, <3>4, <3>6, <4>3
    <3> QED
      BY <3>5, <3>6
  <2>2. log'[s] = L /\ head'[s] = h /\ Len(log'[s]) = n
    BY <1>1 DEF L, h, n
  <2> QED
    BY <1>16, <1>20, <2>1, <2>2 DEF NoneSkipped
\* Every line of the log is printed, or to be, or before one that was; unless it is said that
\* some are missing.
<1>25. ASSUME s \notin said' \cup full' \cup torn', NEW i \in h..n
       PROVE  \/ i \in fresh
              \/ \E p \in old : i <= p
              \/ pc = "first" /\ h <= n /\ n \in fresh
  <2>0. /\ i \in 1..n /\ L[i].at \in Nat /\ 1 <= L[i].at
        /\ s \notin said \cup full \cup torn
        /\ ~(f.read /\ isCut /\ fresh = es) /\ ~(~f.read /\ isCut)
    <3>1. i \in 1..n
      BY <1>3
    <3>2. s \notin said /\ ~(f.read /\ isCut /\ fresh = es)
      BY <1>13, <1>25
    <3>3. s \notin full /\ ~(~f.read /\ isCut)
      BY <1>13, <1>25
    <3>4. s \notin torn
      BY <1>13, <1>25
    <3> QED
      BY <1>3, <3>1, <3>2, <3>3, <3>4
  <2>1. CASE i \in es
    BY <1>17, <2>1
  <2>2. CASE i \notin es /\ pc = "first"
    <3>1. h <= n
      BY <1>3
    <3>2. n \in es /\ ~f.read
      BY <1>8, <1>10, <1>11, <2>2, <3>1
    <3>3. n \in fresh
      <4>1. n \in 1..n /\ f.last = 0
        BY <1>3, <1>5, <1>11, <3>2
      <4>2. L[n].at > f.last
        <5>1. L[n].at \in Nat /\ 1 <= L[n].at
          BY <1>3, <4>1
        <5> QED
          BY <4>1, <5>1
      <4> QED
        BY <1>12, <3>2, <4>2
    <3> QED
      BY <2>2, <3>1, <3>3
  <2>3. CASE i \notin es /\ pc = "read"
    <3>1. tail = MaxTail
      BY <2>3 DEF tail
    <3>2. CASE isCut
      <4>1. f.read /\ fresh # es
        BY <1>3, <2>0, <3>2
      <4>2. PICK e \in es : e \notin fresh
        BY <1>15, <4>1
      <4>3. PICK p \in old : e <= p
        BY <1>17, <4>2
      <4>4. e \in h..n /\ p \in 1..n
        BY <1>5, <1>11
      <4>5. ~(e <= i)
        BY <1>11, <2>3
      <4>6. i <= p
        BY <1>3, <2>0, <4>3, <4>4, <4>5
      <4> QED
        BY <4>6
    <3>3. CASE ~isCut
      <4>1. L[i].at < from
        BY <1>9, <1>10, <1>11, <2>0, <2>3, <3>1, <3>3 DEF isCut
      <4>2. CASE from <= f.last
        <5>1. L[i].at < f.last
          BY <1>3, <1>10, <2>0, <4>1, <4>2
        <5>2. PICK p \in old : L[p].at = f.last
          BY <1>3, <1>5, <2>0, <5>1
        <5>3. p \in 1..n
          BY <1>5
        <5>4. ~(p <= i)
          BY <1>3, <1>4, <2>0, <5>1, <5>2, <5>3
        <5>5. i <= p
          BY <1>3, <2>0, <5>3, <5>4
        <5> QED
          BY <5>5
      <4>3. CASE from <= IF f.read THEN f.readAt ELSE 1
        <5>1. f.read
          BY <1>3, <1>10, <2>0, <4>1, <4>3
        <5>2. L[i].at < f.readAt
          BY <1>3, <1>10, <2>0, <4>1, <4>3, <5>1
        <5> QED
          BY <1>7, <1>25, <2>0, <5>1, <5>2
      <4> QED
        BY <1>10, <4>2, <4>3
    <3> QED
      BY <3>2, <3>3
  <2> QED
    BY <1>1, <2>1, <2>2, <2>3
<1>26. ReadUpTo(s)'
  <2>1. ASSUME s \notin said' \cup full' \cup torn', NEW i \in h..n
        PROVE  \E p \in old \cup fresh : i <= p
    <3>1. i <= i /\ i <= n
      BY <1>3
    <3> QED
      BY <1>25, <2>1, <3>1
  <2>2. log'[s] = L /\ head'[s] = h /\ Len(log'[s]) = n
    BY <1>1 DEF L, h, n
  <2> QED
    BY <1>20, <2>1, <2>2 DEF ReadUpTo
<1>27. GoesOn(s)'
  <2>1. ASSUME s \notin said' \cup full' \cup torn', NEW a \in fresh, \A i \in fresh : a <= i
        PROVE  \/ out[s] = <<>> /\ (s \in young => a <= h)
               \/ out[s] # <<>> /\ a <= h
               \/ \E p \in old : a <= p + 1
    <3>1. a \in Nat /\ a \in h..n
      BY <1>18
    <3>2. CASE a = h
      BY <1>3, <3>2
    <3>3. CASE a # h
      <4>1. a - 1 \in h..n /\ a - 1 \notin fresh
        BY <1>3, <2>1, <3>1, <3>3
      <4>2. CASE pc = "first"
        BY <1>8, <4>2
      <4>3. CASE pc # "first"
        <5>1. PICK p \in old : a - 1 <= p
          BY <1>25, <2>1, <4>1, <4>3
        <5>2. p \in 1..n
          BY <1>5
        <5>3. a <= p + 1
          BY <3>1, <5>1, <5>2
        <5> QED
          BY <5>3
      <4> QED
        BY <4>2, <4>3
    <3> QED
      BY <3>2, <3>3
  <2>2. head'[s] = h /\ young' = young
    BY <1>1 DEF h
  <2> QED
    BY <1>13, <1>20, <2>1, <2>2 DEF GoesOn
<1> QED
  BY <1>21, <1>22, <1>23, <1>24, <1>26, <1>27 DEF PrintInv

----------------------------------------------------------------------------
(* The steps of the follow. *)

\* A step that reads or prints nothing of a source keeps all that is known of it.
LEMMA SourceKept ==
  ASSUME FollowTypeOK, NEW s \in Sources, SourceInv(s), LogInv(s)', TurnInv(s)',
         LogGoesOn(s), SameMemory(s),
         out'[s] = out[s], batch'[s] = batch[s], young' = young,
         said' = said, full' = full, torn' = torn,
         round' \in Nat, round <= round', pc' # "done" => pc # "done"
  PROVE  SourceInv(s)'
<1>1. PrintInv(s)
  BY DEF SourceInv, PrintInv
<1>2. PrintInv(s)'
  BY <1>1, KeepsPrinted
<1> QED
  BY <1>2 DEF SourceInv, PrintInv

\* A read that is answered (follow.go:142-187).
LEMMA ReadsStep ==
  ASSUME FollowInv, NEW r \in Sources, Reads(r)
  PROVE  FollowInv'
<1> DEFINE f == tracked[r]
           es == Answer(r, From(f), IF pc = "first" THEN FirstTail ELSE MaxTail)
           fresh == Fresh(f, r, es)
           g == Remembered(f, r, fresh)
<1>1. FollowTypeOK /\ ClockInv /\ (\A s \in Sources : SourceInv(s))
  BY DEF FollowInv
<1>2. /\ pc \in {"first", "read"} /\ r \in todo /\ todo' = todo \ {r}
      /\ UNCHANGED <<portal, now, live, log, head, pc, round, out, young>>
  BY DEF Reads, ItsTurn, worldVars
<1>3. /\ said' = said \cup {r} \/ said' = said
      /\ full' = full \cup {r} \/ full' = full
      /\ torn' = torn \cup {r} \/ torn' = torn
      /\ bySinceTime' \in BOOLEAN
  BY DEF Reads
<1>4. /\ tracked' = [tracked EXCEPT ![r] = [g EXCEPT !.read = TRUE, !.readAt = round, !.gone = FALSE]]
      /\ batch' = [batch EXCEPT ![r] = fresh]
  BY DEF Reads
<1> HIDE DEF g
<1>5. FollowTypeOK'
  <2>1. fresh \in SUBSET (1..Len(log[r]))
    <3>1. es \in SUBSET (1..Len(log[r]))
      <4>1. \A i \in es : i \in head[r]..Len(log[r])
        BY DEF Answer
      <4>2. \A i \in head[r]..Len(log[r]) : i \in 1..Len(log[r])
        BY <1>1, SourceTypes
      <4> QED
        BY <4>1, <4>2
    <3>2. fresh \in SUBSET es
      BY DEF Fresh
    <3> QED
      BY <3>1, <3>2
  <2> HIDE DEF es, fresh
  <2>2. f \in Followed
    <3>1. TurnInv(r)
      BY <1>1 DEF SourceInv
    <3>2. f # Untracked
      BY <1>2, <3>1 DEF TurnInv
    <3> QED
      BY <1>1, <3>2 DEF FollowTypeOK
  <2>3. g \in Followed
    BY <1>1, <2>1, <2>2, RememberedIs DEF g
  <2>4. round \in 0..MaxTime
    BY <1>1, FollowAssumption DEF FollowTypeOK
  <2>5. [g EXCEPT !.read = TRUE, !.readAt = round, !.gone = FALSE] \in Followed
    BY <2>3, <2>4 DEF Followed
  <2>6. tracked' \in [Sources -> Followed \cup {Untracked}]
    BY <1>1, <1>4, <2>5 DEF FollowTypeOK
  <2>7. fresh \in SUBSET (1..MaxLines)
    <3>1. Len(log[r]) \in Nat /\ Len(log[r]) <= MaxLines /\ MaxLines \in Nat
      BY <1>1, SourceTypes, FollowAssumption
    <3>2. \A i \in 1..Len(log[r]) : i \in 1..MaxLines
      BY <3>1
    <3> QED
      BY <2>1, <3>2
  <2>8. batch' \in [Sources -> SUBSET (1..MaxLines)]
    BY <1>1, <1>4, <2>7 DEF FollowTypeOK
  <2>9. said' \in SUBSET Sources /\ full' \in SUBSET Sources /\ torn' \in SUBSET Sources
    BY <1>1, <1>3 DEF FollowTypeOK
  <2> QED
    BY <1>1, <1>2, <1>3, <2>6, <2>8, <2>9 DEF FollowTypeOK
<1>6. ClockInv'
  BY <1>1, <1>2 DEF ClockInv
<1>7. ASSUME NEW s \in Sources
      PROVE  SourceInv(s)'
  <2>1. LogInv(s) /\ TurnInv(s)
    BY <1>1 DEF SourceInv
  <2>2. CASE s = r
    <3>1. LogInv(s)'
      BY <1>2, <2>1 DEF LogInv
    <3>2. TurnInv(s)'
      BY <1>2, <2>1, <2>2 DEF TurnInv
    <3>3. PrintInv(s)'
      BY <1>1, <2>2, ReadKeeps
    <3> QED
      BY <3>1, <3>2, <3>3 DEF SourceInv, PrintInv
  <2>3. CASE s # r
    <3> HIDE DEF fresh, es, f
    <3>1. tracked'[s] = tracked[s] /\ batch'[s] = batch[s]
      BY <1>1, <1>4, <2>3 DEF FollowTypeOK
    <3>2. SameMemory(s)
      BY <3>1 DEF SameMemory
    <3>3. s \in todo' => s \in todo
      BY <1>2
    <3>4. said \subseteq said' /\ full \subseteq full' /\ torn \subseteq torn'
      BY <1>3
    <3> QED
      BY <1>1, <1>2, <3>1, <3>2, <3>3, <3>4, Untouched
  <2> QED
    BY <2>2, <2>3
<1> QED
  BY <1>5, <1>6, <1>7 DEF FollowInv

\* A read that is not, for whatever reason (follow.go:142-187, 275-300).
LEMMA NoReadStep ==
  ASSUME FollowInv, NEW r \in Sources, StampRefused(r) \/ ReadGone(r) \/ ReadFails(r)
  PROVE  FollowInv'
<1>1. FollowTypeOK /\ ClockInv /\ (\A s \in Sources : SourceInv(s))
  BY DEF FollowInv
<1>2. /\ pc \in {"first", "read"} /\ r \in todo /\ todo' = todo \ {r}
      /\ UNCHANGED <<portal, now, live, log, head, pc, round, batch, out, young, said, full, torn>>
      /\ bySinceTime' = bySinceTime \/ bySinceTime' = FALSE
      /\ tracked' = tracked \/ tracked' = [tracked EXCEPT ![r].gone = TRUE]
  BY DEF StampRefused, ReadGone, ReadFails, ItsTurn, worldVars, historyVars
<1>3. tracked[r] \in Followed
  <2>1. TurnInv(r)
    BY <1>1 DEF SourceInv
  <2>2. tracked[r] # Untracked
    BY <1>2, <2>1 DEF TurnInv
  <2> QED
    BY <1>1, <2>2 DEF FollowTypeOK
<1>4. [tracked[r] EXCEPT !.gone = TRUE] \in Followed
  BY <1>3 DEF Followed
<1>5. FollowTypeOK'
  <2>1. tracked' \in [Sources -> Followed \cup {Untracked}]
    BY <1>1, <1>2, <1>4 DEF FollowTypeOK
  <2> QED
    BY <1>1, <1>2, <2>1 DEF FollowTypeOK
<1>6. ClockInv'
  BY <1>1, <1>2 DEF ClockInv
<1>7. ASSUME NEW s \in Sources
      PROVE  SourceInv(s)'
  <2>1. s # r => tracked'[s] = tracked[s]
    BY <1>1, <1>2 DEF FollowTypeOK
  <2>2. SameMemory(s)
    <3>1. CASE s # r \/ tracked' = tracked
      BY <2>1, <3>1 DEF SameMemory
    <3>2. CASE s = r /\ tracked' = [tracked EXCEPT ![r].gone = TRUE]
      <4>1. tracked'[s] = [tracked[s] EXCEPT !.gone = TRUE]
        BY <1>1, <3>2 DEF FollowTypeOK
      <4>2. tracked[s] \in Followed /\ tracked'[s] \in Followed
        BY <1>3, <1>4, <3>2, <4>1
      <4>3. tracked[s] # Untracked /\ tracked'[s] # Untracked
        BY <4>2, FollowAssumption
      <4> QED
        BY <4>1, <4>2, <4>3 DEF SameMemory, Followed
    <3> QED
      BY <1>2, <3>1, <3>2
  <2>3. s \in todo' => s \in todo /\ tracked'[s] = tracked[s]
    BY <1>2, <2>1
  <2> QED
    BY <1>1, <1>2, <2>2, <2>3, Untouched
<1> QED
  BY <1>5, <1>6, <1>7 DEF FollowInv

\* What a source that is tracked anew is known by.
LEMMA NewIs ==
  New \in Followed /\ New # Untracked /\ New.last = 0 /\ New.atLast = {} /\ New.readAt = 0 /\ ~New.read
<1>1. New \in Followed
  BY FollowAssumption DEF New, Followed
<1> QED
  BY <1>1, FollowAssumption DEF New

\* The next round begins (follow.go:142-150).
LEMMA NextRoundStep ==
  ASSUME FollowInv, NextRound \/ ListFails
  PROVE  FollowInv'
<1>1. FollowTypeOK /\ ClockInv /\ (\A s \in Sources : SourceInv(s))
  BY DEF FollowInv
<1>2. /\ UNCHANGED <<portal, now, live, log, head, tracked, bySinceTime, batch, out, young, said, full, torn>>
      /\ \/ pc = "sleep" /\ pc' = "list" /\ round' = now /\ todo' = todo
         \/ pc = "list" /\ pc' = "read" /\ round' = round /\ todo' = {s \in Sources : tracked[s] # Untracked}
  BY DEF NextRound, ListFails, worldVars, historyVars
<1>3. FollowTypeOK'
  BY <1>1, <1>2 DEF FollowTypeOK
<1>4. now \in Nat /\ round \in Nat /\ Margin \in Nat /\ round <= now /\ round' \in Nat /\ round <= round'
  BY <1>1, <1>2, FollowAssumption DEF FollowTypeOK, ClockInv
<1>5. ClockInv'
  <2>1. now <= now + Margin
    BY <1>4
  <2>2. round' <= now' /\ (pc = "list" => now <= round + Margin)
    BY <1>1, <1>2, <1>4 DEF ClockInv
  <2> QED
    BY <1>2, <2>1, <2>2 DEF ClockInv
<1>6. ASSUME NEW s \in Sources
      PROVE  SourceInv(s)'
  <2>1. LogInv(s) /\ TurnInv(s)
    BY <1>1 DEF SourceInv
  <2>2. LogInv(s)'
    BY <1>2, <2>1 DEF LogInv
  <2>3. TurnInv(s)'
    BY <1>2, <2>1 DEF TurnInv
  <2>4. LogGoesOn(s)
    BY <1>1, <1>2, SourceTypes DEF LogGoesOn
  <2>5. SameMemory(s)
    BY <1>2 DEF SameMemory
  <2> QED
    BY <1>1, <1>2, <1>4, <2>2, <2>3, <2>4, <2>5, SourceKept
<1> QED
  BY <1>3, <1>5, <1>6 DEF FollowInv

\* The pods are listed (follow.go:152-163, 203-222).
LEMMA ListsStep ==
  ASSUME FollowInv, Lists
  PROVE  FollowInv'
<1>1. FollowTypeOK /\ ClockInv /\ (\A s \in Sources : SourceInv(s))
  BY DEF FollowInv
<1>2. /\ UNCHANGED <<portal, now, live, log, head, round, bySinceTime, batch, out, young, said, full, torn>>
      /\ pc = "list" /\ pc' = "read" /\ todo' = live
  BY DEF Lists, worldVars, historyVars
<1>3. tracked' = [s \in Sources |->
                    IF s \notin live THEN Untracked ELSE IF tracked[s] = Untracked THEN New ELSE tracked[s]]
  BY DEF Lists
<1>4. FollowTypeOK'
  <2>1. tracked' \in [Sources -> Followed \cup {Untracked}]
    BY <1>1, <1>3, NewIs DEF FollowTypeOK
  <2> QED
    BY <1>1, <1>2, <2>1 DEF FollowTypeOK
<1>5. ClockInv'
  BY <1>1, <1>2 DEF ClockInv
<1>6. ASSUME NEW s \in Sources
      PROVE  SourceInv(s)'
  <2>0. /\ Len(log[s]) \in Nat /\ head[s] \in Nat /\ round \in Nat
        /\ \A i \in 1..Len(log[s]) : log[s][i].at \in Nat /\ 1 <= log[s][i].at
        /\ Printed(s)' = Printed(s) /\ Printed(s) \subseteq 1..Len(log[s])
    BY <1>1, <1>2, SourceTypes DEF SourceInv, OutInv, Printed, Shown
  <2>1. /\ LogInv(s) /\ TurnInv(s) /\ OutInv(s) /\ UnreadInv(s) /\ GoesOn(s)
        /\ tracked'[s] = IF s \notin live THEN Untracked
                         ELSE IF tracked[s] = Untracked THEN New ELSE tracked[s]
    BY <1>1, <1>3 DEF SourceInv
  <2>2. LogInv(s)'
    BY <1>2, <2>1 DEF LogInv
  <2>3. TurnInv(s)'
    BY <1>2, <2>1, NewIs DEF TurnInv
  <2>4. OutInv(s)' /\ GoesOn(s)'
    BY <1>2, <2>1 DEF OutInv, GoesOn, Printed, Shown
  <2>5. CASE s \notin live
    <3>1. tracked'[s] = Untracked /\ \A p \in Printed(s) : p < head[s]
      BY <2>0, <2>1, <2>5 DEF LogInv
    <3>2. UnreadInv(s)' /\ MemoryInv(s)' /\ NoneSkipped(s)' /\ ReadUpTo(s)'
      BY <1>2, <2>0, <3>1 DEF UnreadInv, MemoryInv, NoneSkipped, ReadUpTo
    <3> QED
      BY <2>2, <2>3, <2>4, <3>2 DEF SourceInv
  <2>6. CASE s \in live /\ tracked[s] = Untracked
    <3>1. tracked'[s] = New /\ \A p \in Printed(s) : p < head[s]
      BY <1>2, <2>1, <2>6 DEF UnreadInv
    <3>2. UnreadInv(s)'
      BY <1>2, <2>0, <3>1, NewIs DEF UnreadInv
    <3>3. MemoryInv(s)'
      <4>1. \A p \in Printed(s) : ~(p >= head[s])
        <5>1. \A p \in Printed(s) : p \in Nat
          BY <2>0
        <5> QED
          BY <2>0, <3>1, <5>1
      <4>2. 0 <= round /\ ~(0 > 0)
        BY <2>0
      <4> QED
        BY <1>2, <2>0, <3>1, <4>1, <4>2, NewIs DEF MemoryInv
    <3>4. NoneSkipped(s)'
      <4>1. \A i \in head[s]..Len(log[s]), k \in Printed(s) : ~(i < k)
        <5>1. \A p \in Printed(s) : p \in Nat
          BY <2>0
        <5> QED
          BY <2>0, <3>1, <5>1
      <4> QED
        BY <1>2, <2>0, <4>1 DEF NoneSkipped
    <3>5. ReadUpTo(s)'
      BY <3>1, NewIs DEF ReadUpTo
    <3> QED
      BY <2>2, <2>3, <2>4, <3>2, <3>3, <3>4, <3>5 DEF SourceInv
  <2>7. CASE s \in live /\ tracked[s] # Untracked
    <3>1. SameMemory(s)
      BY <2>1, <2>7 DEF SameMemory
    <3>2. LogGoesOn(s)
      BY <1>1, <1>2, SourceTypes DEF LogGoesOn
    <3>3. round' \in Nat /\ round <= round'
      BY <1>2, <2>0
    <3> QED
      BY <1>1, <1>2, <2>2, <2>3, <3>1, <3>2, <3>3, SourceKept
  <2> QED
    BY <2>5, <2>6, <2>7
<1> QED
  BY <1>4, <1>5, <1>6 DEF FollowInv

\* The numbers of a set, in order, behind others.
Behind(o, S) == o \o InOrder(S)

Values(o) == {o[k] : k \in DOMAIN o}
EachOnce(o) == \A i, k \in DOMAIN o : o[i] = o[k] => i = k
Rising(o) == \A i, k \in DOMAIN o : i < k => o[i] < o[k]

\* They are all there, each once, and in order when all of them are greater (Prints).
LEMMA Appended ==
  ASSUME NEW S \in SUBSET (1..MaxLines), NEW o \in Seq(Nat),
         NEW c, c = Behind(o, S)
  PROVE  /\ c \in Seq(Nat)
         /\ Values(c) = Values(o) \cup S
         /\ S \cap Values(o) = {} /\ EachOnce(o) => EachOnce(c)
         /\ (\A p \in Values(o), i \in S : p < i) /\ Rising(o) => Rising(c)
<1> DEFINE q == InOrder(S)
           m == Len(o)
           l == Cardinality(S)
<1>1. /\ q \in Seq(Nat) /\ Len(q) = l /\ l \in Nat
      /\ \A k \in 1..l : q[k] \in S /\ UpTo(S, q[k]) = k
      /\ \A i \in S : UpTo(S, i) \in 1..l /\ q[UpTo(S, i)] = i
      /\ \A i, k \in S : i < k => UpTo(S, i) < UpTo(S, k)
  BY InOrderIs, PlacesAre, FollowAssumption
<1>2. m \in Nat /\ DOMAIN o = 1..m /\ \A k \in 1..m : o[k] \in Nat
  BY LenProperties, ElementOfSeq
<1> HIDE DEF q, l, m
<1>3. /\ c \in Seq(Nat) /\ Len(c) = m + l /\ DOMAIN c = 1..(m + l)
      /\ \A k \in 1..(m + l) : c[k] = IF k <= m THEN o[k] ELSE q[k - m]
  <2>1. c = o \o q
    BY DEF q, Behind
  <2>2. c \in Seq(Nat) /\ Len(c) = Len(o) + Len(q)
        /\ \A i \in 1..(Len(o) + Len(q)) : c[i] = IF i <= Len(o) THEN o[i] ELSE q[i - Len(o)]
    <3>1. o \in Seq(Nat) /\ q \in Seq(Nat)
      BY <1>1
    <3> QED
      BY ONLY <2>1, <3>1, ConcatProperties
  <2>3. DOMAIN c = 1..Len(c)
    BY <2>2, LenProperties
  <2> QED
    BY <1>1, <2>2, <2>3 DEF m
<1>4. \A k \in 1..m : k \in 1..(m + l) /\ c[k] = o[k]
  BY <1>1, <1>2, <1>3
<1>5. \A k \in 1..l : k + m \in 1..(m + l) /\ c[k + m] = q[k]
  <2> TAKE k \in 1..l
  <2>1. k + m \in 1..(m + l) /\ ~(k + m <= m) /\ (k + m) - m = k
    BY <1>1, <1>2
  <2> QED
    BY <1>3, <2>1
<1>6. \A k \in 1..(m + l) : k \in 1..m \/ (k - m \in 1..l /\ k = (k - m) + m)
  BY <1>1, <1>2
<1>7. /\ \A k \in 1..(m + l) : c[k] \in S \/ \E j \in 1..m : o[j] = c[k]
      /\ \A i \in S : \E k \in 1..(m + l) : c[k] = i
  <2>1. ASSUME NEW k \in 1..(m + l)
        PROVE  (\E j \in 1..m : o[j] = c[k]) \/ c[k] \in S
    <3>1. CASE k \in 1..m
      BY <1>4, <3>1
    <3>2. CASE k - m \in 1..l /\ k = (k - m) + m
      <4> DEFINE j == k - m
      <4>1. j \in 1..l /\ k = j + m
        BY <3>2
      <4> HIDE DEF j
      <4> QED
        BY <1>1, <1>5, <4>1
    <3> QED
      BY <1>6, <3>1, <3>2
  <2>2. \A i \in S : \E k \in 1..(m + l) : c[k] = i
    <3> TAKE i \in S
    <3>1. UpTo(S, i) \in 1..l /\ q[UpTo(S, i)] = i
      BY <1>1
    <3>2. UpTo(S, i) + m \in 1..(m + l) /\ c[UpTo(S, i) + m] = q[UpTo(S, i)]
      BY <1>5, <3>1
    <3> QED
      BY <3>1, <3>2
  <2> QED
    BY <2>1, <2>2
<1>8. ASSUME \A i \in S, k \in DOMAIN o : o[k] # i, \A i, k \in DOMAIN o : o[i] = o[k] => i = k,
             NEW i \in DOMAIN c, NEW k \in DOMAIN c, c[i] = c[k]
      PROVE  i = k
  <2>1. i \in 1..(m + l) /\ k \in 1..(m + l)
    BY <1>3
  <2>2. CASE i \in 1..m /\ k \in 1..m
    BY <1>2, <1>4, <1>8, <2>2
  <2>3. \A a \in 1..m, b \in 1..l : o[a] # q[b]
    <3> TAKE a \in 1..m, b \in 1..l
    <3>1. a \in DOMAIN o /\ q[b] \in S
      BY <1>1, <1>2
    <3> QED
      BY <1>8, <3>1
  <2>4. CASE i - m \in 1..l /\ k - m \in 1..l
    <3> DEFINE a == i - m
               b == k - m
    <3>1. a \in 1..l /\ b \in 1..l /\ i = a + m /\ k = b + m
      BY <1>2, <2>1, <2>4
    <3> HIDE DEF a, b
    <3>2. q[a] = q[b]
      BY <1>5, <1>8, <3>1
    <3>3. a = b
      BY <1>1, <3>1, <3>2
    <3> QED
      BY <3>1, <3>3
  <2>5. CASE i \in 1..m /\ k - m \in 1..l
    <3> DEFINE b == k - m
    <3>1. b \in 1..l /\ k = b + m
      BY <1>2, <2>1, <2>5
    <3> HIDE DEF b
    <3> QED
      BY <1>4, <1>5, <1>8, <2>3, <2>5, <3>1
  <2>6. CASE k \in 1..m /\ i - m \in 1..l
    <3> DEFINE a == i - m
    <3>1. a \in 1..l /\ i = a + m
      BY <1>2, <2>1, <2>6
    <3> HIDE DEF a
    <3> QED
      BY <1>4, <1>5, <1>8, <2>3, <2>6, <3>1
  <2> QED
    BY <1>6, <2>1, <2>2, <2>4, <2>5, <2>6
<1>9. ASSUME \A i \in S, k \in DOMAIN o : o[k] < i,
             \A i, k \in DOMAIN o : i < k => o[i] < o[k],
             NEW i \in DOMAIN c, NEW k \in DOMAIN c, i < k
      PROVE  c[i] < c[k]
  <2>1. i \in 1..(m + l) /\ k \in 1..(m + l)
    BY <1>3
  <2>2. CASE k \in 1..m
    <3>1. i \in 1..m
      BY <1>1, <1>2, <1>9, <2>1, <2>2
    <3> QED
      BY <1>2, <1>4, <1>9, <2>2, <3>1
  <2>3. CASE i \in 1..m /\ k - m \in 1..l
    <3> DEFINE b == k - m
    <3>1. b \in 1..l /\ k = b + m
      BY <1>2, <2>1, <2>3
    <3> HIDE DEF b
    <3>2. q[b] \in S /\ i \in DOMAIN o
      BY <1>1, <1>2, <2>3, <3>1
    <3>3. o[i] < q[b]
      BY <1>9, <3>2
    <3> QED
      BY <1>4, <1>5, <2>3, <3>1, <3>3
  <2>4. CASE i - m \in 1..l /\ k - m \in 1..l
    <3> DEFINE a == i - m
               b == k - m
    <3>1. a \in 1..l /\ b \in 1..l /\ i = a + m /\ k = b + m /\ a < b
      BY <1>2, <1>9, <2>1, <2>4
    <3> HIDE DEF a, b
    <3>2. q[a] \in S /\ q[b] \in S /\ UpTo(S, q[a]) = a /\ UpTo(S, q[b]) = b
      BY <1>1, <3>1
    <3>3. \A j \in S : j \in Nat
      OBVIOUS
    <3>4. q[a] \in Nat /\ q[b] \in Nat
      BY <3>2, <3>3
    <3>5. q[a] # q[b]
      <4>1. a \in Nat /\ b \in Nat
        BY <3>1
      <4> QED
        BY <3>1, <3>2, <4>1
    <3>6. ~(q[b] < q[a])
      <4>1. a \in Nat /\ b \in Nat /\ ~(b < a)
        BY <3>1
      <4> QED
        BY <1>1, <3>2, <4>1
    <3>7. q[a] < q[b]
      BY <3>4, <3>5, <3>6
    <3> QED
      BY <1>5, <3>1, <3>7
  <2>5. CASE i - m \in 1..l /\ k \in 1..m
    BY <1>1, <1>2, <1>9, <2>1, <2>5
  <2> QED
    BY <1>6, <2>1, <2>2, <2>3, <2>4
<1>10. DOMAIN c = 1..(m + l) /\ DOMAIN o = 1..m
  BY <1>2, <1>3
<1>11. /\ \A k \in DOMAIN c : c[k] \in S \/ \E j \in DOMAIN o : o[j] = c[k]
       /\ \A i \in S : \E k \in DOMAIN c : c[k] = i
       /\ \A j \in DOMAIN o : j \in DOMAIN c /\ c[j] = o[j]
  BY <1>4, <1>7, <1>10
<1>12. Values(c) = Values(o) \cup S
  <2>1. \A i : i \in Values(c) => i \in Values(o) \cup S
    BY <1>11 DEF Values
  <2>2. \A i : i \in S => i \in Values(c)
    BY <1>11 DEF Values
  <2>3. \A i : i \in Values(o) => i \in Values(c)
    BY <1>11 DEF Values
  <2> QED
    BY <2>1, <2>2, <2>3
<1>13. S \cap Values(o) = {} /\ EachOnce(o) => EachOnce(c)
  <2>1. S \cap Values(o) = {} => \A i \in S, k \in DOMAIN o : o[k] # i
    BY DEF Values
  <2> QED
    BY <1>8, <2>1 DEF EachOnce
<1>14. (\A p \in Values(o), i \in S : p < i) /\ Rising(o) => Rising(c)
  <2>1. (\A p \in Values(o), i \in S : p < i) => \A i \in S, k \in DOMAIN o : o[k] < i
    BY DEF Values
  <2> QED
    BY <1>9, <2>1 DEF Rising
<1> QED
  BY <1>3, <1>12, <1>13, <1>14

\* The lines of the round are printed (follow.go:164-187).
LEMMA PrintsStep ==
  ASSUME FollowInv, Prints
  PROVE  FollowInv'
<1>1. FollowTypeOK /\ ClockInv /\ (\A s \in Sources : SourceInv(s))
  BY DEF FollowInv
<1>2. /\ UNCHANGED <<portal, now, live, log, head, round, tracked, todo, bySinceTime, young, said, full, torn>>
      /\ pc \in {"first", "read"} /\ pc' = "sleep" /\ todo = {}
      /\ \A s \in Sources : out'[s] = out[s] \o InOrder(batch[s]) /\ batch'[s] = {}
  BY DEF Prints, worldVars
<1>3. FollowTypeOK'
  <2>1. batch' = [s \in Sources |-> {}]
    BY DEF Prints
  <2>2. batch' \in [Sources -> SUBSET (1..MaxLines)]
    BY <2>1
  <2> QED
    BY <1>1, <1>2, <2>2 DEF FollowTypeOK
<1>4. ClockInv'
  BY <1>1, <1>2 DEF ClockInv
<1>5. ASSUME NEW s \in Sources
      PROVE  SourceInv(s)'
  <2> DEFINE o == out[s]
             S == batch[s]
             c == out'[s]
  <2>1. SourceInv(s) /\ MaxLines \in Nat /\ S \in SUBSET (1..MaxLines) /\ o \in Seq(Nat)
    BY <1>1, SourceTypes, FollowAssumption DEF SourceInv, OutInv
  <2>2. c = Behind(o, S) /\ batch'[s] = {} /\ o = out[s] /\ S = batch[s] /\ c = out'[s]
    BY <1>2 DEF Behind
  <2>3. Shown(s) = Values(o) /\ Shown(s)' = Values(c)
    BY DEF Shown, Values
  <2> HIDE DEF o, S, c
  <2>4. /\ c \in Seq(Nat)
        /\ Shown(s)' = Shown(s) \cup S
        /\ S \cap Shown(s) = {} /\ EachOnce(o) => EachOnce(c)
        /\ (\A p \in Shown(s), i \in S : p < i) /\ Rising(o) => Rising(c)
    <3>1. S \in SUBSET (1..MaxLines) /\ o \in Seq(Nat) /\ c = Behind(o, S)
      BY <2>1, <2>2
    <3>2. /\ c \in Seq(Nat)
          /\ Values(c) = Values(o) \cup S
          /\ S \cap Values(o) = {} /\ EachOnce(o) => EachOnce(c)
          /\ (\A p \in Values(o), i \in S : p < i) /\ Rising(o) => Rising(c)
      BY <3>1, Appended
    <3> QED
      BY <2>3, <3>2
  <2>5. Printed(s) = Shown(s) \cup S /\ Printed(s)' = Printed(s) /\ Shown(s)' = Printed(s)
    BY <2>2, <2>4 DEF Printed
  <2>6. LogInv(s)'
    BY <1>2, <2>1 DEF SourceInv, LogInv
  <2>7. TurnInv(s)'
    BY <1>2, <2>2 DEF TurnInv
  <2>8. OutInv(s)'
    BY <1>2, <2>1, <2>2, <2>4, <2>5 DEF SourceInv, OutInv, EachOnce, Rising
  <2>9. UnreadInv(s)' /\ MemoryInv(s)' /\ NoneSkipped(s)' /\ ReadUpTo(s)'
    BY <1>2, <2>1, <2>5 DEF SourceInv, UnreadInv, MemoryInv, NoneSkipped, ReadUpTo
  <2>10. GoesOn(s)'
    BY <2>2 DEF GoesOn
  <2> QED
    BY <2>6, <2>7, <2>8, <2>9, <2>10 DEF SourceInv
<1> QED
  BY <1>3, <1>4, <1>5 DEF FollowInv

\* The command ends; what was read and not printed is not.
LEMMA StopsStep ==
  ASSUME FollowInv, Stops
  PROVE  FollowInv'
<1>1. FollowTypeOK /\ ClockInv /\ (\A s \in Sources : SourceInv(s))
  BY DEF FollowInv
<1>2. /\ UNCHANGED <<portal, now, live, log, head, out, young, said, full, torn>>
      /\ pc' = "done" /\ round' = 1 /\ todo' = {} /\ bySinceTime' = TRUE
      /\ tracked' = [s \in Sources |-> Untracked] /\ batch' = [s \in Sources |-> {}]
  BY DEF Stops, worldVars, historyVars
<1>3. FollowTypeOK'
  <2>1. 1 \in 1..MaxTime
    BY FollowAssumption
  <2>2. batch' \in [Sources -> SUBSET (1..MaxLines)]
    BY <1>2
  <2>3. tracked' \in [Sources -> Followed \cup {Untracked}]
    BY <1>2
  <2> QED
    BY <1>1, <1>2, <2>1, <2>2, <2>3 DEF FollowTypeOK
<1>4. ClockInv'
  <2>1. 1 <= now
    BY <1>1, FollowAssumption DEF FollowTypeOK
  <2> QED
    BY <1>2, <2>1 DEF ClockInv
<1>5. ASSUME NEW s \in Sources
      PROVE  SourceInv(s)'
  <2>1. tracked'[s] = Untracked /\ batch'[s] = {} /\ SourceInv(s)
    BY <1>1, <1>2
  <2>2. Shown(s)' = Shown(s) /\ Printed(s)' = Shown(s) /\ Shown(s) \subseteq Printed(s)
    BY <1>2, <2>1 DEF Shown, Printed
  <2>3. LogInv(s)'
    BY <1>2, <2>1 DEF SourceInv, LogInv
  <2>4. TurnInv(s)'
    BY <1>2, <2>1 DEF TurnInv
  <2>5. OutInv(s)'
    BY <1>2, <2>1, <2>2 DEF SourceInv, OutInv
  <2>6. UnreadInv(s)' /\ MemoryInv(s)' /\ NoneSkipped(s)' /\ ReadUpTo(s)' /\ GoesOn(s)'
    BY <1>2, <2>1 DEF UnreadInv, MemoryInv, NoneSkipped, ReadUpTo, GoesOn
  <2> QED
    BY <2>3, <2>4, <2>5, <2>6 DEF SourceInv
<1> QED
  BY <1>3, <1>4, <1>5 DEF FollowInv

----------------------------------------------------------------------------
(* The steps of the cluster. *)

\* A line is written.
LEMMA WritesStep ==
  ASSUME FollowInv, NEW r \in Sources, NEW t \in Texts, Writes(r, t)
  PROVE  /\ log' \in [Sources -> Seq(Lines)] /\ \A s \in Sources : Len(log'[s]) <= MaxLines
         /\ \A s \in Sources : LogInv(s)' /\ LogGoesOn(s)
<1> DEFINE line == [at |-> now, text |-> t]
           n == Len(log[r])
<1>1. FollowTypeOK /\ ClockInv /\ (\A s \in Sources : LogInv(s))
  BY DEF FollowInv, SourceInv
<1>2. /\ n < MaxLines /\ MaxLines \in Nat
      /\ \A i \in DOMAIN log[r] : log[r][i] # line
      /\ log' = [log EXCEPT ![r] = Append(@, line)]
      /\ UNCHANGED <<now, live, head>>
  BY FollowAssumption DEF Writes
<1>3. line \in Lines /\ log \in [Sources -> Seq(Lines)]
  BY <1>1 DEF FollowTypeOK, Lines
<1>4. log' \in [Sources -> Seq(Lines)] /\ log'[r] = Append(log[r], line)
  BY <1>2, <1>3
<1>5. ASSUME NEW s \in Sources, s # r
      PROVE  Len(log'[s]) <= MaxLines /\ LogInv(s)' /\ LogGoesOn(s)
  <2>1. log'[s] = log[s]
    BY <1>2, <1>3, <1>5
  <2> QED
    BY <1>1, <1>2, <2>1, SourceTypes DEF FollowTypeOK, LogInv, LogGoesOn
<1>6. Len(log'[r]) <= MaxLines /\ LogInv(r)' /\ LogGoesOn(r)
  <2>1. /\ n \in Nat /\ head[r] \in Nat /\ head[r] >= 1 /\ now \in Nat /\ round \in Nat
        /\ round <= now
        /\ \A i \in 1..n : log[r][i].at \in Nat
    BY <1>1, SourceTypes DEF ClockInv
  <2>2. /\ Len(log'[r]) = n + 1 /\ log'[r][n + 1] = line
        /\ \A i \in 1..n : log'[r][i] = log[r][i]
        /\ DOMAIN log[r] = 1..n
    <3>1. log[r] \in Seq(Lines)
      BY <1>3
    <3> QED
      BY <1>3, <1>4, <3>1, AppendProperties, LenProperties
  <2>3. LogInv(r)
    BY <1>1
  <2> HIDE DEF n
  <2>4. \A i \in 1..(n + 1) : i \in 1..n \/ i = n + 1
    BY <2>1
  <2>5. LogGoesOn(r)
    <3>1. n + 1 \in Nat /\ n <= n + 1 /\ head[r] <= head[r]
      BY <2>1
    <3>2. log'[r][n + 1].at = now
      BY <2>2
    <3>3. \A i \in 1..(n + 1) : i \notin 1..n => log'[r][i].at \in Nat /\ round <= log'[r][i].at
      BY <2>1, <2>4, <3>2
    <3> QED
      BY <1>2, <2>1, <2>2, <3>1, <3>3 DEF LogGoesOn, n
  <2>6. head[r] <= (n + 1) + 1 /\ (r \notin live => FALSE)
    <3>1. head[r] <= n + 1
      BY <2>3 DEF LogInv, n
    <3> QED
      BY <2>1, <3>1 DEF Writes
  <2>7. /\ \A i \in 1..n : log[r][i].at <= now
        /\ \A i, k \in 1..n : i <= k => log[r][i].at <= log[r][k].at
        /\ \A i, k \in 1..n : log[r][i] = log[r][k] => i = k
    BY <2>3 DEF LogInv, n
  <2>8. \A i \in 1..(n + 1) : log'[r][i].at <= now
    <3>1. line.at <= now
      BY <2>1
    <3> QED
      BY <2>2, <2>4, <2>7, <3>1
  <2>9. ASSUME NEW i \in 1..(n + 1), NEW k \in 1..(n + 1), i <= k
        PROVE  log'[r][i].at <= log'[r][k].at
    <3>1. CASE k \in 1..n
      <4>1. i \in 1..n
        BY <2>1, <2>9, <3>1
      <4> QED
        BY <2>2, <2>7, <2>9, <3>1, <4>1
    <3>2. CASE k = n + 1
      BY <2>2, <2>8, <3>2
    <3> QED
      BY <2>4, <3>1, <3>2
  <2>10. ASSUME NEW i \in 1..(n + 1), NEW k \in 1..(n + 1), log'[r][i] = log'[r][k]
         PROVE  i = k
    <3>1. \A j \in 1..n : log[r][j] # line
      BY <1>2, <2>2
    <3> QED
      BY <2>2, <2>4, <2>7, <2>10, <3>1
  <2>11. n + 1 <= MaxLines
    BY <1>2, <2>1 DEF n
  <2> QED
    BY <1>2, <2>2, <2>5, <2>6, <2>8, <2>9, <2>10, <2>11 DEF LogInv
<1> QED
  BY <1>4, <1>5, <1>6

\* Time passes, and a log may begin anew or its pod go or come.
LEMMA TimeStep ==
  ASSUME FollowInv, \/ Ticks
               \/ \E r \in Sources : Restarts(r) \/ PodGoes(r) \/ PodComes(r)
  PROVE  \A s \in Sources : head'[s] \in 1..(MaxLines + 1) /\ head[s] <= head'[s] /\ LogInv(s)'
<1> SUFFICES ASSUME NEW s \in Sources
             PROVE  head'[s] \in 1..(MaxLines + 1) /\ head[s] <= head'[s] /\ LogInv(s)'
  OBVIOUS
<1>1. FollowTypeOK /\ LogInv(s) /\ head \in [Sources -> 1..(MaxLines + 1)]
  BY DEF FollowInv, SourceInv, FollowTypeOK
<1>2. /\ Len(log[s]) \in Nat /\ Len(log[s]) <= MaxLines /\ MaxLines \in Nat
      /\ head[s] \in 1..(MaxLines + 1) /\ now \in Nat
      /\ \A i \in 1..Len(log[s]) : log[s][i].at \in Nat
  BY <1>1, SourceTypes, FollowAssumption
<1>3. log' = log /\ (now' = now \/ now' = now + 1)
  BY DEF Ticks, Restarts, PodGoes, PodComes
<1>4. \/ head'[s] = head[s] /\ (s \notin live' => s \notin live)
      \/ head'[s] = Len(log[s]) + 1
  BY <1>1 DEF Ticks, Restarts, PodGoes, PodComes
<1>5. head[s] <= Len(log[s]) + 1
  BY <1>1 DEF LogInv
<1>6. head'[s] \in 1..(MaxLines + 1) /\ head[s] <= head'[s] /\ head'[s] <= Len(log[s]) + 1
  BY <1>2, <1>4, <1>5
<1>7. \A i \in 1..Len(log[s]) : log[s][i].at <= now'
  <2>1. \A i \in 1..Len(log[s]) : log[s][i].at <= now
    BY <1>1 DEF LogInv
  <2> QED
    BY <1>2, <1>3, <2>1
<1>8. LogInv(s)'
  BY <1>1, <1>3, <1>4, <1>6, <1>7 DEF LogInv
<1> QED
  BY <1>6, <1>8

\* Whatever the cluster does, what is known of each source stays true.
LEMMA ClusterStep ==
  ASSUME FollowInv, Cluster
  PROVE  FollowInv'
<1>1. FollowTypeOK /\ ClockInv /\ (\A s \in Sources : SourceInv(s))
  BY DEF FollowInv
<1>2. UNCHANGED <<portal, pc, round, tracked, todo, bySinceTime, batch, out, young, said, full, torn>>
  BY DEF Cluster, historyVars
<1>3. /\ log' \in [Sources -> Seq(Lines)] /\ (\A s \in Sources : Len(log'[s]) <= MaxLines)
      /\ now' \in 1..MaxTime /\ live' \in SUBSET Sources /\ head' \in [Sources -> 1..(MaxLines + 1)]
      /\ \A s \in Sources : LogInv(s)' /\ LogGoesOn(s)
      /\ ClockInv'
  <2>0. MaxTime \in Nat /\ Margin \in Nat /\ now \in Nat /\ round \in Nat /\ now >= 1
    BY <1>1, FollowAssumption DEF FollowTypeOK
  <2>1. CASE \E r \in Sources, t \in Texts : Writes(r, t)
    <3>1. UNCHANGED <<now, live, head>>
      BY <2>1 DEF Writes
    <3>2. ClockInv'
      BY <1>1, <1>2, <3>1 DEF ClockInv
    <3> QED
      BY <1>1, <2>1, <3>1, <3>2, WritesStep DEF FollowTypeOK
  <2>2. CASE \/ Ticks
             \/ \E r \in Sources : Restarts(r) \/ PodGoes(r) \/ PodComes(r)
    <3>1. /\ log' = log
          /\ now' = now \/ (MayTick /\ now' = now + 1)
          /\ live' = live \/ \E r \in Sources : live' = live \ {r} \/ live' = live \cup {r}
          /\ head' = head \/ \E r \in Sources : head' = [head EXCEPT ![r] = Len(log[r]) + 1]
      BY <2>2 DEF Ticks, Restarts, PodGoes, PodComes
    <3>2. \A s \in Sources : head'[s] \in 1..(MaxLines + 1) /\ head[s] <= head'[s] /\ LogInv(s)'
      BY <2>2, TimeStep
    <3>3. head' \in [Sources -> 1..(MaxLines + 1)]
      <4>1. head' = [s \in Sources |-> head'[s]]
        BY <1>1, <3>1 DEF FollowTypeOK
      <4> QED
        BY <3>2, <4>1
    <3>4. now' \in 1..MaxTime /\ live' \in SUBSET Sources
      BY <1>1, <2>0, <3>1 DEF FollowTypeOK, MayTick
    <3>5. ClockInv'
      <4>1. round <= now /\ (pc \in {"list", "read"} => now <= round + Margin)
        BY <1>1 DEF ClockInv
      <4>2. round <= now'
        BY <2>0, <3>1, <4>1
      <4>3. pc \in {"list", "read"} => now' <= round + Margin
        BY <2>0, <3>1, <4>1 DEF MayTick
      <4> QED
        BY <1>2, <4>2, <4>3 DEF ClockInv
    <3>6. \A s \in Sources : LogGoesOn(s)
      <4> TAKE s \in Sources
      <4>1. head'[s] \in Nat /\ head[s] <= head'[s]
        BY <3>2
      <4> QED
        BY <1>1, <3>1, <4>1, SourceTypes DEF LogGoesOn
    <3> QED
      BY <1>1, <3>1, <3>2, <3>3, <3>4, <3>5, <3>6 DEF FollowTypeOK
  <2> QED
    BY <2>1, <2>2 DEF Cluster
<1>4. FollowTypeOK'
  BY <1>1, <1>2, <1>3 DEF FollowTypeOK
<1>5. ASSUME NEW s \in Sources
      PROVE  SourceInv(s)'
  <2>1. TurnInv(s)'
    BY <1>1, <1>2 DEF SourceInv, TurnInv
  <2>2. SameMemory(s)
    BY <1>2 DEF SameMemory
  <2>3. round' \in Nat /\ round <= round'
    BY <1>1, <1>2, SourceTypes
  <2> QED
    BY <1>1, <1>2, <1>3, <2>1, <2>2, <2>3, SourceKept
<1> QED
  BY <1>3, <1>4, <1>5 DEF FollowInv

----------------------------------------------------------------------------
(* The invariant is inductive. *)

\* It holds when the follow begins,
LEMMA FollowInvInit == FollowInit => FollowInv
<1> SUFFICES ASSUME FollowInit PROVE FollowInv
  OBVIOUS
<1>0. MaxTime \in Nat /\ MaxLines \in Nat /\ MaxTime >= 1 /\ MaxLines >= 1 /\ Margin \in Nat
  BY FollowAssumption
<1>1. PICK t \in Texts : log \in [Sources -> {<<>>, <<[at |-> 1, text |-> t]>>}]
  BY DEF FollowInit
<1> DEFINE line == [at |-> 1, text |-> t]
<1>2. line \in Lines
  BY <1>0 DEF Lines
<1>3. \A s \in Sources : log[s] = <<>> \/ log[s] = <<line>>
  BY <1>1
<1> HIDE DEF line
<1>4. \A s \in Sources : /\ log[s] \in Seq(Lines) /\ Len(log[s]) \in {0, 1}
                         /\ \A i \in 1..Len(log[s]) : i = 1 /\ log[s][i] = line
  <2> TAKE s \in Sources
  <2>1. CASE log[s] = <<>>
    BY <2>1
  <2>2. CASE log[s] = <<line>>
    BY <1>2, <2>2
  <2> QED
    BY <1>3, <2>1, <2>2
<1>5. /\ now = 1 /\ round = 1 /\ pc = "first" /\ todo = live /\ young = Sources \ live
      /\ said = {} /\ full = {} /\ torn = {} /\ bySinceTime = TRUE
      /\ live \in SUBSET Sources /\ portal \in Portals
      /\ head = [s \in Sources |-> IF s \in live THEN 1 ELSE Len(log[s]) + 1]
      /\ tracked = [s \in Sources |-> IF s \in live THEN New ELSE Untracked]
      /\ batch = [s \in Sources |-> {}] /\ out = [s \in Sources |-> <<>>]
  BY DEF FollowInit
<1>6. FollowTypeOK
  <2>1. log \in [Sources -> Seq(Lines)]
    <3>1. log = [s \in Sources |-> log[s]]
      BY <1>1
    <3> QED
      BY <1>4, <3>1
  <2>2. \A s \in Sources : Len(log[s]) <= MaxLines
    BY <1>0, <1>4
  <2>3. head \in [Sources -> 1..(MaxLines + 1)]
    <3>1. \A s \in Sources : (IF s \in live THEN 1 ELSE Len(log[s]) + 1) \in 1..(MaxLines + 1)
      BY <1>0, <1>4
    <3> QED
      BY <1>5, <3>1
  <2>4. tracked \in [Sources -> Followed \cup {Untracked}]
    BY <1>5, NewIs
  <2>5. batch \in [Sources -> SUBSET (1..MaxLines)]
    BY <1>5
  <2>6. now \in 1..MaxTime /\ round \in 1..MaxTime
    BY <1>0, <1>5
  <2> QED
    BY <1>5, <2>1, <2>2, <2>3, <2>4, <2>5, <2>6 DEF FollowTypeOK
<1>7. ClockInv
  BY <1>0, <1>5 DEF ClockInv
<1>8. ASSUME NEW s \in Sources
      PROVE  SourceInv(s)
  <2>0. /\ out[s] = <<>> /\ batch[s] = {} /\ tracked[s] = IF s \in live THEN New ELSE Untracked
        /\ head[s] = IF s \in live THEN 1 ELSE Len(log[s]) + 1
    BY <1>5
  <2>1. LogInv(s)
    <3>1. line.at = 1
      BY DEF line
    <3>2. head[s] <= Len(log[s]) + 1
      BY <1>4, <2>0
    <3> QED
      BY <1>4, <1>5, <2>0, <3>1, <3>2 DEF LogInv
  <2>2. TurnInv(s)
    BY <1>5, <2>0, NewIs DEF TurnInv
  <2>3. Shown(s) = {} /\ Printed(s) = {} /\ DOMAIN out[s] = {} /\ out[s] \in Seq(Nat)
    BY <2>0 DEF Shown, Printed
  <2>4. OutInv(s)
    BY <2>0, <2>3 DEF OutInv
  <2>5. UnreadInv(s) /\ NoneSkipped(s) /\ GoesOn(s)
    BY <2>0, <2>3, NewIs DEF UnreadInv, NoneSkipped, GoesOn
  <2>6. ReadUpTo(s)
    BY <2>0, NewIs DEF ReadUpTo
  <2>7. MemoryInv(s)
    <3>1. 0 <= round /\ ~(0 > 0)
      BY <1>5
    <3> QED
      BY <2>0, <2>3, <3>1, NewIs DEF MemoryInv
  <2> QED
    BY <2>1, <2>2, <2>4, <2>5, <2>6, <2>7 DEF SourceInv
<1> QED
  BY <1>6, <1>7, <1>8 DEF FollowInv

\* and every step keeps it.
LEMMA FollowInvNext == FollowInv /\ [FollowNext]_followVars => FollowInv'
<1> SUFFICES ASSUME FollowInv, [FollowNext]_followVars PROVE FollowInv'
  OBVIOUS
<1>1. CASE \E r \in Sources : Reads(r)
  BY <1>1, ReadsStep
<1>2. CASE \E r \in Sources : StampRefused(r) \/ ReadGone(r) \/ ReadFails(r)
  BY <1>2, NoReadStep
<1>3. CASE Prints
  BY <1>3, PrintsStep
<1>4. CASE NextRound \/ ListFails
  BY <1>4, NextRoundStep
<1>5. CASE Lists
  BY <1>5, ListsStep
<1>6. CASE Stops
  BY <1>6, StopsStep
<1>7. CASE Cluster
  BY <1>7, ClusterStep
<1>8. CASE UNCHANGED followVars
  <2>1. UNCHANGED <<portal, now, live, log, head, pc, round, tracked, todo, bySinceTime, batch,
                    out, young, said, full, torn>>
    BY <1>8 DEF followVars, worldVars, historyVars
  <2>2. FollowTypeOK' /\ ClockInv'
    BY <2>1 DEF FollowInv, FollowTypeOK, ClockInv
  <2>3. ASSUME NEW s \in Sources
        PROVE  SourceInv(s)'
    <3>1. SourceInv(s)
      BY DEF FollowInv
    <3>2. Shown(s)' = Shown(s) /\ Printed(s)' = Printed(s)
      BY <2>1 DEF Shown, Printed
    <3>3. LogInv(s)' /\ TurnInv(s)'
      BY <2>1, <3>1 DEF SourceInv, LogInv, TurnInv
    <3>4. OutInv(s)'
      BY <2>1, <3>1, <3>2 DEF SourceInv, OutInv
    <3>5. GoesOn(s)'
      BY <2>1, <3>1, <3>2 DEF SourceInv, GoesOn
    <3>6. UnreadInv(s)' /\ MemoryInv(s)' /\ NoneSkipped(s)' /\ ReadUpTo(s)'
      BY <2>1, <3>1, <3>2 DEF SourceInv, UnreadInv, MemoryInv, NoneSkipped, ReadUpTo
    <3> QED
      BY <3>3, <3>4, <3>5, <3>6 DEF SourceInv
  <2> QED
    BY <2>2, <2>3 DEF FollowInv
<1> QED
  BY <1>1, <1>2, <1>3, <1>4, <1>5, <1>6, <1>7, <1>8 DEF FollowNext, Follow

\* Whatever happens in a follow, what is known of each source stays true.
THEOREM FollowInductive == FollowSpec => []FollowInv
<1> QED
  BY FollowInvInit, FollowInvNext, PTL DEF FollowSpec

----------------------------------------------------------------------------
(* The follow is a transcript. *)

\* A set of numbers in which no one is left out is all of those from the least to the
\* greatest.
LEMMA NoGaps ==
  ASSUME NEW n \in Nat, NEW S \in SUBSET (1..n), S # {},
         \A i, k \in S, j \in 1..n : i < j /\ j < k => j \in S
  PROVE  \E a, b \in 1..n : a <= b /\ S = a..b /\ a \in S /\ \A i \in S : a <= i
<1>1. S \in SUBSET Nat /\ S \in SUBSET (0..n)
  OBVIOUS
<1>2. PICK a \in S : \A i \in S : a <= i
  BY <1>1, LeastOf
<1>3. PICK b \in S : \A i \in S : i <= b
  BY <1>1, GreatestOf
<1>4. a \in 1..n /\ b \in 1..n /\ a <= b
  BY <1>2, <1>3
<1>5. \A j \in 1..n : j \in S <=> a <= j /\ j <= b
  <2> TAKE j \in 1..n
  <2>1. j \in S => a <= j /\ j <= b
    BY <1>2, <1>3
  <2>2. a <= j /\ j <= b => j = a \/ j = b \/ (a < j /\ j < b)
    BY <1>4
  <2>3. a < j /\ j < b => j \in S
    BY <1>2, <1>3
  <2> QED
    BY <1>2, <1>3, <2>1, <2>2, <2>3
<1>6. \A j \in a..b : j \in 1..n
  BY <1>4
<1>7. S = a..b
  <2>1. \A j : j \in S => j \in a..b
    BY <1>4, <1>5
  <2>2. \A j : j \in a..b => j \in S
    BY <1>4, <1>5, <1>6
  <2> QED
    BY <2>1, <2>2
<1> QED
  BY <1>2, <1>4, <1>7

\* What is printed of a source at the end of a round extends what was printed of it.
LEMMA PrintsExtends ==
  ASSUME FollowInv, Prints, NEW s \in Sources
  PROVE  T!Extends(s)
<1> DEFINE o == out[s]
           S == batch[s]
           c == out'[s]
<1>1. FollowTypeOK /\ SourceInv(s) /\ SourceInv(s)'
  BY PrintsStep DEF FollowInv
<1>2. /\ c = o \o InOrder(S) /\ UNCHANGED <<young, said, full, torn, head>>
      /\ MaxLines \in Nat /\ S \in SUBSET (1..MaxLines) /\ o \in Seq(Nat)
  BY <1>1, SourceTypes, FollowAssumption DEF Prints, worldVars, SourceInv, OutInv
<1>3. CASE S = {}
  <2>1. InOrder({}) = <<>>
    <3>1. Cardinality({}) = 0
      BY FS_EmptySet
    <3> QED
      BY <3>1 DEF InOrder
  <2>2. o \o <<>> = o
    BY <1>2
  <2>3. out'[s] = out[s]
    BY <1>2, <1>3, <2>1, <2>2
  <2> QED
    BY <2>3 DEF T!Extends
<1> DEFINE q == InOrder(S)
           m == Len(o)
           l == Cardinality(S)
<1>4. q \in Seq(Nat) /\ Len(q) = l /\ l \in Nat
  BY <1>2, InOrderIs, PlacesAre
<1> HIDE DEF q
<1>5. /\ m \in Nat /\ c \in Seq(Nat) /\ Len(c) = m + l
      /\ \A k \in 1..(m + l) : c[k] = IF k <= m THEN o[k] ELSE q[k - m]
      /\ \A k \in 1..m : o[k] \in Nat /\ k \in DOMAIN o
  <2>1. c = o \o q /\ o \in Seq(Nat) /\ q \in Seq(Nat)
    BY <1>2, <1>4 DEF q
  <2> HIDE DEF o, c
  <2>2. c \in Seq(Nat) /\ Len(c) = Len(o) + Len(q)
        /\ \A i \in 1..(Len(o) + Len(q)) : c[i] = IF i <= Len(o) THEN o[i] ELSE q[i - Len(o)]
    BY ONLY <2>1, ConcatProperties
  <2> QED
    BY <1>4, <2>1, <2>2, LenProperties, ElementOfSeq
<1>6. CASE s \in torn
  <2>1. s \in torn'
    BY <1>2, <1>6
  <2>2. T!IsPrefix(out[s], out'[s])
    <3>1. /\ Len(out[s]) <= Len(out'[s])
          /\ \A k \in 1..Len(out[s]) : out'[s][k] = out[s][k]
      BY <1>4, <1>5
    <3>2. SubSeq(out[s], 1, Len(out[s])) = [k \in 1..Len(out[s]) |-> out[s][k]]
      BY <1>2, <1>5
    <3>3. SubSeq(out'[s], 1, Len(out[s])) = [k \in 1..Len(out[s]) |-> out'[s][k]]
      BY <1>5, <3>1
    <3> QED
      BY <3>1, <3>2, <3>3 DEF T!IsPrefix
  <2>3. T!IsInjective(out'[s])
    BY <1>1 DEF SourceInv, OutInv, T!IsInjective
  <2> QED
    BY <2>1, <2>2, <2>3 DEF T!Extends
<1>7. CASE S # {} /\ s \notin torn
  <2>0. /\ \A i, k \in DOMAIN o : i < k => o[i] < o[k]
        /\ \A p \in Shown(s), i \in S : p < i
        /\ \A i, k \in S, j \in 1..MaxLines : i < j /\ j < k => j \in S
    <3>1. /\ \A i, k \in DOMAIN o : i < k => o[i] < o[k]
          /\ \A p \in Shown(s), i \in S : p < i
          /\ \A i, k \in S, j \in 1..Len(log[s]) : i < j /\ j < k => j \in S
          /\ S \subseteq 1..Len(log[s])
      BY <1>1, <1>7 DEF SourceInv, OutInv, Printed
    <3>2. Len(log[s]) \in Nat
      BY <1>1, SourceTypes
    <3>3. \A k \in S, j \in 1..MaxLines : j < k => j \in 1..Len(log[s])
      BY <1>2, <3>1, <3>2
    <3> QED
      BY <3>1, <3>3
  <2>1. PICK a \in 1..MaxLines, b \in 1..MaxLines :
          a <= b /\ S = a..b /\ a \in S /\ \A i \in S : a <= i
    BY <1>2, <1>7, <2>0, NoGaps
  <2>2. q = [k \in 1..(b - a + 1) |-> a + k - 1]
    BY <1>2, <2>1, RunInOrder DEF q
  <2>3. l = b - a + 1 /\ l >= 1
    <3>1. a \in Int /\ b \in Int /\ ~(a > b)
      BY <2>1
    <3>2. l = b - a + 1
      BY <2>1, <3>1, FS_Interval
    <3> QED
      BY <2>1, <3>2
  <2> HIDE DEF o, c, S, m, l
  <2>4. c[m + 1] = a
    <3>1. m + 1 \in 1..(m + l) /\ ~(m + 1 <= m) /\ (m + 1) - m = 1 /\ 1 \in 1..(b - a + 1) /\ a + 1 - 1 = a
      BY <1>4, <1>5, <2>1, <2>3
    <3>2. c[m + 1] = q[1]
      BY <1>5, <3>1
    <3> QED
      BY <2>2, <3>1, <3>2
  <2>5. Len(c) > m /\ a + Len(c) - m - 1 = b
    BY <1>4, <1>5, <2>1, <2>3
  <2>6. T!Run(a, b) = q
    BY <2>2 DEF T!Run
  <2>7. o # <<>> => /\ m \in 1..m /\ T!Last(o) = o[m] /\ o[m] \in Shown(s) /\ o[m] \in Nat
                    /\ \A p \in Shown(s) : p \in Nat /\ p <= o[m]
    <3> SUFFICES ASSUME o # <<>>
                 PROVE  /\ m \in 1..m /\ T!Last(o) = o[m] /\ o[m] \in Shown(s) /\ o[m] \in Nat
                        /\ \A p \in Shown(s) : p \in Nat /\ p <= o[m]
      OBVIOUS
    <3>1. m \in 1..m
      <4>1. m # 0
        BY <1>2, EmptySeq DEF m
      <4> QED
        BY <1>5, <4>1
    <3>2. T!Last(o) = o[m]
      BY DEF T!Last, m
    <3>3. DOMAIN o = 1..m /\ Shown(s) = {o[k] : k \in 1..m}
      <4>1. DOMAIN o = 1..m
        BY <1>2, LenProperties DEF m
      <4> QED
        BY <4>1 DEF Shown, o
    <3>4. \A k \in 1..m : o[k] \in Nat /\ o[k] <= o[m]
      <4> TAKE k \in 1..m
      <4>1. o[k] \in Nat /\ o[m] \in Nat
        BY <1>5, <3>1
      <4>2. k = m \/ k < m
        BY <1>5
      <4> QED
        BY <2>0, <3>1, <3>3, <4>1, <4>2
    <3> QED
      BY <3>1, <3>2, <3>3, <3>4
  <2>8. o # <<>> => a > T!Last(o)
    <3>1. o # <<>> => o[m] < a
      BY <2>0, <2>1, <2>7
    <3> QED
      BY <2>1, <2>7, <3>1
  <2>9. T!Continues(s, a)
    <3>1. CASE s \in said \cup full
      BY <1>2, <3>1 DEF T!Continues
    <3>2. CASE s \notin said \cup full
      <4>1. \/ o = <<>> /\ (s \in young => a <= head[s])
            \/ o # <<>> /\ a <= head[s]
            \/ \E p \in Shown(s) : a <= p + 1
        BY <1>1, <1>7, <2>1, <3>2 DEF SourceInv, GoesOn, o, S
      <4>2. (\E p \in Shown(s) : a <= p + 1) => o # <<>> /\ a <= T!Last(o) + 1
        <5> SUFFICES ASSUME NEW p \in Shown(s), a <= p + 1
                     PROVE  o # <<>> /\ a <= T!Last(o) + 1
          OBVIOUS
        <5>1. o # <<>>
          BY DEF Shown, o
        <5>2. p \in Nat /\ p <= o[m] /\ o[m] \in Nat /\ T!Last(o) = o[m]
          BY <2>7, <5>1
        <5> QED
          BY <2>1, <5>1, <5>2
      <4> QED
        BY <4>1, <4>2 DEF T!Continues, o
    <3> QED
      BY <3>1, <3>2
  <2>10. c = o \o T!Run(a, a + Len(c) - m - 1)
    BY <1>2, <2>5, <2>6 DEF q
  <2> QED
    BY <2>4, <2>5, <2>8, <2>9, <2>10 DEF T!Extends, o, c, m
<1> QED
  BY <1>3, <1>6, <1>7

\* Each step is one of the transcript, or none.
LEMMA FollowStep == FollowInv /\ [FollowNext]_followVars => [T!Next]_(T!vars)
<1> SUFFICES ASSUME FollowInv, [FollowNext]_followVars PROVE [T!Next]_(T!vars)
  OBVIOUS
<1>1. CASE \E r \in Sources : Reads(r)
  <2>1. UNCHANGED <<out, head, young>> /\ said \subseteq said' /\ full \subseteq full' /\ torn \subseteq torn'
    BY <1>1 DEF Reads, worldVars
  <2>2. \A s \in Sources : T!Extends(s)
    BY <2>1 DEF T!Extends
  <2>3. said \cup full \subseteq said' \cup full'
    BY <2>1
  <2> QED
    BY <2>1, <2>2, <2>3 DEF T!Next, T!Prints
<1>2. CASE Prints
  <2>1. UNCHANGED <<head, young, said, full, torn>>
    BY <1>2 DEF Prints, worldVars
  <2>2. \A s \in Sources : T!Extends(s)
    BY <1>2, PrintsExtends
  <2> QED
    BY <2>1, <2>2 DEF T!Next, T!Prints
<1>3. CASE \/ \E r \in Sources : StampRefused(r) \/ ReadGone(r) \/ ReadFails(r)
           \/ NextRound \/ ListFails \/ Lists \/ Stops
  <2>1. UNCHANGED <<out, head, young, said, full, torn>>
    BY <1>3 DEF StampRefused, ReadGone, ReadFails, NextRound, ListFails, Lists, Stops, worldVars, historyVars
  <2> QED
    BY <2>1 DEF T!vars
<1>4. CASE Cluster
  <2>1. UNCHANGED <<out, young, said, full, torn>>
    BY <1>4 DEF Cluster, historyVars
  <2>2. CASE \E r \in Sources, t \in Texts : Writes(r, t)
    <3>1. UNCHANGED head
      BY <2>2 DEF Writes
    <3> QED
      BY <2>1, <3>1 DEF T!vars
  <2>3. CASE \/ Ticks
             \/ \E r \in Sources : Restarts(r) \/ PodGoes(r) \/ PodComes(r)
    <3>1. \A s \in Sources : head'[s] \in Nat /\ head[s] \in Nat /\ head[s] <= head'[s]
      <4>1. \A s \in Sources : head'[s] \in 1..(MaxLines + 1) /\ head[s] <= head'[s]
        BY <2>3, TimeStep
      <4>2. \A s \in Sources : head[s] \in Nat
        BY SourceTypes DEF FollowInv
      <4>3. MaxLines \in Nat
        BY FollowAssumption
      <4> QED
        BY <4>1, <4>2, <4>3
    <3>2. \A s \in Sources : head'[s] >= head[s]
      BY <3>1
    <3> QED
      BY <2>1, <3>2 DEF T!Next, T!Begins
  <2> QED
    BY <1>4, <2>2, <2>3 DEF Cluster
<1>5. CASE UNCHANGED followVars
  BY <1>5 DEF followVars, worldVars, historyVars, T!vars
<1> QED
  BY <1>1, <1>2, <1>3, <1>4, <1>5 DEF FollowNext, Follow

\* Every variable holds a value of its kind.
THEOREM FollowTypeCorrect == FollowSpec => []FollowTypeOK
<1>1. FollowInv => FollowTypeOK
  BY DEF FollowInv
<1> QED
  BY <1>1, FollowInductive, PTL

\* The follow is a transcript of the logs: each line of a source is printed once, in order,
\* and none is left out unsaid, however its reads fall (follow.go:51-75, 142-187, 250-274).
THEOREM FollowImplements == FollowSpec => IsATranscript
<1>1. FollowInit => T!Init
  <2> SUFFICES ASSUME FollowInit PROVE T!Init
    OBVIOUS
  <2>1. FollowTypeOK
    BY FollowInvInit DEF FollowInv
  <2>2. \A s \in Sources : head[s] \in Nat
    BY <2>1, SourceTypes
  <2>3. head \in [Sources -> Nat]
    <3>1. head = [s \in Sources |-> head[s]]
      BY <2>1 DEF FollowTypeOK
    <3> QED
      BY <2>2, <3>1
  <2> QED
    BY <2>3 DEF FollowInit, T!Init
<1>2. FollowInv /\ [FollowNext]_followVars => [T!Next]_(T!vars)
  BY FollowStep
<1>3. FollowSpec => T!Spec
  BY <1>1, <1>2, FollowInductive, PTL DEF FollowSpec, T!Spec
<1> QED
  BY <1>3 DEF IsATranscript

=============================================================================
