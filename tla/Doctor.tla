------------------------------- MODULE Doctor -------------------------------
(***************************************************************************)
(* `zae doctor` (internal/doctor/doctor.go, discover.go): what can be seen *)
(* from outside, then, with --sign-in, the sign-in and the deep checks,    *)
(* then the report and the exit code.                                      *)
(***************************************************************************)
EXTENDS DeepChecks, Report

CONSTANTS
  Outsides,     \* what is found from outside, of OutsideAnswers
  Libraries,    \* the titles that are packaged at first, and those that are not
  DetailSizes,  \* what details take, by status
  Limits        \* limits a report is held to

OutsideAnswers ==
  [routes : BOOLEAN,
   tls : {"plain", "rejected", "lapses", "valid"},
   issuer : {"fails", "another name", "serves"},
   registry : {"unreachable", "refuses", "pulls"},
   discovery : {"newer", "none", "serves"}]

ASSUME DoctorAssumption ==
  /\ Outsides \subseteq OutsideAnswers
  /\ \A l \in Libraries : l.packaged \subseteq l.titles /\ l.titles \subseteq Titles
  /\ DetailSizes \subseteq [Statuses -> Nat]
  /\ Limits \subseteq Nat

VARIABLES
  signIn,       \* --sign-in
  code          \* the exit code

doctorVars == <<step, results, odd, signInVars, token, libraryVars, deepVars, signIn, code>>

Steps ==
  {"outside", "credentials", "config", "issuer", "authorization", "form", "submitted", "callback",
   "exchange", "access", "launchpad", "apps", "asset", "chino-api", "items", "series", "detail",
   "poster", "search", "person", "portrait", "packaged", "playlist", "console", "report", "done"}

Checks ==
  {"tls", "routes", "oidc issuer", "issuer identity", "image registry", "capability discovery",
   "sign-in", "chino-api: config", "sign-in: issuer", "sign-in: authorization",
   "sign-in: login form", "sign-in: callback", "sign-in: token exchange", "sign-in: id token",
   "sign-in: access token", "signed-in checks", "portal: launchpad", "app", "chino-api",
   "chino-api: items", "chino-api: item detail", "chino-api: poster", "chino-api: people search",
   "chino-api: person", "chino-api: portrait", "chino-api: playback", "katalog-manager: graphql"}

ResultLines == [check : Checks, status : Statuses]

\* Every variable holds a value of its kind.
TypeOK ==
  /\ creds \in SUBSET {"user", "password"}
  /\ bearer \in {"none", "unusable", "usable"}
  /\ step \in Steps
  /\ results \in Seq(ResultLines)
  /\ form \in Forms \cup {Nil}
  /\ hops \in 0..MaxHops
  /\ callback \in Callbacks \cup {Nil}
  /\ token \in Tokens \cup {Nil}
  /\ visited \in SUBSET Origins
  /\ odd \in 0..(MaxOdd + 2)
  /\ titles \in SUBSET Titles
  /\ packages \in SUBSET titles
  /\ missing \in SUBSET Titles
  /\ people \in SUBSET People
  /\ build \in [Mounts \cup {Portal} -> {0, 1}]
  /\ mounts \in Seq(Mounts \cup {Portal})
  /\ page \in {0, 1, Nil}
  /\ item \in Titles \cup {Nil}
  /\ credited \in People \cup {Nil}
  /\ person \in PersonRecords \cup {Nil}
  /\ left \in Seq(Titles)
  /\ gone \in 0..MaxGone
  /\ bearerTo \in SUBSET Origins
  /\ signIn \in BOOLEAN
  /\ code \in {0, 1, Nil}

Init ==
  /\ creds \in SUBSET {"user", "password"}
  /\ bearer \in {"none", "unusable", "usable"}
  /\ creds # {} => bearer = "none"
  /\ step = "outside"
  /\ results = <<>>
  /\ form = Nil /\ hops = 0 /\ callback = Nil /\ token = Nil
  /\ typed = <<>> /\ visited = {}
  /\ odd = 0
  /\ \E l \in Libraries : titles = l.titles /\ packages = l.packaged
  /\ missing = {}
  /\ people = People
  /\ build = [m \in Mounts \cup {Portal} |-> 0]
  /\ changed = {}
  /\ mounts = <<>> /\ page = Nil
  /\ item = Nil /\ credited = Nil /\ person = Nil
  /\ left = <<>> /\ gone = 0
  /\ bearerTo = {}
  /\ signIn \in BOOLEAN
  /\ code = Nil

checkTLS(o) ==
  Result("tls", CASE o.tls \in {"plain", "lapses"} -> "warn"
                  [] o.tls = "rejected" -> "fail"
                  [] o.tls = "valid" -> "ok")

\* The paths of the front door: one that is not served is a failure.
checkRoutes(o) == Result("routes", IF o.routes THEN "ok" ELSE "fail")

checkIssuer(o) ==
  IF o.issuer = "fails" THEN <<Result("oidc issuer", "fail")>>
  ELSE <<Result("oidc issuer", "ok")>>
       \o (IF o.issuer = "another name" THEN <<Result("issuer identity", "warn")>> ELSE <<>>)

checkRegistry(o) ==
  Result("image registry", CASE o.registry = "unreachable" -> "warn"
                             [] o.registry = "refuses" -> "fail"
                             [] o.registry = "pulls" -> "ok")

checkDiscovery(o) ==
  Result("capability discovery", CASE o.discovery = "newer" -> "warn"
                                   [] o.discovery = "none" -> "skip"
                                   [] o.discovery = "serves" -> "ok")

StaticChecks ==
  /\ step = "outside"
  /\ \E o \in Outsides :
       /\ results' = <<checkTLS(o), checkRoutes(o)>> \o checkIssuer(o)
                     \o <<checkRegistry(o), checkDiscovery(o)>>
       /\ odd' = IF o.tls = "rejected" \/ ~o.routes \/ o.issuer = "fails" \/ o.registry = "refuses"
                 THEN 1 ELSE 0
  /\ step' = IF signIn THEN "credentials" ELSE "report"
  /\ UNCHANGED <<signInVars, token, libraryVars, deepVars, signIn, code>>

\* Fault: the checks that were signed in for are not looked at.
OutsideHasFailed == \E i \in DOMAIN results : i <= 5 /\ results[i].status = "fail"

HasFailed == \E i \in DOMAIN results : results[i].status = "fail"

Exits ==
  /\ step = "report"
  /\ code' = IF HasFailed THEN 1 ELSE 0
  /\ step' = "done"
  /\ UNCHANGED <<results, odd, signInVars, token, libraryVars, deepVars, signIn>>

Next ==
  \/ StaticChecks
  \/ SignInNext /\ UNCHANGED <<libraryVars, deepVars, signIn, code>>
  \/ DeepNext /\ UNCHANGED <<signIn, code>>
  \/ Exits
  \/ LibraryNext /\ UNCHANGED <<signIn, code>>

Spec == Init /\ [][Next]_doctorVars

----------------------------------------------------------------------------
(* What it promises. *)

\* The password goes into one request of a run, a POST to the identity provider, and
\* the browser asks nobody else anything, whatever forms and redirects it is answered
\* (submitLogin, signin.go:509-548; do, 465-505).
PasswordGoesOnce ==
  /\ Len(typed) <= 1
  /\ \A i \in DOMAIN typed : typed[i] = [to |-> "provider", by |-> "post"]
  /\ visited \subseteq {"provider"}

\* The deep checks use a token of this very sign-in, or a borrowed one of the user's, and
\* send it nowhere but to the instance (Callback, authcode.go:106-122; CheckIDToken,
\* 189-228; request, deep.go:76-117).
TokenIsItsOwn ==
  /\ bearerTo \subseteq {"instance"}
  /\ bearerTo # {} => token # Nil /\ (token.signedIn => token.session = "own")

\* A sound platform passes: with every answer as it has to be, no check fails, whatever
\* the library holds, titles that are added and packages that are removed meanwhile,
\* as long as some are left, and whatever a borrowed token is good for (deep.go:18-23,
\* 649-704; checkAccessToken, signin.go:344-374).
SoundPlatformPasses ==
  /\ odd = 0
  /\ changed \subseteq {"title added", "package removed"}
  /\ missing # {} => packages # {} /\ Cardinality(missing) < MaxGone
  => ~HasFailed

\* A green run says the platform was used signed in, or why it was not: one with --sign-in
\* that ends with 0 asked the instance with a token, its own sign-in's and one the APIs
\* accept whenever the environment names an account; otherwise a line says that nobody is
\* to be signed in, that sign-in is off, or that the borrowed token is another issuer's
\* (run, signin.go:112-156; checkAccessToken, 344-374; Run, doctor.go:102-160).
GreenIsSignedIn ==
  LET said(check) == \E i \in DOMAIN results : results[i] = Result(check, "skip") IN
  step = "done" /\ signIn /\ code = 0 =>
    \/ creds = {} /\ (said("sign-in") \/ (bearerTo = {} /\ said("signed-in checks")))
    \/ said("chino-api: config")
    \/ /\ bearerTo # {} /\ token # Nil
       /\ creds # {} => token.signedIn
       /\ token.signedIn => token.claims \in {"opaque", "good"}

\* How many lines speak of a check.
Times(check, lines) == Cardinality({i \in DOMAIN lines : lines[i].check = check})

\* A run that signs in speaks of every check once, however the checks before it end: by
\* its own result, or by one line for all that were not run (deepChecks, deep.go:191-204;
\* run, signin.go:112-156).
EveryCheckOnce ==
  LET times(check) == Times(check, results)
      deep == {"portal: launchpad", "katalog-manager: graphql"}
      chino == {"chino-api: items", "chino-api: item detail", "chino-api: poster",
                "chino-api: people search", "chino-api: person", "chino-api: portrait",
                "chino-api: playback"}
      rest == times("signed-in checks")
  IN
  step = "done" /\ signIn =>
    \/ bearerTo # {} /\ rest = 0 /\ (\A c \in deep : times(c) = 1)
         /\ (\A c \in chino : times(c) = 1 - times("chino-api"))
    \/ bearerTo = {} /\ rest <= 1 /\ (\A c \in deep \cup chino : times(c) = 0)
         /\ (rest = 1 => token # Nil \/ HasFailed)

\* What a line is worth to a reader of the report (report.go:14-24).
Worth == [ok |-> 0, skip |-> 1, warn |-> 2, fail |-> 3]

\* The report is within its limit, details and all, whenever one without checks is; a line
\* is left out only when every line worth less is, and a detail is cut short only where no
\* line worth less keeps more of its own (report.go:14-24, 97-149).
ReportGivesUpInOrder ==
  step = "done" =>
    \A d \in DetailSizes, limit \in Limits :
      LET report == buildReport(results, d, limit)
          status(i) == results[i].status
      IN  /\ HeaderSize <= limit => encode(report, results) <= limit
          /\ \A i \in report.places, k \in DOMAIN results \ report.places :
               Worth[status(k)] <= Worth[status(i)]
          /\ \A st, less \in {status(i) : i \in report.places} :
               Worth[less] <= Worth[st] /\ report.detail[st] < d[st]
                 => report.detail[less] <= report.detail[st]

=============================================================================
