------------------------------- MODULE SignIn -------------------------------
(***************************************************************************)
(* The signed-in part of `zae doctor --sign-in` up to the token            *)
(* (internal/doctor/signin.go, internal/oidc/authcode.go): the credentials *)
(* of the environment or a borrowed session, the login page walked the way *)
(* a browser does, the redirect back, the exchange of the code, and what   *)
(* the tokens say of themselves.                                           *)
(*                                                                         *)
(* Covered: redirects the identity provider sends, wherever they point;    *)
(* login forms of any method and address; callbacks and tokens that are    *)
(* another sign-in's, as a cache or a replay would answer; every step that *)
(* fails.  What a page looks like is abstracted to what the doctor finds   *)
(* in it.                                                                  *)
(***************************************************************************)
EXTENDS Naturals, Sequences

CONSTANTS
  Nil,
  MaxHops       \* maxHops


VARIABLES
  creds,        \* of user and password, those that are set
  bearer,       \* what instance.Token has for the instance
  step,
  results,
  form,         \* the login form at hand
  hops,         \* the redirects of this request so far
  callback,     \* the redirect back to the web client
  token,        \* the access token
  typed,        \* history: the requests the password went in,
  visited,      \* where the browser made requests,
  odd           \* and how often something was not as on a sound platform

signInVars == <<creds, bearer, form, hops, callback, typed, visited>>

Statuses == {"ok", "warn", "fail", "skip"}
Origins == {"instance", "provider", "elsewhere"}
Sessions == {"own", "other"}

Result(check, status) == [check |-> check, status |-> status]

\* The one line for every check that a failure made impossible.
NotRun == Result("signed-in checks", "skip")

Forms == [method : {"get", "post"}, action : {"none", "provider", "elsewhere"}]

\* A redirect back answers a session, with an error or a code, and names an issuer.
Callbacks ==
  [error : BOOLEAN, session : Sessions, code : BOOLEAN, iss : {"none", "right", "wrong"}]

\* An ID token carries the nonce of the session it was issued in.
IDTokens ==
  [iss : {"right", "wrong"}, aud : SUBSET {"web", "another"}, azp : {"none", "web", "another"},
   nonce : Sessions, exp : {"none", "past", "ahead"}]

\* What the access token says: that it is not to be read, is of another issuer, for
\* another audience than chino-api's, or neither.
Claims == {"opaque", "issuer", "audience", "good"}
Tokens == [signedIn : BOOLEAN, session : Sessions, claims : Claims]

ASSUME SignInAssumption ==
  /\ MaxHops \in Nat
  /\ Nil \notin Tokens

Says(check, status, next) ==
  /\ results' = Append(results, Result(check, status))
  /\ step' = next

\* The check failed, and what needs it does not run.
StopsAt(check) ==
  /\ results' = results \o <<Result(check, "fail"), NotRun>>
  /\ step' = "report"
  /\ odd' = odd + 1

----------------------------------------------------------------------------
(* Where the credentials and the configuration come from. *)

Credentials ==
  /\ step = "credentials"
  /\ \/ creds = {"user", "password"}
        /\ Says("sign-in", "ok", "config")
        /\ UNCHANGED <<token, odd>>
     \/ creds \in {{"user"}, {"password"}}
        /\ Says("sign-in", "fail", "report")
        /\ odd' = odd + 1
        /\ UNCHANGED token
     \/ creds = {} /\ bearer = "usable"
        /\ Says("sign-in", "ok", "config")
        /\ \E c \in Claims : token' = [signedIn |-> FALSE, session |-> "other", claims |-> c]
        /\ UNCHANGED odd
     \/ creds = {} /\ bearer # "usable"
        /\ Says("sign-in", "skip", "report")
        /\ UNCHANGED <<token, odd>>
  /\ UNCHANGED signInVars

ReadConfig ==
  /\ step = "config"
  /\ \/ StopsAt("chino-api: config")
     \/ Says("chino-api: config", "skip", "report")
        /\ UNCHANGED odd
     \/ Says("chino-api: config", "ok", IF creds = {} THEN "access" ELSE "issuer")
        /\ UNCHANGED odd
  /\ UNCHANGED <<signInVars, token>>

\* The issuer's metadata, and in it an authorization endpoint.
Metadata ==
  /\ step = "issuer"
  /\ \/ StopsAt("sign-in: issuer") /\ UNCHANGED visited
     \/ Says("sign-in: issuer", "ok", "authorization")
        /\ visited' = visited \cup {"provider"}
        /\ UNCHANGED odd
  /\ hops' = 0
  /\ UNCHANGED <<creds, bearer, form, callback, token, typed>>

----------------------------------------------------------------------------
(* The browser. *)

Browses == step \in {"authorization", "submitted"}

CheckOf(s) == IF s = "authorization" THEN "sign-in: authorization" ELSE "sign-in: login form"

\* Fault: a redirect is followed with the request it answers.
FollowsWithTheForm(to) ==
  /\ visited' = visited \cup {to}
  /\ hops' = hops + 1
  /\ typed' = IF step = "submitted" THEN Append(typed, [to |-> to, by |-> "post"]) ELSE typed

\* Whatever the status, a redirect is followed with a GET.
Follows(to) ==
  /\ visited' = visited \cup {to}
  /\ hops' = hops + 1
  /\ UNCHANGED typed

MayFollow(to) == to = "provider"

\* Fault: one redirect more.
OneHopMore == hops <= MaxHops

HopsLeft == hops < MaxHops

\* A redirect that is not back to the web client.
Redirected(to) ==
  /\ Browses
  /\ IF MayFollow(to) /\ HopsLeft
     THEN Follows(to) /\ UNCHANGED <<step, results, odd>>
     ELSE StopsAt(CheckOf(step)) /\ UNCHANGED <<visited, hops, typed>>
  /\ UNCHANGED <<creds, bearer, form, callback, token>>

\* No answer, a page that is no login form, or any page as the answer to the form.
NoWayForward ==
  /\ Browses
  /\ StopsAt(CheckOf(step))
  /\ UNCHANGED <<signInVars, token>>

LoginPage(f) ==
  /\ step = "authorization"
  /\ form' = f
  /\ Says("sign-in: authorization", "ok", "form")
  /\ UNCHANGED <<creds, bearer, hops, callback, token, typed, visited, odd>>

Callback(cb) ==
  CASE cb.error -> "error"
    [] ~cb.error /\ cb.session # "own" -> "state"
    [] ~cb.error /\ cb.session = "own" /\ ~cb.code -> "no code"
    [] OTHER -> "code"

\* The redirect back, which nothing follows.  Before any page it is the provider
\* refusing the request, unless it carries a code.
RedirectedBack(cb) ==
  /\ Browses
  /\ IF step = "authorization" /\ Callback(cb) # "code"
     THEN StopsAt("sign-in: authorization") /\ UNCHANGED callback
     ELSE Says(CheckOf(step), "ok", "callback") /\ callback' = cb /\ UNCHANGED odd
  /\ UNCHANGED <<creds, bearer, form, hops, token, typed, visited>>

MaySend(f) == f.method = "post" /\ f.action = "provider"

SubmitLogin ==
  /\ step = "form"
  /\ IF MaySend(form)
     THEN /\ typed' = Append(typed, [to |-> form.action, by |-> form.method])
          /\ visited' = visited \cup {form.action}
          /\ hops' = 0
          /\ step' = "submitted"
          /\ UNCHANGED <<results, odd>>
     ELSE StopsAt("sign-in: login form") /\ UNCHANGED <<typed, visited, hops>>
  /\ form' = Nil
  /\ UNCHANGED <<creds, bearer, callback, token>>

----------------------------------------------------------------------------
(* What came back. *)

ReadCallback ==
  /\ step = "callback"
  /\ IF Callback(callback) = "code" /\ callback.iss # "wrong"
     THEN Says("sign-in: callback", "ok", "exchange") /\ UNCHANGED odd
     ELSE StopsAt("sign-in: callback")
  /\ callback' = Nil
  /\ UNCHANGED <<creds, bearer, form, hops, token, typed, visited>>

\* Fault: the nonce is not compared.
ChecksNoNonce(id) == id.iss = "right" /\ "web" \in id.aud /\ id.exp = "ahead"

CheckIDToken(id) ==
  /\ id.iss = "right"
  /\ "web" \in id.aud
  /\ id.aud # {"web"} => id.azp = "web"
  /\ id.nonce = "own"
  /\ id.exp = "ahead"

\* The code is good for its own sign-in only, whose verifier goes with it; an answer
\* to another exchange may come for it all the same.
Exchange ==
  /\ step = "exchange"
  /\ \/ StopsAt("sign-in: token exchange") /\ UNCHANGED token
     \/ \E s \in Sessions, c \in Claims, id \in IDTokens \cup {Nil} :
          /\ id # Nil => id.nonce = s
          /\ token' = [signedIn |-> TRUE, session |-> s, claims |-> c]
          /\ IF id # Nil /\ CheckIDToken(id)
             THEN /\ results' = results \o <<Result("sign-in: token exchange", "ok"),
                                             Result("sign-in: id token", "ok")>>
                  /\ step' = "access"
                  /\ UNCHANGED odd
             ELSE /\ results' = results \o <<Result("sign-in: token exchange", "ok"),
                                             Result("sign-in: id token", "fail"), NotRun>>
                  /\ step' = "report"
                  /\ odd' = odd + 1
  /\ UNCHANGED signInVars

\* A token of the doctor's own sign-in is what everyone gets; a borrowed one belongs
\* to another client.
Verdict(t) == IF t.signedIn THEN "fail" ELSE "skip"

CheckAccessToken ==
  /\ step = "access"
  /\ LET check == "sign-in: access token"  c == token.claims IN
       /\ CASE c = "opaque" -> Says(check, "skip", "launchpad")
            [] c = "good" -> Says(check, "ok", "launchpad")
            [] c = "audience" -> Says(check, Verdict(token), "launchpad")
            [] c = "issuer" -> /\ results' = results \o <<Result(check, Verdict(token)), NotRun>>
                               /\ step' = "report"
       /\ odd' = IF token.signedIn /\ c \in {"issuer", "audience"} THEN odd + 1 ELSE odd
  /\ UNCHANGED <<signInVars, token>>

SignInNext ==
  \/ Credentials
  \/ ReadConfig
  \/ Metadata
  \/ \E to \in Origins : Redirected(to)
  \/ NoWayForward
  \/ \E f \in Forms : LoginPage(f)
  \/ \E cb \in Callbacks : RedirectedBack(cb)
  \/ SubmitLogin
  \/ ReadCallback
  \/ Exchange
  \/ CheckAccessToken

=============================================================================
