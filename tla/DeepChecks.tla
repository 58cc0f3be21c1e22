----------------------------- MODULE DeepChecks -----------------------------
(***************************************************************************)
(* The platform used with the token, as its web client and its catalog     *)
(* console use it (internal/doctor/deep.go): the launchpad and the apps it *)
(* names, the catalog's lists, a title, its poster, a person and their     *)
(* portrait, a packaged title, the console.  Every check reads.            *)
(*                                                                         *)
(* Covered: requests without an answer and answers that are wrong; an      *)
(* empty catalog; a library and apps that others change between two reads. *)
(* Limit: a credit, a poster and a portrait are what the record read last  *)
(* says of them.                                                           *)
(***************************************************************************)
EXTENDS SignIn, FiniteSets, SequencesExt

CONSTANTS
  Titles,
  Movies,       \* those that are movies; the others are series
  People,
  Mounts,       \* of the apps but the portal's own
  Portal,       \* that one
  MaxGone,      \* maxGone
  MaxOdd,       \* bound: requests that go wrong in a run,
  MaxChanges    \* and changes others make

ASSUME DeepAssumption ==
  /\ IsFiniteSet(Titles) /\ IsFiniteSet(Mounts)
  /\ Movies \subseteq Titles
  /\ Portal \notin Mounts
  /\ MaxGone \in Nat \ {0}
  /\ {MaxOdd, MaxChanges} \subseteq Nat

VARIABLES
  titles,       \* the titles in the catalog,
  packages,     \* those that are packaged,
  missing,      \* and those whose package was removed during the checks
  people,       \* the people the catalog knows
  build,        \* the build each app serves
  changed,      \* history: what others have changed
  mounts,       \* the apps still to check
  page,         \* the build of the page that was read
  item,         \* the title opened,
  credited,     \* the person it credits,
  person,       \* the person opened
  left,         \* the packaged titles still to try
  gone,         \* how many were gone
  bearerTo      \* history: where the token was sent

libraryVars == <<titles, packages, missing, people, build, changed>>
deepVars == <<mounts, page, item, credited, person, left, gone, bearerTo>>

\* What a record says of an image.
Images == {"none", "unsaid", "unnamed", "here", "lost", "elsewhere"}
PersonRecords == [id : People, portrait : Images]

SendsTo(to) == to = "instance"

\* A request with the token, to an address of the instance.
Asks == bearerTo' = bearerTo \cup {"instance"}

\* No answer, or not the one it has to be.
Fails(check, next) ==
  /\ odd < MaxOdd
  /\ Says(check, "fail", next)
  /\ odd' = odd + 1

----------------------------------------------------------------------------
(* The launchpad and the apps. *)

Launchpad ==
  /\ step = "launchpad"
  /\ Asks
  /\ \/ Fails("portal: launchpad", "apps") /\ mounts' = <<Portal>>
     \/ /\ \E ms \in SUBSET Mounts : mounts' \in {<<Portal>> \o m : m \in SetToSeqs(ms)}
        /\ Says("portal: launchpad", "ok", "apps")
        /\ UNCHANGED odd
  /\ UNCHANGED <<signInVars, token, libraryVars, page, item, credited, person, left, gone>>

\* Fault: without chino-api's audience its checks are left out unsaid.
SkipsUnsaid == IF token.claims = "audience" THEN "console" ELSE "items"

AppsDone == IF token.claims = "audience" THEN "chino-api" ELSE "items"

\* An app's page.
AppPage ==
  /\ step = "apps"
  /\ mounts # <<>>
  /\ \/ /\ Fails("app", "apps")
        /\ mounts' = Tail(mounts)
        /\ UNCHANGED page
     \/ /\ Says("app", "warn", "apps")
        /\ mounts' = Tail(mounts)
        /\ UNCHANGED <<page, odd>>
     \/ /\ page' = build[Head(mounts)]
        /\ step' = "asset"
        /\ UNCHANGED <<mounts, results, odd>>
  /\ UNCHANGED <<signInVars, token, libraryVars, item, credited, person, left, gone, bearerTo>>

\* The script or stylesheet that it names.  One of a build that is not served any more
\* is answered with the page.
AppAsset ==
  /\ step = "asset"
  /\ \/ Fails("app", "apps")
     \/ /\ Says("app", IF build[Head(mounts)] = page THEN "ok" ELSE "fail", "apps")
        /\ UNCHANGED odd
  /\ mounts' = Tail(mounts)
  /\ page' = Nil
  /\ UNCHANGED <<signInVars, token, libraryVars, item, credited, person, left, gone, bearerTo>>

AppsChecked ==
  /\ step = "apps"
  /\ mounts = <<>>
  /\ step' = AppsDone
  /\ UNCHANGED <<results, odd, signInVars, token, libraryVars, deepVars>>

----------------------------------------------------------------------------
(* The web client's API. *)

NoChino ==
  /\ step = "chino-api"
  /\ Says("chino-api", "skip", "console")
  /\ UNCHANGED <<odd, signInVars, token, libraryVars, deepVars>>

EmptyCatalog == "ok"

\* The movies first; the series when there are none.
Items(s, kind, none) ==
  /\ step = s
  /\ Asks
  /\ \/ Fails("chino-api: items", "detail") /\ UNCHANGED item
     \/ /\ \E t \in titles \cap kind : item' = t
        /\ Says("chino-api: items", "ok", "detail")
        /\ UNCHANGED odd
     \/ /\ titles \cap kind = {}
        /\ none
        /\ UNCHANGED <<item, odd>>
  /\ UNCHANGED <<signInVars, token, libraryVars, mounts, page, credited, person, left, gone>>

ListMovies == Items("items", Movies, step' = "series" /\ UNCHANGED results)
ListSeries ==
  Items("series", Titles \ Movies, Says("chino-api: items", EmptyCatalog, "detail"))

\* The title, with the first of its credits that is well-formed.
ItemDetail ==
  /\ step = "detail"
  /\ IF item = Nil
     THEN /\ Says("chino-api: item detail", "skip", "poster")
          /\ UNCHANGED <<credited, odd, bearerTo>>
     ELSE /\ Asks
          /\ \/ /\ Fails("chino-api: item detail", "poster")
                /\ credited' \in People \cup {Nil}
             \/ /\ item \notin titles
                /\ Says("chino-api: item detail", "fail", "poster")
                /\ UNCHANGED <<credited, odd>>
             \/ /\ item \in titles
                /\ credited' \in people \cup {Nil}
                /\ Says("chino-api: item detail", "ok", "poster")
                /\ UNCHANGED odd
  /\ UNCHANGED <<signInVars, token, libraryVars, mounts, page, item, person, left, gone>>

\* An image is loaded from the instance only; one that is elsewhere is not asked for.
LoadsImage(check, image, next) ==
  LET to == IF image = "elsewhere" THEN "elsewhere" ELSE "instance" IN
  IF SendsTo(to)
  THEN /\ bearerTo' = bearerTo \cup {to}
       /\ \/ Fails(check, next)
          \/ /\ Says(check, IF image = "lost" THEN "skip" ELSE "ok", next)
             /\ UNCHANGED odd
  ELSE Says(check, "skip", next) /\ UNCHANGED <<bearerTo, odd>>

Poster ==
  /\ step = "poster"
  /\ \E image \in {"none", "here", "lost", "elsewhere"} :
       IF item = Nil \/ image = "none"
       THEN Says("chino-api: poster", "skip", "search") /\ UNCHANGED <<bearerTo, odd>>
       ELSE LoadsImage("chino-api: poster", image, "search")
  /\ item' = Nil
  /\ UNCHANGED <<signInVars, token, libraryVars, mounts, page, credited, person, left, gone>>

\* By the name of the credit, or by a letter.  The index may lag behind the credits.
\* Who is found is opened; with nobody found, who is credited.
PeopleSearch ==
  /\ step = "search"
  /\ Asks
  /\ \/ Fails("chino-api: people search", "person") /\ UNCHANGED credited
     \/ /\ IF credited = Nil
           THEN /\ credited' \in people \cup {Nil}
                /\ Says("chino-api: people search", "ok", "person")
           ELSE /\ \E status \in {"ok", "warn"} : Says("chino-api: people search", status, "person")
                /\ UNCHANGED credited
        /\ UNCHANGED odd
  /\ UNCHANGED <<signInVars, token, libraryVars, mounts, page, item, person, left, gone>>

Person ==
  /\ step = "person"
  /\ IF credited = Nil
     THEN /\ Says("chino-api: person", "skip", "portrait")
          /\ UNCHANGED <<person, odd, bearerTo>>
     ELSE /\ Asks
          /\ \/ Fails("chino-api: person", "portrait") /\ UNCHANGED person
             \/ /\ credited \notin people
                /\ Says("chino-api: person", "fail", "portrait")
                /\ UNCHANGED <<person, odd>>
             \/ /\ credited \in people
                /\ \E image \in Images : person' = [id |-> credited, portrait |-> image]
                /\ Says("chino-api: person", "ok", "portrait")
                /\ UNCHANGED odd
  /\ credited' = Nil
  /\ UNCHANGED <<signInVars, token, libraryVars, mounts, page, item, left, gone>>

\* A portrait the record says is there has to be there.
Portrait ==
  /\ step = "portrait"
  /\ LET check == "chino-api: portrait"
         image == IF person = Nil THEN "none" ELSE person.portrait
     IN
     \/ /\ image \in {"none", "unsaid"}
        /\ Says(check, "skip", "packaged")
        /\ UNCHANGED <<bearerTo, odd>>
     \/ /\ image \in {"unnamed", "lost"}
        /\ Fails(check, "packaged")
        /\ IF image = "lost" THEN Asks ELSE UNCHANGED bearerTo
     \/ /\ image \in {"here", "elsewhere"}
        /\ image = "here" => person.id \in people
        /\ LoadsImage(check, image, "packaged")
     \/ /\ image = "here" /\ person.id \notin people
        /\ Asks
        /\ Says(check, "fail", "packaged")
        /\ UNCHANGED odd
  /\ person' = Nil
  /\ UNCHANGED <<signInVars, token, libraryVars, mounts, page, item, credited, left, gone>>

----------------------------------------------------------------------------
(* A packaged title, and the catalog console. *)

\* The list is read through chino-api, in any order.  It may be one from before
\* titles or packages were removed.
Packaged ==
  /\ step = "packaged"
  /\ Asks
  /\ \/ Fails("chino-api: playback", "console") /\ UNCHANGED left
     \/ /\ \E late \in SUBSET missing : left' \in SetToSeqs(packages \cup late)
        /\ IF left' = <<>> THEN Says("chino-api: playback", "skip", "console")
           ELSE step' = "playlist" /\ UNCHANGED results
        /\ UNCHANGED odd
  /\ UNCHANGED <<signInVars, token, libraryVars, mounts, page, item, credited, person, gone>>

\* Fault: the first title that is gone decides.
StopsAtTheFirst == left = <<>> \/ gone = 1

GivesUp == left = <<>> \/ gone = MaxGone

Playlist ==
  /\ step = "playlist"
  /\ IF GivesUp
     THEN /\ Says("chino-api: playback", "fail", "console")
          /\ UNCHANGED <<left, gone, odd, bearerTo>>
     ELSE /\ Asks
          /\ left' = Tail(left)
          /\ \/ Fails("chino-api: playback", "console") /\ UNCHANGED gone
             \/ /\ Head(left) \notin packages
                /\ gone' = gone + 1
                /\ UNCHANGED <<step, results, odd>>
             \/ /\ Head(left) \in packages
                /\ Says("chino-api: playback", IF gone > 0 THEN "warn" ELSE "ok", "console")
                /\ UNCHANGED <<gone, odd>>
  /\ UNCHANGED <<signInVars, token, libraryVars, mounts, page, item, credited, person>>

\* A refusal by the service shows that it is there.
CatalogConsole ==
  /\ step = "console"
  /\ Asks
  /\ \/ Fails("katalog-manager: graphql", "report")
     \/ /\ \E status \in {"ok", "warn"} : Says("katalog-manager: graphql", status, "report")
        /\ UNCHANGED odd
  /\ left' = <<>> /\ gone' = 0
  /\ UNCHANGED <<signInVars, token, libraryVars, mounts, page, item, credited, person>>

DeepNext ==
  \/ Launchpad
  \/ AppPage
  \/ AppAsset
  \/ AppsChecked
  \/ NoChino
  \/ ListMovies
  \/ ListSeries
  \/ ItemDetail
  \/ Poster
  \/ PeopleSearch
  \/ Person
  \/ Portrait
  \/ Packaged
  \/ Playlist
  \/ CatalogConsole

----------------------------------------------------------------------------
(* What others do to the library and the apps while the checks run. *)

Changes(what) ==
  /\ bearerTo # {}
  /\ step \notin {"report", "done"}
  /\ Cardinality(changed) < MaxChanges
  /\ what \notin changed
  /\ changed' = changed \cup {what}

TitleAdded(t) ==
  /\ Changes("title added")
  /\ t \notin titles
  /\ titles' = titles \cup {t}
  /\ UNCHANGED <<packages, missing, people, build>>

TitleRemoved(t) ==
  /\ Changes("title removed")
  /\ t \in titles
  /\ titles' = titles \ {t}
  /\ packages' = packages \ {t}
  /\ missing' = missing \cup (packages \cap {t})
  /\ UNCHANGED <<people, build>>

PackageRemoved(t) ==
  /\ Changes("package removed")
  /\ t \in packages
  /\ packages' = packages \ {t}
  /\ missing' = missing \cup (packages \cap {t})
  /\ UNCHANGED <<titles, people, build>>

PersonRemoved(p) ==
  /\ Changes("person removed")
  /\ p \in people
  /\ people' = people \ {p}
  /\ UNCHANGED <<titles, packages, missing, build>>

Redeployed(m) ==
  /\ Changes("app redeployed")
  /\ build' = [build EXCEPT ![m] = 1]
  /\ UNCHANGED <<titles, packages, missing, people>>

LibraryNext ==
  /\ \/ \E t \in Titles : TitleAdded(t) \/ TitleRemoved(t) \/ PackageRemoved(t)
     \/ \E p \in People : PersonRemoved(p)
     \/ \E m \in Mounts \cup {Portal} : Redeployed(m)
  /\ UNCHANGED <<step, results, odd, signInVars, token, deepVars>>

=============================================================================
