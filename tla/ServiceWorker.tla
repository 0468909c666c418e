---------------------------- MODULE ServiceWorker ----------------------------
(***************************************************************************)
(* The web build of dance_partner_finder as it is deployed: the service    *)
(* worker (flutter_service_worker.js), the three caches it keeps, and the  *)
(* loader of a page (flutter.js).  A page registers the worker of its      *)
(* version, waits until the worker is active or four seconds are over, and *)
(* then loads the program, main.dart.js.                                   *)
(*                                                                         *)
(* The site is deployed again and again; a response is the number of the   *)
(* build it comes from.  The browser's own HTTP cache may answer any plain *)
(* fetch.  The browser follows the Service Workers specification: jobs     *)
(* of a registration one after the other, fetch events held back during an *)
(* activation, an active worker replaced between two events.               *)
(***************************************************************************)
EXTENDS Integers

CONSTANTS
  Files,          \* what a build consists of
  CORE,           \* the application shell: downloaded before a worker starts
  Main,           \* "main.dart.js"
  Root,           \* "/", the index.html under its short name
  MaxVersion,     \* bound: builds that are deployed
  Build,          \* what a file is in a build; Absent when it is not there
  Absent,
  Workers,        \* bound: workers the browser ever starts, 1, 2, ...
  Pages,
  MaxFailures     \* bound: errors, times offline, workers that are killed

Versions == 1 .. MaxVersion

ASSUME ServiceWorkerAssumption ==
  /\ MaxVersion \in Nat \ {0} /\ MaxFailures \in Nat
  /\ Main \in CORE /\ CORE \subseteq Files /\ Root \in Files \ CORE
  /\ DOMAIN Build = Versions
  /\ \A v \in Versions : DOMAIN Build[v] = Files
  /\ \A v \in Versions, f \in CORE \cup {Root} : Build[v][f] # Absent
  /\ Workers \subseteq Nat \ {0}

VARIABLES
  atRoot,         \* the site is at the root of its origin, not at /wonderland/
  deployed,       \* the build on the server
  httpCache,      \* the browser's last response for each file
  content,        \* CACHE_NAME
  temp,           \* TEMP
  saved,          \* MANIFEST: the build whose RESOURCES were saved last
  state,          \* ServiceWorker.state
  label,          \* the ?v= of a worker's script
  manifest,       \* the build whose RESOURCES a worker's script holds
  step,           \* where the activate handler is
  todo,           \* requests its loop has still to visit
  broken,         \* history: a worker was not installed, or killed halfway
  stage,          \* how far a page is
  version,        \* serviceWorkerVersion of its index.html
  controlled,     \* its requests go to the active worker
  target,         \* the worker it waits for
  waited,         \* that worker was activated in time
  program,        \* the main.dart.js it runs
  failures

site == <<atRoot, deployed>>
caches == <<content, temp, saved>>
workers == <<state, label, manifest, step, todo, broken>>
pages == <<stage, version, controlled, target, waited, program>>
vars == <<site, httpCache, caches, workers, pages, failures>>

NotCached == 0
ErrorPage == -1
None == 0

Init ==
  /\ atRoot \in BOOLEAN
  /\ deployed = 1
  /\ httpCache = [f \in Files |-> NotCached]
  /\ content = [f \in Files |-> NotCached]
  /\ temp = [f \in CORE |-> NotCached]
  /\ saved = None
  /\ state = [w \in Workers |-> "none"]
  /\ label = [w \in Workers |-> None]
  /\ manifest = [w \in Workers |-> None]
  /\ step = "idle" /\ todo = {} /\ broken = FALSE
  /\ stage = [p \in Pages |-> "closed"]
  /\ version = [p \in Pages |-> None]
  /\ controlled = [p \in Pages |-> FALSE]
  /\ target = [p \in Pages |-> None]
  /\ waited = [p \in Pages |-> FALSE]
  /\ program = [p \in Pages |-> None]
  /\ failures = 0

CanFail == failures < MaxFailures /\ failures' = failures + 1

Installing == {w \in Workers : state[w] = "installing"}
Waiting == {w \in Workers : state[w] = "installed"}
Active == {w \in Workers : state[w] \in {"activating", "activated"}}
Unused == {w \in Workers : state[w] = "none"}
Newest == IF Waiting # {} THEN Waiting ELSE Active
Serving == \E w \in Active : state[w] = "activated"

-----------------------------------------------------------------------------
(* The server and the network *)

Deploy ==
  /\ deployed < MaxVersion
  /\ deployed' = deployed + 1
  /\ UNCHANGED <<atRoot, httpCache, caches, workers, pages, failures>>

\* Responses a plain fetch may bring.
Fetched(f) ==
  {v \in {deployed, httpCache[f]} \ {NotCached} : Build[v][f] # Absent}

\* The table in a worker's script: the files of the build it was made with.
RESOURCES(w) == {f \in Files : Build[manifest[w]][f] # Absent}

\* RESOURCES[key] for a request's URL.  Below /wonderland/ the key keeps that
\* prefix, and the table has no such key.
Known(w, f) == atRoot /\ f \in RESOURCES(w)

-----------------------------------------------------------------------------
(* install and activate *)

Start(w, v) ==
  /\ state' = [state EXCEPT ![w] = "installing"]
  /\ label' = [label EXCEPT ![w] = v]
  /\ manifest' = [manifest EXCEPT ![w] = deployed]
  /\ UNCHANGED <<step, todo, broken>>

\* Which number it gets makes no difference.
NewWorker == CHOOSE w \in Unused : TRUE

\* Mutant of Install: the files come without 'cache': 'reload'.
InstallPlain(w) ==
  /\ state[w] = "installing"
  /\ temp' \in [CORE -> Versions]
  /\ \A f \in CORE : temp'[f] \in Fetched(f)
  /\ httpCache' = [f \in Files |-> IF f \in CORE THEN temp'[f] ELSE httpCache[f]]
  /\ state' = [other \in Workers |->
                 IF other = w THEN "installed"
                 ELSE IF other \in Waiting THEN "redundant" ELSE state[other]]
  /\ UNCHANGED <<site, content, saved, label, manifest, step, todo, broken,
                 pages, failures>>

\* addAll into TEMP, past the HTTP cache and as a whole, each file as the server
\* has it at some moment of the download.  A worker that waited gives way.
Install(w) ==
  /\ state[w] = "installing"
  /\ temp' \in [CORE -> manifest[w] .. deployed]
  /\ httpCache' = [f \in Files |-> IF f \in CORE THEN temp'[f] ELSE httpCache[f]]
  /\ state' = [other \in Workers |->
                 IF other = w THEN "installed"
                 ELSE IF other \in Waiting THEN "redundant" ELSE state[other]]
  /\ UNCHANGED <<site, content, saved, label, manifest, step, todo, broken,
                 pages, failures>>

InstallFails(w) ==
  /\ state[w] = "installing"
  /\ CanFail
  /\ state' = [state EXCEPT ![w] = "redundant"]
  /\ broken' = TRUE
  /\ UNCHANGED <<site, httpCache, caches, label, manifest, step, todo, pages>>

\* skipWaiting was called during install: the browser replaces the active worker
\* as soon as no activation is under way.
SkipWaiting(w) ==
  /\ state[w] = "installed"
  /\ \A other \in Active : state[other] = "activated"
  /\ state' = [other \in Workers |->
                 IF other = w THEN "activating"
                 ELSE IF other \in Active THEN "redundant" ELSE state[other]]
  /\ step' = "begin" /\ todo' = {}
  /\ UNCHANGED <<site, httpCache, caches, label, manifest, broken, pages, failures>>

Activating(w, s) == state[w] = "activating" /\ step = s

\* Without a saved manifest the content cache is cleared, with one its requests
\* are visited one by one.
ActivateBegin(w) ==
  /\ Activating(w, "begin")
  /\ step' = "clean"
  /\ \/ /\ saved = None
        /\ content' = [f \in Files |-> NotCached]
        /\ todo' = {}
     \/ /\ saved # None
        /\ todo' = {f \in Files : content[f] # NotCached}
        /\ UNCHANGED content
  /\ UNCHANGED <<site, httpCache, temp, saved, state, label, manifest, broken,
                 pages, failures>>

\* Mutant of Outdated: only files that the new build still has are compared.
OutdatedIfKnown(w, f) == Known(w, f) /\ Build[manifest[w]][f] # Build[saved][f]

\* !RESOURCES[key] || RESOURCES[key] != oldManifest[key]
Outdated(w, f) == ~Known(w, f) \/ Build[manifest[w]][f] # Build[saved][f]

ActivateClean(w, f) ==
  /\ Activating(w, "clean")
  /\ f \in todo
  /\ todo' = todo \ {f}
  /\ content' = IF Outdated(w, f) THEN [content EXCEPT ![f] = NotCached] ELSE content
  /\ UNCHANGED <<site, httpCache, temp, saved, state, label, manifest, step,
                 broken, pages, failures>>

ActivateTemp(w) ==
  /\ Activating(w, "clean")
  /\ todo = {}
  /\ step' = "fill"
  /\ todo' = {f \in CORE : temp[f] # NotCached}
  /\ UNCHANGED <<site, httpCache, caches, state, label, manifest, broken, pages,
                 failures>>

\* The shell files replace what is cached.
ActivateFill(w, f) ==
  /\ Activating(w, "fill")
  /\ f \in todo
  /\ todo' = todo \ {f}
  /\ content' = [content EXCEPT ![f] = temp[f]]
  /\ UNCHANGED <<site, httpCache, temp, saved, state, label, manifest, step,
                 broken, pages, failures>>

\* TEMP is deleted with all that is in it, a next worker's files included.
ActivateDropTemp(w) ==
  /\ Activating(w, "fill")
  /\ todo = {}
  /\ temp' = [f \in CORE |-> NotCached]
  /\ step' = "save"
  /\ UNCHANGED <<site, httpCache, content, saved, state, label, manifest, todo,
                 broken, pages, failures>>

\* The manifest is saved and the worker activated; the claim of the open pages
\* is not awaited and may come too late for what they fetch.
ActivateSave(w) ==
  /\ Activating(w, "save")
  /\ saved' = manifest[w]
  /\ step' = "idle"
  /\ state' = [state EXCEPT ![w] = "activated"]
  /\ \/ controlled' = [p \in Pages |-> stage[p] # "closed"]
     \/ UNCHANGED controlled
  /\ UNCHANGED <<site, httpCache, content, temp, label, manifest, todo, broken,
                 stage, version, target, waited, program, failures>>

\* An exception anywhere in the handler: all three caches are deleted.
ActivateCatch(w) ==
  /\ state[w] = "activating"
  /\ CanFail
  /\ content' = [f \in Files |-> NotCached]
  /\ temp' = [f \in CORE |-> NotCached]
  /\ saved' = None
  /\ state' = [state EXCEPT ![w] = "activated"]
  /\ step' = "idle" /\ todo' = {}
  /\ UNCHANGED <<site, httpCache, label, manifest, broken, pages>>

\* The worker is killed, which ends its activation where it is; or the browser
\* goes down, and dispatches the event again when it is back.  What is being
\* installed then is lost.
Kill(w) ==
  /\ state[w] = "activating"
  /\ CanFail
  /\ todo' = {}
  /\ \/ /\ state' = [state EXCEPT ![w] = "activated"]
        /\ step' = "idle"
        /\ broken' = TRUE
        /\ UNCHANGED pages
     \/ /\ step' = "begin"
        /\ stage' = [p \in Pages |-> "closed"]
        /\ version' = [p \in Pages |-> None]
        /\ controlled' = [p \in Pages |-> FALSE]
        /\ target' = [p \in Pages |-> None]
        /\ waited' = [p \in Pages |-> FALSE]
        /\ program' = [p \in Pages |-> None]
        /\ broken' = (broken \/ Installing # {})
        /\ state' = [other \in Workers |-> IF other \in Installing THEN "redundant"
                                          ELSE state[other]]
  /\ UNCHANGED <<site, httpCache, caches, label, manifest>>

-----------------------------------------------------------------------------
(* fetch and message *)

\* The browser holds back a request while the active worker is activating.
Held(p) == controlled[p] /\ ~Serving
Intercepted(p, f) == controlled[p] /\ \E w \in Active : Known(w, f)

\* Mutant of Respond: an error is cached like any other response.
RespondUnchecked(p, f, r) ==
  /\ ~Held(p)
  /\ \/ /\ Intercepted(p, f) /\ content[f] # NotCached
        /\ r = content[f]
        /\ UNCHANGED <<httpCache, content, failures>>
     \/ /\ Intercepted(p, f) => content[f] = NotCached
        /\ r \in Fetched(f)
        /\ httpCache' = [httpCache EXCEPT ![f] = r]
        /\ \/ Intercepted(p, f) /\ content' = [content EXCEPT ![f] = r]
           \/ UNCHANGED content
        /\ UNCHANGED failures
     \/ /\ Intercepted(p, f) => content[f] = NotCached
        /\ CanFail
        /\ r = ErrorPage
        /\ \/ Intercepted(p, f) /\ content' = [content EXCEPT ![f] = r]
           \/ UNCHANGED content
        /\ UNCHANGED httpCache

\* A RESOURCE comes from the cache or else from the network, and is then put into
\* the cache unless the worker ends first; anything else is the browser's affair.
Respond(p, f, r) ==
  /\ ~Held(p)
  /\ \/ /\ Intercepted(p, f) /\ content[f] # NotCached
        /\ r = content[f]
        /\ UNCHANGED <<httpCache, content, failures>>
     \/ /\ Intercepted(p, f) => content[f] = NotCached
        /\ r \in Fetched(f)
        /\ httpCache' = [httpCache EXCEPT ![f] = r]
        /\ \/ Intercepted(p, f) /\ content' = [content EXCEPT ![f] = r]
           \/ UNCHANGED content
        /\ UNCHANGED failures
     \/ /\ Intercepted(p, f) => content[f] = NotCached
        /\ CanFail
        /\ r = ErrorPage
        /\ UNCHANGED <<httpCache, content>>

\* Online first: the answer to "/" is put into the cache, an error too, unless the
\* worker ends first; offline the cache has to do.
OnlineFirst(r) ==
  \/ /\ r \in Fetched(Root)
     /\ httpCache' = [httpCache EXCEPT ![Root] = r]
     /\ content' = [content EXCEPT ![Root] = r] \/ UNCHANGED content
     /\ UNCHANGED failures
  \/ /\ CanFail
     /\ r = ErrorPage
     /\ content' = [content EXCEPT ![Root] = r] \/ UNCHANGED content
     /\ UNCHANGED httpCache
  \/ /\ CanFail
     /\ r = content[Root]
     /\ UNCHANGED <<httpCache, content>>

\* A page is opened: the browser asks for "/", through the worker or not.
Open(p) ==
  /\ stage[p] = "closed"
  /\ Active # {} => Serving
  /\ \E r \in Versions \cup {NotCached, ErrorPage} :
       /\ \/ atRoot /\ Active # {} /\ OnlineFirst(r)
          \/ /\ ~(atRoot /\ Active # {})
             /\ r \in Fetched(Root)
             /\ httpCache' = [httpCache EXCEPT ![Root] = r]
             /\ UNCHANGED <<content, failures>>
       /\ IF r \in Versions
          THEN /\ stage' = [stage EXCEPT ![p] = "loaded"]
               /\ version' = [version EXCEPT ![p] = r]
               /\ controlled' = [controlled EXCEPT ![p] = Active # {}]
          ELSE UNCHANGED <<stage, version, controlled>>
  /\ UNCHANGED <<site, temp, saved, workers, target, waited, program>>

\* A running page asks for one of its files.
Request(p, f) ==
  /\ stage[p] = "running"
  /\ \E r \in Versions \cup {ErrorPage} : Respond(p, f, r)
  /\ UNCHANGED <<site, temp, saved, workers, pages>>

\* All RESOURCES that are not in the cache, as a whole.  (Below /wonderland/ the
\* request for "/" leaves the site, and nothing is added.)
DownloadOffline(p) ==
  LET missing == {f \in Files : /\ \E w \in Active : Known(w, f)
                                /\ content[f] = NotCached}
  IN
  /\ stage[p] = "running" /\ controlled[p] /\ Serving
  /\ missing # {}
  /\ \E responses \in [missing -> Versions] :
       /\ \A f \in missing : responses[f] \in Fetched(f)
       /\ content' = [f \in Files |-> IF f \in missing THEN responses[f] ELSE content[f]]
       /\ httpCache' = [f \in Files |-> IF f \in missing THEN responses[f] ELSE httpCache[f]]
  /\ UNCHANGED <<site, temp, saved, workers, pages, failures>>

-----------------------------------------------------------------------------
(* FlutterServiceWorkerLoader and FlutterEntrypointLoader *)

\* register(url): a worker of another version is started, or the newest is it.
Register(p) ==
  /\ stage[p] = "loaded"
  /\ Installing = {}
  /\ \/ /\ \E w \in Newest : label[w] = version[p]
        /\ UNCHANGED workers
     \/ /\ \A w \in Newest : label[w] # version[p]
        /\ Unused # {}
        /\ Start(NewWorker, version[p])
  /\ stage' = [stage EXCEPT ![p] = "registered"]
  /\ UNCHANGED <<site, httpCache, caches, version, controlled, target, waited,
                 program, failures>>

WaitFor(p, w) ==
  /\ target' = [target EXCEPT ![p] = w]
  /\ stage' = [stage EXCEPT ![p] = "waiting"]

\* Mutant of GetNewServiceWorker: an active worker is good enough.
GetNewServiceWorkerAny(p) ==
  /\ stage[p] = "registered"
  /\ \/ /\ Active = {}
        /\ \E w \in Installing \cup Waiting : WaitFor(p, w)
     \/ /\ Active = {} /\ Installing \cup Waiting = {}
        /\ stage' = [stage EXCEPT ![p] = "ready"]
        /\ UNCHANGED target
     \/ \E w \in Active : WaitFor(p, w)
  /\ UNCHANGED <<site, httpCache, caches, workers, version, controlled, waited,
                 program, failures>>

\* The first worker of all, or the active one if it is of the page's version; if
\* it is of another the browser is asked for an update.  With no worker left,
\* reg.active.scriptURL throws.
GetNewServiceWorker(p) ==
  /\ stage[p] = "registered"
  /\ \/ /\ Active = {}
        /\ IF Installing # {}
           THEN \E w \in Installing : WaitFor(p, w)
           ELSE \E w \in Waiting : WaitFor(p, w)
     \/ /\ Active = {} /\ Installing \cup Waiting = {}
        /\ stage' = [stage EXCEPT ![p] = "ready"]
        /\ UNCHANGED target
     \/ \E w \in Active : label[w] = version[p] /\ WaitFor(p, w)
     \/ /\ \E w \in Active : label[w] # version[p]
        /\ stage' = [stage EXCEPT ![p] = "updating"]
        /\ UNCHANGED target
  /\ UNCHANGED <<site, httpCache, caches, workers, version, controlled, waited,
                 program, failures>>

\* reg.update() fetches the script of the newest worker again.  Every build has
\* another index.html, hence other RESOURCES and another script.
Update(p) ==
  /\ stage[p] = "updating"
  /\ Installing = {}
  /\ \E w \in Newest :
       \/ manifest[w] = deployed /\ WaitFor(p, w) /\ UNCHANGED workers
       \/ /\ manifest[w] # deployed
          /\ Unused # {}
          /\ Start(NewWorker, label[w])
          /\ WaitFor(p, NewWorker)
  /\ UNCHANGED <<site, httpCache, caches, version, controlled, waited, program,
                 failures>>

\* The awaited worker's state becomes "activated", or was it before.
Activated(p) ==
  /\ stage[p] = "waiting"
  /\ state[target[p]] = "activated"
  /\ stage' = [stage EXCEPT ![p] = "ready"]
  /\ waited' = [waited EXCEPT ![p] = TRUE]
  /\ target' = [target EXCEPT ![p] = None]
  /\ UNCHANGED <<site, httpCache, caches, workers, version, controlled, program,
                 failures>>

\* Mutant of TimedOut: the clock covers the registration, not the wait.
TimedOutUnlessWaiting(p) ==
  /\ stage[p] \in {"loaded", "registered", "updating"}
  /\ stage' = [stage EXCEPT ![p] = "ready"]
  /\ target' = [target EXCEPT ![p] = None]
  /\ UNCHANGED <<site, httpCache, caches, workers, version, controlled, waited,
                 program, failures>>

\* Four seconds are over, or registration or update was refused: either way the
\* loader goes on.
TimedOut(p) ==
  /\ stage[p] \in {"loaded", "registered", "updating", "waiting"}
  /\ stage' = [stage EXCEPT ![p] = "ready"]
  /\ target' = [target EXCEPT ![p] = None]
  /\ UNCHANGED <<site, httpCache, caches, workers, version, controlled, waited,
                 program, failures>>

\* The script tag is put into the page and its source fetched.
LoadEntrypoint(p) ==
  /\ stage[p] = "ready"
  /\ \E r \in Versions \cup {ErrorPage} :
       /\ Respond(p, Main, r)
       /\ program' = [program EXCEPT ![p] = r]
  /\ stage' = [stage EXCEPT ![p] = "running"]
  /\ UNCHANGED <<site, temp, saved, workers, version, controlled, target, waited>>

Close(p) ==
  /\ stage[p] # "closed"
  /\ stage' = [stage EXCEPT ![p] = "closed"]
  /\ version' = [version EXCEPT ![p] = None]
  /\ controlled' = [controlled EXCEPT ![p] = FALSE]
  /\ target' = [target EXCEPT ![p] = None]
  /\ waited' = [waited EXCEPT ![p] = FALSE]
  /\ program' = [program EXCEPT ![p] = None]
  /\ UNCHANGED <<site, httpCache, caches, workers, failures>>

-----------------------------------------------------------------------------

ActivateStep(w) ==
  \/ ActivateBegin(w)
  \/ \E f \in todo : ActivateClean(w, f) \/ ActivateFill(w, f)
  \/ ActivateTemp(w)
  \/ ActivateDropTemp(w)
  \/ ActivateSave(w)

WorkerStep(w) ==
  \/ Install(w) \/ InstallFails(w)
  \/ SkipWaiting(w)
  \/ ActivateStep(w) \/ ActivateCatch(w)
  \/ Kill(w)

PageStep(p) ==
  \/ Open(p) \/ Close(p)
  \/ Register(p) \/ GetNewServiceWorker(p) \/ Update(p)
  \/ Activated(p) \/ TimedOut(p) \/ LoadEntrypoint(p)
  \/ \E f \in Files \ {Root} : Request(p, f)
  \/ DownloadOffline(p)

Next ==
  \/ Deploy
  \/ \E w \in Workers : WorkerStep(w)
  \/ \E p \in Pages : PageStep(p)

\* Timers fire, fetches are answered, and the promises of the activate handler
\* settle.  Nothing need be deployed, and no worker need be installed.
Fairness ==
  /\ \A w \in Workers : WF_vars(ActivateStep(w))
  /\ \A p \in Pages : WF_vars(TimedOut(p)) /\ WF_vars(LoadEntrypoint(p))

Spec == Init /\ [][Next]_vars /\ Fairness

-----------------------------------------------------------------------------
(* Correctness *)

Responses == Versions \cup {NotCached}
AtMostOne(S) == \A u, w \in S : u = w

TypeOK ==
  /\ atRoot \in BOOLEAN /\ deployed \in Versions
  /\ httpCache \in [Files -> Responses]
  /\ content \in [Files -> Responses \cup {ErrorPage}]
  /\ \A f \in Files \ {Root} : content[f] # ErrorPage
  /\ temp \in [CORE -> Responses]
  /\ saved \in Versions \cup {None}
  /\ state \in [Workers -> {"none", "installing", "installed", "activating",
                            "activated", "redundant"}]
  /\ AtMostOne(Installing) /\ AtMostOne(Waiting) /\ AtMostOne(Active)
  /\ label \in [Workers -> Versions \cup {None}]
  /\ manifest \in [Workers -> Versions \cup {None}]
  /\ step \in {"idle", "begin", "clean", "fill", "save"}
  /\ todo \subseteq Files /\ broken \in BOOLEAN
  /\ stage \in [Pages -> {"closed", "loaded", "registered", "updating",
                          "waiting", "ready", "running"}]
  /\ version \in [Pages -> Versions \cup {None}]
  /\ controlled \in [Pages -> BOOLEAN]
  /\ target \in [Pages -> Workers \cup {None}]
  /\ waited \in [Pages -> BOOLEAN]
  /\ program \in [Pages -> Versions \cup {None, ErrorPage}]
  /\ failures \in 0 .. MaxFailures

\* A build took f back to what it was in an earlier build.
RolledBack(f) ==
  \E i, j, k \in Versions : /\ i < j /\ j < k
                            /\ Build[i][f] = Build[k][f] /\ Build[j][f] # Build[k][f]

NoOlder(r, v, f) == r >= v \/ Build[r][f] = Build[v][f]

\* A shell file in the cache is never older than the saved manifest says, through
\* deployments in the middle of a download, killed and repeated activations and
\* whatever the HTTP cache answers, unless it was rolled back.
CoreNoOlder ==
  \A f \in CORE : content[f] # NotCached /\ saved # None /\ ~RolledBack(f)
                    => NoOlder(content[f], saved, f)

\* Once an activation has run to its end, the cache holds files of the new build
\* only.
OnlyResourcesCached ==
  \A w \in Active : state[w] = "activated" /\ saved = manifest[w]
    => \A f \in Files : content[f] # NotCached => f \in RESOURCES(w)

\* A page that waited for a worker runs a program no older than itself.  Only
\* the timeout, a worker killed halfway, or one that could not be installed (the
\* page may then be given an older one that waits) lets a new page run an old
\* program.
WaitedIsFresh ==
  \A p \in Pages :
    stage[p] = "running" /\ waited[p] /\ program[p] # ErrorPage
      => broken \/ RolledBack(Main) \/ NoOlder(program[p], version[p], Main)

\* The show must go on: whatever becomes of the worker, a page that was opened
\* loads its program.
ShowGoesOn ==
  \A p \in Pages : stage[p] = "loaded" ~> stage[p] \in {"running", "closed"}
=============================================================================
