------------------------ MODULE ServiceWorkerProofs ------------------------
(***************************************************************************)
(* Theorems about ServiceWorker, for every set of files, every number of   *)
(* builds, workers, pages and failures, and whatever the builds hold.      *)
(* Workers come in order: the manifest saved, the active worker, the one   *)
(* that waits and the one being installed hold ever later RESOURCES, and   *)
(* neither the HTTP cache nor TEMP ever falls behind them.                 *)
(***************************************************************************)
EXTENDS ServiceWorker, TLAPS

\* What TypeOK says of each part of the state.
CachesTyped ==
  /\ httpCache \in [Files -> Responses]
  /\ content \in [Files -> Responses \cup {ErrorPage}]
  /\ \A f \in Files \ {Root} : content[f] # ErrorPage
  /\ temp \in [CORE -> Responses]
  /\ saved \in Versions \cup {None}

WorkersTyped ==
  /\ state \in [Workers -> {"none", "installing", "installed", "activating",
                            "activated", "redundant"}]
  /\ AtMostOne(Installing) /\ AtMostOne(Waiting) /\ AtMostOne(Active)
  /\ label \in [Workers -> Versions \cup {None}]
  /\ manifest \in [Workers -> Versions \cup {None}]
  /\ step \in {"idle", "begin", "clean", "fill", "save"}
  /\ todo \subseteq Files /\ broken \in BOOLEAN

PagesTyped ==
  /\ stage \in [Pages -> {"closed", "loaded", "registered", "updating",
                          "waiting", "ready", "running"}]
  /\ version \in [Pages -> Versions \cup {None}]
  /\ controlled \in [Pages -> BOOLEAN]
  /\ target \in [Pages -> Workers \cup {None}]
  /\ waited \in [Pages -> BOOLEAN]
  /\ program \in [Pages -> Versions \cup {None, ErrorPage}]

LEMMA TypeParts ==
  TypeOK <=> /\ atRoot \in BOOLEAN /\ deployed \in Versions
             /\ CachesTyped /\ WorkersTyped /\ PagesTyped
             /\ failures \in 0 .. MaxFailures
  BY DEF TypeOK, CachesTyped, WorkersTyped, PagesTyped

\* TEMP holds shell files only, so the loop over it visits no other.
FillIsShell == step = "fill" => todo \subseteq CORE

Typed == TypeOK /\ FillIsShell

-----------------------------------------------------------------------------
(* What the steps of a page do to the rest *)

\* At most the HTTP cache gets newer files, and the content cache a file of the
\* active worker's RESOURCES, or "/", from the network.
Put ==
  /\ UNCHANGED <<site, temp, saved, workers>>
  /\ httpCache' \in [Files -> Responses]
  /\ content' \in [Files -> Responses \cup {ErrorPage}]
  /\ \A f \in Files : httpCache'[f] \in {httpCache[f], deployed}
  /\ \A f \in Files :
       \/ content'[f] = content[f]
       \/ f = Root /\ Serving /\ content'[f] \in {httpCache[f], deployed, ErrorPage}
       \/ \E w \in Active : /\ state[w] = "activated" /\ f \in RESOURCES(w)
                            /\ content'[f] \in {httpCache[f], deployed} \ {NotCached}

\* Or a worker of the build on the server is started.
Began ==
  /\ UNCHANGED <<site, httpCache, caches>>
  /\ Installing = {}
  /\ \E w \in Unused, v \in Versions \cup {None} : Start(w, v)

LEMMA NewWorkerUnused == Unused # {} => NewWorker \in Unused
  BY DEF NewWorker

LEMMA FetchedTyped ==
  ASSUME TypeOK, NEW f \in Files
  PROVE  Fetched(f) \subseteq Versions /\ Fetched(f) \subseteq {httpCache[f], deployed} \ {NotCached}
  BY DEF TypeOK, Fetched, Responses, NotCached

\* While the active worker serves no other is active.
LEMMA ServingWorker ==
  ASSUME TypeOK, Serving, NEW w \in Active PROVE state[w] = "activated"
<1>1. PICK u \in Active : state[u] = "activated"
  BY DEF Serving
<1>2. u = w
  BY <1>1 DEF TypeOK, AtMostOne
<1> QED
  BY <1>1, <1>2

LEMMA RespondEffect ==
  ASSUME TypeOK, NEW p \in Pages, NEW f \in Files, f # Root,
         NEW r \in Versions \cup {ErrorPage}, Respond(p, f, r),
         UNCHANGED <<site, temp, saved, workers>>
  PROVE  Put /\ failures' \in 0 .. MaxFailures
<1>1. failures' \in 0 .. MaxFailures
  BY ServiceWorkerAssumption DEF Respond, CanFail, TypeOK
<1>2. CASE UNCHANGED <<httpCache, content>>
  BY <1>1, <1>2 DEF Put, TypeOK
<1>3. CASE /\ r \in Fetched(f)
           /\ httpCache' = [httpCache EXCEPT ![f] = r]
           /\ \/ Intercepted(p, f) /\ content' = [content EXCEPT ![f] = r]
              \/ UNCHANGED content
  <2>1. r \in Versions /\ r \in {httpCache[f], deployed} \ {NotCached}
    BY <1>3, FetchedTyped
  <2>2. /\ httpCache' \in [Files -> Responses]
        /\ content' \in [Files -> Responses \cup {ErrorPage}]
        /\ \A g \in Files : httpCache'[g] \in {httpCache[g], deployed}
    BY <1>3, <2>1 DEF TypeOK, Responses
  <2>3. ASSUME content'[f] # content[f]
        PROVE  \E w \in Active : state[w] = "activated" /\ f \in RESOURCES(w)
    <3>1. Intercepted(p, f)
      BY <1>3, <2>3
    <3>2. PICK w \in Active : Known(w, f)
      BY <3>1 DEF Intercepted
    <3>3. Serving
      BY <3>1 DEF Respond, Held, Intercepted
    <3> QED
      BY <3>2, <3>3, ServingWorker DEF Known
  <2>4. ASSUME NEW g \in Files, content'[g] # content[g] PROVE g = f /\ content'[g] = r
    BY <1>3, <2>4 DEF TypeOK
  <2> QED
    BY <1>1, <2>1, <2>2, <2>3, <2>4 DEF Put
<1> QED
  BY <1>2, <1>3 DEF Respond

LEMMA OpenEffect ==
  ASSUME TypeOK, NEW p \in Pages, Open(p)
  PROVE  Put /\ failures' \in 0 .. MaxFailures
<1>1. PICK r \in Versions \cup {NotCached, ErrorPage} :
        \/ atRoot /\ Active # {} /\ OnlineFirst(r)
        \/ /\ ~(atRoot /\ Active # {})
           /\ r \in Fetched(Root)
           /\ httpCache' = [httpCache EXCEPT ![Root] = r]
           /\ UNCHANGED <<content, failures>>
  BY DEF Open
<1>2. UNCHANGED <<site, temp, saved, workers>> /\ (Active # {} => Serving)
  BY DEF Open
<1>3. Root \in Files /\ (r \in Fetched(Root) => r \in Versions /\ r \in {httpCache[Root], deployed})
  BY ServiceWorkerAssumption, FetchedTyped
<1>4. failures' \in 0 .. MaxFailures
  BY <1>1, ServiceWorkerAssumption DEF OnlineFirst, CanFail, TypeOK
<1>5. \/ UNCHANGED httpCache
      \/ r \in Fetched(Root) /\ httpCache' = [httpCache EXCEPT ![Root] = r]
  BY <1>1 DEF OnlineFirst
<1>6. \/ UNCHANGED content
      \/ /\ Active # {} /\ content' = [content EXCEPT ![Root] = r]
         /\ r \in Fetched(Root) \/ r = ErrorPage
  BY <1>1 DEF OnlineFirst
<1>7. httpCache' \in [Files -> Responses] /\ \A f \in Files : httpCache'[f] \in {httpCache[f], deployed}
  BY <1>3, <1>5 DEF TypeOK, Responses
<1>8. /\ content' \in [Files -> Responses \cup {ErrorPage}]
      /\ \A f \in Files :
           \/ content'[f] = content[f]
           \/ f = Root /\ Serving /\ content'[f] \in {httpCache[f], deployed, ErrorPage}
  BY <1>2, <1>3, <1>6 DEF TypeOK, Responses
<1> QED
  BY <1>2, <1>4, <1>7, <1>8 DEF Put

LEMMA DownloadEffect ==
  ASSUME TypeOK, NEW p \in Pages, DownloadOffline(p) PROVE Put
<1> DEFINE missing == {f \in Files : /\ \E w \in Active : Known(w, f)
                                     /\ content[f] = NotCached}
<1>1. PICK responses \in [missing -> Versions] :
       /\ \A f \in missing : responses[f] \in Fetched(f)
       /\ content' = [f \in Files |-> IF f \in missing THEN responses[f] ELSE content[f]]
       /\ httpCache' = [f \in Files |-> IF f \in missing THEN responses[f] ELSE httpCache[f]]
  BY DEF DownloadOffline
<1>2. \A f \in missing : /\ responses[f] \in Versions
                         /\ responses[f] \in {httpCache[f], deployed} \ {NotCached}
  BY <1>1, FetchedTyped
<1>3. ASSUME NEW f \in missing PROVE \E w \in Active : state[w] = "activated" /\ f \in RESOURCES(w)
  BY <1>3, ServingWorker DEF DownloadOffline, Known
<1>4. UNCHANGED <<site, temp, saved, workers>>
  BY DEF DownloadOffline
<1> HIDE DEF missing
<1>5. missing \subseteq Files
  BY DEF missing
<1>6. httpCache' \in [Files -> Responses] /\ \A f \in Files : httpCache'[f] \in {httpCache[f], deployed}
  BY <1>1, <1>2 DEF TypeOK, Responses
<1>7. /\ content' \in [Files -> Responses \cup {ErrorPage}]
      /\ \A f \in Files : \/ content'[f] = content[f]
                          \/ f \in missing /\ content'[f] = responses[f]
  BY <1>1, <1>2 DEF TypeOK, Responses
<1> QED
  BY <1>2, <1>3, <1>4, <1>6, <1>7 DEF Put

LEMMA PageEffect ==
  ASSUME TypeOK, NEW p \in Pages, PageStep(p)
  PROVE  /\ Put \/ Began
         /\ failures' \in 0 .. MaxFailures
<1>1. ASSUME UNCHANGED <<site, httpCache, caches, workers, failures>>
      PROVE  Put /\ failures' \in 0 .. MaxFailures
  BY <1>1 DEF Put, TypeOK, caches
<1>2. CASE Open(p)
  BY <1>2, OpenEffect
<1>3. CASE Register(p)
  <2>1. ASSUME Unused # {}, Start(NewWorker, version[p]) PROVE Began
    <3>1. version[p] \in Versions \cup {None}
      BY DEF TypeOK
    <3> QED
      BY <1>3, <2>1, <3>1, NewWorkerUnused DEF Register, Began
  <2> QED
    BY <1>1, <1>3, <2>1 DEF Register, TypeOK
<1>4. CASE Update(p)
  <2>1. ASSUME NEW w \in Newest, Unused # {}, Start(NewWorker, label[w]) PROVE Began
    <3>1. label[w] \in Versions \cup {None}
      BY DEF TypeOK, Newest, Waiting, Active
    <3> QED
      BY <1>4, <2>1, <3>1, NewWorkerUnused DEF Update, Began
  <2> QED
    BY <1>1, <1>4, <2>1 DEF Update, TypeOK
<1>5. CASE LoadEntrypoint(p)
  <2>1. Main \in Files /\ Main # Root
    BY ServiceWorkerAssumption
  <2> QED
    BY <1>5, <2>1, RespondEffect DEF LoadEntrypoint
<1>6. CASE \E f \in Files \ {Root} : Request(p, f)
  BY <1>6, RespondEffect DEF Request
<1>7. CASE DownloadOffline(p)
  BY <1>7, DownloadEffect DEF DownloadOffline, TypeOK
<1>8. CASE Close(p) \/ GetNewServiceWorker(p) \/ Activated(p) \/ TimedOut(p)
  BY <1>1, <1>8 DEF Close, GetNewServiceWorker, Activated, TimedOut
<1> QED
  BY <1>2, <1>3, <1>4, <1>5, <1>6, <1>7, <1>8 DEF PageStep

-----------------------------------------------------------------------------
(* Type correctness *)

LEMMA PagesStepTyped ==
  ASSUME TypeOK, NEW p \in Pages, PageStep(p) PROVE PagesTyped'
<1>1. PagesTyped
  BY TypeParts
<1>2. CASE Open(p)
  BY <1>1, <1>2 DEF Open, PagesTyped
<1>3. CASE Close(p)
  BY <1>1, <1>3 DEF Close, PagesTyped
<1>4. CASE Register(p)
  BY <1>1, <1>4 DEF Register, PagesTyped
<1>5. CASE GetNewServiceWorker(p)
  <2>1. \A w \in Installing \cup Waiting \cup Active : w \in Workers
    BY DEF Installing, Waiting, Active
  <2>2. target' \in [Pages -> Workers \cup {None}] /\ stage' \in [Pages ->
          {"closed", "loaded", "registered", "updating", "waiting", "ready", "running"}]
    BY <1>1, <1>5, <2>1 DEF GetNewServiceWorker, WaitFor, PagesTyped
  <2> QED
    BY <1>1, <1>5, <2>2 DEF GetNewServiceWorker, PagesTyped
<1>6. CASE Update(p)
  <2>1. \A w \in Newest : w \in Workers
    BY DEF Newest, Waiting, Active
  <2>2. Unused # {} => NewWorker \in Workers
    BY NewWorkerUnused DEF Unused
  <2>3. \E w \in Workers : WaitFor(p, w)
    BY <1>6, <2>1, <2>2 DEF Update
  <2> QED
    BY <1>1, <1>6, <2>3 DEF Update, WaitFor, PagesTyped
<1>7. CASE Activated(p)
  BY <1>1, <1>7 DEF Activated, PagesTyped
<1>8. CASE TimedOut(p)
  BY <1>1, <1>8 DEF TimedOut, PagesTyped
<1>9. CASE LoadEntrypoint(p)
  BY <1>1, <1>9 DEF LoadEntrypoint, PagesTyped
<1>10. CASE (\E f \in Files \ {Root} : Request(p, f)) \/ DownloadOffline(p)
  BY <1>1, <1>10 DEF Request, DownloadOffline, pages, PagesTyped
<1> QED
  BY <1>2, <1>3, <1>4, <1>5, <1>6, <1>7, <1>8, <1>9, <1>10 DEF PageStep

\* Only "/" has its errors cached.
LEMMA PutTyped ==
  ASSUME Typed, Put
  PROVE  /\ atRoot' \in BOOLEAN /\ deployed' \in Versions
         /\ CachesTyped' /\ WorkersTyped' /\ FillIsShell'
<1>1. \A f \in Files \ {Root} : content'[f] # ErrorPage
  BY DEF Typed, TypeOK, Put, Responses, Versions, ErrorPage, NotCached
<1>2. CachesTyped'
  BY <1>1 DEF Typed, TypeOK, Put, CachesTyped
<1>3. WorkersTyped' /\ FillIsShell'
  BY DEF Typed, TypeOK, FillIsShell, Put, workers, WorkersTyped, AtMostOne, Installing,
     Waiting, Active
<1> QED
  BY <1>2, <1>3 DEF Typed, TypeOK, Put, site

\* What Start makes of the sets of workers.
LEMMA BeganSets ==
  ASSUME TypeOK, Began
  PROVE  \E w \in Unused :
           /\ Installing = {} /\ Installing' = {w}
           /\ Waiting' = Waiting /\ Active' = Active
           /\ manifest' = [manifest EXCEPT ![w] = deployed]
           /\ \A u \in Workers : u # w => state'[u] = state[u]
           /\ UNCHANGED <<step, todo, broken>>
<1>1. PICK w \in Unused, v \in Versions \cup {None} : Start(w, v)
  BY DEF Began
<1>2. state[w] = "none" /\ state' = [state EXCEPT ![w] = "installing"]
  BY <1>1 DEF Start, Unused
<1>3. /\ manifest' = [manifest EXCEPT ![w] = deployed] /\ UNCHANGED <<step, todo, broken>>
      /\ w \in Workers /\ state'[w] = "installing"
      /\ \A u \in Workers : u # w => state'[u] = state[u]
  BY <1>1, <1>2 DEF Start, TypeOK, Unused
<1>4. Installing = {} /\ Installing' = {w}
  BY <1>3 DEF Began, Installing
<1>5. Waiting' = Waiting /\ Active' = Active
  BY <1>2, <1>3 DEF Waiting, Active
<1> QED
  BY <1>3, <1>4, <1>5

LEMMA BeganTyped ==
  ASSUME Typed, Began
  PROVE  /\ atRoot' \in BOOLEAN /\ deployed' \in Versions
         /\ CachesTyped' /\ WorkersTyped' /\ FillIsShell'
<1>1. PICK w \in Unused, v \in Versions \cup {None} : Start(w, v)
  BY DEF Began
<1>2. /\ AtMostOne(Installing)' /\ AtMostOne(Waiting)' /\ AtMostOne(Active)'
  BY BeganSets DEF Typed, TypeOK, AtMostOne
<1>3. WorkersTyped'
  BY <1>1, <1>2 DEF Typed, TypeOK, Start, Unused, WorkersTyped
<1>4. FillIsShell'
  BY <1>1 DEF Typed, FillIsShell, Start
<1> QED
  BY <1>3, <1>4 DEF Typed, TypeOK, Began, site, caches, CachesTyped, Responses

\* An active worker that is activating is the active worker.
LEMMA ActivatingWorker ==
  ASSUME TypeOK, NEW w \in Workers, state[w] = "activating"
  PROVE  Active = {w} /\ ~Serving
<1>1. w \in Active
  BY DEF Active
<1>2. \A u \in Active : u = w
  BY <1>1 DEF TypeOK, AtMostOne
<1> QED
  BY <1>1, <1>2 DEF Serving

\* What the steps of the life cycle make of the sets of workers.
LEMMA InstallSets ==
  ASSUME TypeOK, NEW w \in Workers, Install(w)
  PROVE  w \in Installing /\ Installing' = {} /\ Waiting' = {w} /\ Active' = Active
<1>1. w \in Installing /\ \A u \in Installing : u = w
  BY DEF Install, Installing, TypeOK, AtMostOne
<1> QED
  BY <1>1 DEF Install, Installing, Waiting, Active, TypeOK

LEMMA InstallFailsSets ==
  ASSUME TypeOK, NEW w \in Workers, InstallFails(w)
  PROVE  Installing' = {} /\ Waiting' = Waiting /\ Active' = Active
<1>1. w \in Installing /\ \A u \in Installing : u = w
  BY DEF InstallFails, Installing, TypeOK, AtMostOne
<1> QED
  BY <1>1 DEF InstallFails, Installing, Waiting, Active, TypeOK

LEMMA SkipWaitingSets ==
  ASSUME TypeOK, NEW w \in Workers, SkipWaiting(w)
  PROVE  /\ w \in Waiting /\ Waiting' = {} /\ Active' = {w}
         /\ Installing' = Installing /\ state'[w] = "activating"
<1>1. w \in Waiting /\ \A u \in Waiting : u = w
  BY DEF SkipWaiting, Waiting, TypeOK, AtMostOne
<1> QED
  BY <1>1 DEF SkipWaiting, Installing, Waiting, Active, TypeOK

\* The end of an activation, however it comes.
LEMMA ActivatedSets ==
  ASSUME TypeOK, NEW w \in Workers, state[w] = "activating",
         state' = [state EXCEPT ![w] = "activated"]
  PROVE  Installing' = Installing /\ Waiting' = Waiting /\ Active' = Active
  BY DEF Installing, Waiting, Active, TypeOK

LEMMA RestartSets ==
  ASSUME TypeOK, NEW w \in Workers, state[w] = "activating",
         state' = [other \in Workers |-> IF other \in Installing THEN "redundant"
                                         ELSE state[other]]
  PROVE  Installing' = {} /\ Waiting' = Waiting /\ Active' = Active
  BY DEF Installing, Waiting, Active, TypeOK

LEMMA ActivateTyped ==
  ASSUME Typed, NEW w \in Workers, ActivateStep(w) PROVE Typed'
<1> USE DEF Typed
<1>1. CASE ActivateBegin(w)
  BY <1>1 DEF ActivateBegin, TypeOK, FillIsShell, site, pages, Installing, Waiting, Active,
     Responses, NotCached, ErrorPage
<1>2. ASSUME NEW f \in todo, ActivateClean(w, f) PROVE Typed'
  BY <1>2 DEF ActivateClean, Activating, TypeOK, FillIsShell, site, pages, Installing,
     Waiting, Active, Responses, NotCached, ErrorPage
<1>3. CASE ActivateTemp(w)
  BY <1>3, ServiceWorkerAssumption DEF ActivateTemp, TypeOK, FillIsShell, site, caches,
     pages, Installing, Waiting, Active, Responses
<1>4. ASSUME NEW f \in todo, ActivateFill(w, f) PROVE Typed'
  <2>1. f \in CORE /\ f \in Files /\ temp[f] \in Responses /\ temp[f] # ErrorPage
    BY <1>4, ServiceWorkerAssumption DEF ActivateFill, Activating, FillIsShell, TypeOK,
       Responses, Versions, ErrorPage, NotCached
  <2>2. /\ content' \in [Files -> Responses \cup {ErrorPage}]
        /\ \A g \in Files \ {Root} : content'[g] # ErrorPage
    BY <1>4, <2>1 DEF ActivateFill, TypeOK
  <2> QED
    BY <1>4, <2>2 DEF ActivateFill, TypeOK, FillIsShell, site, pages, Installing, Waiting,
       Active, Responses
<1>5. CASE ActivateDropTemp(w)
  BY <1>5 DEF ActivateDropTemp, TypeOK, FillIsShell, site, pages, Installing, Waiting,
     Active, Responses, NotCached
<1>6. CASE ActivateSave(w)
  <2>1. Installing' = Installing /\ Waiting' = Waiting /\ Active' = Active
    BY <1>6, ActivatedSets DEF ActivateSave, Activating
  <2>2. /\ saved' \in Versions \cup {None} /\ controlled' \in [Pages -> BOOLEAN]
        /\ state' \in [Workers -> {"none", "installing", "installed", "activating",
                                   "activated", "redundant"}]
    BY <1>6 DEF ActivateSave, TypeOK
  <2> QED
    BY <1>6, <2>1, <2>2 DEF ActivateSave, TypeOK, FillIsShell, site, Responses, AtMostOne
<1> QED
  BY <1>1, <1>2, <1>3, <1>4, <1>5, <1>6 DEF ActivateStep

LEMMA KillTyped == ASSUME Typed, NEW w \in Workers, Kill(w) PROVE Typed'
<1>1. Installing' \subseteq Installing /\ Waiting' = Waiting /\ Active' = Active
  BY ActivatedSets, RestartSets DEF Kill, Typed
<1>2. failures' \in 0 .. MaxFailures
  BY ServiceWorkerAssumption DEF Kill, CanFail, Typed, TypeOK
<1>3. WorkersTyped' /\ FillIsShell'
  <2>1. AtMostOne(Installing)' /\ AtMostOne(Waiting)' /\ AtMostOne(Active)'
    BY <1>1 DEF Typed, TypeOK, AtMostOne
  <2>2. state' \in [Workers -> {"none", "installing", "installed", "activating",
                                "activated", "redundant"}]
    BY DEF Kill, Typed, TypeOK
  <2>3. /\ UNCHANGED <<label, manifest>> /\ todo' = {} /\ broken' \in BOOLEAN
        /\ step' \in {"idle", "begin"}
    BY DEF Kill, Typed, TypeOK
  <2> QED
    BY <2>1, <2>2, <2>3 DEF Typed, TypeOK, WorkersTyped, FillIsShell
<1>4. PagesTyped'
  BY DEF Kill, Typed, TypeOK, pages, PagesTyped, None
<1>5. /\ atRoot' \in BOOLEAN /\ deployed' \in Versions /\ CachesTyped'
  BY DEF Kill, Typed, TypeOK, site, caches, CachesTyped, Responses
<1>6. TypeOK'
  BY <1>2, <1>3, <1>4, <1>5, TypeParts DEF TypeOK, CachesTyped, WorkersTyped, PagesTyped
<1> QED
  BY <1>3, <1>6 DEF Typed

LEMMA WorkerTyped == ASSUME Typed, NEW w \in Workers, WorkerStep(w) PROVE Typed'
<1> USE DEF Typed
<1>1. CASE Install(w)
  <2>1. temp' \in [CORE -> Responses]
    <3>1. manifest[w] .. deployed \subseteq Responses
      <4>1. manifest[w] \in 0 .. MaxVersion /\ deployed \in 1 .. MaxVersion
        BY ServiceWorkerAssumption DEF TypeOK, Versions, None
      <4> QED
        BY <4>1, ServiceWorkerAssumption DEF Responses, Versions, NotCached
    <3> QED
      BY <1>1, <3>1 DEF Install
  <2>2. httpCache' \in [Files -> Responses]
    BY <1>1, <2>1 DEF Install, TypeOK
  <2>3. AtMostOne(Installing)' /\ AtMostOne(Waiting)' /\ AtMostOne(Active)'
    BY <1>1, InstallSets DEF TypeOK, AtMostOne
  <2>4. state' \in [Workers -> {"none", "installing", "installed", "activating",
                                "activated", "redundant"}]
    BY <1>1 DEF Install, TypeOK
  <2> QED
    BY <1>1, <2>1, <2>2, <2>3, <2>4 DEF Install, TypeOK, FillIsShell, site, pages, Responses
<1>2. CASE InstallFails(w)
  <2>1. AtMostOne(Installing)' /\ AtMostOne(Waiting)' /\ AtMostOne(Active)'
    BY <1>2, InstallFailsSets DEF TypeOK, AtMostOne
  <2>2. failures' \in 0 .. MaxFailures
    BY <1>2, ServiceWorkerAssumption DEF InstallFails, CanFail, TypeOK
  <2>3. state' \in [Workers -> {"none", "installing", "installed", "activating",
                                "activated", "redundant"}]
    BY <1>2 DEF InstallFails, TypeOK
  <2> QED
    BY <1>2, <2>1, <2>2, <2>3 DEF InstallFails, TypeOK, FillIsShell, site, caches, pages, Responses
<1>3. CASE SkipWaiting(w)
  <2>1. AtMostOne(Installing)' /\ AtMostOne(Waiting)' /\ AtMostOne(Active)'
    BY <1>3, SkipWaitingSets DEF TypeOK, AtMostOne
  <2>2. state' \in [Workers -> {"none", "installing", "installed", "activating",
                                "activated", "redundant"}]
    BY <1>3 DEF SkipWaiting, TypeOK
  <2> QED
    BY <1>3, <2>1, <2>2 DEF SkipWaiting, TypeOK, FillIsShell, site, caches, pages, Responses
<1>4. CASE ActivateStep(w)
  BY <1>4, ActivateTyped
<1>5. CASE ActivateCatch(w)
  <2>1. AtMostOne(Installing)' /\ AtMostOne(Waiting)' /\ AtMostOne(Active)'
    BY <1>5, ActivatedSets DEF ActivateCatch, TypeOK, AtMostOne
  <2>2. failures' \in 0 .. MaxFailures
    BY <1>5, ServiceWorkerAssumption DEF ActivateCatch, CanFail, TypeOK
  <2>3. /\ content' \in [Files -> Responses \cup {ErrorPage}]
        /\ \A f \in Files \ {Root} : content'[f] # ErrorPage
        /\ temp' \in [CORE -> Responses]
    BY <1>5 DEF ActivateCatch, Responses, NotCached, ErrorPage
  <2>4. state' \in [Workers -> {"none", "installing", "installed", "activating",
                                "activated", "redundant"}]
    BY <1>5 DEF ActivateCatch, TypeOK
  <2> QED
    BY <1>5, <2>1, <2>2, <2>3, <2>4 DEF ActivateCatch, TypeOK, FillIsShell, site, pages, Responses
<1>6. CASE Kill(w)
  BY <1>6, KillTyped
<1> QED
  BY <1>1, <1>2, <1>3, <1>4, <1>5, <1>6 DEF WorkerStep

LEMMA DeployTyped == ASSUME Typed, Deploy PROVE Typed'
<1>1. deployed' \in Versions
  BY ServiceWorkerAssumption DEF Deploy, Typed, TypeOK, Versions
<1> QED
  BY <1>1 DEF Deploy, Typed, TypeOK, FillIsShell, caches, workers, pages, Responses, AtMostOne,
     Installing, Waiting, Active

LEMMA InitSets == Init => Installing = {} /\ Waiting = {} /\ Active = {}
  BY DEF Init, Installing, Waiting, Active

LEMMA TypeInit == Init => Typed
<1> SUFFICES ASSUME Init PROVE Typed
  OBVIOUS
<1>1. 1 \in Versions /\ failures \in 0 .. MaxFailures
  BY ServiceWorkerAssumption DEF Init, Versions
<1>2. CachesTyped
  BY DEF Init, CachesTyped, Responses, NotCached, None, ErrorPage
<1>3. AtMostOne(Installing) /\ AtMostOne(Waiting) /\ AtMostOne(Active)
  BY InitSets DEF AtMostOne
<1>4. WorkersTyped
  BY <1>3 DEF Init, WorkersTyped
<1>5. PagesTyped
  BY DEF Init, PagesTyped
<1> QED
  BY <1>1, <1>2, <1>4, <1>5, TypeParts DEF Init, Typed, FillIsShell

LEMMA TypeNext == Typed /\ [Next]_vars => Typed'
<1> SUFFICES ASSUME Typed, [Next]_vars PROVE Typed'
  OBVIOUS
<1>1. ASSUME NEW p \in Pages, PageStep(p) PROVE Typed'
  <2>1. TypeOK
    BY DEF Typed
  <2>2. /\ atRoot' \in BOOLEAN /\ deployed' \in Versions
        /\ CachesTyped' /\ WorkersTyped' /\ FillIsShell'
    BY <1>1, <2>1, PageEffect, PutTyped, BeganTyped
  <2>3. PagesTyped' /\ failures' \in 0 .. MaxFailures
    BY <1>1, <2>1, PageEffect, PagesStepTyped
  <2> QED
    BY <2>2, <2>3 DEF Typed, TypeOK, CachesTyped, WorkersTyped, PagesTyped
<1>2. CASE UNCHANGED vars
  BY <1>2 DEF vars, site, caches, workers, pages, Typed, TypeOK, FillIsShell, AtMostOne,
     Installing, Waiting, Active, Responses
<1> QED
  BY <1>1, <1>2, WorkerTyped, DeployTyped DEF Next

\* A worker's life and a page's, through every deployment and failure, keep
\* the types: in particular there is at most one worker of a kind, and no error
\* is ever cached for a file of the table.
THEOREM TypeCorrect == Spec => []TypeOK
<1>1. Spec => []Typed
  BY TypeInit, TypeNext, PTL DEF Spec
<1>2. Typed => TypeOK
  BY DEF Typed
<1> QED
  BY <1>1, <1>2, PTL

-----------------------------------------------------------------------------
(* The inductive invariant *)

\* Saved, active, waiting, installing: each holds RESOURCES no older than the
\* one before, and none from the future.
ManifestsInOrder ==
  /\ \A w \in Installing \cup Waiting \cup Active : 1 <= manifest[w] /\ manifest[w] <= deployed
  /\ \A w \in Active : saved <= manifest[w]
  /\ \A w \in Active, u \in Waiting \cup Installing : manifest[w] <= manifest[u]
  /\ \A w \in Waiting, u \in Installing : manifest[w] <= manifest[u]

NothingBeforeTheFirst ==
  Active = {} => saved = None /\ \A f \in Files : content[f] = NotCached

\* What a shell file may be taken from has caught up with the workers.
SourcesKeepUp ==
  \A w \in Waiting \cup Active, f \in CORE :
    /\ manifest[w] <= httpCache[f]
    /\ temp[f] # NotCached => manifest[w] <= temp[f]

\* As long as no worker with later RESOURCES has taken over, the cache holds
\* what the saved manifest knows.
SavedKnowsAll ==
  saved # None /\ (\A w \in Active : manifest[w] = saved)
    => \A f \in Files : content[f] # NotCached => Build[saved][f] # Absent

\* A cached file may stay when the manifest of w is saved.
MayStay(w, f) ==
  content[f] # NotCached =>
    /\ f \in RESOURCES(w)
    /\ f \in CORE /\ ~RolledBack(f) => NoOlder(content[f], manifest[w], f)

\* The activate handler has seen to every file its loop has visited.
CleanedSoFar ==
  \A w \in Active : state[w] = "activating" =>
    /\ step = "clean" => /\ \A f \in Files \ todo : MayStay(w, f)
                         /\ saved = None => todo = {}
    /\ step \in {"fill", "save"} => \A f \in Files : MayStay(w, f)

IInv ==
  /\ Typed /\ ManifestsInOrder /\ NothingBeforeTheFirst /\ SourcesKeepUp
  /\ SavedKnowsAll /\ CleanedSoFar /\ CoreNoOlder

Kept ==
  /\ ManifestsInOrder /\ NothingBeforeTheFirst /\ SourcesKeepUp
  /\ SavedKnowsAll /\ CleanedSoFar /\ CoreNoOlder

\* Builds are numbered.
LEMMA Numbers ==
  ASSUME TypeOK
  PROVE  /\ MaxVersion \in Nat /\ deployed \in 1 .. MaxVersion /\ saved \in 0 .. MaxVersion
         /\ \A w \in Workers : manifest[w] \in 0 .. MaxVersion
         /\ \A f \in Files : httpCache[f] \in 0 .. MaxVersion /\ content[f] \in Int
         /\ \A f \in CORE : f \in Files /\ temp[f] \in 0 .. MaxVersion
         /\ \A w \in Waiting \cup Active \cup Installing : w \in Workers
  BY ServiceWorkerAssumption DEF TypeOK, Responses, Versions, NotCached, None, ErrorPage,
     Waiting, Active, Installing

LEMMA DeployKeeps == ASSUME IInv, Deploy PROVE Kept'
<1>1. /\ UNCHANGED <<httpCache, content, temp, saved, state, manifest, step, todo>>
      /\ deployed' = deployed + 1 /\ deployed \in Int
  BY Numbers DEF Deploy, IInv, Typed, caches, workers
<1>2. Installing' = Installing /\ Waiting' = Waiting /\ Active' = Active
  BY <1>1 DEF Installing, Waiting, Active
<1>3. ManifestsInOrder'
  <2>1. \A w \in Installing \cup Waiting \cup Active : manifest[w] \in Int
    BY Numbers DEF IInv, Typed
  <2> QED
    BY <1>1, <1>2, <2>1 DEF IInv, ManifestsInOrder
<1>4. NothingBeforeTheFirst' /\ SourcesKeepUp' /\ SavedKnowsAll'
  BY <1>1, <1>2 DEF IInv, NothingBeforeTheFirst, SourcesKeepUp, SavedKnowsAll
<1>5. CleanedSoFar' /\ CoreNoOlder'
  BY <1>1, <1>2 DEF IInv, CleanedSoFar, CoreNoOlder, MayStay, RESOURCES, NoOlder
<1> QED
  BY <1>3, <1>4, <1>5 DEF Kept

LEMMA PutKeeps == ASSUME IInv, Put PROVE Kept'
<1>1. /\ TypeOK /\ ManifestsInOrder /\ NothingBeforeTheFirst /\ SourcesKeepUp
      /\ SavedKnowsAll /\ CleanedSoFar /\ CoreNoOlder
  BY DEF IInv, Typed
<1>2. UNCHANGED <<deployed, temp, saved, state, manifest, step, todo>>
  BY DEF Put, site, workers
<1>3. Installing' = Installing /\ Waiting' = Waiting /\ Active' = Active
  BY <1>2 DEF Installing, Waiting, Active
<1>4. ManifestsInOrder'
  BY <1>1, <1>2, <1>3 DEF ManifestsInOrder
<1>5. NothingBeforeTheFirst'
  BY <1>1, <1>2, <1>3 DEF NothingBeforeTheFirst, Put, Serving
<1>6. SourcesKeepUp'
  <2> SUFFICES ASSUME NEW w \in Waiting \cup Active, NEW f \in CORE
               PROVE  /\ manifest[w] <= httpCache'[f]
                      /\ temp[f] # NotCached => manifest[w] <= temp[f]
    BY <1>2, <1>3 DEF SourcesKeepUp
  <2>1. manifest[w] <= httpCache[f] /\ (temp[f] # NotCached => manifest[w] <= temp[f])
    BY <1>1 DEF SourcesKeepUp
  <2>2. manifest[w] <= deployed
    BY <1>1 DEF ManifestsInOrder
  <2>3. httpCache'[f] \in {httpCache[f], deployed}
    BY <1>1, Numbers DEF Put
  <2> QED
    BY <2>1, <2>2, <2>3
<1>7. SavedKnowsAll'
  <2> SUFFICES ASSUME saved # None, \A w \in Active : manifest[w] = saved,
                      NEW f \in Files, content'[f] # NotCached
               PROVE  Build[saved][f] # Absent
    BY <1>2, <1>3 DEF SavedKnowsAll
  <2>1. CASE content'[f] = content[f]
    BY <1>1, <2>1 DEF SavedKnowsAll
  <2>2. CASE f = Root
    BY <1>1, <2>2, ServiceWorkerAssumption DEF TypeOK
  <2>3. ASSUME NEW w \in Active, f \in RESOURCES(w) PROVE Build[saved][f] # Absent
    BY <2>3 DEF RESOURCES
  <2> QED
    BY <2>1, <2>2, <2>3 DEF Put
<1>8. CleanedSoFar'
  <2> SUFFICES ASSUME NEW w \in Active, state[w] = "activating"
               PROVE  \A f \in Files : MayStay(w, f)' <=> MayStay(w, f)
    BY <1>1, <1>2, <1>3 DEF CleanedSoFar
  <2>1. Active = {w} /\ ~Serving
    BY <1>1, ActivatingWorker DEF Active
  <2>2. \A f \in Files : content'[f] = content[f]
    BY <2>1 DEF Put
  <2> QED
    BY <1>2, <2>2 DEF MayStay, RESOURCES, NoOlder
<1>9. CoreNoOlder'
  <2> SUFFICES ASSUME NEW f \in CORE, content'[f] # NotCached, saved # None, ~RolledBack(f)
               PROVE  NoOlder(content'[f], saved, f)
    BY <1>2 DEF CoreNoOlder, NoOlder
  <2>1. f \in Files /\ f # Root
    BY ServiceWorkerAssumption
  <2>2. CASE content'[f] = content[f]
    BY <1>1, <2>2 DEF CoreNoOlder
  <2>3. ASSUME NEW w \in Active, content'[f] \in {httpCache[f], deployed}
        PROVE  NoOlder(content'[f], saved, f)
    <3>1. saved <= manifest[w] /\ manifest[w] <= httpCache[f] /\ manifest[w] <= deployed
      BY <1>1 DEF ManifestsInOrder, SourcesKeepUp
    <3>2. saved \in Int /\ manifest[w] \in Int /\ httpCache[f] \in Int /\ deployed \in Int
      BY <1>1, <2>1, Numbers
    <3> QED
      BY <2>3, <3>1, <3>2 DEF NoOlder
  <2> QED
    BY <2>1, <2>2, <2>3 DEF Put
<1> QED
  BY <1>4, <1>5, <1>6, <1>7, <1>8, <1>9 DEF Kept

LEMMA BeganKeeps == ASSUME IInv, Began PROVE Kept'
<1>1. /\ TypeOK /\ ManifestsInOrder /\ NothingBeforeTheFirst /\ SourcesKeepUp
      /\ SavedKnowsAll /\ CleanedSoFar /\ CoreNoOlder
  BY DEF IInv, Typed
<1>2. PICK w \in Unused :
        /\ Installing' = {w} /\ Waiting' = Waiting /\ Active' = Active
        /\ manifest' = [manifest EXCEPT ![w] = deployed]
        /\ \A u \in Workers : u # w => state'[u] = state[u]
        /\ UNCHANGED <<step, todo>>
  BY <1>1, BeganSets
<1>3. UNCHANGED <<deployed, httpCache, content, temp, saved>>
  BY DEF Began, site, caches
<1>4. /\ w \in Workers /\ w \notin Waiting \cup Active
      /\ manifest'[w] = deployed
      /\ \A u \in Waiting \cup Active : manifest'[u] = manifest[u] /\ state'[u] = state[u]
  BY <1>1, <1>2 DEF Unused, Waiting, Active, TypeOK
<1>5. ManifestsInOrder'
  BY <1>1, <1>2, <1>3, <1>4, Numbers DEF ManifestsInOrder
<1>6. NothingBeforeTheFirst' /\ SourcesKeepUp' /\ SavedKnowsAll'
  BY <1>1, <1>2, <1>3, <1>4 DEF NothingBeforeTheFirst, SourcesKeepUp, SavedKnowsAll
<1>7. CleanedSoFar' /\ CoreNoOlder'
  BY <1>1, <1>2, <1>3, <1>4 DEF CleanedSoFar, CoreNoOlder, MayStay, RESOURCES, NoOlder
<1> QED
  BY <1>5, <1>6, <1>7 DEF Kept

-----------------------------------------------------------------------------
(* A worker's life *)

\* The newcomer's files replace those in TEMP and refresh the HTTP cache.
LEMMA InstallKeeps == ASSUME IInv, NEW w \in Workers, Install(w) PROVE Kept'
<1>1. /\ TypeOK /\ ManifestsInOrder /\ NothingBeforeTheFirst /\ SourcesKeepUp
      /\ SavedKnowsAll /\ CleanedSoFar /\ CoreNoOlder
  BY DEF IInv, Typed
<1>2. w \in Installing /\ Installing' = {} /\ Waiting' = {w} /\ Active' = Active
  BY <1>1, InstallSets
<1>3. UNCHANGED <<deployed, content, saved, manifest, step, todo>>
  BY DEF Install, site
<1>4. \A u \in Active : u \in Workers /\ state'[u] = state[u]
  BY <1>1, <1>2 DEF Install, Active, Waiting, Installing
<1>5. ManifestsInOrder'
  BY <1>1, <1>2, <1>3 DEF ManifestsInOrder
<1>6. SourcesKeepUp'
  <2> SUFFICES ASSUME NEW u \in {w} \cup Active, NEW f \in CORE
               PROVE  manifest[u] <= httpCache'[f] /\ manifest[u] <= temp'[f]
    BY <1>2, <1>3 DEF SourcesKeepUp
  <2>1. manifest[u] <= manifest[w] /\ manifest[w] \in Int /\ manifest[u] \in Int /\ deployed \in Int
    BY <1>1, <1>2, <1>4, Numbers DEF ManifestsInOrder
  <2>2. temp'[f] \in manifest[w] .. deployed /\ httpCache'[f] = temp'[f]
    BY <1>1, Numbers DEF Install
  <2> QED
    BY <2>1, <2>2
<1>7. NothingBeforeTheFirst' /\ SavedKnowsAll'
  BY <1>1, <1>2, <1>3 DEF NothingBeforeTheFirst, SavedKnowsAll
<1>8. CleanedSoFar' /\ CoreNoOlder'
  BY <1>1, <1>2, <1>3, <1>4 DEF CleanedSoFar, CoreNoOlder, MayStay, RESOURCES, NoOlder
<1> QED
  BY <1>5, <1>6, <1>7, <1>8 DEF Kept

LEMMA InstallFailsKeeps == ASSUME IInv, NEW w \in Workers, InstallFails(w) PROVE Kept'
<1>1. /\ TypeOK /\ ManifestsInOrder /\ NothingBeforeTheFirst /\ SourcesKeepUp
      /\ SavedKnowsAll /\ CleanedSoFar /\ CoreNoOlder
  BY DEF IInv, Typed
<1>2. Installing' = {} /\ Waiting' = Waiting /\ Active' = Active
  BY <1>1, InstallFailsSets
<1>3. UNCHANGED <<deployed, httpCache, content, temp, saved, manifest, step, todo>>
  BY DEF InstallFails, site, caches
<1>4. \A u \in Active : state'[u] = state[u]
  BY <1>1 DEF InstallFails, Active, TypeOK
<1>5. ManifestsInOrder'
  BY <1>1, <1>2, <1>3 DEF ManifestsInOrder
<1>6. NothingBeforeTheFirst' /\ SourcesKeepUp' /\ SavedKnowsAll'
  BY <1>1, <1>2, <1>3 DEF NothingBeforeTheFirst, SourcesKeepUp, SavedKnowsAll
<1>7. CleanedSoFar' /\ CoreNoOlder'
  BY <1>1, <1>2, <1>3, <1>4 DEF CleanedSoFar, CoreNoOlder, MayStay, RESOURCES, NoOlder
<1> QED
  BY <1>5, <1>6, <1>7 DEF Kept

\* If the RESOURCES are those saved last, those of the worker replaced were too.
LEMMA SkipWaitingKeeps == ASSUME IInv, NEW w \in Workers, SkipWaiting(w) PROVE Kept'
<1>1. /\ TypeOK /\ ManifestsInOrder /\ NothingBeforeTheFirst /\ SourcesKeepUp
      /\ SavedKnowsAll /\ CleanedSoFar /\ CoreNoOlder
  BY DEF IInv, Typed
<1>2. /\ w \in Waiting /\ Waiting' = {} /\ Active' = {w}
      /\ Installing' = Installing
  BY <1>1, SkipWaitingSets
<1>3. UNCHANGED <<deployed, httpCache, content, temp, saved, manifest>> /\ step' = "begin"
  BY DEF SkipWaiting, site, caches
<1>4. /\ saved \in Int /\ manifest[w] \in Int /\ \A u \in Active : manifest[u] \in Int
  BY <1>1, Numbers
<1>5. saved <= manifest[w]
  <2>1. CASE Active = {}
    BY <1>1, <1>2, <1>4, <2>1 DEF NothingBeforeTheFirst, ManifestsInOrder, None
  <2>2. ASSUME NEW u \in Active PROVE saved <= manifest[w]
    BY <1>1, <1>2, <1>4, <2>2 DEF ManifestsInOrder
  <2> QED
    BY <2>1, <2>2
<1>6. ManifestsInOrder'
  BY <1>1, <1>2, <1>3, <1>5 DEF ManifestsInOrder
<1>7. NothingBeforeTheFirst' /\ SourcesKeepUp'
  BY <1>1, <1>2, <1>3 DEF NothingBeforeTheFirst, SourcesKeepUp
<1>8. SavedKnowsAll'
  <2> SUFFICES ASSUME saved # None, manifest[w] = saved
               PROVE  \A u \in Active : manifest[u] = saved
    BY <1>1, <1>2, <1>3 DEF SavedKnowsAll
  <2> QED
    BY <1>1, <1>2, <1>4 DEF ManifestsInOrder
<1>9. CleanedSoFar' /\ CoreNoOlder'
  BY <1>1, <1>3 DEF CleanedSoFar, CoreNoOlder, NoOlder
<1> QED
  BY <1>6, <1>7, <1>8, <1>9 DEF Kept

\* What a step of the activate handler must see to when it only changes what is
\* cached, and takes nothing into the cache but shell files from TEMP.
HandlerStep(w) ==
  /\ UNCHANGED <<deployed, httpCache, saved, state, manifest>>
  /\ \A f \in Files : \/ content'[f] = content[f] \/ content'[f] = NotCached
                      \/ f \in CORE /\ content'[f] = temp[f]
  /\ \A f \in CORE : temp'[f] = temp[f] \/ temp'[f] = NotCached

\* A shell file from TEMP may be cached under the manifest of the active worker.
LEMMA TempMayStay ==
  ASSUME IInv, NEW w \in Active, NEW f \in CORE, temp[f] # NotCached
  PROVE  /\ f \in RESOURCES(w)
         /\ saved # None => Build[saved][f] # Absent
         /\ NoOlder(temp[f], manifest[w], f) /\ NoOlder(temp[f], saved, f)
<1>1. TypeOK /\ ManifestsInOrder /\ SourcesKeepUp
  BY DEF IInv, Typed
<1>2. /\ 1 <= manifest[w] /\ saved <= manifest[w] /\ manifest[w] <= temp[f]
  BY <1>1 DEF ManifestsInOrder, SourcesKeepUp
<1>3. /\ w \in Workers /\ f \in Files
      /\ manifest[w] \in 0 .. MaxVersion /\ temp[f] \in Int /\ saved \in 0 .. MaxVersion
  BY <1>1, Numbers
<1>4. manifest[w] \in Versions /\ (saved \in Versions \/ saved = None)
  BY <1>1, <1>2, <1>3, ServiceWorkerAssumption DEF Versions, None
<1> QED
  BY <1>2, <1>3, <1>4, ServiceWorkerAssumption DEF RESOURCES, NoOlder

LEMMA HandlerKeeps ==
  ASSUME IInv, NEW w \in Workers, state[w] = "activating", HandlerStep(w), CleanedSoFar'
  PROVE  Kept'
<1>1. /\ TypeOK /\ ManifestsInOrder /\ NothingBeforeTheFirst /\ SourcesKeepUp
      /\ SavedKnowsAll /\ CleanedSoFar /\ CoreNoOlder
  BY DEF IInv, Typed
<1>2. Installing' = Installing /\ Waiting' = Waiting /\ Active' = Active /\ Active = {w}
  BY <1>1, ActivatingWorker DEF HandlerStep, Installing, Waiting, Active
<1>3. ManifestsInOrder' /\ NothingBeforeTheFirst'
  BY <1>1, <1>2 DEF HandlerStep, ManifestsInOrder, NothingBeforeTheFirst
<1>4. SourcesKeepUp'
  BY <1>1, <1>2 DEF HandlerStep, SourcesKeepUp
<1>5. SavedKnowsAll'
  <2> SUFFICES ASSUME saved # None, manifest[w] = saved, NEW f \in Files, content'[f] # NotCached
               PROVE  Build[saved][f] # Absent
    BY <1>2 DEF HandlerStep, SavedKnowsAll
  <2> QED
    BY <1>1, <1>2, TempMayStay DEF HandlerStep, SavedKnowsAll
<1>6. CoreNoOlder'
  <2> SUFFICES ASSUME NEW f \in CORE, content'[f] # NotCached, saved # None, ~RolledBack(f)
               PROVE  NoOlder(content'[f], saved, f)
    BY DEF HandlerStep, CoreNoOlder, NoOlder
  <2>1. f \in Files
    BY ServiceWorkerAssumption
  <2> QED
    BY <1>1, <1>2, <2>1, TempMayStay DEF HandlerStep, CoreNoOlder
<1> QED
  BY <1>3, <1>4, <1>5, <1>6 DEF Kept

\* A file that is kept was the same in the build saved last.  If what is cached
\* is older than the new RESOURCES yet different, then it lies between two builds
\* that agree: the file was rolled back.
LEMMA CleanMayStay ==
  ASSUME IInv, NEW w \in Active, NEW f \in Files, saved # None, ~Outdated(w, f)
  PROVE  MayStay(w, f)
<1>1. TypeOK /\ ManifestsInOrder /\ CoreNoOlder
  BY DEF IInv, Typed
<1>2. f \in RESOURCES(w) /\ Build[manifest[w]][f] = Build[saved][f]
  BY DEF Outdated, Known
<1>3. /\ saved <= manifest[w] /\ 1 <= manifest[w]
      /\ saved \in Versions /\ manifest[w] \in 0 .. MaxVersion
      /\ content[f] \in Int /\ MaxVersion \in Nat
  BY <1>1, Numbers DEF ManifestsInOrder, TypeOK
<1>4. ASSUME f \in CORE, content[f] # NotCached, ~RolledBack(f)
      PROVE  NoOlder(content[f], manifest[w], f)
  <2>1. content[f] >= saved \/ Build[content[f]][f] = Build[saved][f]
    BY <1>1, <1>4 DEF CoreNoOlder, NoOlder
  <2>2. CASE content[f] >= saved /\ content[f] < manifest[w]
    <3>1. content[f] \in Versions /\ manifest[w] \in Versions
      BY <1>3, <2>2 DEF Versions
    <3>2. Build[content[f]][f] = Build[saved][f] \/ saved < content[f]
      BY <1>3, <2>2 DEF Versions
    <3> QED
      BY <1>2, <1>3, <1>4, <2>2, <3>1, <3>2 DEF RolledBack, NoOlder
  <2>3. CASE content[f] >= manifest[w] \/ Build[content[f]][f] = Build[saved][f]
    BY <1>2, <2>3 DEF NoOlder
  <2> QED
    BY <1>3, <2>1, <2>2, <2>3
<1> QED
  BY <1>2, <1>4 DEF MayStay

LEMMA ActivateKeeps ==
  ASSUME IInv, NEW w \in Workers, ActivateStep(w) PROVE Kept'
<1>1. state[w] = "activating"
  BY DEF ActivateStep, ActivateBegin, ActivateClean, ActivateTemp, ActivateFill,
     ActivateDropTemp, ActivateSave, Activating
<1>2. /\ TypeOK /\ ManifestsInOrder /\ NothingBeforeTheFirst /\ SourcesKeepUp
      /\ SavedKnowsAll /\ CleanedSoFar /\ CoreNoOlder /\ FillIsShell
  BY DEF IInv, Typed
<1>3. Active = {w}
  BY <1>1, <1>2, ActivatingWorker
<1>4. UNCHANGED <<state, manifest>> => Active' = Active
  BY DEF Active
<1>5. ASSUME HandlerStep(w),
             step' = "clean" => /\ \A f \in Files \ todo' : MayStay(w, f)'
                                /\ saved = None => todo' = {},
             step' \in {"fill", "save"} => \A f \in Files : MayStay(w, f)'
      PROVE  Kept'
  <2>1. CleanedSoFar'
    BY <1>3, <1>4, <1>5 DEF HandlerStep, CleanedSoFar
  <2> QED
    BY <1>1, <1>5, <2>1, HandlerKeeps
<1>6. CASE ActivateBegin(w)
  <2>1. HandlerStep(w) /\ step' = "clean"
    BY <1>6 DEF ActivateBegin, HandlerStep, site
  <2>2. (\A f \in Files \ todo' : content'[f] = NotCached) /\ (saved = None => todo' = {})
    BY <1>6 DEF ActivateBegin
  <2> QED
    BY <1>5, <2>1, <2>2 DEF MayStay
<1>7. ASSUME NEW f \in todo, ActivateClean(w, f) PROVE Kept'
  <2>1. /\ HandlerStep(w) /\ step = "clean" /\ step' = "clean" /\ todo' = todo \ {f}
        /\ f \in Files /\ content' \in [Files -> Responses \cup {ErrorPage}]
    BY <1>2, <1>7 DEF ActivateClean, Activating, HandlerStep, site, TypeOK, Responses
  <2>2. (\A g \in Files \ todo : MayStay(w, g)) /\ saved # None
    BY <1>1, <1>2, <1>3, <1>7, <2>1 DEF CleanedSoFar
  <2>3. \A g \in Files : g # f => content'[g] = content[g]
    BY <1>2, <1>7 DEF ActivateClean, TypeOK
  <2>4. ASSUME NEW g \in Files \ todo, g # f PROVE MayStay(w, g)'
    BY <2>1, <2>2, <2>3, <2>4 DEF HandlerStep, MayStay, RESOURCES, NoOlder
  <2>5. MayStay(w, f)'
    <3>1. CASE Outdated(w, f)
      BY <1>2, <1>7, <2>1, <3>1 DEF ActivateClean, MayStay, TypeOK
    <3>2. CASE ~Outdated(w, f)
      <4>1. content' = content
        BY <1>7, <3>2 DEF ActivateClean
      <4> QED
        BY <1>3, <2>1, <2>2, <3>2, <4>1, CleanMayStay DEF HandlerStep, MayStay, RESOURCES, NoOlder
    <3> QED
      BY <3>1, <3>2
  <2> QED
    BY <1>5, <2>1, <2>2, <2>4, <2>5
<1>8. CASE ActivateTemp(w)
  <2>1. HandlerStep(w) /\ step = "clean" /\ todo = {} /\ step' = "fill" /\ content' = content
    BY <1>8 DEF ActivateTemp, Activating, HandlerStep, site, caches
  <2>2. \A f \in Files : MayStay(w, f)
    BY <1>1, <1>2, <1>3, <2>1 DEF CleanedSoFar
  <2>3. \A f \in Files : MayStay(w, f)'
    BY <2>1, <2>2 DEF HandlerStep, MayStay, RESOURCES, NoOlder
  <2> QED
    BY <1>5, <2>1, <2>3
<1>9. ASSUME NEW f \in todo, ActivateFill(w, f) PROVE Kept'
  <2>1. /\ step = "fill" /\ step' = "fill" /\ f \in CORE /\ f \in Files
        /\ content' = [content EXCEPT ![f] = temp[f]]
        /\ UNCHANGED <<deployed, httpCache, temp, saved, state, manifest>>
    BY <1>2, <1>9 DEF ActivateFill, Activating, FillIsShell, TypeOK, site
  <2>2. \A g \in Files : IF g = f THEN content'[g] = temp[g] ELSE content'[g] = content[g]
    BY <1>2, <2>1 DEF TypeOK
  <2>3. HandlerStep(w)
    BY <2>1, <2>2 DEF HandlerStep
  <2>4. \A g \in Files : MayStay(w, g)
    BY <1>1, <1>2, <1>3, <2>1 DEF CleanedSoFar
  <2>5. ASSUME NEW g \in Files, g # f PROVE MayStay(w, g)'
    BY <2>1, <2>2, <2>4, <2>5 DEF MayStay, RESOURCES, NoOlder
  <2>6. MayStay(w, f)'
    BY <1>3, <2>1, <2>2, TempMayStay DEF MayStay, RESOURCES, NoOlder
  <2> QED
    BY <1>5, <2>1, <2>3, <2>5, <2>6
<1>10. CASE ActivateDropTemp(w)
  <2>1. HandlerStep(w) /\ step = "fill" /\ step' = "save" /\ content' = content
    BY <1>10 DEF ActivateDropTemp, Activating, HandlerStep, site
  <2>2. \A f \in Files : MayStay(w, f)
    BY <1>1, <1>2, <1>3, <2>1 DEF CleanedSoFar
  <2>3. \A f \in Files : MayStay(w, f)'
    BY <2>1, <2>2 DEF HandlerStep, MayStay, RESOURCES, NoOlder
  <2> QED
    BY <1>5, <2>1, <2>3
<1>11. CASE ActivateSave(w)
  <2>1. /\ UNCHANGED <<deployed, httpCache, content, temp, manifest>>
        /\ step = "save" /\ step' = "idle" /\ saved' = manifest[w]
        /\ state' = [state EXCEPT ![w] = "activated"]
    BY <1>11 DEF ActivateSave, Activating, site
  <2>2. Installing' = Installing /\ Waiting' = Waiting /\ Active' = {w}
    BY <1>1, <1>2, <1>3, <2>1, ActivatedSets
  <2>3. \A f \in Files : MayStay(w, f)
    BY <1>1, <1>2, <1>3, <2>1 DEF CleanedSoFar
  <2>4. ManifestsInOrder'
    <3>1. manifest[w] \in Int
      BY <1>2, Numbers
    <3> QED
      BY <1>2, <1>3, <2>1, <2>2, <3>1 DEF ManifestsInOrder
  <2>5. NothingBeforeTheFirst' /\ SourcesKeepUp' /\ CleanedSoFar'
    BY <1>2, <1>3, <2>1, <2>2 DEF NothingBeforeTheFirst, SourcesKeepUp, CleanedSoFar
  <2>6. SavedKnowsAll'
    BY <2>1, <2>3 DEF SavedKnowsAll, MayStay, RESOURCES
  <2>7. CoreNoOlder'
    BY <2>1, <2>3, ServiceWorkerAssumption DEF CoreNoOlder, MayStay, NoOlder
  <2> QED
    BY <2>4, <2>5, <2>6, <2>7 DEF Kept
<1> QED
  BY <1>6, <1>7, <1>8, <1>9, <1>10, <1>11 DEF ActivateStep

LEMMA CatchKeeps == ASSUME IInv, NEW w \in Workers, ActivateCatch(w) PROVE Kept'
<1>1. TypeOK /\ ManifestsInOrder /\ SourcesKeepUp
  BY DEF IInv, Typed
<1>2. /\ UNCHANGED <<deployed, httpCache, manifest>>
      /\ saved' = None /\ step' = "idle"
      /\ \A f \in Files : content'[f] = NotCached
      /\ \A f \in CORE : temp'[f] = NotCached
  BY DEF ActivateCatch, site
<1>3. Installing' = Installing /\ Waiting' = Waiting /\ Active' = Active
  BY <1>1, ActivatedSets DEF ActivateCatch
<1>4. ManifestsInOrder'
  BY <1>1, <1>2, <1>3, Numbers DEF ManifestsInOrder, None
<1>5. SourcesKeepUp'
  BY <1>1, <1>2, <1>3 DEF SourcesKeepUp
<1> QED
  BY <1>2, <1>4, <1>5 DEF Kept, NothingBeforeTheFirst, SavedKnowsAll, CleanedSoFar, CoreNoOlder

LEMMA KillKeeps == ASSUME IInv, NEW w \in Workers, Kill(w) PROVE Kept'
<1>1. /\ TypeOK /\ ManifestsInOrder /\ NothingBeforeTheFirst /\ SourcesKeepUp
      /\ SavedKnowsAll /\ CoreNoOlder
  BY DEF IInv, Typed
<1>2. UNCHANGED <<deployed, httpCache, content, temp, saved, manifest>> /\ step' \in {"idle", "begin"}
  BY DEF Kill, site, caches
<1>3. Installing' \subseteq Installing /\ Waiting' = Waiting /\ Active' = Active
  BY <1>1, ActivatedSets, RestartSets DEF Kill
<1>4. ManifestsInOrder'
  BY <1>1, <1>2, <1>3 DEF ManifestsInOrder
<1>5. NothingBeforeTheFirst' /\ SourcesKeepUp' /\ SavedKnowsAll'
  BY <1>1, <1>2, <1>3 DEF NothingBeforeTheFirst, SourcesKeepUp, SavedKnowsAll
<1>6. CleanedSoFar' /\ CoreNoOlder'
  BY <1>1, <1>2 DEF CleanedSoFar, CoreNoOlder, NoOlder
<1> QED
  BY <1>4, <1>5, <1>6 DEF Kept

-----------------------------------------------------------------------------
(* The theorems *)

LEMMA InvInit == Init => IInv
<1> SUFFICES ASSUME Init PROVE IInv
  OBVIOUS
<1>1. saved = None /\ \A f \in Files : content[f] = NotCached
  BY DEF Init
<1> QED
  BY <1>1, InitSets, TypeInit, ServiceWorkerAssumption DEF IInv, ManifestsInOrder,
     NothingBeforeTheFirst, SourcesKeepUp, SavedKnowsAll, CleanedSoFar, CoreNoOlder

LEMMA InvNext == IInv /\ [Next]_vars => IInv'
<1> SUFFICES ASSUME IInv, [Next]_vars PROVE IInv'
  OBVIOUS
<1>1. Typed'
  BY TypeNext DEF IInv
<1>2. ASSUME NEW w \in Workers, WorkerStep(w) PROVE Kept'
  BY <1>2, InstallKeeps, InstallFailsKeeps, SkipWaitingKeeps, ActivateKeeps, CatchKeeps,
     KillKeeps DEF WorkerStep
<1>3. ASSUME NEW p \in Pages, PageStep(p) PROVE Kept'
  BY <1>3, PageEffect, PutKeeps, BeganKeeps DEF IInv, Typed
<1>4. ASSUME UNCHANGED vars PROVE Kept'
  <2>1. Put
    BY <1>4 DEF vars, caches, Put, IInv, Typed, TypeOK
  <2> QED
    BY <2>1, PutKeeps
<1>5. Kept'
  BY <1>2, <1>3, <1>4, DeployKeeps DEF Next
<1> QED
  BY <1>1, <1>5 DEF IInv, Kept

LEMMA Invariance == Spec => []IInv
  BY InvInit, InvNext, PTL DEF Spec

\* Whatever is deployed in the middle of a download, however often an activation
\* is killed and repeated, and whatever the HTTP cache answers: a shell file in
\* the cache is no older than the saved manifest says, unless it was rolled back.
THEOREM ShellStaysFresh == Spec => []CoreNoOlder
<1>1. IInv => CoreNoOlder
  BY DEF IInv
<1> QED
  BY <1>1, Invariance, PTL

\* Once an activation has run to its end, the cache holds files of the new build
\* only: those that were dropped from it are gone, and no older worker that was
\* still serving can bring them back.
THEOREM OldFilesAreGone == Spec => []OnlyResourcesCached
<1>1. ASSUME IInv PROVE OnlyResourcesCached
  <2> SUFFICES ASSUME NEW w \in Active, saved = manifest[w], NEW f \in Files,
                      content[f] # NotCached
               PROVE  f \in RESOURCES(w)
    BY DEF OnlyResourcesCached
  <2>1. 1 <= saved /\ \A u \in Active : manifest[u] = saved
    BY <1>1 DEF IInv, Typed, TypeOK, AtMostOne, ManifestsInOrder
  <2> QED
    BY <1>1, <2>1 DEF IInv, SavedKnowsAll, RESOURCES, None
<1> QED
  BY <1>1, Invariance, PTL

-----------------------------------------------------------------------------
(***************************************************************************)
(* The loader: a page that waited for its                                  *)
(* worker runs a program no older than itself.  A page only ever waits for *)
(* a worker whose RESOURCES are no older than the page; once that worker   *)
(* is activated, neither the cache nor the network has an older program to *)
(* give, and no later step of anyone brings one back.                      *)
(***************************************************************************)

\* Nothing comes from a build that is not deployed yet, and no script holds
\* RESOURCES older than the version it was asked for with.
NothingFromTheFuture ==
  /\ \A f \in Files : httpCache[f] <= deployed /\ content[f] <= deployed
  /\ \A f \in CORE : temp[f] <= deployed
  /\ \A p \in Pages : version[p] <= deployed
  /\ \A w \in Workers : label[w] <= manifest[w]

\* The cached program is not older than build v.
Fresh(v) == content[Main] # NotCached => NoOlder(content[Main], v, Main)

ActiveIsFresh ==
  ~broken /\ ~RolledBack(Main)
    => \A w \in Active : state[w] = "activated" => Fresh(manifest[w])

\* The worker a registration ends up with, unless another is started.
Latest == IF Installing # {} THEN Installing ELSE Newest

PageFollows(p) ==
  /\ waited[p] => stage[p] \in {"ready", "running"}
  /\ ~broken /\ stage[p] = "registered" => \A w \in Latest : version[p] <= manifest[w]
  /\ ~broken /\ stage[p] = "waiting" =>
       /\ target[p] \in Workers
       /\ state[target[p]] # "none" /\ version[p] <= manifest[target[p]]
  /\ ~broken /\ ~RolledBack(Main) /\ stage[p] = "ready" /\ waited[p] =>
       Fresh(version[p]) /\ \E w \in Active : version[p] <= manifest[w]
  /\ stage[p] = "running" /\ waited[p] /\ program[p] # ErrorPage =>
       broken \/ RolledBack(Main) \/ NoOlder(program[p], version[p], Main)

LoaderInv ==
  /\ IInv /\ NothingFromTheFuture /\ ActiveIsFresh
  /\ \A p \in Pages : PageFollows(p)

-----------------------------------------------------------------------------
(* How the workers and the cache move on *)

\* What no step of anyone takes away from a page that waits, or has waited.
MovesOn ==
  /\ broken => broken'
  /\ ~broken' => \A w \in Latest' : \/ manifest'[w] = deployed
                                    \/ \E u \in Latest : manifest[u] <= manifest'[w]
  /\ \A w \in Workers : state[w] # "none" => state'[w] # "none" /\ manifest'[w] = manifest[w]
  /\ \/ content'[Main] \in {content[Main], NotCached}
     \/ \E w \in Active : manifest[w] <= content'[Main]
  /\ \A w \in Active : \E u \in Active' : manifest[w] <= manifest'[u]

LEMMA LoaderNumbers ==
  ASSUME IInv
  PROVE  /\ TypeOK /\ Main \in CORE /\ Main \in Files /\ Main # Root
         /\ MaxVersion \in Nat /\ deployed \in Int /\ saved \in Int
         /\ \A w \in Workers : manifest[w] \in Int /\ label[w] \in Int
         /\ \A f \in Files : httpCache[f] \in Int /\ content[f] \in Int
         /\ \A f \in CORE : f \in Files /\ temp[f] \in Int
         /\ \A p \in Pages : version[p] \in Int
         /\ \A w \in Waiting \cup Active \cup Installing : w \in Workers
         /\ \A w \in Latest : w \in Workers
<1>1. TypeOK
  BY DEF IInv, Typed
<1>2. \A w \in Workers : label[w] \in Int
  BY <1>1 DEF TypeOK, Versions, None
<1>3. \A p \in Pages : version[p] \in Int
  BY <1>1 DEF TypeOK, Versions, None
<1>4. \A w \in Latest : w \in Waiting \cup Active \cup Installing
  BY DEF Latest, Newest
<1> QED
  BY <1>1, <1>2, <1>3, <1>4, Numbers, ServiceWorkerAssumption

\* A cached program taken from anywhere is as new as some active worker.
LEMMA FromActive ==
  ASSUME IInv, NEW w \in Active
  PROVE  /\ manifest[w] <= deployed /\ manifest[w] <= httpCache[Main]
         /\ temp[Main] # NotCached => manifest[w] <= temp[Main]
  BY ServiceWorkerAssumption DEF IInv, ManifestsInOrder, SourcesKeepUp

LEMMA PutMovesOn == ASSUME IInv, Put PROVE MovesOn
<1>1. UNCHANGED <<deployed, state, manifest, broken>>
  BY DEF Put, site, workers
<1>2. Latest' = Latest /\ Active' = Active
  BY <1>1 DEF Latest, Newest, Installing, Waiting, Active
<1>3. \A w \in Latest \cup Active : manifest[w] <= manifest[w]
  BY LoaderNumbers
<1>4. \/ content'[Main] = content[Main]
      \/ \E w \in Active : manifest[w] <= content'[Main]
  BY LoaderNumbers, FromActive DEF Put
<1> QED
  BY <1>1, <1>2, <1>3, <1>4 DEF MovesOn

LEMMA BeganMovesOn == ASSUME IInv, Began PROVE MovesOn
<1>1. PICK w \in Unused :
           /\ Installing = {} /\ Installing' = {w}
           /\ Waiting' = Waiting /\ Active' = Active
           /\ manifest' = [manifest EXCEPT ![w] = deployed]
           /\ \A u \in Workers : u # w => state'[u] = state[u]
           /\ UNCHANGED <<step, todo, broken>>
  BY LoaderNumbers, BeganSets
<1>2. \A u \in Workers : state[u] # "none" => u # w
  BY <1>1 DEF Unused
<1>3. Latest' = {w} /\ manifest'[w] = deployed
  BY <1>1, LoaderNumbers DEF Latest, Unused, TypeOK
<1>4. \A u \in Workers : u # w => manifest'[u] = manifest[u]
  BY <1>1, LoaderNumbers DEF TypeOK
<1>5. \A u \in Active : state[u] # "none" /\ manifest'[u] = manifest[u] /\ manifest[u] <= manifest[u]
  BY <1>2, <1>4, LoaderNumbers DEF Active
<1>6. content' = content /\ broken' = broken
  BY <1>1 DEF Began, caches
<1>7. \A u \in Workers : state[u] # "none" => state'[u] # "none" /\ manifest'[u] = manifest[u]
  BY <1>1, <1>2, <1>4
<1>8. \A u \in Active : \E x \in Active' : manifest[u] <= manifest'[x]
  BY <1>1, <1>5
<1>9. \A u \in Latest' : manifest'[u] = deployed
  BY <1>3
<1>10. broken => broken'
  BY <1>6
<1>11. content'[Main] \in {content[Main], NotCached}
  BY <1>6
<1> QED
  BY <1>7, <1>8, <1>9, <1>10, <1>11, Zenon DEF MovesOn

\* Between installation and activation the newest worker remains the newest.
LEMMA WorkerMovesOn == ASSUME IInv, NEW w \in Workers, WorkerStep(w) PROVE MovesOn
<1>1. UNCHANGED manifest /\ (broken => broken')
  <2>1. UNCHANGED manifest
    BY DEF WorkerStep, Install, InstallFails, SkipWaiting, ActivateStep, ActivateBegin,
       ActivateClean, ActivateTemp, ActivateFill, ActivateDropTemp, ActivateSave,
       ActivateCatch, Kill
  <2>2. broken' = broken \/ InstallFails(w) \/ Kill(w)
    BY DEF WorkerStep, Install, SkipWaiting, ActivateStep, ActivateBegin, ActivateClean,
       ActivateTemp, ActivateFill, ActivateDropTemp, ActivateSave, ActivateCatch
  <2>3. (InstallFails(w) => broken') /\ (Kill(w) => (broken => broken'))
    BY Zenon DEF InstallFails, Kill
  <2> QED
    BY <2>1, <2>2, <2>3
<1>2. \A u \in Workers : state[u] # "none" => state'[u] # "none"
  BY LoaderNumbers DEF WorkerStep, Install, InstallFails, SkipWaiting, ActivateStep,
     ActivateBegin, ActivateClean, ActivateTemp, ActivateFill, ActivateDropTemp,
     ActivateSave, ActivateCatch, Kill, TypeOK
<1>3. \A u \in Workers : manifest[u] <= manifest[u]
  BY LoaderNumbers
<1>4. \/ content'[Main] \in {content[Main], NotCached}
      \/ \E u \in Active : manifest[u] <= content'[Main]
  <2>1. ASSUME NEW f \in todo, ActivateFill(w, f) PROVE content'[Main] \in {content[Main], temp[Main]}
    BY <2>1, LoaderNumbers DEF ActivateFill, TypeOK
  <2>2. ASSUME NEW f \in todo, ActivateClean(w, f) PROVE content'[Main] \in {content[Main], NotCached}
    BY <2>2, LoaderNumbers DEF ActivateClean, TypeOK
  <2>3. ASSUME ActivateStep(w), temp[Main] # NotCached PROVE \E u \in Active : manifest[u] <= temp[Main]
    <3>1. w \in Active
      BY <2>3 DEF ActivateStep, ActivateBegin, ActivateClean, ActivateTemp, ActivateFill,
         ActivateDropTemp, ActivateSave, Activating, Active
    <3> QED
      BY <2>3, <3>1, FromActive
  <2>4. CASE ActivateStep(w)
    BY <2>1, <2>2, <2>3, <2>4, LoaderNumbers DEF ActivateStep, ActivateBegin, ActivateTemp,
       ActivateDropTemp, ActivateSave, caches
  <2>5. CASE ActivateCatch(w)
    BY <2>5, LoaderNumbers DEF ActivateCatch
  <2> QED
    BY <2>4, <2>5 DEF WorkerStep, Install, InstallFails, SkipWaiting, Kill, caches
<1>5. /\ ~broken' => Latest' \subseteq Latest
      /\ \A u \in Active : \E x \in Active' : manifest[u] <= manifest[x]
  <2>1. CASE Install(w)
    BY <1>3, <2>1, LoaderNumbers, InstallSets DEF Latest, Newest
  <2>2. CASE InstallFails(w)
    BY <1>3, <2>2, LoaderNumbers, InstallFailsSets DEF InstallFails
  <2>3. CASE SkipWaiting(w)
    <3>1. \A u \in Active : manifest[u] <= manifest[w]
      BY <2>3, LoaderNumbers, SkipWaitingSets DEF IInv, ManifestsInOrder
    <3>2. Waiting = {w}
      BY <2>3, LoaderNumbers, SkipWaitingSets DEF TypeOK, AtMostOne
    <3> QED
      BY <2>3, <3>1, <3>2, LoaderNumbers, SkipWaitingSets DEF Latest, Newest
  <2>4. CASE ActivateStep(w)
    <3>1. \/ UNCHANGED state
          \/ state[w] = "activating" /\ state' = [state EXCEPT ![w] = "activated"]
      BY <2>4 DEF ActivateStep, ActivateBegin, ActivateClean, ActivateTemp, ActivateFill,
         ActivateDropTemp, ActivateSave, Activating
    <3>2. Installing' = Installing /\ Waiting' = Waiting /\ Active' = Active
      BY <3>1, LoaderNumbers, ActivatedSets DEF Installing, Waiting, Active
    <3> QED
      BY <1>3, <3>2, LoaderNumbers DEF Latest, Newest
  <2>5. CASE ActivateCatch(w)
    BY <1>3, <2>5, LoaderNumbers, ActivatedSets DEF ActivateCatch, Latest, Newest
  <2>6. CASE Kill(w)
    <3>1. Waiting' = Waiting /\ Active' = Active
      BY <2>6, LoaderNumbers, ActivatedSets, RestartSets DEF Kill
    <3>2. ~broken' => Installing = {} /\ Installing' = {}
      BY <2>6, LoaderNumbers, RestartSets DEF Kill
    <3> QED
      BY <1>3, <3>1, <3>2, LoaderNumbers DEF Latest, Newest
  <2> QED
    BY <2>1, <2>2, <2>3, <2>4, <2>5, <2>6 DEF WorkerStep
<1>6. ~broken' => \A x \in Latest' : \E u \in Latest : manifest[u] <= manifest'[x]
  BY <1>1, <1>3, <1>5, LoaderNumbers
<1> QED
  BY <1>1, <1>2, <1>4, <1>5, <1>6 DEF MovesOn

LEMMA DeployMovesOn == ASSUME IInv, Deploy PROVE MovesOn
<1>1. UNCHANGED <<state, manifest, broken, content>>
  BY DEF Deploy, caches, workers
<1>2. Latest' = Latest /\ Active' = Active
  BY <1>1 DEF Latest, Newest, Installing, Waiting, Active
<1>3. \A w \in Latest \cup Active : manifest[w] <= manifest[w]
  BY LoaderNumbers
<1> QED
  BY <1>1, <1>2, <1>3 DEF MovesOn

\* A page that does nothing itself keeps what it has.
LEMMA PageStays ==
  ASSUME LoaderInv, MovesOn, IInv', NEW p \in Pages,
         stage'[p] = stage[p], version'[p] = version[p], target'[p] = target[p],
         waited'[p] = waited[p], program'[p] = program[p]
  PROVE  PageFollows(p)'
<1>1. IInv /\ PageFollows(p) /\ version[p] <= deployed /\ version[p] \in Int
  BY LoaderNumbers DEF LoaderInv, NothingFromTheFuture
<1>2. ASSUME ~broken', stage[p] = "registered", NEW w \in Latest'
      PROVE  version[p] <= manifest'[w]
  <2>1. \A u \in Latest : version[p] <= manifest[u] /\ manifest[u] \in Int
    BY <1>1, <1>2, LoaderNumbers DEF MovesOn, PageFollows
  <2>2. w \in Workers
    BY <1>2 DEF Latest, Newest, Installing, Waiting, Active
  <2>3. CASE manifest'[w] = deployed
    BY <1>1, <2>3
  <2>4. CASE \E u \in Latest : manifest[u] <= manifest'[w]
    <3>1. manifest'[w] \in Int
      BY <2>2 DEF IInv, Typed, TypeOK, Versions, None
    <3> QED
      BY <1>1, <2>1, <2>4, <3>1
  <2> QED
    BY <1>2, <2>3, <2>4 DEF MovesOn
<1>3. ASSUME ~broken', stage[p] = "waiting"
      PROVE  /\ target[p] \in Workers
             /\ state'[target[p]] # "none" /\ version[p] <= manifest'[target[p]]
  BY <1>1, <1>3 DEF MovesOn, PageFollows
<1>4. ASSUME ~broken', ~RolledBack(Main), stage[p] = "ready", waited[p]
      PROVE  Fresh(version[p])' /\ \E w \in Active' : version[p] <= manifest'[w]
  <2>1. /\ Fresh(version[p])
        /\ \A w \in Active : version[p] <= manifest[w] /\ manifest[w] \in Int
    <3>1. PICK w \in Active : version[p] <= manifest[w]
      BY <1>1, <1>4 DEF MovesOn, PageFollows
    <3>2. \A u \in Active : u = w
      BY <1>1, <3>1, LoaderNumbers DEF TypeOK, AtMostOne
    <3> QED
      BY <1>1, <1>4, <3>1, <3>2, LoaderNumbers DEF MovesOn, PageFollows
  <2>2. content'[Main] \in Int
    BY ServiceWorkerAssumption DEF IInv, Typed, TypeOK, Responses, Versions, NotCached, ErrorPage
  <2>3. Fresh(version[p])'
    <3>1. CASE content'[Main] \in {content[Main], NotCached}
      BY <2>1, <3>1 DEF Fresh, NoOlder
    <3>2. CASE \E w \in Active : manifest[w] <= content'[Main]
      BY <1>1, <2>1, <2>2, <3>2 DEF Fresh, NoOlder
    <3> QED
      BY <3>1, <3>2 DEF MovesOn
  <2>4. PICK w \in Active : version[p] <= manifest[w]
    BY <1>1, <1>4 DEF MovesOn, PageFollows
  <2>5. PICK u \in Active' : manifest[w] <= manifest'[u]
    BY <2>4 DEF MovesOn
  <2>6. manifest'[u] \in Int
    BY <2>5 DEF IInv, Typed, TypeOK, Versions, None, Active
  <2> QED
    BY <1>1, <2>1, <2>3, <2>4, <2>5, <2>6
<1>5. stage[p] = "running" /\ waited[p] /\ program[p] # ErrorPage =>
        broken' \/ RolledBack(Main) \/ NoOlder(program[p], version[p], Main)
  BY <1>1 DEF MovesOn, PageFollows
<1>6. waited[p] => stage[p] \in {"ready", "running"}
  BY <1>1 DEF PageFollows
<1> QED
  BY <1>2, <1>3, <1>4, <1>5, <1>6 DEF PageFollows, Fresh, NoOlder

-----------------------------------------------------------------------------
(* Nothing from the future *)

LEMMA PutNothingNew ==
  ASSUME LoaderInv, Put, version' \in [Pages -> Int], \A p \in Pages : version'[p] <= deployed
  PROVE  NothingFromTheFuture'
<1>1. IInv /\ NothingFromTheFuture /\ UNCHANGED <<deployed, temp, label, manifest>>
  BY DEF LoaderInv, Put, site, workers
<1>2. deployed \in Int /\ 1 <= deployed
  BY LoaderNumbers, <1>1 DEF TypeOK, Versions
<1>3. \A f \in Files : httpCache'[f] <= deployed
  BY <1>1, <1>2 DEF Put, NothingFromTheFuture
<1>4. \A f \in Files : content'[f] <= deployed
  BY <1>1, <1>2 DEF Put, NothingFromTheFuture, ErrorPage
<1> QED
  BY <1>1, <1>3, <1>4 DEF NothingFromTheFuture

LEMMA BeganNothingNew ==
  ASSUME LoaderInv, Began, UNCHANGED version,
         NEW w \in Unused, NEW v \in Int, v <= deployed, Start(w, v)
  PROVE  NothingFromTheFuture'
<1>1. IInv /\ NothingFromTheFuture /\ UNCHANGED <<deployed, httpCache, content, temp>>
  BY DEF LoaderInv, Began, site, caches
<1>2. \A u \in Workers : label'[u] <= manifest'[u]
  BY <1>1, LoaderNumbers DEF Start, Unused, TypeOK, NothingFromTheFuture
<1> QED
  BY <1>1, <1>2 DEF NothingFromTheFuture

LEMMA DeployNothingNew == ASSUME LoaderInv, Deploy PROVE NothingFromTheFuture'
<1>1. IInv /\ NothingFromTheFuture /\ deployed' = deployed + 1
  BY DEF LoaderInv, Deploy
<1>2. UNCHANGED <<httpCache, content, temp, version, label, manifest>>
  BY DEF Deploy, caches, workers, pages
<1>3. \A x \in Int : x <= deployed => x <= deployed'
  BY <1>1, LoaderNumbers
<1> QED
  BY <1>1, <1>2, <1>3, LoaderNumbers DEF NothingFromTheFuture

LEMMA WorkerNothingNew ==
  ASSUME LoaderInv, NEW w \in Workers, WorkerStep(w) PROVE NothingFromTheFuture'
<1>1. IInv /\ NothingFromTheFuture
  BY DEF LoaderInv
<1>2. UNCHANGED <<deployed, label, manifest>>
  BY DEF WorkerStep, Install, InstallFails, SkipWaiting, ActivateStep, ActivateBegin,
     ActivateClean, ActivateTemp, ActivateFill, ActivateDropTemp, ActivateSave,
     ActivateCatch, Kill, site
<1>3. deployed \in Int /\ 1 <= deployed
  BY LoaderNumbers, <1>1 DEF TypeOK, Versions
<1>4. \A f \in Files : httpCache'[f] <= deployed
  <2>1. CASE Install(w)
    <3>1. \A f \in CORE : temp'[f] <= deployed
      BY <1>1, <2>1, LoaderNumbers DEF Install
    <3> QED
      BY <1>1, <2>1, <3>1 DEF Install, NothingFromTheFuture
  <2>2. Install(w) \/ UNCHANGED httpCache
    BY DEF WorkerStep, InstallFails, SkipWaiting, ActivateStep, ActivateBegin, ActivateClean,
       ActivateTemp, ActivateFill, ActivateDropTemp, ActivateSave, ActivateCatch, Kill
  <2> QED
    BY <1>1, <2>1, <2>2 DEF NothingFromTheFuture
<1>5. \A f \in CORE : temp'[f] <= deployed
  <2>1. CASE Install(w)
    BY <1>1, <2>1, LoaderNumbers DEF Install
  <2>2. CASE ActivateDropTemp(w)
    BY <1>3, <2>2 DEF ActivateDropTemp, NotCached
  <2>3. CASE ActivateCatch(w)
    BY <1>3, <2>3 DEF ActivateCatch, NotCached
  <2>4. Install(w) \/ ActivateDropTemp(w) \/ ActivateCatch(w) \/ UNCHANGED temp
    BY DEF WorkerStep, InstallFails, SkipWaiting, ActivateStep, ActivateBegin, ActivateClean,
       ActivateTemp, ActivateFill, ActivateSave, Kill, caches
  <2> QED
    BY <1>1, <2>1, <2>2, <2>3, <2>4 DEF NothingFromTheFuture
<1>6. \A f \in Files : content'[f] <= deployed
  <2>1. CASE ActivateBegin(w)
    BY <1>1, <1>3, <2>1 DEF ActivateBegin, NothingFromTheFuture, NotCached
  <2>2. ASSUME NEW f \in todo, ActivateClean(w, f) PROVE \A g \in Files : content'[g] <= deployed
    BY <1>1, <1>3, <2>2, LoaderNumbers DEF ActivateClean, NothingFromTheFuture, NotCached, TypeOK
  <2>3. ASSUME NEW f \in todo, ActivateFill(w, f) PROVE \A g \in Files : content'[g] <= deployed
    <3>1. f \in CORE /\ f \in Files
      BY <1>1, <2>3, LoaderNumbers DEF ActivateFill, Activating, IInv, Typed, FillIsShell
    <3> QED
      BY <1>1, <1>3, <2>3, <3>1, LoaderNumbers DEF ActivateFill, NothingFromTheFuture, TypeOK
  <2>4. CASE ActivateCatch(w)
    BY <1>3, <2>4 DEF ActivateCatch, NotCached
  <2>5. \/ ActivateBegin(w) \/ ActivateCatch(w) \/ UNCHANGED content
        \/ \E f \in todo : ActivateClean(w, f) \/ ActivateFill(w, f)
    BY DEF WorkerStep, Install, InstallFails, SkipWaiting, ActivateStep, ActivateTemp,
       ActivateDropTemp, ActivateSave, Kill, caches
  <2> QED
    BY <1>1, <2>1, <2>2, <2>3, <2>4, <2>5 DEF NothingFromTheFuture
<1>7. \A p \in Pages : version'[p] <= deployed
  <2>1. UNCHANGED version \/ version' = [p \in Pages |-> None]
    BY DEF WorkerStep, Install, InstallFails, SkipWaiting, ActivateStep, ActivateBegin,
       ActivateClean, ActivateTemp, ActivateFill, ActivateDropTemp, ActivateSave,
       ActivateCatch, Kill, pages
  <2> QED
    BY <1>1, <1>3, <2>1 DEF NothingFromTheFuture, None
<1> QED
  BY <1>1, <1>2, <1>4, <1>5, <1>6, <1>7 DEF NothingFromTheFuture

-----------------------------------------------------------------------------
(* The active worker's cache is fresh *)

\* A worker that serves before and after a step keeps a fresh cache.
LEMMA ServedStaysFresh ==
  ASSUME LoaderInv, MovesOn, IInv', ~broken', ~RolledBack(Main),
         NEW w \in Active, state[w] = "activated", manifest'[w] = manifest[w]
  PROVE  Fresh(manifest[w])'
<1>1. /\ IInv /\ Fresh(manifest[w]) /\ manifest[w] \in Int /\ content'[Main] \in Int
  <2>1. Fresh(manifest[w])
    BY DEF LoaderInv, ActiveIsFresh, MovesOn
  <2>2. content'[Main] \in Int
    BY ServiceWorkerAssumption DEF IInv, Typed, TypeOK, Responses, Versions, NotCached, ErrorPage
  <2> QED
    BY <2>1, <2>2, LoaderNumbers DEF LoaderInv
<1>2. \A u \in Active : u = w
  BY <1>1, LoaderNumbers DEF TypeOK, AtMostOne
<1>3. CASE content'[Main] \in {content[Main], NotCached}
  BY <1>1, <1>3 DEF Fresh, NoOlder
<1>4. CASE \E u \in Active : manifest[u] <= content'[Main]
  BY <1>1, <1>2, <1>4 DEF Fresh, NoOlder
<1> QED
  BY <1>3, <1>4 DEF MovesOn

LEMMA QuietFresh ==
  ASSUME LoaderInv, MovesOn, IInv',
         \A w \in Active' : state'[w] = "activated" => w \in Active /\ state[w] = "activated"
  PROVE  ActiveIsFresh'
<1> SUFFICES ASSUME ~broken', ~RolledBack(Main), NEW w \in Active', state'[w] = "activated"
             PROVE  Fresh(manifest[w])'
  BY DEF ActiveIsFresh, RolledBack
<1>1. w \in Active /\ state[w] = "activated" /\ w \in Workers
  BY LoaderNumbers DEF LoaderInv
<1>2. manifest'[w] = manifest[w]
  BY <1>1 DEF MovesOn
<1> QED
  BY <1>1, <1>2, ServedStaysFresh

LEMMA WorkerFresh ==
  ASSUME LoaderInv, IInv', NEW w \in Workers, WorkerStep(w) PROVE ActiveIsFresh'
<1>1. IInv /\ MovesOn /\ TypeOK /\ Main \in CORE
  BY WorkerMovesOn, LoaderNumbers DEF LoaderInv
<1>2. CASE ActivateSave(w)
  <2>1. /\ w \in Active /\ state[w] = "activating" /\ step = "save"
        /\ UNCHANGED <<content, manifest>> /\ Active' = Active
    BY <1>1, <1>2, ActivatedSets DEF ActivateSave, Activating, Active
  <2>2. MayStay(w, Main)
    BY <1>1, <2>1, LoaderNumbers DEF IInv, CleanedSoFar
  <2>3. \A u \in Active' : u = w
    BY <1>1, <2>1 DEF TypeOK, AtMostOne
  <2> QED
    BY <1>1, <2>1, <2>2, <2>3 DEF ActiveIsFresh, Fresh, MayStay, NoOlder, RolledBack
<1>3. CASE ActivateCatch(w)
  BY <1>1, <1>3, LoaderNumbers DEF ActivateCatch, ActiveIsFresh, Fresh
<1>4. CASE Kill(w) /\ state' = [state EXCEPT ![w] = "activated"] /\ broken' = TRUE
  BY <1>4 DEF ActiveIsFresh
<1>5. CASE \/ Install(w) \/ InstallFails(w) \/ SkipWaiting(w)
           \/ UNCHANGED state
           \/ Kill(w) /\ \A u \in Workers : state'[u] \in {state[u], "redundant"}
  <2>1. \A u \in Workers : state'[u] = "activated" => state[u] = "activated"
    BY <1>1, <1>5 DEF Install, InstallFails, SkipWaiting, TypeOK
  <2> QED
    BY <1>1, <2>1, QuietFresh DEF Active
<1>6. ActivateStep(w) => ActivateSave(w) \/ UNCHANGED state
  BY DEF ActivateStep, ActivateBegin, ActivateClean, ActivateTemp, ActivateFill, ActivateDropTemp
<1>7. Kill(w) => \/ state' = [state EXCEPT ![w] = "activated"] /\ broken' = TRUE
                 \/ \A u \in Workers : state'[u] \in {state[u], "redundant"}
  BY DEF Kill
<1> QED
  BY <1>2, <1>3, <1>4, <1>5, <1>6, <1>7 DEF WorkerStep

-----------------------------------------------------------------------------
(* A page's own steps *)

LEMMA PageMovesOn ==
  ASSUME LoaderInv, NEW p \in Pages, PageStep(p)
  PROVE  /\ MovesOn
         /\ \A q \in Pages : q # p =>
              /\ stage'[q] = stage[q] /\ version'[q] = version[q] /\ target'[q] = target[q]
              /\ waited'[q] = waited[q] /\ program'[q] = program[q]
<1>1. IInv /\ TypeOK
  BY LoaderNumbers DEF LoaderInv
<1>2. MovesOn
  BY <1>1, PageEffect, PutMovesOn, BeganMovesOn
<1>3. ASSUME NEW q \in Pages, q # p
      PROVE  /\ stage'[q] = stage[q] /\ version'[q] = version[q] /\ target'[q] = target[q]
             /\ waited'[q] = waited[q] /\ program'[q] = program[q]
  BY <1>1, <1>3 DEF PageStep, Open, Close, Register, GetNewServiceWorker, Update, WaitFor,
     Activated, TimedOut, LoadEntrypoint, Request, DownloadOffline, TypeOK, pages
<1> QED
  BY <1>2, <1>3

\* A file that is not older than a build is not older than any build before it,
\* unless it was rolled back.
LEMMA NoOlderThanBefore ==
  ASSUME NEW v \in Versions \cup {None}, NEW u \in Versions, v <= u,
         NEW r \in Versions, NEW f \in Files, ~RolledBack(f), NoOlder(r, u, f)
  PROVE  NoOlder(r, v, f)
<1>1. MaxVersion \in Nat
  BY ServiceWorkerAssumption
<1>2. CASE r >= v
  BY <1>2 DEF NoOlder
<1>3. CASE r < v
  <2>1. v \in Versions /\ r < u
    BY <1>1, <1>3 DEF Versions, None
  <2>2. Build[r][f] = Build[u][f]
    BY <1>1, <2>1 DEF NoOlder, Versions
  <2>3. v = u \/ v < u
    BY <1>1, <2>1 DEF Versions
  <2> QED
    BY <1>3, <2>1, <2>2, <2>3 DEF RolledBack, NoOlder
<1> QED
  BY <1>1, <1>2, <1>3 DEF Versions, None

LEMMA NewestIsLatest ==
  ASSUME TypeOK, Installing = {}
  PROVE  Latest = Newest /\ \A u, w \in Newest : u = w
  BY DEF Latest, Newest, TypeOK, AtMostOne

LEMMA RegisterFollows ==
  ASSUME LoaderInv, NEW p \in Pages, Register(p) PROVE PageFollows(p)'
<1>1. /\ IInv /\ TypeOK /\ NothingFromTheFuture /\ PageFollows(p)
  BY LoaderNumbers DEF LoaderInv
<1>2. stage'[p] = "registered" /\ version'[p] = version[p] /\ ~waited'[p]
  BY <1>1 DEF Register, PageFollows, TypeOK
<1>3. \A w \in Latest' : version[p] <= manifest'[w]
  <2>1. CASE \E w \in Newest : label[w] = version[p] /\ UNCHANGED workers
    <3>1. Latest' = Latest
      BY <2>1 DEF workers, Latest, Newest, Installing, Waiting, Active
    <3>2. \A w \in Latest : label[w] = version[p]
      BY <1>1, <2>1, NewestIsLatest DEF Register
    <3> QED
      BY <1>1, <2>1, <3>1, <3>2, LoaderNumbers DEF NothingFromTheFuture, workers
  <2>2. CASE Unused # {} /\ Start(NewWorker, version[p])
    <3>1. NewWorker \in Unused /\ version[p] \in Versions \cup {None}
      BY <1>1, <2>2, NewWorkerUnused DEF TypeOK
    <3>2. Latest' = {NewWorker}
      BY <1>1, <2>2, <3>1 DEF Start, Register, Latest, Installing, Unused, TypeOK
    <3>3. manifest'[NewWorker] = deployed
      BY <1>1, <2>2, <3>1 DEF Start, Unused, TypeOK
    <3> QED
      BY <1>1, <3>2, <3>3 DEF NothingFromTheFuture
  <2> QED
    BY <2>1, <2>2 DEF Register
<1> QED
  BY <1>2, <1>3 DEF PageFollows

LEMMA GetNewFollows ==
  ASSUME LoaderInv, NEW p \in Pages, GetNewServiceWorker(p) PROVE PageFollows(p)'
<1>1. /\ IInv /\ TypeOK /\ NothingFromTheFuture /\ PageFollows(p)
      /\ stage[p] = "registered"
  BY LoaderNumbers DEF LoaderInv, GetNewServiceWorker
<1>2. /\ UNCHANGED <<version, waited, state, manifest, broken>> /\ ~waited[p]
  BY <1>1 DEF GetNewServiceWorker, workers, PageFollows
<1>3. ASSUME ~broken, NEW w \in Installing \cup Waiting \cup Active, WaitFor(p, w),
             w \in Latest \/ label[w] = version[p]
      PROVE  /\ stage'[p] = "waiting" /\ target'[p] = w /\ w \in Workers
             /\ state[w] # "none" /\ version[p] <= manifest[w]
  BY <1>1, <1>3, LoaderNumbers DEF WaitFor, TypeOK, PageFollows, NothingFromTheFuture,
     Installing, Waiting, Active
<1>4. \/ stage'[p] \in {"ready", "updating"}
      \/ \E w \in Installing \cup Waiting \cup Active :
           WaitFor(p, w) /\ (w \in Latest \/ label[w] = version[p])
  BY <1>1 DEF GetNewServiceWorker, Latest, Newest, TypeOK
<1>5. CASE stage'[p] \in {"ready", "updating"}
  BY <1>2, <1>5 DEF PageFollows
<1>6. CASE \E w \in Installing \cup Waiting \cup Active :
             WaitFor(p, w) /\ (w \in Latest \/ label[w] = version[p])
  <2>1. stage'[p] = "waiting"
    BY <1>1, <1>6 DEF WaitFor, TypeOK
  <2>2. ~broken => /\ target'[p] \in Workers
                   /\ state[target'[p]] # "none" /\ version[p] <= manifest[target'[p]]
    BY <1>3, <1>6
  <2> QED
    BY <1>2, <2>1, <2>2 DEF PageFollows
<1> QED
  BY <1>4, <1>5, <1>6

LEMMA UpdateFollows ==
  ASSUME LoaderInv, NEW p \in Pages, Update(p) PROVE PageFollows(p)'
<1>1. /\ IInv /\ TypeOK /\ NothingFromTheFuture /\ PageFollows(p) /\ version[p] <= deployed
  BY LoaderNumbers DEF LoaderInv, NothingFromTheFuture
<1>2. version'[p] = version[p] /\ ~waited'[p]
  BY <1>1 DEF Update, PageFollows
<1>3. PICK w \in Newest :
       \/ manifest[w] = deployed /\ WaitFor(p, w) /\ UNCHANGED workers
       \/ /\ manifest[w] # deployed
          /\ Unused # {}
          /\ Start(NewWorker, label[w])
          /\ WaitFor(p, NewWorker)
  BY DEF Update
<1>4. CASE manifest[w] = deployed /\ WaitFor(p, w) /\ UNCHANGED workers
  <2>1. w \in Workers /\ state[w] # "none"
    BY DEF Newest, Waiting, Active
  <2>2. target'[p] = w /\ stage'[p] = "waiting" /\ UNCHANGED <<state, manifest>>
    BY <1>1, <1>4 DEF WaitFor, TypeOK, workers
  <2> QED
    BY <1>1, <1>2, <1>4, <2>1, <2>2 DEF PageFollows
<1>5. CASE Unused # {} /\ Start(NewWorker, label[w]) /\ WaitFor(p, NewWorker)
  <2>1. NewWorker \in Unused /\ NewWorker \in Workers
    BY <1>5, NewWorkerUnused DEF Unused
  <2>2. target'[p] = NewWorker /\ stage'[p] = "waiting"
    BY <1>1, <1>5 DEF WaitFor, TypeOK
  <2>3. state'[NewWorker] = "installing" /\ manifest'[NewWorker] = deployed
    BY <1>1, <1>5, <2>1 DEF Start, TypeOK
  <2> QED
    BY <1>1, <1>2, <2>1, <2>2, <2>3 DEF PageFollows
<1> QED
  BY <1>3, <1>4, <1>5

\* The end of the wait: the active worker is the one waited for.
LEMMA ActivatedFollows ==
  ASSUME LoaderInv, NEW p \in Pages, Activated(p) PROVE PageFollows(p)'
<1>1. /\ IInv /\ TypeOK /\ ActiveIsFresh /\ PageFollows(p)
  BY LoaderNumbers DEF LoaderInv
<1>2. /\ stage[p] = "waiting" /\ stage'[p] = "ready" /\ waited'[p]
      /\ state[target[p]] = "activated"
      /\ UNCHANGED <<content, state, manifest, broken, version>>
  BY <1>1 DEF Activated, caches, workers, TypeOK
<1>3. ASSUME ~broken, ~RolledBack(Main)
      PROVE  Fresh(version[p]) /\ \E w \in Active : version[p] <= manifest[w]
  <2>1. target[p] \in Active /\ version[p] <= manifest[target[p]]
    BY <1>1, <1>2, <1>3 DEF PageFollows, Active
  <2>2. Fresh(manifest[target[p]])
    BY <1>1, <1>2, <1>3, <2>1 DEF ActiveIsFresh
  <2>3. content[Main] # NotCached => content[Main] \in Versions
    BY <1>1, LoaderNumbers DEF TypeOK, Responses
  <2>4. manifest[target[p]] \in Versions /\ version[p] \in Versions \cup {None}
    BY <1>1, <2>1 DEF TypeOK, Active, IInv, ManifestsInOrder, None
  <2> QED
    BY <1>1, <1>3, <2>1, <2>2, <2>3, <2>4, LoaderNumbers, NoOlderThanBefore DEF Fresh
<1>4. Active' = Active
  BY <1>2 DEF Active
<1> QED
  BY <1>2, <1>3, <1>4 DEF PageFollows, Fresh, NoOlder

\* What comes from the network is as new as the active worker, and so is what is
\* cached.
LEMMA LoadFollows ==
  ASSUME LoaderInv, NEW p \in Pages, LoadEntrypoint(p) PROVE PageFollows(p)'
<1>1. /\ IInv /\ TypeOK /\ PageFollows(p) /\ Main \in Files
  BY LoaderNumbers DEF LoaderInv
<1>2. PICK r \in Versions \cup {ErrorPage} :
        Respond(p, Main, r) /\ program' = [program EXCEPT ![p] = r]
  BY DEF LoadEntrypoint
<1>3. /\ stage[p] = "ready" /\ stage'[p] = "running" /\ program'[p] = r
      /\ UNCHANGED <<broken, waited, version>>
  BY <1>1, <1>2 DEF LoadEntrypoint, workers, TypeOK
<1>4. ASSUME waited[p], r # ErrorPage, ~broken, ~RolledBack(Main)
      PROVE  NoOlder(r, version[p], Main)
  <2>1. PICK w \in Active : version[p] <= manifest[w]
    BY <1>1, <1>3, <1>4 DEF PageFollows
  <2>2. CASE r = content[Main] /\ content[Main] # NotCached
    BY <1>1, <1>3, <1>4, <2>2 DEF PageFollows, Fresh
  <2>3. CASE r \in Fetched(Main)
    <3>1. r \in {deployed, httpCache[Main]}
      BY <2>3 DEF Fetched
    <3>2. manifest[w] <= deployed /\ manifest[w] <= httpCache[Main]
      BY <1>1, FromActive
    <3>3. version[p] \in Int /\ manifest[w] \in Int /\ deployed \in Int /\ httpCache[Main] \in Int
      BY <1>1, LoaderNumbers
    <3> QED
      BY <2>1, <3>1, <3>2, <3>3 DEF NoOlder
  <2> QED
    BY <1>2, <1>4, <2>2, <2>3 DEF Respond
<1> QED
  BY <1>3, <1>4 DEF PageFollows, NoOlder, RolledBack

LEMMA PageStepFollows ==
  ASSUME LoaderInv, IInv', NEW p \in Pages, PageStep(p) PROVE \A q \in Pages : PageFollows(q)'
<1>1. IInv /\ TypeOK /\ MovesOn /\ PageFollows(p)
  BY LoaderNumbers, PageMovesOn DEF LoaderInv
<1>2. ASSUME NEW q \in Pages, q # p PROVE PageFollows(q)'
  BY <1>1, <1>2, PageMovesOn, PageStays
<1>3. ASSUME UNCHANGED <<stage, version, target, waited, program>> PROVE PageFollows(p)'
  BY <1>1, <1>3, PageStays
<1>4. PageFollows(p)'
  <2>1. CASE Open(p)
    <3>1. CASE UNCHANGED stage /\ UNCHANGED version
      BY <1>3, <2>1, <3>1 DEF Open
    <3>2. CASE stage' = [stage EXCEPT ![p] = "loaded"]
      BY <1>1, <2>1, <3>2 DEF Open, PageFollows, TypeOK
    <3> QED
      BY <2>1, <3>1, <3>2 DEF Open
  <2>2. CASE Close(p)
    BY <1>1, <2>2 DEF Close, PageFollows, TypeOK
  <2>3. CASE TimedOut(p)
    BY <1>1, <2>3 DEF TimedOut, PageFollows, TypeOK
  <2>4. CASE (\E f \in Files \ {Root} : Request(p, f)) \/ DownloadOffline(p)
    BY <1>3, <2>4 DEF Request, DownloadOffline, pages
  <2> QED
    BY <2>1, <2>2, <2>3, <2>4, RegisterFollows, GetNewFollows, UpdateFollows,
       ActivatedFollows, LoadFollows DEF PageStep
<1> QED
  BY <1>2, <1>4

LEMMA PageStepNothingNew ==
  ASSUME LoaderInv, NEW p \in Pages, PageStep(p) PROVE NothingFromTheFuture'
<1>1. IInv /\ TypeOK /\ NothingFromTheFuture /\ version \in [Pages -> Int] /\ deployed \in Int
  BY LoaderNumbers DEF LoaderInv, TypeOK, Versions, None
<1>2. ASSUME Put, UNCHANGED version PROVE NothingFromTheFuture'
  BY <1>1, <1>2, PutNothingNew DEF NothingFromTheFuture
<1>3. CASE Open(p)
  <2>1. PICK r \in Versions \cup {NotCached, ErrorPage} :
          /\ \/ atRoot /\ Active # {} /\ OnlineFirst(r)
             \/ r \in Fetched(Root)
          /\ \/ r \in Versions /\ version' = [version EXCEPT ![p] = r]
             \/ UNCHANGED version
    BY <1>3 DEF Open
  <2>2. r \in Versions => r <= deployed
    <3>1. Root \in Files /\ Fetched(Root) \subseteq {httpCache[Root], deployed}
      BY <1>1, FetchedTyped, ServiceWorkerAssumption
    <3>2. httpCache[Root] <= deployed /\ content[Root] <= deployed /\ deployed <= deployed
      BY <1>1, <3>1 DEF NothingFromTheFuture
    <3>3. ErrorPage \notin Versions
      BY DEF Versions, ErrorPage
    <3> QED
      BY <2>1, <3>1, <3>2, <3>3 DEF OnlineFirst
  <2>3. version' \in [Pages -> Int] /\ \A q \in Pages : version'[q] <= deployed
    BY <1>1, <2>1, <2>2 DEF NothingFromTheFuture, Versions
  <2> QED
    BY <1>1, <1>3, <2>3, OpenEffect, PutNothingNew
<1>4. CASE Close(p)
  <2>1. Put
    BY <1>1, <1>4 DEF Close, Put, TypeOK, caches
  <2>2. 1 <= deployed
    BY <1>1 DEF TypeOK, Versions
  <2>3. version' \in [Pages -> Int] /\ \A q \in Pages : version'[q] <= deployed
    BY <1>1, <1>4, <2>2 DEF Close, None, NothingFromTheFuture
  <2> QED
    BY <2>1, <2>3, PutNothingNew
<1>5. CASE Register(p)
  <2>1. CASE UNCHANGED workers
    <3>1. Put
      BY <1>1, <1>5, <2>1 DEF Register, Put, TypeOK, caches
    <3> QED
      BY <1>2, <1>5, <3>1 DEF Register
  <2>2. CASE Unused # {} /\ Start(NewWorker, version[p])
    <3>1. NewWorker \in Unused /\ version[p] \in Versions \cup {None} /\ version[p] \in Int
      BY <1>1, <2>2, NewWorkerUnused DEF TypeOK
    <3>2. Began /\ UNCHANGED version /\ version[p] <= deployed
      BY <1>1, <1>5, <2>2, <3>1 DEF Register, Began, NothingFromTheFuture
    <3> QED
      BY <2>2, <3>1, <3>2, BeganNothingNew
  <2> QED
    BY <1>5, <2>1, <2>2 DEF Register
<1>6. CASE Update(p)
  <2>1. CASE UNCHANGED workers
    <3>1. Put
      BY <1>1, <1>6, <2>1 DEF Update, Put, TypeOK, caches
    <3> QED
      BY <1>2, <1>6, <3>1 DEF Update
  <2>2. ASSUME NEW w \in Newest, Unused # {}, Start(NewWorker, label[w]) PROVE NothingFromTheFuture'
    <3>1. NewWorker \in Unused /\ w \in Workers /\ w \in Waiting \cup Active
      BY <2>2, NewWorkerUnused DEF Newest, Waiting, Active
    <3>2. /\ label[w] \in Versions \cup {None} /\ label[w] \in Int /\ manifest[w] \in Int
          /\ label[w] <= manifest[w] /\ manifest[w] <= deployed
      BY <1>1, <3>1, LoaderNumbers DEF TypeOK, NothingFromTheFuture, IInv, ManifestsInOrder
    <3>3. Began /\ UNCHANGED version /\ label[w] <= deployed
      BY <1>1, <1>6, <2>2, <3>1, <3>2 DEF Update, Began
    <3> QED
      BY <2>2, <3>1, <3>2, <3>3, BeganNothingNew
  <2> QED
    BY <1>6, <2>1, <2>2 DEF Update
<1>7. CASE GetNewServiceWorker(p) \/ Activated(p) \/ TimedOut(p)
  <2>1. Put /\ UNCHANGED version
    BY <1>1, <1>7 DEF GetNewServiceWorker, Activated, TimedOut, Put, TypeOK, caches
  <2> QED
    BY <1>2, <2>1
<1>8. CASE LoadEntrypoint(p) \/ (\E f \in Files \ {Root} : Request(p, f)) \/ DownloadOffline(p)
  <2>1. Put
    BY <1>1, <1>8, LoaderNumbers, RespondEffect, DownloadEffect DEF LoadEntrypoint, Request
  <2>2. UNCHANGED version
    BY <1>8 DEF LoadEntrypoint, Request, DownloadOffline, pages
  <2> QED
    BY <1>2, <2>1, <2>2
<1> QED
  BY <1>3, <1>4, <1>5, <1>6, <1>7, <1>8 DEF PageStep

-----------------------------------------------------------------------------
(* The theorem *)

LEMMA LoaderInit == Init => LoaderInv
<1> SUFFICES ASSUME Init PROVE LoaderInv
  OBVIOUS
<1>1. IInv
  BY InvInit
<1>2. NothingFromTheFuture
  BY ServiceWorkerAssumption DEF Init, NothingFromTheFuture, NotCached, None
<1>3. ActiveIsFresh
  BY InitSets DEF ActiveIsFresh
<1>4. \A p \in Pages : PageFollows(p)
  BY DEF Init, PageFollows
<1> QED
  BY <1>1, <1>2, <1>3, <1>4 DEF LoaderInv

LEMMA LoaderNext == LoaderInv /\ [Next]_vars => LoaderInv'
<1> SUFFICES ASSUME LoaderInv, [Next]_vars PROVE LoaderInv'
  OBVIOUS
<1>1. IInv /\ TypeOK
  BY LoaderNumbers DEF LoaderInv
<1>2. IInv'
  BY <1>1, InvNext
<1>3. ASSUME MovesOn, UNCHANGED pages PROVE \A p \in Pages : PageFollows(p)'
  BY <1>2, <1>3, PageStays DEF pages
<1>4. ASSUME Put \/ Began \/ Deploy, MovesOn PROVE ActiveIsFresh'
  <2>1. ASSUME NEW w \in Active', state'[w] = "activated" PROVE w \in Active /\ state[w] = "activated"
    BY <1>1, <1>4, <2>1, BeganSets DEF Put, Deploy, workers, Active, Began, Start, TypeOK, Unused
  <2> QED
    BY <1>2, <1>4, <2>1, QuietFresh
<1>5. ASSUME NEW w \in Workers, WorkerStep(w) PROVE LoaderInv'
  <2>1. MovesOn /\ NothingFromTheFuture' /\ ActiveIsFresh'
    BY <1>1, <1>2, <1>5, WorkerMovesOn, WorkerNothingNew, WorkerFresh
  <2>2. \/ UNCHANGED <<stage, version, target, waited, program>>
        \/ \A p \in Pages : stage'[p] = "closed" /\ waited'[p] = FALSE
    BY <1>5 DEF WorkerStep, Install, InstallFails, SkipWaiting, ActivateStep, ActivateBegin,
       ActivateClean, ActivateTemp, ActivateFill, ActivateDropTemp, ActivateSave,
       ActivateCatch, Kill, pages
  <2>3. \A p \in Pages : PageFollows(p)'
    <3>1. CASE UNCHANGED <<stage, version, target, waited, program>>
      BY <1>2, <2>1, <3>1, PageStays
    <3>2. CASE \A p \in Pages : stage'[p] = "closed" /\ waited'[p] = FALSE
      BY <3>2 DEF PageFollows
    <3> QED
      BY <2>2, <3>1, <3>2
  <2> QED
    BY <1>2, <2>1, <2>3 DEF LoaderInv
<1>6. ASSUME NEW p \in Pages, PageStep(p) PROVE LoaderInv'
  <2>1. MovesOn /\ (Put \/ Began)
    BY <1>1, <1>6, PageMovesOn, PageEffect
  <2> QED
    BY <1>2, <1>4, <1>6, <2>1, PageStepFollows, PageStepNothingNew DEF LoaderInv
<1>7. ASSUME Deploy PROVE LoaderInv'
  <2>1. MovesOn /\ UNCHANGED pages
    BY <1>1, <1>7, DeployMovesOn DEF Deploy
  <2> QED
    BY <1>2, <1>3, <1>4, <1>7, <2>1, DeployNothingNew DEF LoaderInv
<1>8. ASSUME UNCHANGED vars PROVE LoaderInv'
  <2>1. Put /\ UNCHANGED pages /\ version \in [Pages -> Int]
    BY <1>1, <1>8 DEF vars, caches, Put, TypeOK, Versions, None
  <2>2. MovesOn
    BY <1>1, <2>1, PutMovesOn
  <2>3. NothingFromTheFuture'
    BY <2>1, PutNothingNew DEF pages, LoaderInv, NothingFromTheFuture
  <2> QED
    BY <1>2, <1>3, <1>4, <2>1, <2>2, <2>3 DEF LoaderInv
<1> QED
  BY <1>5, <1>6, <1>7, <1>8 DEF Next

\* A page that waited for its worker runs a program no older than itself, unless
\* a worker was killed halfway or could not be installed, or the program was
\* rolled back: however many pages open, register and close, whichever of them
\* the worker was started for, and whatever is deployed meanwhile.
THEOREM WaitingPays == Spec => []WaitedIsFresh
<1>1. Spec => []LoaderInv
  BY LoaderInit, LoaderNext, PTL DEF Spec
<1>2. LoaderInv => WaitedIsFresh
  BY DEF LoaderInv, PageFollows, WaitedIsFresh
<1> QED
  BY <1>1, <1>2, PTL

=============================================================================
