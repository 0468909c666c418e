--------------------------- MODULE EventListener ---------------------------
(***************************************************************************)
(* hesab-ketab: the thread of EventConsumer that decides when to project.  *)
(* It catches up once when the pod starts and from then on only when a     *)
(* NOTIFY of the trigger on domain_events reaches its LISTEN session.      *)
(* Ledger models what one catchUp transaction does to the tables; here it  *)
(* is one step that moves the offset past one event, and events commit in  *)
(* the order of their sequence numbers.                                    *)
(***************************************************************************)
EXTENDS Naturals

CONSTANTS
  MaxEvents,      \* bound: events appended during a run
  MaxFailures     \* bound: database failures during a run

ASSUME ListenerAssumption == MaxEvents \in Nat /\ MaxFailures \in Nat

VARIABLES
  committed,      \* events committed to domain_events
  consumed,       \* the consumer's offset
  thread,         \* where the virtual thread "event-consumer" is
  session,        \* rawConnection: none, LISTENing, or back in the pool
  pending,        \* the session has notifications nobody fetched
  running,        \* the volatile flag
  hook,           \* how far @PreDestroy got
  failures,       \* database failures so far
  unheard,        \* history: an event was committed while no session listened
  dropped         \* history: a notification was lost, or its catchUp failed

vars == <<committed, consumed, thread, session, pending, running, hook,
          failures, unheard, dropped>>

Init ==
  /\ committed = 0
  /\ consumed = 0
  /\ thread = "startup"
  /\ session = "none"
  /\ pending = FALSE
  /\ running = TRUE
  /\ hook = "idle"
  /\ failures = 0
  /\ unheard = FALSE
  /\ dropped = FALSE

-----------------------------------------------------------------------------
(* Other transactions                                                      *)

\* The trigger's pg_notify is delivered at the commit, to the sessions that
\* have executed LISTEN; a session parked in the pool still has.
Append ==
  /\ committed < MaxEvents
  /\ committed' = committed + 1
  /\ IF session = "none"
     THEN unheard' = TRUE /\ UNCHANGED pending
     ELSE pending' = TRUE /\ UNCHANGED unheard
  /\ UNCHANGED <<consumed, thread, session, running, hook, failures, dropped>>

-----------------------------------------------------------------------------
(* closeConnection: the physical session dies, and its notifications with  *)
(* it, or goes back to the pool with its LISTEN and what was notified.     *)

CloseConnection(catchUpFailed) ==
  \/ /\ session' = "none"
     /\ pending' = FALSE
     /\ dropped' = (dropped \/ catchUpFailed \/ pending)
  \/ /\ session' = IF session = "listening" THEN "parked" ELSE session
     /\ dropped' = (dropped \/ catchUpFailed)
     /\ UNCHANGED pending

-----------------------------------------------------------------------------
(* listenLoop                                                              *)

\* Mutant of Project: the result of the fetch is not tested for null.
ProjectUntested ==
  /\ thread \in {"startup", "catchUp"}
  /\ running
  /\ consumed' = consumed + 1
  /\ UNCHANGED <<committed, thread, session, pending, running, hook, failures, unheard, dropped>>

\* One transaction of catchUp.
Project ==
  /\ thread \in {"startup", "catchUp"}
  /\ running
  /\ consumed < committed
  /\ consumed' = consumed + 1
  /\ UNCHANGED <<committed, thread, session, pending, running, hook, failures, unheard, dropped>>

\* Mutant of CaughtUp: catchUp projects as much as it likes per notification, not
\* until nothing is left.
CaughtUpEarly ==
  /\ thread \in {"startup", "catchUp"}
  /\ thread' = "loop"
  /\ UNCHANGED <<committed, consumed, session, pending, running, hook, failures, unheard, dropped>>

\* catchUp found nothing more, or the flag is down.
CaughtUp ==
  /\ thread \in {"startup", "catchUp"}
  /\ running => consumed = committed
  /\ thread' = "loop"
  /\ unheard' = (unheard /\ consumed < committed)
  /\ dropped' = (dropped /\ consumed < committed)
  /\ UNCHANGED <<committed, consumed, session, pending, running, hook, failures>>

\* Mutant of Loop: while (true).
LoopForEver ==
  /\ thread = "loop"
  /\ thread' = "ensure"
  /\ UNCHANGED <<committed, consumed, session, pending, running, hook, failures, unheard, dropped>>

Loop ==
  /\ thread = "loop"
  /\ thread' = IF running THEN "ensure" ELSE "stopped"
  /\ UNCHANGED <<committed, consumed, session, pending, running, hook, failures, unheard, dropped>>

\* ensureConnection: keep an open session, else LISTEN on one from the pool,
\* which may be the session parked before or another.
EnsureConnection ==
  /\ thread = "ensure"
  /\ thread' = "poll"
  /\ session' = "listening"
  /\ \/ session \in {"listening", "parked"} /\ UNCHANGED <<pending, dropped>>
     \/ /\ session \in {"none", "parked"}
        /\ pending' = FALSE
        /\ dropped' = (dropped \/ pending)
  /\ UNCHANGED <<committed, consumed, running, hook, failures, unheard>>

\* getNotifications hands over everything that has arrived, or gives up after
\* 500 ms with nothing.
GetNotifications ==
  /\ thread = "poll"
  /\ session = "listening"
  /\ thread' = IF pending THEN "catchUp" ELSE "loop"
  /\ pending' = FALSE
  /\ UNCHANGED <<committed, consumed, session, running, hook, failures, unheard, dropped>>

\* The shutdown hook has set pgConnection to null under the thread's feet: the
\* NullPointerException ends in the catch of the loop.
PollAfterClose ==
  /\ thread = "poll"
  /\ session # "listening"
  /\ thread' = "sleep"
  /\ UNCHANGED <<committed, consumed, session, pending, running, hook, failures, unheard, dropped>>

\* Mutant of LoopFails: the exception is not caught.
LoopDies ==
  /\ thread \in {"ensure", "poll", "catchUp"}
  /\ failures < MaxFailures
  /\ failures' = failures + 1
  /\ thread' = "dead"
  /\ CloseConnection(thread = "catchUp" /\ consumed < committed)
  /\ UNCHANGED <<committed, consumed, running, hook, unheard>>

\* An exception inside the loop closes the connection and sleeps a second.
\* What a failed catchUp was called for is not remembered.
LoopFails ==
  /\ thread \in {"ensure", "poll", "catchUp"}
  /\ failures < MaxFailures
  /\ failures' = failures + 1
  /\ thread' = "sleep"
  /\ CloseConnection(thread = "catchUp" /\ consumed < committed)
  /\ UNCHANGED <<committed, consumed, running, hook, unheard>>

\* The catchUp before the loop is outside its try: the thread is gone.
StartupFails ==
  /\ thread = "startup"
  /\ failures < MaxFailures
  /\ failures' = failures + 1
  /\ thread' = "dead"
  /\ dropped' = TRUE
  /\ UNCHANGED <<committed, consumed, session, pending, running, hook, unheard>>

WakeUp ==
  /\ thread = "sleep"
  /\ thread' = "loop"
  /\ UNCHANGED <<committed, consumed, session, pending, running, hook, failures, unheard, dropped>>

-----------------------------------------------------------------------------
(* shutdown, on the container's thread                                     *)

LowerFlag ==
  /\ hook = "idle"
  /\ running' = FALSE
  /\ hook' = "closing"
  /\ UNCHANGED <<committed, consumed, thread, session, pending, failures, unheard, dropped>>

HookCloses ==
  /\ hook = "closing"
  /\ hook' = "done"
  /\ CloseConnection(FALSE)
  /\ UNCHANGED <<committed, consumed, thread, running, failures, unheard>>

-----------------------------------------------------------------------------

ThreadStep ==
  \/ Project
  \/ CaughtUp
  \/ Loop
  \/ EnsureConnection
  \/ GetNotifications
  \/ PollAfterClose
  \/ WakeUp

Next ==
  \/ Append
  \/ ThreadStep
  \/ LoopFails
  \/ StartupFails
  \/ LowerFlag
  \/ HookCloses

\* The thread is scheduled for ever; nobody has to send money, stop the pod or
\* suffer a failure.
Fairness == WF_vars(ThreadStep)

Spec == Init /\ [][Next]_vars /\ Fairness

-----------------------------------------------------------------------------
(* Correctness *)

TypeOK ==
  /\ committed \in 0 .. MaxEvents
  /\ consumed \in 0 .. committed
  /\ thread \in {"startup", "catchUp", "loop", "ensure", "poll", "sleep", "stopped", "dead"}
  /\ session \in {"none", "listening", "parked"}
  /\ pending \in BOOLEAN
  /\ running \in BOOLEAN
  /\ hook \in {"idle", "closing", "done"}
  /\ failures \in 0 .. MaxFailures
  /\ unheard \in BOOLEAN
  /\ dropped \in BOOLEAN

CatchingUp == thread \in {"startup", "catchUp"}

\* While the pod runs, an event that waits is announced or about to be read,
\* unless it was committed while no session listened or its notification was
\* lost with a session or a failed catchUp.  In particular fetching the
\* notifications before the catchUp, not after it, loses none.
WaitingIsAnnounced ==
  running /\ consumed < committed => pending \/ CatchingUp \/ unheard \/ dropped

\* One notification is enough: it gets every event projected that is committed
\* by then, those nobody announced included, whatever the interleaving of
\* commits, polls, time-outs and reconnections.
AnnouncedIsProjected ==
  \A n \in 1 .. MaxEvents :
    pending /\ ~dropped /\ committed >= n ~> consumed >= n \/ dropped \/ ~running

\* shutdown ends the loop, wherever the thread is when the flag goes down and
\* the connection is closed under it.
ShutdownStops == ~running ~> thread \in {"stopped", "dead"}
=============================================================================
