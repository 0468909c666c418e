------------------------------- MODULE Outbox -------------------------------
(***************************************************************************)
(* The publishers with an outbox of the pub/sub library.  An event is      *)
(* written to the table outbox in the transaction of its caller            *)
(* (OutboxPublisher, PersistedPublisher), published after the commit, and  *)
(* deleted when the topic has acknowledged it (PublishAckHandler, which    *)
(* collects acknowledgements in batches).  OutboxDrainer publishes again   *)
(* what has been in the table for too long.  Everything but the table is   *)
(* memory and dies with its instance.  An event stands for its key (id,    *)
(* version, topic): callers give every event one of its own.               *)
(***************************************************************************)
EXTENDS Naturals, FiniteSets, Sequences, FiniteSetsExt, SequencesExt

CONSTANTS
  Events,
  Retired,        \* events whose topic has no publisher after a redeployment
  Threads,        \* callers' threads
  Instances,      \* running copies of the service
  InstanceOf,     \* where a thread runs
  MaxBatchSize,   \* maxAckBatchSize of the publishers
  DrainLimit,     \* eventbus.publish.drainLimit
  MaxInFlight,    \* bound: attempts of one event an instance has outstanding
  MaxFailures,    \* bound: failed publications and failed deletes
  MaxCrashes      \* bound: instances that stop or die

ASSUME OutboxAssumption ==
  /\ InstanceOf \in [Threads -> Instances]
  /\ Retired \subseteq Events
  /\ MaxBatchSize \in Nat \ {0}
  /\ DrainLimit \in Nat \ {0}
  /\ MaxInFlight \in Nat \ {0}
  /\ MaxFailures \in Nat /\ MaxCrashes \in Nat

VARIABLES
  outbox,         \* committed rows
  old,            \* rows older than republishThresholdInSeconds
  uncommitted,    \* rows of each thread's open transaction
  triggers,       \* the ThreadLocal of PublishTriggerRepository
  inFlight,       \* publications an instance waits for
  pendingEvents,  \* acknowledged events waiting for a full batch
  deleting,       \* batches on their way to the database
  draining,       \* rows the running drain has still to publish
  running,        \* SmartLifecycle flag of the drainer
  failures,
  crashes,
  committed,      \* history: events whose transaction committed
  delivered       \* history: events the topic has received

tableVars  == <<outbox, old>>
callerVars == <<uncommitted, triggers>>
ackVars    == <<pendingEvents, deleting>>
drainVars  == <<draining, running>>
vars == <<tableVars, callerVars, inFlight, ackVars, drainVars, failures,
          crashes, committed, delivered>>

Init ==
  /\ outbox = {}
  /\ old = {}
  /\ uncommitted = [t \in Threads |-> {}]
  /\ triggers = [t \in Threads |-> {}]
  /\ inFlight = [i \in Instances |-> [e \in Events |-> 0]]
  /\ pendingEvents = [i \in Instances |-> <<>>]
  /\ deleting = [i \in Instances |-> {}]
  /\ draining = [i \in Instances |-> {}]
  /\ running = [i \in Instances |-> TRUE]
  /\ failures = 0
  /\ crashes = 0
  /\ committed = {}
  /\ delivered = {}

-----------------------------------------------------------------------------
(* The caller: persist in a transaction, publish after it                  *)

Orphans == IF crashes > 0 THEN Retired ELSE {}
Written == outbox \cup UNION {uncommitted[t] : t \in Threads}

\* persist writes a collection with one statement; the unique index refuses it
\* as a whole when one key is there already, and the caller rolls back.
Persist(t, batch) ==
  /\ running[InstanceOf[t]]
  /\ batch # {}
  /\ batch \cap (committed \cup Written \cup Orphans) = {}
  /\ uncommitted' = [uncommitted EXCEPT ![t] = @ \cup batch]
  /\ triggers' = [triggers EXCEPT ![t] = @ \cup batch]
  /\ UNCHANGED <<tableVars, inFlight, ackVars, drainVars, failures, crashes,
                 committed, delivered>>

Commit(t) ==
  /\ uncommitted[t] # {}
  /\ outbox' = outbox \cup uncommitted[t]
  /\ committed' = committed \cup uncommitted[t]
  /\ uncommitted' = [uncommitted EXCEPT ![t] = {}]
  /\ UNCHANGED <<old, triggers, inFlight, ackVars, drainVars,
                 failures, crashes, delivered>>

\* Mutant of Rollback: the triggers outlive the transaction.
RollbackOnly(t) ==
  /\ uncommitted[t] # {}
  /\ uncommitted' = [uncommitted EXCEPT ![t] = {}]
  /\ UNCHANGED <<tableVars, triggers, inFlight, ackVars, drainVars, failures,
                 crashes, committed, delivered>>

\* The transaction rolls back and the caller clears its triggers.
Rollback(t) ==
  /\ uncommitted[t] # {}
  /\ uncommitted' = [uncommitted EXCEPT ![t] = {}]
  /\ triggers' = [triggers EXCEPT ![t] = {}]
  /\ UNCHANGED <<tableVars, inFlight, ackVars, drainVars, failures, crashes,
                 committed, delivered>>

Send(i, events) ==
  inFlight' = [inFlight EXCEPT ![i] =
                 [e \in Events |-> @[e] + (IF e \in events THEN 1 ELSE 0)]]

CanFail == failures < MaxFailures /\ failures' = failures + 1

\* PublishTriggerRepository.publish: every trigger, unless one throws; then clear.
PublishTriggers(t) ==
  /\ uncommitted[t] = {}
  /\ triggers[t] # {}
  /\ \/ Send(InstanceOf[t], triggers[t]) /\ UNCHANGED failures
     \/ CanFail /\ \E sent \in SUBSET triggers[t] : Send(InstanceOf[t], sent)
  /\ triggers' = [triggers EXCEPT ![t] = {}]
  /\ UNCHANGED <<tableVars, uncommitted, ackVars, drainVars, crashes, committed,
                 delivered>>

-----------------------------------------------------------------------------
(* The publication's future and PublishAckHandler                          *)

Answered(i, e) == inFlight' = [inFlight EXCEPT ![i][e] = @ - 1]

\* Mutant of HandleAck: the list is looked at before the event is added.
HandleAckOffByOne(i, e) ==
  IF Len(pendingEvents[i]) = MaxBatchSize
  THEN /\ pendingEvents' = [pendingEvents EXCEPT ![i] = <<e>>]
       /\ deleting' = [deleting EXCEPT ![i] = @ \cup {ToSet(pendingEvents[i])}]
  ELSE /\ pendingEvents' = [pendingEvents EXCEPT ![i] = Append(@, e)]
       /\ UNCHANGED deleting

\* handle collects the event; a full batch leaves the lock to be deleted.
HandleAck(i, e) ==
  LET acked == Append(pendingEvents[i], e) IN
  IF Len(acked) = MaxBatchSize
  THEN /\ pendingEvents' = [pendingEvents EXCEPT ![i] = <<>>]
       /\ deleting' = [deleting EXCEPT ![i] = @ \cup {ToSet(acked)}]
  ELSE /\ pendingEvents' = [pendingEvents EXCEPT ![i] = acked]
       /\ UNCHANGED deleting

PublishSucceeds(i, e) ==
  /\ inFlight[i][e] > 0
  /\ Answered(i, e)
  /\ delivered' = delivered \cup {e}
  /\ HandleAck(i, e)
  /\ UNCHANGED <<tableVars, callerVars, drainVars, failures, crashes, committed>>

\* Mutant of PublishFails: the callback does not look at the exception.
PublishFailsHandled(i, e) ==
  /\ inFlight[i][e] > 0
  /\ CanFail
  /\ Answered(i, e)
  /\ HandleAck(i, e)
  /\ delivered' \in {delivered, delivered \cup {e}}
  /\ UNCHANGED <<tableVars, callerVars, drainVars, crashes, committed>>

\* The future fails, whether the topic has the message or not.
PublishFails(i, e) ==
  /\ inFlight[i][e] > 0
  /\ CanFail
  /\ Answered(i, e)
  /\ delivered' \in {delivered, delivered \cup {e}}
  /\ UNCHANGED <<tableVars, callerVars, ackVars, drainVars, crashes, committed>>

\* Mutant of Flush: the list is cleared before it is copied.
FlushCleared(i) ==
  /\ MaxBatchSize > 1
  /\ pendingEvents[i] # <<>>
  /\ pendingEvents' = [pendingEvents EXCEPT ![i] = <<>>]
  /\ UNCHANGED <<tableVars, callerVars, inFlight, deleting, drainVars, failures,
                 crashes, committed, delivered>>

\* The periodic flush, which exists when batches do.
Flush(i) ==
  /\ MaxBatchSize > 1
  /\ pendingEvents[i] # <<>>
  /\ pendingEvents' = [pendingEvents EXCEPT ![i] = <<>>]
  /\ deleting' = [deleting EXCEPT ![i] = @ \cup {ToSet(pendingEvents[i])}]
  /\ UNCHANGED <<tableVars, callerVars, inFlight, drainVars, failures, crashes,
                 committed, delivered>>

\* deleteFromOutbox deletes by key, one statement for the batch.
DeleteFromOutbox(i, batch) ==
  /\ batch \in deleting[i]
  /\ outbox' = outbox \ batch
  /\ old' = old \ batch
  /\ deleting' = [deleting EXCEPT ![i] = @ \ {batch}]
  /\ UNCHANGED <<callerVars, inFlight, pendingEvents, drainVars,
                 failures, crashes, committed, delivered>>

\* The exception ends in the future or in the scheduler; the batch is forgotten.
DeleteFails(i, batch) ==
  /\ batch \in deleting[i]
  /\ CanFail
  /\ deleting' = [deleting EXCEPT ![i] = @ \ {batch}]
  /\ UNCHANGED <<tableVars, callerVars, inFlight, pendingEvents, drainVars,
                 crashes, committed, delivered>>

-----------------------------------------------------------------------------
(* OutboxDrainer                                                           *)

Age(e) ==
  /\ e \in outbox \ old
  /\ old' = old \cup {e}
  /\ UNCHANGED <<outbox, callerVars, inFlight, ackVars, drainVars,
                 failures, crashes, committed, delivered>>

\* One query reads at most DrainLimit rows, in no order; each row is published
\* as it is read.
StartDrain(i) ==
  /\ running[i]
  /\ draining[i] = {}
  /\ old # {}
  /\ \A e \in old : inFlight[i][e] < MaxInFlight
  /\ \E rows \in SUBSET old :
       /\ Cardinality(rows) = Min({DrainLimit, Cardinality(old)})
       /\ draining' = [draining EXCEPT ![i] = rows]
  /\ UNCHANGED <<tableVars, callerVars, inFlight, ackVars, running, failures,
                 crashes, committed, delivered>>

RePublish(i) ==
  \E e \in draining[i] \ Orphans :
    /\ Send(i, {e})
    /\ draining' = [draining EXCEPT ![i] = @ \ {e}]
    /\ UNCHANGED <<tableVars, callerVars, ackVars, running, failures, crashes,
                   committed, delivered>>

\* Mutant of DrainFails: the row in the way is dropped.
DrainFailsDropping(i) ==
  /\ CanFail
  /\ \E e \in draining[i] : /\ outbox' = outbox \ {e}
                            /\ old' = old \ {e}
  /\ draining' = [draining EXCEPT ![i] = {}]
  /\ UNCHANGED <<callerVars, inFlight, ackVars, running, crashes, committed,
                 delivered>>

\* An exception at a row ends the drain before the rows behind it: the query or
\* the publisher fails, or "Publisher for topic ... is missing".
DrainFails(i) ==
  /\ draining[i] # {}
  /\ \/ draining[i] \cap Orphans # {} /\ UNCHANGED failures
     \/ CanFail
  /\ draining' = [draining EXCEPT ![i] = {}]
  /\ UNCHANGED <<tableVars, callerVars, inFlight, ackVars, running, crashes,
                 committed, delivered>>

-----------------------------------------------------------------------------
(* The life of an instance                                                 *)

Start(i) ==
  /\ ~running[i]
  /\ running' = [running EXCEPT ![i] = TRUE]
  /\ UNCHANGED <<tableVars, callerVars, inFlight, ackVars, draining, failures,
                 crashes, committed, delivered>>

\* The instance dies with its memory and its open transactions; what it had sent
\* may have arrived.
Crash(i) ==
  LET Lost(t) == InstanceOf[t] = i IN
  /\ crashes < MaxCrashes
  /\ crashes' = crashes + 1
  /\ uncommitted' = [t \in Threads |-> IF Lost(t) THEN {} ELSE uncommitted[t]]
  /\ triggers' = [t \in Threads |-> IF Lost(t) THEN {} ELSE triggers[t]]
  /\ inFlight' = [inFlight EXCEPT ![i] = [e \in Events |-> 0]]
  /\ pendingEvents' = [pendingEvents EXCEPT ![i] = <<>>]
  /\ deleting' = [deleting EXCEPT ![i] = {}]
  /\ draining' = [draining EXCEPT ![i] = {}]
  /\ running' = [running EXCEPT ![i] = FALSE]
  /\ \E arrived \in SUBSET {e \in Events : inFlight[i][e] > 0} :
       delivered' = delivered \cup arrived
  /\ UNCHANGED <<tableVars, failures, committed>>

-----------------------------------------------------------------------------

CallerStep(t) ==
  \/ \E batch \in SUBSET Events : Persist(t, batch)
  \/ Rollback(t)
  \/ Commit(t)
  \/ PublishTriggers(t)

DrainStep(i) == StartDrain(i) \/ RePublish(i) \/ DrainFails(i)

DeleteStep(i) == \E batch \in deleting[i] : DeleteFromOutbox(i, batch)

InstanceStep(i) ==
  \/ DrainStep(i)
  \/ DeleteStep(i)
  \/ Flush(i)
  \/ Start(i)
  \/ Crash(i)
  \/ \E e \in Events : PublishSucceeds(i, e) \/ PublishFails(i, e)
  \/ \E batch \in deleting[i] : DeleteFails(i, batch)

Next ==
  \/ \E t \in Threads : CallerStep(t)
  \/ \E i \in Instances : InstanceStep(i)
  \/ \E e \in Events : Age(e)

\* Rows age; a dead instance is started again; the scheduler runs the drain and
\* the flush; publications are answered and deletes executed.  A caller may stop
\* at any point.
Fairness ==
  /\ \A e \in Events : WF_vars(Age(e))
  /\ \A i \in Instances :
       /\ WF_vars(Start(i))
       /\ WF_vars(DrainStep(i))
       /\ WF_vars(Flush(i))
       /\ \A e \in Events : WF_vars(PublishSucceeds(i, e))
       /\ WF_vars(DeleteStep(i))

Spec == Init /\ [][Next]_vars /\ Fairness

-----------------------------------------------------------------------------
(* Correctness *)

TypeOK ==
  /\ outbox \subseteq Events
  /\ old \subseteq outbox
  /\ uncommitted \in [Threads -> SUBSET Events]
  /\ triggers \in [Threads -> SUBSET Events]
  /\ inFlight \in [Instances -> [Events -> Nat]]
  /\ pendingEvents \in [Instances -> SeqOf(Events, MaxBatchSize - 1)]
  /\ deleting \in [Instances -> SUBSET SUBSET Events]
  /\ draining \in [Instances -> SUBSET Events]
  /\ running \in [Instances -> BOOLEAN]
  /\ failures \in 0 .. MaxFailures
  /\ crashes \in 0 .. MaxCrashes
  /\ committed \subseteq Events
  /\ delivered \subseteq Events

\* Until the topic has an event whose transaction committed, its row is there:
\* no acknowledgement, batch, failed delete or crash takes it away too early.
KeptUntilDelivered == committed \subseteq outbox \cup delivered

\* An event of a transaction that did not commit is never published, whatever
\* else its thread and its instance do afterwards.
NoPhantomEvent == delivered \subseteq committed

Promise == INSTANCE AtLeastOnce WITH Events <- Events,
                                     committed <- committed,
                                     delivered <- delivered

\* "Guaranteed at-least-once delivery once the transaction scope ... has been
\* committed", over failed publications and deletes, lost acknowledgements and
\* instances that die at any point.
ImplementsAtLeastOnce == Promise!Spec

\* "Eventual delivery is still guaranteed from the OutboxDrainer" once the
\* transaction has committed, for every topic that has a publisher.
GuaranteedFromDrainer ==
  \A e \in Events \ Retired : e \in committed ~> e \in delivered

\* A delivered event leaves the table in the end, and with it the drainer.
DeliveredIsForgotten ==
  \A e \in Events : e \in delivered ~> e \notin outbox
=============================================================================
