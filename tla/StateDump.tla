------------------------------ MODULE StateDump ------------------------------
(***************************************************************************)
(* Bootstrapping a consumer of the pub/sub library.  A service that owns   *)
(* a state publishes its changes through an outbox (AtLeastOnce) and from  *)
(* time to time dumps the state into a bucket (StateDumpService): it takes *)
(* a snapshot of the topic first and reads the state afterwards.  A        *)
(* consumer reads the latest dump (StateDumpReader), seeks its             *)
(* subscription to the snapshot of that name (Subscriber.seekToSnapshot)   *)
(* and goes on from there, in batches (EventBatchHandler).                 *)
(*                                                                         *)
(* An event stands for one change of the state; a state is the set of      *)
(* changes it reflects.  A subscription is the set of events it has still  *)
(* to hand out: Pub/Sub keeps an event there until it is acknowledged, and *)
(* a snapshot keeps such a set and all that is published later.            *)
(***************************************************************************)
EXTENDS Naturals, FiniteSets, Sequences, SequencesExt

CONSTANTS
  Events,
  Consumers,
  Dumps,          \* runs of performStateDump; a number is the name of a dump
  MaxBatchSize,   \* maxBatchSize of EventBatchHandler
  MaxFailures,    \* bound: failed steps, crashes, deliveries that come twice
  MaxExpired      \* bound: snapshots that reach the end of their retention

\* Names are times: of some dumps one is the latest.
ASSUME StateDumpAssumption ==
  /\ Dumps \subseteq Nat \ {0}
  /\ \A S \in SUBSET Dumps : S # {} => \E d \in S : \A other \in S : other <= d
  /\ MaxBatchSize \in Nat \ {0}
  /\ MaxFailures \in Nat /\ MaxExpired \in Nat

VARIABLES
  committed,      \* the owner's state: events whose transaction committed
  published,      \* events the topic has received
  dumpStage,      \* how far a run of performStateDump is
  uncovered,      \* events the supplier has still to look at
  content,        \* events written to the dump's blob
  writeFailed,    \* failedWriteCount > 0
  covered,        \* backlog of the run's own subscription, then its snapshot
  snapshots,      \* snapshots that exist
  expired,        \* snapshots that are gone
  stage,          \* the life of a consumer
  restoredFrom,   \* the dump a consumer has read
  state,          \* events a consumer's state reflects
  backlog,        \* events a consumer's subscription has still to hand out
  pendingEvents,  \* events waiting for a full batch
  handling,       \* batches the application's handler works on
  failures

ownerVars == <<committed, published>>
dumpVars  == <<dumpStage, uncovered, content, writeFailed>>
snapVars  == <<covered, snapshots, expired>>
batchVars == <<pendingEvents, handling>>
consumerVars == <<stage, restoredFrom, state, backlog, batchVars>>
vars == <<ownerVars, dumpVars, snapVars, consumerVars, failures>>

NoDump == 0

Init ==
  /\ committed = {} /\ published = {}
  /\ dumpStage = [d \in Dumps |-> "new"]
  /\ uncovered = [d \in Dumps |-> {}]
  /\ content = [d \in Dumps |-> {}]
  /\ writeFailed = [d \in Dumps |-> FALSE]
  /\ covered = [d \in Dumps |-> {}]
  /\ snapshots = {}
  /\ expired = 0
  /\ stage = [c \in Consumers |-> "down"]
  /\ restoredFrom = [c \in Consumers |-> NoDump]
  /\ state = [c \in Consumers |-> {}]
  /\ backlog = [c \in Consumers |-> {}]
  /\ pendingEvents = [c \in Consumers |-> <<>>]
  /\ handling = [c \in Consumers |-> {}]
  /\ failures = 0

CanFail == failures < MaxFailures /\ failures' = failures + 1

-----------------------------------------------------------------------------
(* The owner of the state, as far as the outbox publishers promise it      *)

Publisher == INSTANCE AtLeastOnce WITH Events <- Events,
                                       committed <- committed,
                                       delivered <- published

Commit(e) ==
  /\ e \notin committed
  /\ Publisher!Accept({e})
  /\ UNCHANGED <<dumpVars, snapVars, consumerVars, failures>>

\* The subscriptions a run of performStateDump or a consumer has, and the
\* snapshots taken of the former.
Subscribed(d) == dumpStage[d] = "subscribed" \/ d \in snapshots
HasSubscription(c) == stage[c] \notin {"down", "closing", "stopping", "failed"}

Publish(e) ==
  /\ Publisher!Deliver({e})
  /\ covered' = [d \in Dumps |-> IF Subscribed(d) THEN covered[d] \cup {e}
                                                  ELSE covered[d]]
  /\ backlog' = [c \in Consumers |-> IF HasSubscription(c)
                                     THEN backlog[c] \cup {e} ELSE backlog[c]]
  /\ UNCHANGED <<dumpVars, snapshots, expired, stage, restoredFrom, state,
                 batchVars, failures>>

-----------------------------------------------------------------------------
(* StateDumpService.performStateDump                                       *)

\* createSnapshot first makes a subscription of its own.
CreateSubscription(d) ==
  /\ dumpStage[d] = "new"
  /\ dumpStage' = [dumpStage EXCEPT ![d] = "subscribed"]
  /\ UNCHANGED <<ownerVars, uncovered, content, writeFailed, snapVars,
                 consumerVars, failures>>

\* The snapshot is taken, after retries where it must, and the subscription
\* deleted; then the supplier starts.
CreateSnapshot(d) ==
  /\ dumpStage[d] = "subscribed"
  /\ dumpStage' = [dumpStage EXCEPT ![d] = "dumping"]
  /\ snapshots' = snapshots \cup {d}
  /\ uncovered' = [uncovered EXCEPT ![d] = Events]
  /\ UNCHANGED <<ownerVars, content, writeFailed, covered, expired,
                 consumerVars, failures>>

\* Mutant of SupplyEvent: a failed write is logged but not counted.
SupplyEventUncounted(d, e) ==
  /\ dumpStage[d] = "dumping"
  /\ e \in uncovered[d]
  /\ uncovered' = [uncovered EXCEPT ![d] = @ \ {e}]
  /\ \/ content' = [content EXCEPT ![d] = @ \cup ({e} \cap committed)]
        /\ UNCHANGED failures
     \/ e \in committed /\ CanFail /\ UNCHANGED content
  /\ UNCHANGED <<ownerVars, dumpStage, writeFailed, snapVars, consumerVars>>

\* The supplier looks at the owner's state in its own order and pace and hands
\* it to the dumper; a write that fails is counted and the dump goes on.
SupplyEvent(d, e) ==
  /\ dumpStage[d] = "dumping"
  /\ e \in uncovered[d]
  /\ uncovered' = [uncovered EXCEPT ![d] = @ \ {e}]
  /\ \/ content' = [content EXCEPT ![d] = @ \cup ({e} \cap committed)]
        /\ UNCHANGED <<writeFailed, failures>>
     \/ e \in committed /\ CanFail /\ UNCHANGED content
        /\ writeFailed' = [writeFailed EXCEPT ![d] = TRUE]
  /\ UNCHANGED <<ownerVars, dumpStage, snapVars, consumerVars>>

\* No reader will find the dump or ask for its snapshot.
Abandon(d) ==
  /\ dumpStage' = [dumpStage EXCEPT ![d] = "failed"]
  /\ uncovered' = [uncovered EXCEPT ![d] = {}]
  /\ content' = [content EXCEPT ![d] = {}]
  /\ writeFailed' = [writeFailed EXCEPT ![d] = FALSE]
  /\ covered' = [covered EXCEPT ![d] = {}]
  /\ snapshots' = snapshots \ {d}
  /\ UNCHANGED expired

\* The pending blob is renamed to dump_<time>/..., where readers look, unless a
\* write failed; then it is deleted.
FinishDump(d) ==
  /\ dumpStage[d] = "dumping"
  /\ uncovered[d] = {}
  /\ \/ /\ ~writeFailed[d]
        /\ dumpStage' = [dumpStage EXCEPT ![d] = "stored"]
        /\ UNCHANGED <<uncovered, content, writeFailed, snapVars>>
     \/ writeFailed[d] /\ Abandon(d)
  /\ UNCHANGED <<ownerVars, consumerVars, failures>>

\* An exception of a step before the rename, or the end of the process: the
\* pending blob is deleted or left where no reader looks.
DumpFails(d) ==
  /\ dumpStage[d] \in {"subscribed", "dumping"}
  /\ CanFail
  /\ Abandon(d)
  /\ UNCHANGED <<ownerVars, consumerVars>>

\* Pub/Sub drops a snapshot at the end of its retention; the blob stays.
SnapshotExpires(d) ==
  /\ expired < MaxExpired
  /\ d \in snapshots
  /\ snapshots' = snapshots \ {d}
  /\ covered' = [covered EXCEPT ![d] = {}]
  /\ expired' = expired + 1
  /\ UNCHANGED <<ownerVars, dumpVars, consumerVars, failures>>

-----------------------------------------------------------------------------
(* A consumer starts: subscription, latest dump, seek, subscribe           *)

CreateDynamicSubscription(c) ==
  /\ stage[c] = "down"
  /\ stage' = [stage EXCEPT ![c] = "created"]
  /\ UNCHANGED <<ownerVars, dumpVars, snapVars, restoredFrom, state, backlog,
                 batchVars, failures>>

Stored == {d \in Dumps : dumpStage[d] = "stored"}
\* The greatest name; names are times.
FindLatestStateDump == CHOOSE d \in Stored : \A other \in Stored : other <= d

RestoreState(c) ==
  /\ stage[c] = "created"
  /\ Stored # {}
  /\ restoredFrom' = [restoredFrom EXCEPT ![c] = FindLatestStateDump]
  /\ state' = [state EXCEPT ![c] = content[FindLatestStateDump]]
  /\ stage' = [stage EXCEPT ![c] = "restored"]
  /\ UNCHANGED <<ownerVars, dumpVars, snapVars, backlog, batchVars, failures>>

\* seekToSnapshot moves the subscription, or returns false when Pub/Sub lists
\* no such snapshot; the application then looks for a dump again.
SeekToSnapshot(c) ==
  LET d == restoredFrom[c] IN
  /\ stage[c] = "restored"
  /\ \/ /\ d \in snapshots
        /\ backlog' = [backlog EXCEPT ![c] = covered[d]]
        /\ stage' = [stage EXCEPT ![c] = "sought"]
     \/ /\ d \notin snapshots
        /\ stage' = [stage EXCEPT ![c] = "created"]
        /\ UNCHANGED backlog
  /\ UNCHANGED <<ownerVars, dumpVars, snapVars, restoredFrom, state,
                 batchVars, failures>>

\* pubSubTemplate.subscribe: messages arrive from here on.
Subscribe(c) ==
  /\ stage[c] = "sought"
  /\ stage' = [stage EXCEPT ![c] = "subscribed"]
  /\ UNCHANGED <<ownerVars, dumpVars, snapVars, restoredFrom, state, backlog,
                 batchVars, failures>>

\* Only now does anybody hear of a failure of the subscriber.
AddListener(c) ==
  /\ stage[c] = "subscribed"
  /\ stage' = [stage EXCEPT ![c] = "listening"]
  /\ UNCHANGED <<ownerVars, dumpVars, snapVars, restoredFrom, state, backlog,
                 batchVars, failures>>

-----------------------------------------------------------------------------
(* Subscriber.receiveMessage and EventBatchHandler                         *)

Receiving(c) == stage[c] \in {"subscribed", "listening"}
InProcess(c) == ToSet(pendingEvents[c]) \cup UNION handling[c]

\* Mutant of Handle: the list is looked at before the event is added.
HandleOffByOne(c, e) ==
  IF Len(pendingEvents[c]) = MaxBatchSize
  THEN /\ pendingEvents' = [pendingEvents EXCEPT ![c] = <<e>>]
       /\ handling' = [handling EXCEPT ![c] = @ \cup {ToSet(pendingEvents[c])}]
  ELSE /\ pendingEvents' = [pendingEvents EXCEPT ![c] = Append(@, e)]
       /\ UNCHANGED handling

\* EventBatchHandler.handle collects the event; a full batch leaves the lock and
\* goes to the application's handler.
Handle(c, e) ==
  LET batch == Append(pendingEvents[c], e) IN
  IF Len(batch) = MaxBatchSize
  THEN /\ pendingEvents' = [pendingEvents EXCEPT ![c] = <<>>]
       /\ handling' = [handling EXCEPT ![c] = @ \cup {ToSet(batch)}]
  ELSE /\ pendingEvents' = [pendingEvents EXCEPT ![c] = batch]
       /\ UNCHANGED handling

\* A message is handed out once, or again when its lease runs out.  (One that
\* cannot be parsed is refused, which leaves it where it is.)  What the client
\* has already buffered comes after the subscription is deleted.
Receive(c, e) ==
  /\ e \in backlog[c]
  /\ Receiving(c) \/ stage[c] = "closing"
  /\ \/ e \notin InProcess(c) /\ UNCHANGED failures
     \/ e \in InProcess(c) /\ Receiving(c) /\ CanFail
  /\ Handle(c, e)
  /\ UNCHANGED <<ownerVars, dumpVars, snapVars, stage, restoredFrom, state,
                 backlog>>

\* The periodic flush.
Flush(c) ==
  /\ pendingEvents[c] # <<>>
  /\ pendingEvents' = [pendingEvents EXCEPT ![c] = <<>>]
  /\ handling' = [handling EXCEPT ![c] = @ \cup {ToSet(pendingEvents[c])}]
  /\ UNCHANGED <<ownerVars, dumpVars, snapVars, stage, restoredFrom, state,
                 backlog, failures>>

\* The handler's future completes, then those of the batch, then the messages
\* are acknowledged; Pub/Sub may miss the acknowledgements.
BatchSucceeds(c, batch) ==
  /\ batch \in handling[c]
  /\ handling' = [handling EXCEPT ![c] = @ \ {batch}]
  /\ state' = [state EXCEPT ![c] = @ \cup batch]
  /\ \/ backlog' = [backlog EXCEPT ![c] = @ \ batch] /\ UNCHANGED failures
     \/ UNCHANGED backlog /\ CanFail
  /\ UNCHANGED <<ownerVars, dumpVars, snapVars, stage, restoredFrom,
                 pendingEvents>>

\* Mutant of BatchFails: the callback does not look at the exception.
BatchFailsAcked(c, batch) ==
  /\ batch \in handling[c]
  /\ CanFail
  /\ handling' = [handling EXCEPT ![c] = @ \ {batch}]
  /\ backlog' = [backlog EXCEPT ![c] = @ \ batch]
  /\ UNCHANGED <<ownerVars, dumpVars, snapVars, stage, restoredFrom, state,
                 pendingEvents>>

\* The handler throws or its future fails: every message of the batch is
\* refused, and handed out again.
BatchFails(c, batch) ==
  /\ batch \in handling[c]
  /\ CanFail
  /\ handling' = [handling EXCEPT ![c] = @ \ {batch}]
  /\ UNCHANGED <<ownerVars, dumpVars, snapVars, stage, restoredFrom, state,
                 backlog, pendingEvents>>

-----------------------------------------------------------------------------
(* The end of a consumer                                                   *)

Stop(c) ==
  /\ stage' = [stage EXCEPT ![c] = "down"]
  /\ restoredFrom' = [restoredFrom EXCEPT ![c] = NoDump]
  /\ state' = [state EXCEPT ![c] = {}]
  /\ backlog' = [backlog EXCEPT ![c] = {}]
  /\ pendingEvents' = [pendingEvents EXCEPT ![c] = <<>>]
  /\ handling' = [handling EXCEPT ![c] = {}]

\* The context closes.  DynamicSubscriptionDeleter is a SmartLifecycle: it deletes
\* the subscription before a bean is destroyed, so under a subscriber that runs.
DeleteDynamicSubscription(c) ==
  /\ \/ stage[c] = "listening" /\ stage' = [stage EXCEPT ![c] = "closing"]
     \/ stage[c] = "unheard" /\ stage' = [stage EXCEPT ![c] = "failed"]
  /\ UNCHANGED <<ownerVars, dumpVars, snapVars, restoredFrom, state, backlog,
                 batchVars, failures>>

\* Pub/Sub may tell the subscriber in time, which fails it.
SubscriptionNotFound(c) ==
  /\ stage[c] \in {"closing", "stopping"}
  /\ stage' = [stage EXCEPT ![c] = "failed"]
  /\ UNCHANGED <<ownerVars, dumpVars, snapVars, restoredFrom, state, backlog,
                 batchVars, failures>>

\* Mutant of StopAsync: the subscriber is stopped when nothing is handed out.
StopAsyncWhenIdle(c) ==
  /\ stage[c] = "closing"
  /\ InProcess(c) = {}
  /\ stage' = [stage EXCEPT ![c] = "stopping"]
  /\ UNCHANGED <<ownerVars, dumpVars, snapVars, restoredFrom, state, backlog,
                 batchVars, failures>>

\* The bean is destroyed: gracefulShutdown stops the subscriber ...
StopAsync(c) ==
  /\ stage[c] = "closing"
  /\ stage' = [stage EXCEPT ![c] = "stopping"]
  /\ UNCHANGED <<ownerVars, dumpVars, snapVars, restoredFrom, state, backlog,
                 batchVars, failures>>

\* ... and waits for every message it was handed; then the process ends.
AwaitTerminated(c) ==
  /\ stage[c] = "stopping"
  /\ InProcess(c) = {}
  /\ Stop(c)
  /\ UNCHANGED <<ownerVars, dumpVars, snapVars, failures>>

\* For a subscriber that has failed there is nothing to stop and awaitTerminated
\* throws; the container goes on to the next bean.
AwaitThrows(c) ==
  /\ stage[c] = "failed"
  /\ Stop(c)
  /\ UNCHANGED <<ownerVars, dumpVars, snapVars, failures>>

\* The subscriber fails, for instance because its subscription is gone.  The
\* listener breaks the process's liveness state, and it is started again;
\* without a listener nobody hears of it.
SubscriberFails(c) ==
  /\ CanFail
  /\ \/ /\ stage[c] = "listening"
        /\ Stop(c)
     \/ /\ stage[c] = "subscribed"
        /\ stage' = [stage EXCEPT ![c] = "unheard"]
        /\ UNCHANGED <<restoredFrom, state, backlog, batchVars>>
  /\ UNCHANGED <<ownerVars, dumpVars, snapVars>>

Crash(c) ==
  /\ stage[c] # "down"
  /\ CanFail
  /\ Stop(c)
  /\ UNCHANGED <<ownerVars, dumpVars, snapVars>>

-----------------------------------------------------------------------------

OwnerStep == \E e \in Events : Commit(e) \/ Publish(e)

DumpStep(d) ==
  \/ CreateSubscription(d)
  \/ CreateSnapshot(d)
  \/ \E e \in Events : SupplyEvent(d, e)
  \/ FinishDump(d)
  \/ DumpFails(d)
  \/ SnapshotExpires(d)

StartStep(c) ==
  \/ CreateDynamicSubscription(c)
  \/ RestoreState(c)
  \/ SeekToSnapshot(c)
  \/ Subscribe(c)
  \/ AddListener(c)

BatchStep(c) ==
  \/ \E e \in Events : Receive(c, e)
  \/ Flush(c)
  \/ \E batch \in handling[c] : BatchSucceeds(c, batch) \/ BatchFails(c, batch)

EndStep(c) ==
  \/ DeleteDynamicSubscription(c)
  \/ SubscriptionNotFound(c)
  \/ StopAsync(c)
  \/ AwaitTerminated(c)
  \/ AwaitThrows(c)
  \/ SubscriberFails(c)
  \/ Crash(c)

Next ==
  \/ OwnerStep
  \/ \E d \in Dumps : DumpStep(d)
  \/ \E c \in Consumers : StartStep(c) \/ BatchStep(c) \/ EndStep(c)

\* While a subscriber runs, Pub/Sub hands out what it has not acknowledged and
\* the scheduler flushes.  Once the context closes neither is certain: the
\* scheduler is shut down with the other beans.  The handler's futures complete,
\* and a shutdown goes on where it can.  Nobody need change or dump the state, or
\* stop a consumer.
Fairness ==
  \A c \in Consumers :
    /\ WF_vars(Receiving(c) /\ Flush(c))
    /\ WF_vars(StopAsync(c)) /\ WF_vars(AwaitTerminated(c)) /\ WF_vars(AwaitThrows(c))
    /\ \A batch \in SUBSET Events : WF_vars(BatchSucceeds(c, batch))
    /\ \A e \in Events :
         WF_vars(Receiving(c) /\ e \notin InProcess(c) /\ Receive(c, e))

Spec == Init /\ [][Next]_vars /\ Fairness

-----------------------------------------------------------------------------
(* Correctness *)

Stages == {"down", "created", "restored", "sought", "subscribed", "listening",
           "unheard", "closing", "stopping", "failed"}

TypeOK ==
  /\ committed \subseteq Events /\ published \subseteq Events
  /\ dumpStage \in [Dumps -> {"new", "subscribed", "dumping", "stored", "failed"}]
  /\ uncovered \in [Dumps -> SUBSET Events]
  /\ content \in [Dumps -> SUBSET Events]
  /\ writeFailed \in [Dumps -> BOOLEAN]
  /\ covered \in [Dumps -> SUBSET Events]
  /\ snapshots \subseteq Dumps
  /\ expired \in 0 .. MaxExpired
  /\ stage \in [Consumers -> Stages]
  /\ restoredFrom \in [Consumers -> Dumps \cup {NoDump}]
  /\ state \in [Consumers -> SUBSET Events]
  /\ backlog \in [Consumers -> SUBSET Events]
  /\ pendingEvents \in [Consumers -> SeqOf(Events, MaxBatchSize - 1)]
  /\ handling \in [Consumers -> SUBSET SUBSET Events]
  /\ failures \in 0 .. MaxFailures

InStep(c) == stage[c] \in {"sought", "subscribed", "listening", "unheard"}

\* A consumer that has restored a dump and sought its snapshot misses nothing:
\* whatever was committed and published, before, during or after the dump, is
\* reflected in its state or is still to be handed to it.
NothingIsMissed ==
  \A c \in Consumers : InStep(c) => published \subseteq state[c] \cup backlog[c]

\* A running subscriber brings its state up to what is published, full batch
\* or not, over failed batches and lost acknowledgements, unless it ends or
\* fails with no listener.
CatchesUp ==
  \A c \in Consumers, e \in Events :
    Receiving(c) /\ e \in published ~> e \in state[c] \/ ~Receiving(c)

\* A graceful shutdown ends, whether or not the subscriber notices in time that
\* its subscription is gone, and whatever becomes of the batches at work: all
\* that can hold awaitTerminated up for ever is a batch that is not full when no
\* flush is scheduled any more.
ShutdownEnds ==
  \A c \in Consumers :
    stage[c] \in {"closing", "failed"} ~>
      \/ stage[c] = "down"
      \/ [](stage[c] = "stopping" /\ pendingEvents[c] # <<>>)
=============================================================================
