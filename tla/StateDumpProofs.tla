--------------------------- MODULE StateDumpProofs ---------------------------
(***************************************************************************)
(* Theorems about StateDump, for every set of events, dumps and consumers, *)
(* every batch size and any number of failures.  The argument is the order *)
(* of performStateDump: what the snapshot does not keep was published, so  *)
(* committed, before it was taken, and the state is read after that.       *)
(***************************************************************************)
EXTENDS StateDump, TLAPS

\* A snapshot and the dump of its name cover what is published, as far as the
\* dump has been written.
DumpCovers ==
  \A d \in snapshots :
    /\ dumpStage[d] \in {"dumping", "stored"}
    /\ dumpStage[d] = "dumping" =>
         writeFailed[d] \/ published \ uncovered[d] \subseteq content[d] \cup covered[d]
    /\ dumpStage[d] = "stored" => published \subseteq content[d] \cup covered[d]

\* Between the dump and the seek a consumer has the state of the dump.
RestoredIsStored ==
  \A c \in Consumers : stage[c] = "restored" =>
    restoredFrom[c] \in Stored /\ state[c] = content[restoredFrom[c]]

\* Nothing is handled before a consumer has sought its snapshot.
IdleBefore ==
  \A c \in Consumers : stage[c] \in {"down", "created", "restored"} =>
    pendingEvents[c] = <<>> /\ handling[c] = {}

IInv ==
  /\ TypeOK
  /\ published \subseteq committed
  /\ IdleBefore
  /\ DumpCovers
  /\ RestoredIsStored
  /\ NothingIsMissed

-----------------------------------------------------------------------------
(* Type correctness *)

LEMMA BatchFacts ==
  ASSUME NEW s
  PROVE  s \in SeqOf(Events, MaxBatchSize - 1)
           <=> s \in Seq(Events) /\ Len(s) <= MaxBatchSize - 1
<1>1. MaxBatchSize - 1 \in Nat
  BY StateDumpAssumption
<1>2. ASSUME s \in SeqOf(Events, MaxBatchSize - 1)
      PROVE  s \in Seq(Events) /\ Len(s) <= MaxBatchSize - 1
  <2>1. PICK m \in 0 .. MaxBatchSize - 1 : s \in [1 .. m -> Events]
    BY <1>2 DEF SeqOf
  <2> QED
    BY <1>1, <2>1
<1>3. ASSUME s \in Seq(Events), Len(s) <= MaxBatchSize - 1
      PROVE  s \in SeqOf(Events, MaxBatchSize - 1)
  <2>1. Len(s) \in 0 .. MaxBatchSize - 1 /\ s \in [1 .. Len(s) -> Events]
    BY <1>1, <1>3
  <2> QED
    BY <2>1 DEF SeqOf
<1> QED
  BY <1>2, <1>3

LEMMA EmptyBatch == <<>> \in SeqOf(Events, MaxBatchSize - 1)
<1>1. <<>> \in Seq(Events) /\ Len(<<>>) = 0
  OBVIOUS
<1>2. 0 <= MaxBatchSize - 1
  BY StateDumpAssumption
<1> QED
  BY <1>1, <1>2, BatchFacts

LEMMA TypeInit == Init => TypeOK
  BY EmptyBatch, StateDumpAssumption DEF Init, TypeOK, Stages, NoDump

LEMMA FailureFacts ==
  ASSUME TypeOK, CanFail \/ UNCHANGED failures
  PROVE  failures' \in 0 .. MaxFailures
  BY StateDumpAssumption DEF TypeOK, CanFail

\* Stopping leaves a consumer as it was before it started.
LEMMA StopFacts ==
  ASSUME TypeOK, NEW c \in Consumers, Stop(c)
  PROVE  /\ stage' \in [Consumers -> Stages]
         /\ restoredFrom' \in [Consumers -> Dumps \cup {NoDump}]
         /\ state' \in [Consumers -> SUBSET Events]
         /\ backlog' \in [Consumers -> SUBSET Events]
         /\ pendingEvents' \in [Consumers -> SeqOf(Events, MaxBatchSize - 1)]
         /\ handling' \in [Consumers -> SUBSET SUBSET Events]
  BY EmptyBatch DEF Stop, TypeOK, Stages

LEMMA HandleFacts ==
  ASSUME TypeOK, NEW c \in Consumers, NEW e \in Events, Handle(c, e)
  PROVE  /\ pendingEvents' \in [Consumers -> SeqOf(Events, MaxBatchSize - 1)]
         /\ handling' \in [Consumers -> SUBSET SUBSET Events]
<1> DEFINE batch == Append(pendingEvents[c], e)
<1>1. pendingEvents[c] \in Seq(Events) /\ Len(pendingEvents[c]) <= MaxBatchSize - 1
  BY BatchFacts DEF TypeOK
<1>2. batch \in Seq(Events) /\ Len(batch) = Len(pendingEvents[c]) + 1
  BY <1>1
<1>3. CASE Len(batch) = MaxBatchSize
  <2>1. ToSet(batch) \in SUBSET Events
    BY <1>2 DEF ToSet
  <2>2. /\ pendingEvents' = [pendingEvents EXCEPT ![c] = <<>>]
        /\ handling' = [handling EXCEPT ![c] = @ \cup {ToSet(batch)}]
    BY <1>3 DEF Handle
  <2> HIDE DEF batch
  <2> QED
    BY EmptyBatch, <2>1, <2>2 DEF TypeOK
<1>4. CASE Len(batch) # MaxBatchSize
  <2>1. batch \in SeqOf(Events, MaxBatchSize - 1)
    <3>1. Len(batch) <= MaxBatchSize - 1
      BY <1>1, <1>2, <1>4, StateDumpAssumption
    <3> QED
      BY <1>2, <3>1, BatchFacts
  <2>2. pendingEvents' = [pendingEvents EXCEPT ![c] = batch] /\ UNCHANGED handling
    BY <1>4 DEF Handle
  <2> HIDE DEF batch
  <2> QED
    BY <2>1, <2>2 DEF TypeOK
<1> QED
  BY <1>3, <1>4

LEMMA AbandonFacts ==
  ASSUME TypeOK, NEW d \in Dumps, Abandon(d)
  PROVE  /\ dumpStage' \in [Dumps -> {"new", "subscribed", "dumping", "stored", "failed"}]
         /\ uncovered' \in [Dumps -> SUBSET Events]
         /\ content' \in [Dumps -> SUBSET Events]
         /\ writeFailed' \in [Dumps -> BOOLEAN]
         /\ covered' \in [Dumps -> SUBSET Events]
         /\ snapshots' \subseteq Dumps
         /\ expired' = expired
  BY DEF Abandon, TypeOK

\* The latest dump is one of those that are stored.
LEMMA LatestIsStored ==
  ASSUME Stored # {}
  PROVE  FindLatestStateDump \in Stored
<1>1. Stored \in SUBSET Dumps
  BY DEF Stored
<1>2. \E d \in Stored : \A other \in Stored : other <= d
  BY <1>1, StateDumpAssumption
<1> QED
  BY <1>2 DEF FindLatestStateDump

LEMMA TypeStep == TypeOK /\ [Next]_vars => TypeOK'
<1> SUFFICES ASSUME TypeOK, [Next]_vars PROVE TypeOK'
  OBVIOUS
<1> USE DEF ownerVars, dumpVars, snapVars, batchVars, consumerVars
<1>1. ASSUME NEW e \in Events, Commit(e) \/ Publish(e) PROVE TypeOK'
  <2>1. CASE Commit(e)
    BY <2>1 DEF Commit, Publisher!Accept, TypeOK
  <2>2. CASE Publish(e)
    BY <2>2 DEF Publish, Publisher!Deliver, TypeOK
  <2> QED
    BY <1>1, <2>1, <2>2
<1>2. ASSUME NEW d \in Dumps, DumpStep(d) PROVE TypeOK'
  <2>1. CASE CreateSubscription(d)
    BY <2>1 DEF CreateSubscription, TypeOK
  <2>2. CASE CreateSnapshot(d)
    BY <2>2 DEF CreateSnapshot, TypeOK
  <2>3. ASSUME NEW e \in Events, SupplyEvent(d, e) PROVE TypeOK'
    <3>1. failures' \in 0 .. MaxFailures
      BY <2>3, FailureFacts DEF SupplyEvent
    <3> QED
      BY <2>3, <3>1 DEF SupplyEvent, TypeOK
  <2>4. CASE FinishDump(d)
    <3>1. CASE ~writeFailed[d]
      BY <2>4, <3>1 DEF FinishDump, TypeOK
    <3>2. CASE Abandon(d)
      BY <2>4, <3>2, AbandonFacts DEF FinishDump, TypeOK
    <3> QED
      BY <2>4, <3>1, <3>2 DEF FinishDump
  <2>5. CASE DumpFails(d)
    <3>1. Abandon(d) /\ failures' \in 0 .. MaxFailures
      BY <2>5, FailureFacts DEF DumpFails
    <3> QED
      BY <2>5, <3>1, AbandonFacts DEF DumpFails, TypeOK
  <2>6. CASE SnapshotExpires(d)
    BY <2>6, StateDumpAssumption DEF SnapshotExpires, TypeOK
  <2> QED
    BY <1>2, <2>1, <2>2, <2>3, <2>4, <2>5, <2>6 DEF DumpStep
<1>3. ASSUME NEW c \in Consumers, StartStep(c) PROVE TypeOK'
  <2>1. CASE CreateDynamicSubscription(c)
    BY <2>1 DEF CreateDynamicSubscription, TypeOK, Stages
  <2>2. CASE RestoreState(c)
    <3>1. FindLatestStateDump \in Dumps
      BY <2>2, LatestIsStored DEF RestoreState, Stored
    <3> QED
      BY <2>2, <3>1 DEF RestoreState, TypeOK, Stages
  <2>3. CASE SeekToSnapshot(c)
    <3>1. restoredFrom[c] \in snapshots => covered[restoredFrom[c]] \in SUBSET Events
      BY DEF TypeOK
    <3> QED
      BY <2>3, <3>1 DEF SeekToSnapshot, TypeOK, Stages
  <2>4. CASE Subscribe(c)
    BY <2>4 DEF Subscribe, TypeOK, Stages
  <2>5. CASE AddListener(c)
    BY <2>5 DEF AddListener, TypeOK, Stages
  <2> QED
    BY <1>3, <2>1, <2>2, <2>3, <2>4, <2>5 DEF StartStep
<1>4. ASSUME NEW c \in Consumers, BatchStep(c) PROVE TypeOK'
  <2>1. ASSUME NEW e \in Events, Receive(c, e) PROVE TypeOK'
    <3>1. failures' \in 0 .. MaxFailures
      BY <2>1, FailureFacts DEF Receive
    <3>2. /\ pendingEvents' \in [Consumers -> SeqOf(Events, MaxBatchSize - 1)]
          /\ handling' \in [Consumers -> SUBSET SUBSET Events]
      BY <2>1, HandleFacts DEF Receive
    <3> QED
      BY <2>1, <3>1, <3>2 DEF Receive, TypeOK
  <2>2. CASE Flush(c)
    <3>1. ToSet(pendingEvents[c]) \in SUBSET Events
      <4>1. pendingEvents[c] \in Seq(Events)
        BY BatchFacts DEF TypeOK
      <4> QED
        BY <4>1 DEF ToSet
    <3> QED
      BY <2>2, <3>1, EmptyBatch DEF Flush, TypeOK
  <2>3. ASSUME NEW batch \in handling[c], BatchSucceeds(c, batch) PROVE TypeOK'
    <3>1. failures' \in 0 .. MaxFailures /\ batch \in SUBSET Events
      BY <2>3, FailureFacts DEF BatchSucceeds, TypeOK
    <3> QED
      BY <2>3, <3>1 DEF BatchSucceeds, TypeOK
  <2>4. ASSUME NEW batch \in handling[c], BatchFails(c, batch) PROVE TypeOK'
    <3>1. failures' \in 0 .. MaxFailures
      BY <2>4, FailureFacts DEF BatchFails
    <3> QED
      BY <2>4, <3>1 DEF BatchFails, TypeOK
  <2> QED
    BY <1>4, <2>1, <2>2, <2>3, <2>4 DEF BatchStep
<1>5. ASSUME NEW c \in Consumers, EndStep(c) PROVE TypeOK'
  <2>1. CASE DeleteDynamicSubscription(c) \/ SubscriptionNotFound(c) \/ StopAsync(c)
    BY <2>1 DEF DeleteDynamicSubscription, SubscriptionNotFound, StopAsync, TypeOK, Stages
  <2>2. CASE AwaitTerminated(c) \/ AwaitThrows(c)
    BY <2>2, StopFacts DEF AwaitTerminated, AwaitThrows, TypeOK
  <2>3. CASE SubscriberFails(c)
    <3>1. failures' \in 0 .. MaxFailures
      BY <2>3, FailureFacts DEF SubscriberFails
    <3>2. CASE Stop(c)
      BY <2>3, <3>1, <3>2, StopFacts DEF SubscriberFails, TypeOK
    <3>3. CASE ~Stop(c)
      BY <2>3, <3>1, <3>3 DEF SubscriberFails, TypeOK, Stages
    <3> QED
      BY <3>2, <3>3
  <2>4. CASE Crash(c)
    <3>1. Stop(c) /\ failures' \in 0 .. MaxFailures
      BY <2>4, FailureFacts DEF Crash
    <3> QED
      BY <2>4, <3>1, StopFacts DEF Crash, TypeOK
  <2> QED
    BY <1>5, <2>1, <2>2, <2>3, <2>4 DEF EndStep
<1>6. CASE UNCHANGED vars
  BY <1>6 DEF vars, TypeOK
<1> QED
  BY <1>1, <1>2, <1>3, <1>4, <1>5, <1>6 DEF Next, OwnerStep

\* Every variable keeps its type, for every instance.
THEOREM TypeCorrect == Spec => []TypeOK
  BY TypeInit, TypeStep, PTL DEF Spec

-----------------------------------------------------------------------------
(* The inductive invariant *)

LEMMA InvInit == Init => IInv
<1> SUFFICES ASSUME Init, TypeOK PROVE IInv
  BY TypeInit
<1> QED
  BY DEF Init, IInv, DumpCovers, IdleBefore, RestoredIsStored, NothingIsMissed, InStep

\* An event that is published reaches every snapshot and every subscription.
LEMMA OwnerKeeps ==
  ASSUME IInv, TypeOK', NEW e \in Events, Commit(e) \/ Publish(e)
  PROVE  IInv'
<1>1. UNCHANGED <<dumpVars, snapshots, stage, restoredFrom, state, batchVars>>
  BY DEF Commit, Publish, Publisher!Accept, Publisher!Deliver, snapVars, consumerVars
<1>2. published' \subseteq published \cup {e}
  BY DEF Commit, Publish, Publisher!Accept, Publisher!Deliver
<1>3. (published \subseteq committed)'
  BY DEF IInv, Commit, Publish, Publisher!Accept, Publisher!Deliver
<1>4. /\ \A d \in snapshots : covered[d] \subseteq covered'[d]
      /\ e \in published' => e \in published \/ \A d \in snapshots : e \in covered'[d]
  BY DEF IInv, TypeOK, Commit, Publish, Publisher!Accept, Publisher!Deliver, snapVars, Subscribed
<1>5. /\ \A c \in Consumers : backlog[c] \subseteq backlog'[c]
      /\ \A c \in Consumers : InStep(c) /\ e \in published' => e \in published \cup backlog'[c]
  BY DEF IInv, TypeOK, Commit, Publish, Publisher!Accept, Publisher!Deliver, consumerVars,
         InStep, HasSubscription
<1>6. DumpCovers'
  BY <1>1, <1>2, <1>4 DEF IInv, DumpCovers, dumpVars
<1>7. RestoredIsStored'
  BY <1>1 DEF IInv, RestoredIsStored, Stored, dumpVars
<1>8. NothingIsMissed'
  BY <1>1, <1>2, <1>5 DEF IInv, NothingIsMissed, InStep
<1>9. IdleBefore'
  BY <1>1 DEF IInv, IdleBefore, batchVars
<1> QED
  BY <1>3, <1>6, <1>7, <1>8, <1>9 DEF IInv

\* Consumers see of a run of performStateDump only what it has stored.
LEMMA DumpKeeps ==
  ASSUME IInv, TypeOK', NEW d \in Dumps, DumpStep(d)
  PROVE  IInv'
<1>1. UNCHANGED <<ownerVars, consumerVars>>
  BY DEF DumpStep, CreateSubscription, CreateSnapshot, SupplyEvent, FinishDump, DumpFails,
         SnapshotExpires
<1>2. /\ published' = published /\ committed' = committed /\ stage' = stage
      /\ restoredFrom' = restoredFrom /\ state' = state /\ backlog' = backlog
      /\ pendingEvents' = pendingEvents /\ handling' = handling
  BY <1>1 DEF ownerVars, consumerVars, batchVars
<1> DEFINE Frame ==
          /\ \A o \in Dumps : o # d =>
               /\ dumpStage'[o] = dumpStage[o] /\ uncovered'[o] = uncovered[o]
               /\ content'[o] = content[o] /\ writeFailed'[o] = writeFailed[o]
               /\ covered'[o] = covered[o]
          /\ snapshots' \subseteq snapshots \cup {d}
          /\ dumpStage[d] = "stored" => dumpStage'[d] = "stored" /\ content'[d] = content[d]
<1>3. Frame
  <2> USE DEF dumpVars, snapVars, Abandon, IInv, TypeOK
  <2>1. CASE CreateSubscription(d)
    BY <2>1 DEF CreateSubscription
  <2>2. CASE CreateSnapshot(d)
    BY <2>2 DEF CreateSnapshot
  <2>3. ASSUME NEW e \in Events, SupplyEvent(d, e)
        PROVE  Frame
    BY <2>3 DEF SupplyEvent
  <2>4. CASE FinishDump(d)
    BY <2>4 DEF FinishDump
  <2>5. CASE DumpFails(d)
    BY <2>5 DEF DumpFails
  <2>6. CASE SnapshotExpires(d)
    BY <2>6 DEF SnapshotExpires
  <2> QED
    BY <2>1, <2>2, <2>3, <2>4, <2>5, <2>6 DEF DumpStep
<1> DEFINE Covered ==
          d \in snapshots' =>
            /\ dumpStage'[d] \in {"dumping", "stored"}
            /\ dumpStage'[d] = "dumping" =>
                 writeFailed'[d] \/ published \ uncovered'[d] \subseteq content'[d] \cup covered'[d]
            /\ dumpStage'[d] = "stored" => published \subseteq content'[d] \cup covered'[d]
<1>4. Covered
  <2> USE DEF dumpVars, snapVars, Abandon, IInv, TypeOK, DumpCovers
  <2>1. CASE CreateSubscription(d)
    BY <2>1 DEF CreateSubscription
  <2>2. CASE CreateSnapshot(d)
    BY <2>2 DEF CreateSnapshot
  <2>3. ASSUME NEW e \in Events, SupplyEvent(d, e)
        PROVE  Covered
    BY <2>3 DEF SupplyEvent
  <2>4. CASE FinishDump(d)
    BY <2>4 DEF FinishDump
  <2>5. CASE DumpFails(d)
    BY <2>5 DEF DumpFails
  <2>6. CASE SnapshotExpires(d)
    BY <2>6 DEF SnapshotExpires
  <2> QED
    BY <2>1, <2>2, <2>3, <2>4, <2>5, <2>6 DEF DumpStep
<1>5. DumpCovers'
  BY <1>2, <1>3, <1>4 DEF IInv, DumpCovers, TypeOK
<1>6. RestoredIsStored'
  BY <1>2, <1>3 DEF IInv, RestoredIsStored, Stored
<1>7. NothingIsMissed' /\ IdleBefore'
  BY <1>2 DEF IInv, NothingIsMissed, IdleBefore, InStep
<1> QED
  BY <1>2, <1>5, <1>6, <1>7 DEF IInv

\* A consumer leaves the owner, the dumps and the other consumers alone.
LEMMA ConsumerKeeps ==
  ASSUME IInv, TypeOK', NEW c \in Consumers,
         UNCHANGED <<ownerVars, dumpVars, snapVars>>,
         \A o \in Consumers : o # c =>
           /\ stage'[o] = stage[o] /\ restoredFrom'[o] = restoredFrom[o]
           /\ state'[o] = state[o] /\ backlog'[o] = backlog[o]
           /\ pendingEvents'[o] = pendingEvents[o] /\ handling'[o] = handling[o],
         stage'[c] = "restored" =>
           restoredFrom'[c] \in Stored /\ state'[c] = content[restoredFrom'[c]],
         InStep(c)' => published \subseteq state'[c] \cup backlog'[c],
         stage'[c] \in {"down", "created", "restored"} =>
           pendingEvents'[c] = <<>> /\ handling'[c] = {}
  PROVE  IInv'
<1>1. DumpCovers' /\ (published \subseteq committed)'
  BY DEF IInv, DumpCovers, ownerVars, dumpVars, snapVars
<1>2. RestoredIsStored'
  BY DEF IInv, RestoredIsStored, Stored, dumpVars
<1>3. NothingIsMissed'
  BY DEF IInv, NothingIsMissed, InStep, ownerVars
<1>4. IdleBefore'
  BY DEF IInv, IdleBefore
<1> QED
  BY <1>1, <1>2, <1>3, <1>4 DEF IInv

LEMMA StartKeeps ==
  ASSUME IInv, TypeOK', NEW c \in Consumers, StartStep(c)
  PROVE  IInv'
<1>1. UNCHANGED <<ownerVars, dumpVars, snapVars>>
  BY DEF StartStep, CreateDynamicSubscription, RestoreState, SeekToSnapshot, Subscribe, AddListener
<1>2. \A o \in Consumers : o # c =>
        /\ stage'[o] = stage[o] /\ restoredFrom'[o] = restoredFrom[o]
        /\ state'[o] = state[o] /\ backlog'[o] = backlog[o]
        /\ pendingEvents'[o] = pendingEvents[o] /\ handling'[o] = handling[o]
  BY DEF StartStep, CreateDynamicSubscription, RestoreState, SeekToSnapshot, Subscribe,
         AddListener, IInv, TypeOK, batchVars
<1>3. /\ stage'[c] = "restored" =>
           restoredFrom'[c] \in Stored /\ state'[c] = content[restoredFrom'[c]]
      /\ InStep(c)' => published \subseteq state'[c] \cup backlog'[c]
  <2>1. CASE RestoreState(c)
    <3>1. FindLatestStateDump \in Stored
      BY <2>1, LatestIsStored DEF RestoreState
    <3> QED
      BY <2>1, <3>1 DEF RestoreState, InStep, IInv, TypeOK
  <2>2. CASE SeekToSnapshot(c)
    <3>1. stage[c] = "restored" => published \subseteq state[c] \cup covered[restoredFrom[c]]
                                   \/ restoredFrom[c] \notin snapshots
      BY DEF IInv, RestoredIsStored, DumpCovers, Stored
    <3> QED
      BY <2>2, <3>1 DEF SeekToSnapshot, InStep, IInv, TypeOK
  <2>3. CASE CreateDynamicSubscription(c)
    BY <2>3 DEF CreateDynamicSubscription, InStep, IInv, TypeOK
  <2>4. CASE Subscribe(c) \/ AddListener(c)
    BY <2>4 DEF Subscribe, AddListener, InStep, IInv, TypeOK, NothingIsMissed
  <2> QED
    BY <2>1, <2>2, <2>3, <2>4 DEF StartStep
<1>4. stage'[c] \in {"down", "created", "restored"} =>
        pendingEvents'[c] = <<>> /\ handling'[c] = {}
  <2>1. stage'[c] \in {"down", "created", "restored"} =>
          stage[c] \in {"down", "created", "restored"}
    BY DEF StartStep, CreateDynamicSubscription, RestoreState, SeekToSnapshot, Subscribe,
           AddListener, IInv, TypeOK
  <2>2. UNCHANGED <<pendingEvents, handling>>
    BY DEF StartStep, CreateDynamicSubscription, RestoreState, SeekToSnapshot, Subscribe,
           AddListener, batchVars
  <2> QED
    BY <2>1, <2>2 DEF IInv, IdleBefore
<1> QED
  BY <1>1, <1>2, <1>3, <1>4, ConsumerKeeps

\* Only a batch that succeeds is acknowledged.
LEMMA BatchKeeps ==
  ASSUME IInv, TypeOK', NEW c \in Consumers, BatchStep(c)
  PROVE  IInv'
<1>1. UNCHANGED <<ownerVars, dumpVars, snapVars, stage, restoredFrom>>
  BY DEF BatchStep, Receive, Flush, BatchSucceeds, BatchFails
<1>2. \A o \in Consumers : o # c =>
        /\ stage'[o] = stage[o] /\ restoredFrom'[o] = restoredFrom[o]
        /\ state'[o] = state[o] /\ backlog'[o] = backlog[o]
        /\ pendingEvents'[o] = pendingEvents[o] /\ handling'[o] = handling[o]
  BY <1>1 DEF BatchStep, Receive, Handle, Flush, BatchSucceeds, BatchFails, IInv, TypeOK
<1>3. stage[c] \notin {"down", "created", "restored"}
  <2>1. Receiving(c) \/ stage[c] = "closing" \/ pendingEvents[c] # <<>> \/ handling[c] # {}
    BY DEF BatchStep, Receive, Flush
  <2> QED
    BY <2>1 DEF IInv, IdleBefore, Receiving
<1>4. state[c] \cup backlog[c] \subseteq state'[c] \cup backlog'[c]
  BY DEF BatchStep, Receive, Flush, BatchSucceeds, BatchFails, IInv, TypeOK
<1>5. InStep(c)' => published \subseteq state'[c] \cup backlog'[c]
  BY <1>1, <1>4 DEF IInv, NothingIsMissed, InStep
<1> QED
  BY <1>1, <1>2, <1>3, <1>5, ConsumerKeeps

\* An end gives everything up; on the way there a failed subscriber keeps what it
\* has to, and a shutdown owes nothing any more.
LEMMA EndKeeps ==
  ASSUME IInv, TypeOK', NEW c \in Consumers, EndStep(c)
  PROVE  IInv'
<1> USE DEF EndStep, DeleteDynamicSubscription, SubscriptionNotFound, StopAsync,
            AwaitTerminated, AwaitThrows, SubscriberFails, Crash
<1>1. UNCHANGED <<ownerVars, dumpVars, snapVars>>
  OBVIOUS
<1>2. \A o \in Consumers : o # c =>
        /\ stage'[o] = stage[o] /\ restoredFrom'[o] = restoredFrom[o]
        /\ state'[o] = state[o] /\ backlog'[o] = backlog[o]
        /\ pendingEvents'[o] = pendingEvents[o] /\ handling'[o] = handling[o]
  BY DEF Stop, IInv, TypeOK, batchVars
<1>3. CASE Stop(c)
  <2>1. ~InStep(c)' /\ stage'[c] = "down" /\ pendingEvents'[c] = <<>> /\ handling'[c] = {}
    BY <1>3 DEF Stop, InStep, IInv, TypeOK
  <2> QED
    BY <1>1, <1>2, <2>1, ConsumerKeeps
<1>4. CASE ~Stop(c)
  <2>1. stage'[c] \in {"unheard", "closing", "stopping", "failed"}
    BY <1>4 DEF IInv, TypeOK
  <2>2. InStep(c)' => stage[c] = "subscribed" /\ state' = state /\ backlog' = backlog
    BY <1>4 DEF IInv, TypeOK, InStep
  <2>3. InStep(c)' => published \subseteq state'[c] \cup backlog'[c]
    BY <2>2 DEF IInv, NothingIsMissed, InStep
  <2> QED
    BY <1>1, <1>2, <2>1, <2>3, ConsumerKeeps
<1> QED
  BY <1>3, <1>4

LEMMA InvStep == IInv /\ [Next]_vars => IInv'
<1> SUFFICES ASSUME IInv, [Next]_vars PROVE IInv'
  OBVIOUS
<1>1. TypeOK'
  BY TypeStep DEF IInv
<1>2. CASE OwnerStep
  BY <1>1, <1>2, OwnerKeeps DEF OwnerStep
<1>3. ASSUME NEW d \in Dumps, DumpStep(d) PROVE IInv'
  BY <1>1, <1>3, DumpKeeps
<1>4. ASSUME NEW c \in Consumers, StartStep(c) \/ BatchStep(c) \/ EndStep(c) PROVE IInv'
  BY <1>1, <1>4, StartKeeps, BatchKeeps, EndKeeps
<1>5. CASE UNCHANGED vars
  BY <1>1, <1>5 DEF vars, ownerVars, dumpVars, snapVars, consumerVars, batchVars, IInv,
    DumpCovers, RestoredIsStored, Stored, NothingIsMissed, IdleBefore, InStep
<1> QED
  BY <1>2, <1>3, <1>4, <1>5 DEF Next

\* Whatever fails, expires or comes twice, and whichever dump is read: a consumer
\* that has sought the snapshot of its dump misses no published event.
THEOREM NothingIsEverMissed == Spec => []NothingIsMissed
<1>1. IInv => NothingIsMissed
  BY DEF IInv
<1> QED
  BY InvInit, InvStep, <1>1, PTL DEF Spec
=============================================================================
