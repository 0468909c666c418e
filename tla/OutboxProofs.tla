---------------------------- MODULE OutboxProofs ----------------------------
(***************************************************************************)
(* Theorems about Outbox, for every set of events, threads and instances   *)
(* and every limit.  The safety part of the promise rests on where each    *)
(* copy of an event comes from: triggers hold what their thread has        *)
(* written, only committed events are on their way, and only delivered     *)
(* ones wait to be deleted.                                                *)
(***************************************************************************)
EXTENDS Outbox, TLAPS

\* A trigger is cleared with the transaction it belongs to.
TriggersAreWritten ==
  \A t \in Threads : triggers[t] \subseteq committed \cup uncommitted[t]

\* Rows, drains and publications are of committed events.
SentIsCommitted ==
  /\ outbox \subseteq committed
  /\ \A i \in Instances :
       /\ draining[i] \subseteq committed
       /\ \A e \in Events : inFlight[i][e] > 0 => e \in committed

\* Acknowledgements are of delivered events.
AckedIsDelivered ==
  \A i \in Instances :
    /\ ToSet(pendingEvents[i]) \subseteq delivered
    /\ \A batch \in deleting[i] : batch \subseteq delivered

IInv ==
  /\ TypeOK
  /\ TriggersAreWritten
  /\ SentIsCommitted
  /\ AckedIsDelivered
  /\ KeptUntilDelivered
  /\ NoPhantomEvent

-----------------------------------------------------------------------------
(* Type correctness                                                        *)

Acks == SeqOf(Events, MaxBatchSize - 1)

\* The lists of acknowledgements are sequences shorter than a batch.
LEMMA AcksAreSequences ==
  ASSUME NEW s
  PROVE  s \in Acks <=> s \in Seq(Events) /\ Len(s) < MaxBatchSize
<1>1. ASSUME s \in Acks PROVE s \in Seq(Events) /\ Len(s) < MaxBatchSize
  <2>1. PICK m \in 0 .. MaxBatchSize - 1 : s \in [1 .. m -> Events]
    BY <1>1 DEF Acks, SeqOf
  <2>2. m \in Nat /\ m < MaxBatchSize
    BY OutboxAssumption
  <2> QED
    BY <2>1, <2>2
<1>2. ASSUME s \in Seq(Events), Len(s) < MaxBatchSize PROVE s \in Acks
  <2>1. Len(s) \in 0 .. MaxBatchSize - 1 /\ s \in [1 .. Len(s) -> Events]
    BY <1>2, OutboxAssumption
  <2> QED
    BY <2>1 DEF Acks, SeqOf
<1> QED
  BY <1>1, <1>2

\* An acknowledgement that does not fill the batch is kept, one that does
\* empties the list; either way the batch holds what was in the list.
LEMMA HandleAckKeeps ==
  ASSUME TypeOK, NEW i \in Instances, NEW e \in Events, HandleAck(i, e)
  PROVE  /\ pendingEvents' \in [Instances -> Acks]
         /\ deleting' \in [Instances -> SUBSET SUBSET Events]
         /\ \A j \in Instances :
              /\ ToSet(pendingEvents'[j]) \subseteq ToSet(pendingEvents[j]) \cup {e}
              /\ \A b \in deleting'[j] :
                   b \in deleting[j] \/ b \subseteq ToSet(pendingEvents[j]) \cup {e}
<1> DEFINE acked == Append(pendingEvents[i], e)
<1>1. /\ pendingEvents \in [Instances -> Acks]
      /\ deleting \in [Instances -> SUBSET SUBSET Events]
  BY DEF TypeOK, Acks
<1>2. pendingEvents[i] \in Seq(Events) /\ Len(pendingEvents[i]) < MaxBatchSize
  BY <1>1, AcksAreSequences
<1>3. acked \in Seq(Events) /\ Len(acked) = Len(pendingEvents[i]) + 1
  BY <1>2
<1>4. ToSet(acked) \subseteq ToSet(pendingEvents[i]) \cup {e} /\ ToSet(acked) \subseteq Events
  <2>1. \A n \in DOMAIN acked :
          acked[n] = e \/ (n \in DOMAIN pendingEvents[i] /\ acked[n] = pendingEvents[i][n])
    BY <1>2
  <2> QED
    BY <2>1, <1>3 DEF ToSet
<1>5. CASE Len(acked) = MaxBatchSize
  <2>1. << >> \in Acks
    <3>1. << >> \in Seq(Events) /\ Len(<< >>) < MaxBatchSize
      BY OutboxAssumption
    <3> QED
      BY <3>1, AcksAreSequences
  <2>2. ToSet(<< >>) = {}
    BY DEF ToSet
  <2>3. /\ pendingEvents' = [pendingEvents EXCEPT ![i] = <<>>]
        /\ deleting' = [deleting EXCEPT ![i] = @ \cup {ToSet(acked)}]
    BY <1>5 DEF HandleAck
  <2>4. /\ pendingEvents' \in [Instances -> Acks]
        /\ deleting' \in [Instances -> SUBSET SUBSET Events]
    BY <1>1, <1>4, <2>1, <2>3
  <2>5. ASSUME NEW j \in Instances, j # i
        PROVE  pendingEvents'[j] = pendingEvents[j] /\ deleting'[j] = deleting[j]
    BY <1>1, <2>3, <2>5
  <2>6. ToSet(pendingEvents'[i]) = {} /\ deleting'[i] = deleting[i] \cup {ToSet(acked)}
    BY <1>1, <2>2, <2>3
  <2> HIDE DEF acked
  <2> QED
    BY <1>4, <2>4, <2>5, <2>6
<1>6. CASE Len(acked) # MaxBatchSize
  <2>1. acked \in Acks
    <3>1. Len(pendingEvents[i]) \in Nat /\ MaxBatchSize \in Nat
      BY <1>2, OutboxAssumption
    <3>2. Len(acked) < MaxBatchSize
      BY <3>1, <1>2, <1>3, <1>6
    <3> HIDE DEF acked
    <3> QED
      BY <3>2, <1>3, AcksAreSequences
  <2>2. /\ pendingEvents' = [pendingEvents EXCEPT ![i] = acked]
        /\ deleting' = deleting
    BY <1>6 DEF HandleAck
  <2>3. pendingEvents' \in [Instances -> Acks]
    BY <1>1, <2>1, <2>2
  <2>4. ASSUME NEW j \in Instances, j # i PROVE pendingEvents'[j] = pendingEvents[j]
    BY <1>1, <2>2, <2>4
  <2>5. pendingEvents'[i] = acked
    BY <1>1, <2>2
  <2> HIDE DEF acked
  <2> QED
    BY <1>1, <1>4, <2>2, <2>3, <2>4, <2>5
<1> QED
  BY <1>5, <1>6

\* Sending counts up the events sent, and no others.
LEMMA SendKeeps ==
  ASSUME TypeOK, NEW i \in Instances, NEW events \in SUBSET Events, Send(i, events)
  PROVE  /\ inFlight' \in [Instances -> [Events -> Nat]]
         /\ \A j \in Instances, e \in Events :
              inFlight'[j][e] > 0 => inFlight[j][e] > 0 \/ e \in events
<1> DEFINE sent == [e \in Events |-> inFlight[i][e] + (IF e \in events THEN 1 ELSE 0)]
<1>1. inFlight \in [Instances -> [Events -> Nat]]
  BY DEF TypeOK
<1>2. sent \in [Events -> Nat] /\ \A e \in Events : e \notin events => sent[e] = inFlight[i][e]
  BY <1>1
<1>3. inFlight' = [inFlight EXCEPT ![i] = sent]
  BY <1>1 DEF Send
<1> HIDE DEF sent
<1> QED
  BY <1>1, <1>2, <1>3

\* An answer counts one publication down.
LEMMA AnsweredKeeps ==
  ASSUME TypeOK, NEW i \in Instances, NEW e \in Events,
         inFlight[i][e] > 0, Answered(i, e)
  PROVE  /\ inFlight' \in [Instances -> [Events -> Nat]]
         /\ \A j \in Instances, f \in Events :
              inFlight'[j][f] > 0 => inFlight[j][f] > 0
<1>1. inFlight \in [Instances -> [Events -> Nat]]
  BY DEF TypeOK
<1>2. inFlight' = [inFlight EXCEPT ![i][e] = inFlight[i][e] - 1]
  BY <1>1 DEF Answered
<1>3. inFlight[i][e] - 1 \in Nat
  BY <1>1
<1> QED
  BY <1>1, <1>2, <1>3

\* Failures are counted up to their bound.
LEMMA CanFailKeeps ==
  ASSUME TypeOK, CanFail PROVE failures' \in 0 .. MaxFailures
  BY OutboxAssumption DEF TypeOK, CanFail

-----------------------------------------------------------------------------
(* The inductive invariant                                                 *)

\* A table without rows, nothing written, nothing sent.
LEMMA InvInit == Init => IInv
<1> SUFFICES ASSUME Init PROVE IInv
  OBVIOUS
<1>1. << >> \in Acks
  <2>1. << >> \in Seq(Events) /\ Len(<< >>) < MaxBatchSize
    BY OutboxAssumption
  <2> QED
    BY <2>1, AcksAreSequences
<1>2. pendingEvents \in [Instances -> Acks]
  BY <1>1 DEF Init
<1>3. failures \in 0 .. MaxFailures /\ crashes \in 0 .. MaxCrashes
  BY OutboxAssumption DEF Init
<1>4. TypeOK
  BY <1>2, <1>3 DEF Init, TypeOK, Acks
<1>5. TriggersAreWritten /\ SentIsCommitted /\ KeptUntilDelivered /\ NoPhantomEvent
  BY DEF Init, TriggersAreWritten, SentIsCommitted, KeptUntilDelivered, NoPhantomEvent
<1>6. AckedIsDelivered
  BY DEF Init, AckedIsDelivered, ToSet
<1> QED
  BY <1>4, <1>5, <1>6 DEF IInv

\* The steps of a caller: rows become committed, triggers become publications.
LEMMA CallerKeeps ==
  ASSUME IInv, NEW t \in Threads, CallerStep(t) PROVE IInv'
<1> USE DEF IInv
<1>0. InstanceOf[t] \in Instances
  BY OutboxAssumption
<1>1. ASSUME NEW batch \in SUBSET Events, Persist(t, batch) PROVE IInv'
  BY <1>1 DEF Persist, TypeOK, TriggersAreWritten, SentIsCommitted, AckedIsDelivered,
              KeptUntilDelivered, NoPhantomEvent, tableVars, ackVars, drainVars
<1>2. CASE Rollback(t)
  BY <1>2 DEF Rollback, TypeOK, TriggersAreWritten, SentIsCommitted, AckedIsDelivered,
              KeptUntilDelivered, NoPhantomEvent, tableVars, ackVars, drainVars
<1>3. CASE Commit(t)
  BY <1>3 DEF Commit, TypeOK, TriggersAreWritten, SentIsCommitted, AckedIsDelivered,
              KeptUntilDelivered, NoPhantomEvent, ackVars, drainVars
<1>4. CASE PublishTriggers(t)
  <2>1. triggers[t] \subseteq committed /\ triggers[t] \subseteq Events
    BY <1>4 DEF PublishTriggers, TriggersAreWritten, TypeOK
  <2>2. PICK sent \in SUBSET triggers[t] :
          /\ Send(InstanceOf[t], sent)
          /\ UNCHANGED failures \/ CanFail
    BY <1>4 DEF PublishTriggers
  <2>3. failures' \in 0 .. MaxFailures
    BY <2>2, CanFailKeeps DEF TypeOK
  <2>4. /\ inFlight' \in [Instances -> [Events -> Nat]]
        /\ \A j \in Instances, e \in Events :
             inFlight'[j][e] > 0 => inFlight[j][e] > 0 \/ e \in committed
    BY <1>0, <2>1, <2>2, SendKeeps
  <2>5. TypeOK'
    BY <1>4, <2>3, <2>4 DEF PublishTriggers, TypeOK, tableVars, ackVars, drainVars
  <2>6. SentIsCommitted'
    BY <1>4, <2>4 DEF PublishTriggers, SentIsCommitted, tableVars, drainVars
  <2>7. TriggersAreWritten'
    BY <1>4 DEF PublishTriggers, TriggersAreWritten, TypeOK
  <2> QED
    BY <1>4, <2>5, <2>6, <2>7 DEF PublishTriggers, AckedIsDelivered, KeptUntilDelivered,
                                  NoPhantomEvent, tableVars, ackVars
<1> QED
  BY <1>1, <1>2, <1>3, <1>4 DEF CallerStep

\* The answers of the topic and what becomes of them.
LEMMA AnswerKeeps ==
  ASSUME IInv, NEW i \in Instances, NEW e \in Events,
         PublishSucceeds(i, e) \/ PublishFails(i, e)
  PROVE  IInv'
<1> USE DEF IInv
<1>1. inFlight[i][e] > 0 /\ Answered(i, e)
  BY DEF PublishSucceeds, PublishFails
<1>2. /\ inFlight' \in [Instances -> [Events -> Nat]]
      /\ \A j \in Instances, f \in Events : inFlight'[j][f] > 0 => inFlight[j][f] > 0
  BY <1>1, AnsweredKeeps
<1>3. e \in committed
  BY <1>1 DEF SentIsCommitted
<1>4. CASE PublishSucceeds(i, e)
  <2>1. /\ pendingEvents' \in [Instances -> Acks]
        /\ deleting' \in [Instances -> SUBSET SUBSET Events]
        /\ \A j \in Instances :
             /\ ToSet(pendingEvents'[j]) \subseteq ToSet(pendingEvents[j]) \cup {e}
             /\ \A b \in deleting'[j] :
                  b \in deleting[j] \/ b \subseteq ToSet(pendingEvents[j]) \cup {e}
    BY <1>4, HandleAckKeeps DEF PublishSucceeds
  <2>2. delivered' = delivered \cup {e}
    BY <1>4 DEF PublishSucceeds
  <2>3. TypeOK'
    BY <1>2, <1>4, <2>1, <2>2 DEF PublishSucceeds, TypeOK, tableVars, callerVars,
                                  drainVars, Acks
  <2>4. AckedIsDelivered'
    BY <2>1, <2>2 DEF AckedIsDelivered
  <2> QED
    BY <1>2, <1>3, <1>4, <2>2, <2>3, <2>4
       DEF PublishSucceeds, TriggersAreWritten, SentIsCommitted, KeptUntilDelivered,
           NoPhantomEvent, tableVars, callerVars, drainVars
<1>5. CASE PublishFails(i, e)
  <2>1. delivered \subseteq delivered' /\ delivered' \subseteq delivered \cup {e}
    BY <1>5 DEF PublishFails
  <2>2. failures' \in 0 .. MaxFailures
    BY <1>5, CanFailKeeps DEF PublishFails
  <2>3. TypeOK'
    BY <1>2, <1>5, <2>1, <2>2 DEF PublishFails, TypeOK, tableVars, callerVars, ackVars,
                                  drainVars
  <2>4. AckedIsDelivered'
    BY <1>5, <2>1 DEF PublishFails, AckedIsDelivered, ackVars
  <2> QED
    BY <1>2, <1>3, <1>5, <2>1, <2>3, <2>4
       DEF PublishFails, TriggersAreWritten, SentIsCommitted, KeptUntilDelivered,
           NoPhantomEvent, tableVars, callerVars, drainVars
<1> QED
  BY <1>4, <1>5

\* A drain reads committed rows and sends them again.
LEMMA DrainKeeps ==
  ASSUME IInv, NEW i \in Instances, DrainStep(i) PROVE IInv'
<1> USE DEF IInv
<1>1. CASE StartDrain(i)
  BY <1>1 DEF StartDrain, TypeOK, TriggersAreWritten, SentIsCommitted, AckedIsDelivered,
              KeptUntilDelivered, NoPhantomEvent, tableVars, callerVars, ackVars
<1>2. CASE RePublish(i)
  <2>1. PICK e \in draining[i] :
          /\ Send(i, {e})
          /\ draining' = [draining EXCEPT ![i] = @ \ {e}]
          /\ UNCHANGED <<tableVars, callerVars, ackVars, running, failures, crashes,
                         committed, delivered>>
    BY <1>2 DEF RePublish
  <2>2. e \in committed /\ {e} \in SUBSET Events
    BY DEF SentIsCommitted, TypeOK
  <2>3. /\ inFlight' \in [Instances -> [Events -> Nat]]
        /\ \A j \in Instances, f \in Events :
             inFlight'[j][f] > 0 => inFlight[j][f] > 0 \/ f \in {e}
    BY <2>1, <2>2, SendKeeps
  <2>4. TypeOK'
    BY <2>1, <2>3 DEF TypeOK, tableVars, callerVars, ackVars
  <2>5. SentIsCommitted'
    BY <2>1, <2>2, <2>3 DEF SentIsCommitted, TypeOK, tableVars
  <2> QED
    BY <2>1, <2>4, <2>5 DEF TriggersAreWritten, AckedIsDelivered, KeptUntilDelivered,
                            NoPhantomEvent, tableVars, callerVars, ackVars
<1>3. CASE DrainFails(i)
  <2>1. failures' \in 0 .. MaxFailures
    BY <1>3, CanFailKeeps DEF DrainFails, TypeOK
  <2> QED
    BY <1>3, <2>1 DEF DrainFails, TypeOK, TriggersAreWritten, SentIsCommitted,
                      AckedIsDelivered, KeptUntilDelivered, NoPhantomEvent, tableVars,
                      callerVars, ackVars
<1> QED
  BY <1>1, <1>2, <1>3 DEF DrainStep

\* A batch that is taken, deleted or lost holds delivered events.
LEMMA DeleteKeeps ==
  ASSUME IInv, NEW i \in Instances,
         Flush(i) \/ \E batch \in deleting[i] :
                      DeleteFromOutbox(i, batch) \/ DeleteFails(i, batch)
  PROVE  IInv'
<1> USE DEF IInv
<1>1. CASE Flush(i)
  <2>1. << >> \in Acks
    <3>1. << >> \in Seq(Events) /\ Len(<< >>) < MaxBatchSize
      BY OutboxAssumption
    <3> QED
      BY <3>1, AcksAreSequences
  <2>2. pendingEvents \in [Instances -> Acks]
    BY DEF TypeOK, Acks
  <2>3. ToSet(pendingEvents[i]) \in SUBSET Events
    <3>1. pendingEvents[i] \in Seq(Events)
      BY <2>2, AcksAreSequences
    <3> QED
      BY <3>1 DEF ToSet
  <2>4. TypeOK'
    BY <1>1, <2>1, <2>2, <2>3 DEF Flush, TypeOK, tableVars, callerVars, drainVars, Acks
  <2>5. ToSet(<< >>) = {}
    BY DEF ToSet
  <2>6. AckedIsDelivered'
    <3> SUFFICES ASSUME NEW j \in Instances
                 PROVE  /\ ToSet(pendingEvents'[j]) \subseteq delivered
                        /\ \A batch \in deleting'[j] : batch \subseteq delivered
      BY <1>1 DEF AckedIsDelivered, Flush
    <3>1. CASE j = i
      BY <1>1, <2>2, <2>5, <3>1 DEF Flush, TypeOK, AckedIsDelivered
    <3>2. CASE j # i
      BY <1>1, <2>2, <3>2 DEF Flush, TypeOK, AckedIsDelivered
    <3> QED
      BY <3>1, <3>2
  <2> QED
    BY <1>1, <2>4, <2>6 DEF Flush, TriggersAreWritten, SentIsCommitted,
                            KeptUntilDelivered, NoPhantomEvent, tableVars, callerVars,
                            drainVars
<1>2. ASSUME NEW batch \in deleting[i], DeleteFromOutbox(i, batch) PROVE IInv'
  <2>1. batch \subseteq delivered
    BY DEF AckedIsDelivered
  <2> QED
    BY <1>2, <2>1 DEF DeleteFromOutbox, TypeOK, TriggersAreWritten, SentIsCommitted,
                      AckedIsDelivered, KeptUntilDelivered, NoPhantomEvent, callerVars,
                      drainVars
<1>3. ASSUME NEW batch \in deleting[i], DeleteFails(i, batch) PROVE IInv'
  <2>1. failures' \in 0 .. MaxFailures
    BY <1>3, CanFailKeeps DEF DeleteFails
  <2> QED
    BY <1>3, <2>1 DEF DeleteFails, TypeOK, TriggersAreWritten, SentIsCommitted,
                      AckedIsDelivered, KeptUntilDelivered, NoPhantomEvent, tableVars,
                      callerVars, drainVars
<1> QED
  BY <1>1, <1>2, <1>3

\* A crash forgets; what arrives all the same had been sent.
LEMMA CrashKeeps ==
  ASSUME IInv, NEW i \in Instances, Crash(i) PROVE IInv'
<1> USE DEF IInv
<1>1. PICK arrived \in SUBSET {e \in Events : inFlight[i][e] > 0} :
        delivered' = delivered \cup arrived
  BY DEF Crash
<1>2. arrived \subseteq committed /\ arrived \subseteq Events
  BY DEF SentIsCommitted
<1>3. pendingEvents' \in [Instances -> Acks]
  <2>1. << >> \in Seq(Events) /\ Len(<< >>) < MaxBatchSize
    BY OutboxAssumption
  <2>2. << >> \in Acks
    BY <2>1, AcksAreSequences
  <2> QED
    BY <2>2 DEF Crash, TypeOK, Acks
<1>4. crashes' \in 0 .. MaxCrashes
  BY OutboxAssumption DEF Crash, TypeOK
<1>5. inFlight' \in [Instances -> [Events -> Nat]]
  BY DEF Crash, TypeOK
<1>6. /\ uncommitted' \in [Threads -> SUBSET Events]
      /\ triggers' \in [Threads -> SUBSET Events]
      /\ \A t \in Threads : triggers'[t] = {} \/ ( /\ triggers'[t] = triggers[t]
                                                /\ uncommitted'[t] = uncommitted[t])
  BY DEF Crash, TypeOK
<1>7. TypeOK'
  BY <1>1, <1>2, <1>3, <1>4, <1>5, <1>6 DEF Crash, TypeOK, tableVars, Acks
<1>8. TriggersAreWritten'
  BY <1>6 DEF Crash, TriggersAreWritten
<1>9. SentIsCommitted'
  BY DEF Crash, SentIsCommitted, TypeOK, tableVars
<1>10. ToSet(<< >>) = {}
  BY DEF ToSet
<1>11. AckedIsDelivered'
  BY <1>1, <1>10 DEF Crash, AckedIsDelivered, TypeOK
<1> QED
  BY <1>1, <1>2, <1>7, <1>8, <1>9, <1>11 DEF Crash, KeptUntilDelivered, NoPhantomEvent,
                                             tableVars

LEMMA InvNext == IInv /\ [Next]_vars => IInv'
<1> SUFFICES ASSUME IInv, [Next]_vars PROVE IInv'
  OBVIOUS
<1> USE DEF IInv
<1>1. ASSUME NEW t \in Threads, CallerStep(t) PROVE IInv'
  BY <1>1, CallerKeeps
<1>2. ASSUME NEW i \in Instances, InstanceStep(i) PROVE IInv'
  <2>1. CASE Start(i)
    BY <2>1 DEF Start, TypeOK, TriggersAreWritten, SentIsCommitted, AckedIsDelivered,
                KeptUntilDelivered, NoPhantomEvent, tableVars, callerVars, ackVars
  <2> QED
    BY <1>2, <2>1, DrainKeeps, DeleteKeeps, AnswerKeeps, CrashKeeps
       DEF InstanceStep, DeleteStep
<1>3. ASSUME NEW e \in Events, Age(e) PROVE IInv'
  BY <1>3 DEF Age, TypeOK, TriggersAreWritten, SentIsCommitted, AckedIsDelivered,
              KeptUntilDelivered, NoPhantomEvent, callerVars, ackVars, drainVars
<1>4. CASE UNCHANGED vars
  BY <1>4 DEF vars, TypeOK, TriggersAreWritten, SentIsCommitted, AckedIsDelivered,
              KeptUntilDelivered, NoPhantomEvent, tableVars, callerVars, ackVars, drainVars
<1> QED
  BY <1>1, <1>2, <1>3, <1>4 DEF Next

LEMMA Inductive == Spec => []IInv
  BY InvInit, InvNext, PTL DEF Spec

-----------------------------------------------------------------------------

\* The variables of Outbox keep their types; in particular the list of
\* acknowledgements never reaches the size at which the code takes the batch.
THEOREM OutboxTyped == Spec => []TypeOK
<1>1. IInv => TypeOK
  BY DEF IInv
<1> QED
  BY <1>1, Inductive, PTL

\* No acknowledgement, batch, failure or crash removes the row of a committed
\* event before the topic has it.
THEOREM NothingIsLost == Spec => []KeptUntilDelivered
<1>1. IInv => KeptUntilDelivered
  BY DEF IInv
<1> QED
  BY <1>1, Inductive, PTL

\* Nothing is published that was not committed, by a trigger or by a drain.
THEOREM NothingIsInvented == Spec => []NoPhantomEvent
<1>1. IInv => NoPhantomEvent
  BY DEF IInv
<1> QED
  BY <1>1, Inductive, PTL

-----------------------------------------------------------------------------
(* The safety part of the promise                                          *)

LEMMA PromiseInit == Init => Promise!Init
  BY DEF Init, Promise!Init

\* Every step accepts events, delivers accepted ones, or does neither.
LEMMA PromiseStep == IInv /\ IInv' /\ [Next]_vars => [Promise!Next]_(Promise!promiseVars)
<1> SUFFICES ASSUME IInv, IInv', [Next]_vars
             PROVE  [Promise!Next]_(Promise!promiseVars)
  OBVIOUS
<1> USE DEF Promise!Next, Promise!Accept, Promise!Deliver, Promise!promiseVars
<1>1. ASSUME NEW S \in SUBSET Events, Promise!Accept(S) \/ Promise!Deliver(S)
      PROVE  [Promise!Next]_(Promise!promiseVars)
  BY <1>1
<1>2. ASSUME delivered \subseteq delivered', UNCHANGED committed
      PROVE  [Promise!Next]_(Promise!promiseVars)
  <2>1. /\ delivered' \in SUBSET Events
        /\ delivered' \subseteq committed
        /\ delivered' = delivered \cup delivered'
    BY <1>2 DEF IInv, TypeOK, NoPhantomEvent
  <2> QED
    BY <1>1, <1>2, <2>1
<1>3. ASSUME NEW t \in Threads, Commit(t)
      PROVE  [Promise!Next]_(Promise!promiseVars)
  <2>1. uncommitted[t] \in SUBSET Events
    BY DEF IInv, TypeOK
  <2> QED
    BY <1>1, <1>3, <2>1 DEF Commit
<1>4. ASSUME NEW t \in Threads, CallerStep(t), ~Commit(t)
      PROVE  delivered \subseteq delivered' /\ UNCHANGED committed
  BY <1>4 DEF CallerStep, Persist, Rollback, PublishTriggers
<1>5. ASSUME NEW i \in Instances, InstanceStep(i)
      PROVE  delivered \subseteq delivered' /\ UNCHANGED committed
  BY <1>5 DEF InstanceStep, DrainStep, StartDrain, RePublish, DrainFails, DeleteStep,
              DeleteFromOutbox, DeleteFails, Flush, Start, Crash, PublishSucceeds,
              PublishFails
<1>6. ASSUME NEW e \in Events, Age(e)
      PROVE  delivered \subseteq delivered' /\ UNCHANGED committed
  BY <1>6 DEF Age
<1>7. CASE UNCHANGED vars
  BY <1>7 DEF vars
<1> QED
  BY <1>2, <1>3, <1>4, <1>5, <1>6, <1>7 DEF Next

\* Outbox implements the safety part of AtLeastOnce; that what is accepted is
\* delivered in the end is left to TLC.
THEOREM PromiseIsKept == Spec => Promise!SafeSpec
  BY Inductive, PromiseInit, PromiseStep, PTL DEF Spec, Promise!SafeSpec
=============================================================================
