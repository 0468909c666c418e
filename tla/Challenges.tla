----------------------------- MODULE Challenges -----------------------------
(***************************************************************************)
(* challenge-based-authentication: a challenge is created, captured,       *)
(* signed and used for one login.  A request only logs an event, with the  *)
(* challenge's nonce as its key; a Kafka Streams aggregation of the event  *)
(* log, exactly once, keeps each challenge's state.  The log is compacted. *)
(*                                                                         *)
(* The log here is one partition of the topic (the default is three, the   *)
(* local profiles have one); the events of a challenge are all in one.  An *)
(* instance has one stream thread for all its partitions, which may die of *)
(* a record of another one, and a producer of its own; idempotence keeps   *)
(* what it sends in order, and a request is answered before its event is   *)
(* sent.                                                                   *)
(***************************************************************************)
EXTENDS Naturals, Sequences

CONSTANTS
  Nonces,         \* signing nonces of challenges
  Instances,
  MaxEvents,      \* bound: requests that are accepted
  MaxFailures     \* bound: crashes, rebalances, events that cannot be sent,
                  \* threads that die of another partition

ASSUME ChallengesAssumption == MaxEvents \in Nat /\ MaxFailures \in Nat

VARIABLES
  unsent,         \* events in the buffer of an instance's producer
  log,            \* topic event_log
  gone,           \* offsets that compaction has removed
  running,        \* instances whose stream thread is alive
  owner,          \* the instance that has the partition
  position,       \* offset of the event handled last
  challenges,     \* the state written in CHALLENGE_STATE_STORE
  committed,      \* position and store of the last commit
  via,            \* instances the requests with a nonce went to
  accepted,       \* number of requests
  failures

topicVars == <<unsent, log, gone>>
streamVars == <<running, owner, position, challenges, committed>>
clientVars == <<via, accepted>>
vars == <<topicVars, streamVars, clientVars, failures>>

NoOwner == "no owner"
NoEntry == "no entry"

Init ==
  /\ unsent = [i \in Instances |-> <<>>]
  /\ log = <<>> /\ gone = {}
  /\ running = Instances /\ owner = NoOwner
  /\ position = 0
  /\ challenges = [c \in Nonces |-> NoEntry]
  /\ committed = [position |-> 0, challenges |-> challenges]
  /\ via = [c \in Nonces |-> {}]
  /\ accepted = 0 /\ failures = 0

CanFail == failures < MaxFailures /\ failures' = failures + 1

-----------------------------------------------------------------------------
(* AuthenticationResource and EventLogger *)

\* The event is handed to the producer and the request answered.
Log(i, c, kind) ==
  /\ accepted < MaxEvents
  /\ accepted' = accepted + 1
  /\ unsent' = [unsent EXCEPT ![i] = Append(@, [key |-> c, kind |-> kind])]
  /\ via' = [via EXCEPT ![c] = @ \cup {i}]
  /\ UNCHANGED <<log, gone, streamVars, failures>>

\* A nonce is a fresh UUID: which of the unused ones it is makes no difference.
Unused == {c \in Nonces : via[c] = {}}
Create(i) == Unused # {} /\ Log(i, CHOOSE c \in Unused : TRUE, "created")

\* No request looks for the challenge: any nonce will do.
Capture(i, c) == Log(i, c, "captured")
Sign(i, c) == Log(i, c, "signed")
Login(i, c) == Log(i, c, "usedForLogin")

\* The broker takes the event, or the producer gives up; TopicPublisher logs it.
Send(i) ==
  /\ unsent[i] # <<>>
  /\ unsent' = [unsent EXCEPT ![i] = Tail(@)]
  /\ \/ log' = Append(log, Head(unsent[i])) /\ UNCHANGED failures
     \/ UNCHANGED log /\ CanFail
  /\ UNCHANGED <<gone, streamVars, clientVars>>

\* cleanup.policy compact: only the last event of a key is sure to stay.
Compact(k) ==
  /\ k \in DOMAIN log \ gone
  /\ \E later \in DOMAIN log : later > k /\ log[later].key = log[k].key
  /\ gone' = gone \cup {k}
  /\ UNCHANGED <<unsent, log, streamVars, clientVars, failures>>

-----------------------------------------------------------------------------
(* The aggregation *)

\* AuthenticationChallenge.createNew
CreateNew == "AWAITING_CAPTURE"

\* A challenge that is read from JSON has no field set: it is built with a Lombok
\* builder whose methods do not begin with "with", as Jackson expects of a builder
\* that is not annotated otherwise, and unknown properties are not an error.
ReadBack == "null"

\* Mutant of Current: without the initializer.
CurrentNull(c) == ReadBack

\* What an event is applied to: createNew serves for a missing entry, as an object.
Current(c) == IF challenges[c] = NoEntry THEN CreateNew ELSE ReadBack

\* Mutant of Throws: a transition is made from any state.
ThrowsNever(e) == FALSE

\* capture and sign: IllegalStateException, or NullPointerException on a null state.
Throws(e) ==
  \/ e.kind = "captured" /\ Current(e.key) # "AWAITING_CAPTURE"
  \/ e.kind = "signed" /\ Current(e.key) \notin {"AWAITING_CAPTURE", "CAPTURED"}

\* EventHandler.apply, where it does not throw; the event's challenge comes from
\* JSON as well.
Apply(e) ==
  CASE e.kind = "created" -> ReadBack
    [] e.kind = "captured" -> "CAPTURED"
    [] e.kind = "signed" -> "SIGNED"
    [] e.kind = "usedForLogin" -> "INVALID"

\* The record that is polled next.
IsNext(k) ==
  /\ k > position /\ k \in DOMAIN log \ gone
  /\ \A other \in DOMAIN log \ gone : other > position => k <= other

\* It cannot be handled.
Stuck == \E k \in DOMAIN log : IsNext(k) /\ Throws(log[k])

Assign(i) ==
  /\ owner = NoOwner /\ i \in running
  /\ owner' = i
  /\ UNCHANGED <<topicVars, running, position, challenges, committed, clientVars,
                 failures>>

Handle(k) ==
  /\ owner # NoOwner
  /\ IsNext(k) /\ ~Throws(log[k])
  /\ position' = k
  /\ challenges' = [challenges EXCEPT ![log[k].key] = Apply(log[k])]
  /\ UNCHANGED <<topicVars, running, owner, committed, clientVars, failures>>

\* Mutant of Commit: only if the store has changed.
CommitChanges ==
  /\ owner # NoOwner
  /\ committed.challenges # challenges
  /\ committed' = [position |-> position, challenges |-> challenges]
  /\ UNCHANGED <<topicVars, running, owner, position, challenges, clientVars,
                 failures>>

\* One transaction for offset and changelog.
Commit ==
  /\ owner # NoOwner
  /\ committed # [position |-> position, challenges |-> challenges]
  /\ committed' = [position |-> position, challenges |-> challenges]
  /\ UNCHANGED <<topicVars, running, owner, position, challenges, clientVars,
                 failures>>

\* Mutant of Abort: at least once, the store is not part of the transaction.
AbortOffset ==
  /\ position' = committed.position
  /\ UNCHANGED challenges

Abort ==
  /\ position' = committed.position
  /\ challenges' = committed.challenges

\* Mutant of ThreadDies: the partition stays with the instance.
ThreadDiesOwning(i) ==
  /\ i = owner /\ Stuck
  /\ running' = running \ {i}
  /\ Abort
  /\ UNCHANGED <<topicVars, owner, committed, clientVars, failures>>

\* The exception, for a record here or in another partition, ends the stream
\* thread; the handler only logs it, and the partition goes to another instance.
ThreadDies(i) ==
  /\ i \in running
  /\ \/ i = owner /\ Stuck /\ UNCHANGED failures
     \/ CanFail
  /\ running' = running \ {i}
  /\ IF owner = i THEN owner' = NoOwner /\ Abort
                  ELSE UNCHANGED <<owner, position, challenges>>
  /\ UNCHANGED <<topicVars, committed, clientVars>>

\* A rebalance takes the partition away after a commit.
Revoke ==
  /\ owner # NoOwner
  /\ CanFail
  /\ committed' = [position |-> position, challenges |-> challenges]
  /\ owner' = NoOwner
  /\ UNCHANGED <<topicVars, running, position, challenges, clientVars>>

\* An instance ends without warning and is started again: what its producer has
\* not sent and its thread has not committed is lost.
Crash(i) ==
  /\ CanFail
  /\ unsent' = [unsent EXCEPT ![i] = <<>>]
  /\ running' = running \cup {i}
  /\ IF owner = i THEN owner' = NoOwner /\ Abort
                  ELSE UNCHANGED <<owner, position, challenges>>
  /\ UNCHANGED <<log, gone, committed, clientVars>>

-----------------------------------------------------------------------------

RequestStep(i) ==
  \/ Create(i)
  \/ \E c \in Nonces : Capture(i, c) \/ Sign(i, c) \/ Login(i, c)

Next ==
  \/ \E i \in Instances :
       RequestStep(i) \/ Send(i) \/ Assign(i) \/ ThreadDies(i) \/ Crash(i)
  \/ \E k \in DOMAIN log : Compact(k) \/ Handle(k)
  \/ Commit
  \/ Revoke

\* The partition is given to a living thread, which polls and commits.
Fairness ==
  /\ WF_vars(\E i \in Instances : Assign(i))
  /\ WF_vars(\E k \in DOMAIN log : Handle(k))
  /\ WF_vars(Commit)

Spec == Init /\ [][Next]_vars /\ Fairness

-----------------------------------------------------------------------------
(* Correctness *)

Entries == {NoEntry, "null", "AWAITING_CAPTURE", "CAPTURED", "SIGNED", "INVALID"}
Events == [key : Nonces, kind : {"created", "captured", "signed", "usedForLogin"}]

TypeOK ==
  /\ unsent \in [Instances -> Seq(Events)]
  /\ log \in Seq(Events)
  /\ gone \subseteq DOMAIN log
  /\ running \subseteq Instances
  /\ owner \in running \cup {NoOwner}
  /\ position \in 0 .. Len(log)
  /\ challenges \in [Nonces -> Entries]
  /\ committed \in [position : 0 .. position, challenges : [Nonces -> Entries]]
  /\ via \in [Nonces -> SUBSET Instances]
  /\ accepted \in 0 .. MaxEvents /\ failures \in 0 .. MaxFailures

\* The event of a challenge that was handled last.
HandledLast(k) ==
  /\ k <= position /\ k \in DOMAIN log \ gone
  /\ \A later \in k + 1 .. position : log[later].key # log[k].key

Outcome(kind) ==
  CASE kind = "captured" -> "CAPTURED"
    [] kind = "signed" -> "SIGNED"
    [] kind = "usedForLogin" -> "INVALID"

\* The store says of a challenge what the last event of it that was handled says,
\* whichever events before it were lost, late, compacted away or handled again
\* after a crash: what compaction keeps is enough.  (For a creation that last is
\* the next property.)
LastEventDecides ==
  \A k \in DOMAIN log :
    HandledLast(k) /\ log[k].kind # "created" =>
      challenges[log[k].key] = Outcome(log[k].kind)

\* A challenge that has been created, and no more, awaits its capture: "state" is
\* @NotNull, createNew sets AWAITING_CAPTURE, and "only AWAITING_CAPTURE
\* challenges can be CAPTURED".
CreatedAwaitsCapture ==
  \A k \in DOMAIN log :
    HandledLast(k) /\ log[k].kind = "created" =>
      challenges[log[k].key] = "AWAITING_CAPTURE"

\* An event that comes without the ones before it, lost or sent by an instance
\* that is slower, never stops the stream; only an event of a challenge that the
\* log had an earlier event of does, be that one compacted away by now or not.
LoneEventIsHandled ==
  \A k \in DOMAIN log : IsNext(k) /\ Throws(log[k]) =>
    \E earlier \in 1 .. k - 1 : log[earlier].key = log[k].key

Rank(entry) ==
  CASE entry = NoEntry -> 0
    [] entry \in {"null", "AWAITING_CAPTURE"} -> 1
    [] entry = "CAPTURED" -> 2
    [] entry = "SIGNED" -> 3
    [] entry = "INVALID" -> 4

UsedAtOne(c) == \A i, j \in via[c] : i = j

\* What is committed of a challenge that is used through one instance never goes
\* back: a login stays the end of it over crashes, rebalances and requests that
\* come late.  (Through two instances the creation may be logged last.)
NeverBack ==
  [][\A c \in Nonces : UsedAtOne(c) =>
       Rank(committed'.challenges[c]) >= Rank(committed.challenges[c])]_vars

\* What is logged is handled and committed, unless compaction removes it or an
\* event that cannot be handled stops the threads.
LoggedIsHandled ==
  \A k \in 1 .. MaxEvents :
    k <= Len(log) ~> k \in gone \/ committed.position >= k \/ Stuck \/ running = {}
=============================================================================
