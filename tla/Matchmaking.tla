---------------------------- MODULE Matchmaking ----------------------------
(***************************************************************************)
(* wonder-matcher: the Kafka Streams topology that turns likes into        *)
(* matches.  A like is a pair <<liker, likee>>.  It is read from           *)
(* dance-partner-events by the stream thread of the liker's partition, put *)
(* into the liker's like history and passed on, under the likee's key, to  *)
(* the passive topic.  There the thread of the likee's partition joins it  *)
(* with the likee's own like history and emits the match twice, once for   *)
(* each dancer.                                                            *)
(*                                                                         *)
(* The topology runs with EXACTLY_ONCE_V2: what a thread has read, stored  *)
(* and emitted takes effect for the others when it commits, and is undone  *)
(* when it dies first.  A thread owns one partition number of each topic;  *)
(* an instance that owns more of them behaves like some of these threads,  *)
(* until an exception takes all it owns back to their last commits.        *)
(***************************************************************************)
EXTENDS Naturals, SequencesExt

CONSTANTS
  Dancers,
  Partitions,
  PartitionOf,    \* where the records keyed by a dancer go
  Likes,          \* the likes that may be sent: pairs <<liker, likee>>
  MaxLikes,       \* bound: records sent to dance-partner-events
  MaxCrashes      \* bound: stream threads that die and are started again

ASSUME MatchmakingAssumption ==
  /\ PartitionOf \in [Dancers -> Partitions]
  /\ Likes \subseteq Dancers \X Dancers
  /\ MaxLikes \in Nat /\ MaxCrashes \in Nat

VARIABLES
  danceEvents,    \* topic dance-partner-events, one log per partition
  passiveLikes,   \* topic wonder-seeker-passive-like-events
  matchEvents,    \* repartition topic wonder-seeker-match-events
  task,           \* what a thread has read, stored and emitted
  saved,          \* that of its last commit
  crashes         \* threads started again so far

topicVars == <<danceEvents, passiveLikes, matchEvents>>
vars == <<topicVars, task, saved, crashes>>

Pair == Dancers \X Dancers
Liker(like) == like[1]
Likee(like) == like[2]
Reverse2(pair) == <<pair[2], pair[1]>>

\* WonderSeekerLikedByHistory; the name is {} in the history nobody has
\* initialized.
LikedBy == [name : {{}} \cup {{d} : d \in Dancers}, history : SUBSET Dancers]

Task ==
  [danceOffset : Nat, passiveOffset : Nat, matchOffset : Nat,
   likeHistory : SUBSET Pair,
   likedByHistory : [Dancers -> LikedBy],
   matchHistory : SUBSET Pair,
   passiveOut : [Partitions -> Seq(Pair)], matchOut : [Partitions -> Seq(Pair)]]

NoOutput == [p \in Partitions |-> <<>>]

FreshTask ==
  [danceOffset |-> 0, passiveOffset |-> 0, matchOffset |-> 0,
   likeHistory |-> {},
   likedByHistory |-> [d \in Dancers |-> [name |-> {}, history |-> {}]],
   matchHistory |-> {},
   passiveOut |-> NoOutput, matchOut |-> NoOutput]

Init ==
  /\ danceEvents = [p \in Partitions |-> <<>>]
  /\ passiveLikes = [p \in Partitions |-> <<>>]
  /\ matchEvents = [p \in Partitions |-> <<>>]
  /\ task = [p \in Partitions |-> FreshTask]
  /\ saved = [p \in Partitions |-> FreshTask]
  /\ crashes = 0

SumOfLengths(topic) == FoldFunction(LAMBDA log, n : n + Len(log), 0, topic)

\* DancePartnerFinderResource.likeADancer; the map likedDancers it also updates
\* is only logged.
LikeADancer(like) ==
  LET p == PartitionOf[Liker(like)] IN
  /\ SumOfLengths(danceEvents) < MaxLikes
  /\ danceEvents' = [danceEvents EXCEPT ![p] = Append(@, like)]
  /\ UNCHANGED <<passiveLikes, matchEvents, task, saved, crashes>>

-----------------------------------------------------------------------------
(* The topology                                                            *)

HasNext(log, offset) == offset < Len(log)

\* The record, keyed by the dancer, is put into the batch of its partition.
Emit(out, pair, dancer) == [out EXCEPT ![PartitionOf[dancer]] = Append(@, pair)]

\* Mutant of PassOn: the passive like keeps the key of the active one.
PassOnUnkeyed(out, like) == Emit(out, like, Liker(like))

PassOn(out, like) == Emit(out, like, Likee(like))

\* A record of dance-partner-events feeds both streams defined on that topic.
ProcessLike(p) ==
  LET like == danceEvents[p][task[p].danceOffset + 1] IN
  /\ HasNext(danceEvents[p], task[p].danceOffset)
  /\ task' = [task EXCEPT ![p].danceOffset = @ + 1,
                          ![p].likeHistory = @ \cup {like},
                          ![p].passiveOut = PassOn(@, like)]
  /\ UNCHANGED <<topicVars, saved, crashes>>

\* The aggregation names the history after the first liker and adds the likee,
\* which is also the key, where the liker is meant.
AddLikedBy(entry, like) ==
  [name |-> IF entry.name = {} THEN {Liker(like)} ELSE entry.name,
   history |-> entry.history \cup {Likee(like)}]

\* Mutant of LikedBack: the history of the likee is not searched for the liker.
LikedAnybody(p, like) == \E l \in task[p].likeHistory : Liker(l) = Likee(like)

\* The join with the like history of the likee.
LikedBack(p, like) == Reverse2(like) \in task[p].likeHistory

\* flatMap puts the event and its reverse into Set.of, which throws when the two
\* are equal.
IsSelfMatch(p, like) == LikedBack(p, like) /\ like = Reverse2(like)

\* Mutant of EmitBoth: the reversed event is forgotten.
EmitOne(out, like) == Emit(out, like, Liker(like))

EmitBoth(out, like) == Emit(Emit(out, like, Liker(like)), Reverse2(like), Likee(like))

ProcessPassiveLike(p) ==
  LET like == passiveLikes[p][task[p].passiveOffset + 1] IN
  /\ HasNext(passiveLikes[p], task[p].passiveOffset)
  /\ ~IsSelfMatch(p, like)
  /\ task' = [task EXCEPT
       ![p].passiveOffset = @ + 1,
       ![p].likedByHistory[Likee(like)] = AddLikedBy(@, like),
       ![p].matchOut = IF LikedBack(p, like) THEN EmitBoth(@, like) ELSE @]
  /\ UNCHANGED <<topicVars, saved, crashes>>

ProcessMatch(p) ==
  /\ HasNext(matchEvents[p], task[p].matchOffset)
  /\ task' = [task EXCEPT
       ![p].matchOffset = @ + 1,
       ![p].matchHistory = @ \cup {matchEvents[p][task[p].matchOffset + 1]}]
  /\ UNCHANGED <<topicVars, saved, crashes>>

-----------------------------------------------------------------------------
(* Commits and crashes under EXACTLY_ONCE_V2                               *)

\* What a thread has emitted becomes visible.
Deliver(topic, out) == [p \in Partitions |-> topic[p] \o out[p]]

Committed(t) == [t EXCEPT !.passiveOut = NoOutput, !.matchOut = NoOutput]

CommitTask(p) ==
  /\ task[p] # saved[p]
  /\ passiveLikes' = Deliver(passiveLikes, task[p].passiveOut)
  /\ matchEvents' = Deliver(matchEvents, task[p].matchOut)
  /\ saved' = [saved EXCEPT ![p] = Committed(task[p])]
  /\ task' = [task EXCEPT ![p] = Committed(task[p])]
  /\ UNCHANGED <<danceEvents, crashes>>

\* The exception of Set.of ends the thread before the record is committed.  The
\* handler of KafkaStreamsHealthIndicator has it replaced: the new thread begins at
\* the last commit and dies of the same record.
DieOnSelfMatch(p) ==
  /\ HasNext(passiveLikes[p], task[p].passiveOffset)
  /\ IsSelfMatch(p, passiveLikes[p][task[p].passiveOffset + 1])
  /\ task' = [task EXCEPT ![p] = saved[p]]
  /\ UNCHANGED <<topicVars, saved, crashes>>

\* Mutant of CrashAndRestart: AT_LEAST_ONCE, what was emitted before the crash stays.
CrashAtLeastOnce(p) ==
  /\ crashes < MaxCrashes
  /\ crashes' = crashes + 1
  /\ passiveLikes' = Deliver(passiveLikes, task[p].passiveOut)
  /\ matchEvents' = Deliver(matchEvents, task[p].matchOut)
  /\ task' = [task EXCEPT ![p] = saved[p]]
  /\ UNCHANGED <<danceEvents, saved>>

\* The instance dies and another one takes over.
CrashAndRestart(p) ==
  /\ crashes < MaxCrashes
  /\ crashes' = crashes + 1
  /\ task' = [task EXCEPT ![p] = saved[p]]
  /\ UNCHANGED <<topicVars, saved>>

-----------------------------------------------------------------------------

ThreadStep(p) ==
  \/ ProcessLike(p)
  \/ ProcessPassiveLike(p)
  \/ ProcessMatch(p)
  \/ CommitTask(p)
  \/ DieOnSelfMatch(p)

Next ==
  \/ \E like \in Likes : LikeADancer(like)
  \/ \E p \in Partitions : ThreadStep(p) \/ CrashAndRestart(p)

\* A thread, the replaced one included, polls and commits for ever.
Spec == Init /\ [][Next]_vars /\ \A p \in Partitions : WF_vars(ThreadStep(p))

-----------------------------------------------------------------------------
(* Correctness *)

TypeOK ==
  /\ danceEvents \in [Partitions -> Seq(Pair)]
  /\ passiveLikes \in [Partitions -> Seq(Pair)]
  /\ matchEvents \in [Partitions -> Seq(Pair)]
  /\ task \in [Partitions -> Task]
  /\ saved \in [Partitions -> Task]
  /\ crashes \in 0 .. MaxCrashes
  /\ \A p \in Partitions :
       /\ \A like \in ToSet(danceEvents[p]) : PartitionOf[Liker(like)] = p
       /\ \A like \in ToSet(passiveLikes[p]) : PartitionOf[Likee(like)] = p

HasLiked(a, b) == <<a, b>> \in saved[PartitionOf[a]].likeHistory

\* A match anybody is shown rests on two likes that no crash can undo, although
\* it is computed from, and shown out of, stores that are not yet committed.
MatchIsMutual ==
  \A p \in Partitions : \A m \in task[p].matchHistory :
    HasLiked(m[1], m[2]) /\ HasLiked(m[2], m[1])

Unread(log, offset) == ToSet(SubSeq(log, offset + 1, Len(log)))
OnItsWay(like) ==
  LET p == PartitionOf[Likee(like)]
  IN  like \in Unread(passiveLikes[p], saved[p].passiveOffset)
IsMatched(a, b) == <<a, b>> \in ToSet(matchEvents[PartitionOf[a]])

\* Two likes never miss each other: whichever thread comes first, however the
\* commits and crashes fall, one of the two passive likes is still to be joined
\* or both dancers have their match event.
MutualIsNoticed ==
  \A a, b \in Dancers :
    HasLiked(a, b) /\ HasLiked(b, a) =>
      \/ OnItsWay(<<a, b>>) \/ OnItsWay(<<b, a>>)
      \/ IsMatched(a, b) /\ IsMatched(b, a)

Count(pair, log) == Cardinality({n \in DOMAIN log : log[n] = pair})

\* A like is passed on once for each time it was sent, however often the thread
\* that passes it on is restarted in between.
PassedOnOnce ==
  \A like \in Likes :
    LET p == PartitionOf[Liker(like)]
    IN  Count(like, passiveLikes[PartitionOf[Likee(like)]])
          = Count(like, SubSeq(danceEvents[p], 1, saved[p].danceOffset))

HasSent(a, b) == <<a, b>> \in ToSet(danceEvents[PartitionOf[a]])
IsShown(a, b) == <<a, b>> \in saved[PartitionOf[a]].matchHistory

\* A like of oneself waits for its join: the thread of p dies of it for ever.
StuckAtSelfMatch(p) ==
  \E like \in Unread(passiveLikes[p], saved[p].passiveOffset) : Liker(like) = Likee(like)

\* Two mutual likes, whenever they were sent and whoever dies in between, are
\* shown to both dancers for good, unless some thread is stuck at a like of a
\* dancer for her- or himself.  (At any partition: the thread may own theirs too.)
MatchedOrStuck ==
  \A a, b \in Dancers :
    a # b /\ HasSent(a, b) /\ HasSent(b, a) ~>
      \/ IsShown(a, b) /\ IsShown(b, a)
      \/ \E p \in Partitions : StuckAtSelfMatch(p)

\* "Once two people have shown mutual interest toward each other, there are each
\* other's match": both are shown the other one, for good.
MutualLikesMatch ==
  \A a, b \in Dancers :
    a # b /\ HasSent(a, b) /\ HasSent(b, a) ~> IsShown(a, b) /\ IsShown(b, a)

=============================================================================
