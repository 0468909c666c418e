------------------------- MODULE MatchmakingProofs -------------------------
(***************************************************************************)
(* Theorems about Matchmaking, for every set of dancers, partitions and    *)
(* likes and every number of crashes.  That two mutual likes never miss    *)
(* each other rests on two facts about what a thread has done since its    *)
(* last commit: a like it has stored is still to be passed on, and a       *)
(* passive like it has read was joined with every like of that commit.     *)
(***************************************************************************)
EXTENDS Matchmaking, FiniteSums

\* The outputs are committed with what they were computed from, and no thread
\* reads beyond the end of a topic.
Commits ==
  \A p \in Partitions :
    /\ saved[p].passiveOut = NoOutput /\ saved[p].matchOut = NoOutput
    /\ saved[p].likeHistory \subseteq task[p].likeHistory
    /\ saved[p].passiveOffset <= task[p].passiveOffset
    /\ task[p].passiveOffset <= Len(passiveLikes[p])

\* TypeOK without what says where a record is.
Types ==
  /\ danceEvents \in [Partitions -> Seq(Pair)]
  /\ passiveLikes \in [Partitions -> Seq(Pair)]
  /\ matchEvents \in [Partitions -> Seq(Pair)]
  /\ task \in [Partitions -> Task]
  /\ saved \in [Partitions -> Task]
  /\ crashes \in 0 .. MaxCrashes

Holds(log, pair) == \E n \in DOMAIN log : log[n] = pair

\* The like is in a committed history.
Stored(like) == like \in saved[PartitionOf[Liker(like)]].likeHistory
Mutual(pair) == Stored(pair) /\ Stored(Reverse2(pair))

\* The like as the thread of p sees it.
Sees(p, like) ==
  \/ Stored(like)
  \/ PartitionOf[Liker(like)] = p /\ like \in task[p].likeHistory

\* Likes are in the partition of the liker.
SentAtHome ==
  \A p \in Partitions : \A n \in DOMAIN danceEvents[p] :
    PartitionOf[Liker(danceEvents[p][n])] = p

\* What a thread is about to pass on are likes it has stored.
OutAtHome ==
  \A p, q \in Partitions : \A n \in DOMAIN task[p].passiveOut[q] :
    LET like == task[p].passiveOut[q][n]
    IN  /\ PartitionOf[Liker(like)] = p /\ PartitionOf[Likee(like)] = q
        /\ like \in task[p].likeHistory

\* Passive likes are in the partition of the likee, and stored for good.
PassedAtHome ==
  \A q \in Partitions : \A n \in DOMAIN passiveLikes[q] :
    PartitionOf[Likee(passiveLikes[q][n])] = q /\ Stored(passiveLikes[q][n])

\* A like stored since the last commit is still to be passed on.
NewIsPassedOn ==
  \A p \in Partitions : \A like \in task[p].likeHistory :
    like \in saved[p].likeHistory \/ Holds(task[p].passiveOut[PartitionOf[Likee(like)]], like)

Joined(out, like) ==
  /\ Holds(out[PartitionOf[Liker(like)]], like)
  /\ Holds(out[PartitionOf[Likee(like)]], Reverse2(like))

\* A passive like read since then was joined with every like of that commit.
ReadIsJoined ==
  \A p \in Partitions : \A n \in DOMAIN passiveLikes[p] :
    /\ n > saved[p].passiveOffset /\ n <= task[p].passiveOffset
    /\ Reverse2(passiveLikes[p][n]) \in saved[p].likeHistory
    => Joined(task[p].matchOut, passiveLikes[p][n])

\* Matches rest on likes: of the thread before its commit, of everybody after it.
OutIsLiked ==
  \A p, q \in Partitions : \A n \in DOMAIN task[p].matchOut[q] :
    Sees(p, task[p].matchOut[q][n]) /\ Sees(p, Reverse2(task[p].matchOut[q][n]))
EventsAreMutual ==
  \A q \in Partitions : \A n \in DOMAIN matchEvents[q] : Mutual(matchEvents[q][n])
HistoriesAreMutual ==
  \A p \in Partitions : \A m \in task[p].matchHistory \cup saved[p].matchHistory : Mutual(m)

\* The passive like is unread as of the last commit of its reader.
Awaits(like) ==
  LET p == PartitionOf[Likee(like)]
  IN  \E n \in DOMAIN passiveLikes[p] :
        n > saved[p].passiveOffset /\ passiveLikes[p][n] = like

\* MutualIsNoticed without the sets of what is on its way.
Noticed ==
  \A x \in Pair :
    Mutual(x) => Awaits(x) \/ Awaits(Reverse2(x)) \/ Joined(matchEvents, x)

IInv ==
  /\ Types
  /\ Commits
  /\ SentAtHome /\ OutAtHome /\ PassedAtHome
  /\ NewIsPassedOn
  /\ ReadIsJoined
  /\ OutIsLiked /\ EventsAreMutual /\ HistoriesAreMutual
  /\ Noticed

-----------------------------------------------------------------------------
(* Pairs and logs *)

LEMMA PairFacts ==
  ASSUME NEW x \in Pair
  PROVE  /\ Liker(x) \in Dancers /\ Likee(x) \in Dancers
         /\ PartitionOf[Liker(x)] \in Partitions /\ PartitionOf[Likee(x)] \in Partitions
         /\ Reverse2(x) \in Pair /\ Reverse2(Reverse2(x)) = x
         /\ Liker(Reverse2(x)) = Likee(x) /\ Likee(Reverse2(x)) = Liker(x)
         /\ x = <<Liker(x), Likee(x)>> /\ Reverse2(x) = <<Likee(x), Liker(x)>>
  BY MatchmakingAssumption DEF Pair, Liker, Likee, Reverse2

Logs == [Partitions -> Seq(Pair)]

\* A record is put at the end of the batch of its partition.
LEMMA EmitFacts ==
  ASSUME NEW out \in Logs, NEW x \in Pair, NEW d \in Dancers
  PROVE  /\ Emit(out, x, d) \in Logs
         /\ \A q \in Partitions :
              /\ \A n \in DOMAIN out[q] :
                   n \in DOMAIN Emit(out, x, d)[q] /\ Emit(out, x, d)[q][n] = out[q][n]
              /\ \A n \in DOMAIN Emit(out, x, d)[q] :
                   \/ n \in DOMAIN out[q] /\ Emit(out, x, d)[q][n] = out[q][n]
                   \/ q = PartitionOf[d] /\ Emit(out, x, d)[q][n] = x
         /\ Holds(Emit(out, x, d)[PartitionOf[d]], x)
<1> DEFINE r == PartitionOf[d]
           new == Append(out[r], x)
<1>1. r \in Partitions /\ out[r] \in Seq(Pair)
  BY MatchmakingAssumption DEF Logs
<1>2. /\ new \in Seq(Pair) /\ DOMAIN new = 1 .. Len(out[r]) + 1
      /\ DOMAIN out[r] = 1 .. Len(out[r]) /\ Len(out[r]) \in Nat
      /\ new[Len(out[r]) + 1] = x
      /\ \A n \in DOMAIN out[r] : new[n] = out[r][n]
  BY <1>1
<1>3. Emit(out, x, d) = [out EXCEPT ![r] = new]
  BY DEF Emit
<1> HIDE DEF r, new
<1>4. Emit(out, x, d) \in Logs
  BY <1>2, <1>3 DEF Logs
<1>5. Emit(out, x, d)[r] = new
  BY <1>1, <1>3 DEF Logs
<1>6. \A q \in Partitions : q # r => Emit(out, x, d)[q] = out[q]
  BY <1>3 DEF Logs
<1>7. Holds(new, x)
  BY <1>2 DEF Holds
<1>8. \A n \in DOMAIN new : n \in DOMAIN out[r] \/ n = Len(out[r]) + 1
  BY <1>2
<1>9. ASSUME NEW q \in Partitions
      PROVE  /\ \A n \in DOMAIN out[q] :
                  n \in DOMAIN Emit(out, x, d)[q] /\ Emit(out, x, d)[q][n] = out[q][n]
             /\ \A n \in DOMAIN Emit(out, x, d)[q] :
                  \/ n \in DOMAIN out[q] /\ Emit(out, x, d)[q][n] = out[q][n]
                  \/ q = r /\ Emit(out, x, d)[q][n] = x
  <2>1. CASE q = r
    BY <1>2, <1>5, <1>8, <2>1
  <2>2. CASE q # r
    BY <1>6, <2>2
  <2> QED
    BY <2>1, <2>2
<1> QED
  BY <1>4, <1>5, <1>7, <1>9 DEF r

\* d is s with t at its end.
Appended(s, t, d) ==
  /\ Len(s) \in Nat /\ Len(s) <= Len(d) /\ DOMAIN s = 1 .. Len(s)
  /\ \A n \in DOMAIN s : n \in DOMAIN d /\ d[n] = s[n]
  /\ \A n \in DOMAIN d :
       \/ n \in DOMAIN s /\ d[n] = s[n]
       \/ n > Len(s) /\ \E m \in DOMAIN t : d[n] = t[m]
  /\ \A m \in DOMAIN t : \E n \in DOMAIN d : n > Len(s) /\ d[n] = t[m]

LEMMA AppendedFacts ==
  ASSUME NEW s \in Seq(Pair), NEW t \in Seq(Pair), NEW d, d = s \o t
  PROVE  d \in Seq(Pair) /\ Appended(s, t, d)
<1>1. /\ Len(s) \in Nat /\ Len(t) \in Nat /\ Len(d) = Len(s) + Len(t)
      /\ DOMAIN s = 1 .. Len(s) /\ DOMAIN t = 1 .. Len(t) /\ DOMAIN d = 1 .. Len(d)
      /\ d \in Seq(Pair)
  OBVIOUS
<1>2. \A n \in DOMAIN s : n \in DOMAIN d /\ d[n] = s[n]
  BY <1>1
<1>3. ASSUME NEW n \in DOMAIN d
      PROVE  \/ n \in DOMAIN s /\ d[n] = s[n]
             \/ n > Len(s) /\ \E m \in DOMAIN t : d[n] = t[m]
  <2>1. CASE n <= Len(s)
    BY <1>1, <2>1
  <2>2. CASE n > Len(s)
    <3>1. n - Len(s) \in DOMAIN t /\ d[n] = t[n - Len(s)]
      BY <1>1, <2>2
    <3> QED
      BY <2>2, <3>1
  <2> QED
    BY <1>1, <2>1, <2>2
<1>4. ASSUME NEW m \in DOMAIN t
      PROVE  \E n \in DOMAIN d : n > Len(s) /\ d[n] = t[m]
  <2>1. Len(s) + m \in DOMAIN d /\ d[Len(s) + m] = t[m] /\ Len(s) + m > Len(s)
    BY <1>1
  <2> QED
    BY <2>1
<1> QED
  BY <1>1, <1>2, <1>3, <1>4 DEF Appended

\* A commit appends the batches to the topics.
LEMMA DeliverFacts ==
  ASSUME NEW topic \in Logs, NEW out \in Logs
  PROVE  /\ Deliver(topic, out) \in Logs
         /\ \A q \in Partitions : Appended(topic[q], out[q], Deliver(topic, out)[q])
<1>1. \A q \in Partitions :
        /\ Deliver(topic, out)[q] = topic[q] \o out[q]
        /\ topic[q] \in Seq(Pair) /\ out[q] \in Seq(Pair)
  BY DEF Deliver, Logs
<1>2. \A q \in Partitions :
        /\ Deliver(topic, out)[q] \in Seq(Pair)
        /\ Appended(topic[q], out[q], Deliver(topic, out)[q])
  BY <1>1, AppendedFacts, Zenon
<1>3. Deliver(topic, out) = [q \in Partitions |-> topic[q] \o out[q]]
  BY DEF Deliver
<1>4. \A q \in Partitions : topic[q] \o out[q] \in Seq(Pair)
  BY <1>1, <1>2
<1> QED
  BY <1>2, <1>3, <1>4, Zenon DEF Logs

-----------------------------------------------------------------------------
(* What each action does to the thread's task *)

LEMMA ReadRecord ==
  ASSUME NEW log \in Seq(Pair), NEW offset \in Nat, HasNext(log, offset)
  PROVE  /\ offset + 1 \in DOMAIN log /\ log[offset + 1] \in Pair
         /\ offset + 1 \in Nat /\ offset + 1 <= Len(log)
  BY DEF HasNext

LEMMA LikeEffect ==
  ASSUME Types, NEW p \in Partitions, ProcessLike(p)
  PROVE  \E like \in Pair, n \in DOMAIN danceEvents[p] :
           /\ like = danceEvents[p][n]
           /\ task' \in [Partitions -> Task]
           /\ \A q \in Partitions : q # p => task'[q] = task[q]
           /\ task'[p].passiveOffset = task[p].passiveOffset
           /\ task'[p].matchHistory = task[p].matchHistory
           /\ task'[p].likeHistory = task[p].likeHistory \cup {like}
           /\ task'[p].passiveOut = PassOn(task[p].passiveOut, like)
           /\ task'[p].matchOut = task[p].matchOut
<1> DEFINE n == task[p].danceOffset + 1
           like == danceEvents[p][n]
           t == [task[p] EXCEPT !.danceOffset = @ + 1,
                                !.likeHistory = @ \cup {like},
                                !.passiveOut = PassOn(@, like)]
<1>1. task[p] \in Task /\ danceEvents[p] \in Seq(Pair) /\ task \in [Partitions -> Task]
  BY DEF Types
<1>2. task[p].danceOffset \in Nat /\ task[p].passiveOut \in Logs
  BY <1>1 DEF Task, Logs
<1>3. HasNext(danceEvents[p], task[p].danceOffset)
  BY DEF ProcessLike
<1>4. n \in DOMAIN danceEvents[p] /\ like \in Pair /\ n \in Nat
  BY <1>1, <1>2, <1>3, ReadRecord
<1>5. task' = [task EXCEPT ![p] = t]
  BY <1>1 DEF ProcessLike
<1>6. PassOn(task[p].passiveOut, like) \in Logs
  BY <1>2, <1>4, PairFacts, EmitFacts DEF PassOn
<1> HIDE DEF like, n
<1>7. t \in Task
  BY <1>1, <1>2, <1>4, <1>6 DEF Task, Logs, n
<1>8. /\ t.passiveOffset = task[p].passiveOffset
      /\ t.matchHistory = task[p].matchHistory
      /\ t.likeHistory = task[p].likeHistory \cup {like}
      /\ t.passiveOut = PassOn(task[p].passiveOut, like)
      /\ t.matchOut = task[p].matchOut
  BY <1>1 DEF Task
<1> HIDE DEF t
<1>9. /\ task' \in [Partitions -> Task] /\ task'[p] = t
      /\ \A q \in Partitions : q # p => task'[q] = task[q]
  BY <1>1, <1>5, <1>7
<1> QED
  BY <1>4, <1>8, <1>9 DEF like

LEMMA PassiveEffect ==
  ASSUME Types, NEW p \in Partitions, ProcessPassiveLike(p)
  PROVE  \E like \in Pair, n \in DOMAIN passiveLikes[p] :
           /\ like = passiveLikes[p][n]
           /\ n = task[p].passiveOffset + 1
           /\ task' \in [Partitions -> Task]
           /\ \A q \in Partitions : q # p => task'[q] = task[q]
           /\ task'[p].passiveOffset = n
           /\ task'[p].matchHistory = task[p].matchHistory
           /\ task'[p].likeHistory = task[p].likeHistory
           /\ task'[p].passiveOut = task[p].passiveOut
           /\ task'[p].matchOut = IF Reverse2(like) \in task[p].likeHistory
                                  THEN EmitBoth(task[p].matchOut, like)
                                  ELSE task[p].matchOut
<1> DEFINE n == task[p].passiveOffset + 1
           like == passiveLikes[p][n]
           by == AddLikedBy(task[p].likedByHistory[Likee(like)], like)
           out == IF Reverse2(like) \in task[p].likeHistory
                    THEN EmitBoth(task[p].matchOut, like) ELSE task[p].matchOut
           t == [task[p] EXCEPT !.passiveOffset = @ + 1,
                                !.likedByHistory[Likee(like)] = by,
                                !.matchOut = out]
<1>1. task[p] \in Task /\ passiveLikes[p] \in Seq(Pair) /\ task \in [Partitions -> Task]
  BY DEF Types
<1>2. /\ task[p].passiveOffset \in Nat /\ task[p].matchOut \in Logs
      /\ task[p].likedByHistory \in [Dancers -> LikedBy]
  BY <1>1 DEF Task, Logs
<1>3. HasNext(passiveLikes[p], task[p].passiveOffset)
  BY DEF ProcessPassiveLike
<1>4. n \in DOMAIN passiveLikes[p] /\ like \in Pair /\ n \in Nat
  BY <1>1, <1>2, <1>3, ReadRecord
<1>5. task' = [task EXCEPT ![p] = t]
  BY <1>1 DEF ProcessPassiveLike, LikedBack
<1>6. out \in Logs
  BY <1>2, <1>4, PairFacts, EmitFacts DEF EmitBoth
<1>7. Likee(like) \in Dancers /\ by \in LikedBy
  BY <1>2, <1>4, PairFacts DEF LikedBy, AddLikedBy
<1> HIDE DEF like, n, out, by
<1>8. [task[p].likedByHistory EXCEPT ![Likee(like)] = by] \in [Dancers -> LikedBy]
  BY <1>2, <1>7
<1>9. t \in Task
  BY <1>1, <1>2, <1>4, <1>6, <1>8 DEF Task, Logs, n
<1>10. /\ t.passiveOffset = n
       /\ t.matchHistory = task[p].matchHistory
       /\ t.likeHistory = task[p].likeHistory
       /\ t.passiveOut = task[p].passiveOut
       /\ t.matchOut = out
  BY <1>1 DEF Task, n
<1> HIDE DEF t
<1>11. /\ task' \in [Partitions -> Task] /\ task'[p] = t
       /\ \A q \in Partitions : q # p => task'[q] = task[q]
  BY <1>1, <1>5, <1>9
<1> QED
  BY <1>4, <1>10, <1>11 DEF like, out, n

LEMMA MatchEffect ==
  ASSUME Types, NEW p \in Partitions, ProcessMatch(p)
  PROVE  \E n \in DOMAIN matchEvents[p] :
           /\ matchEvents[p][n] \in Pair
           /\ task' \in [Partitions -> Task]
           /\ \A q \in Partitions : q # p => task'[q] = task[q]
           /\ task'[p].passiveOffset = task[p].passiveOffset
           /\ task'[p].matchHistory = task[p].matchHistory \cup {matchEvents[p][n]}
           /\ task'[p].likeHistory = task[p].likeHistory
           /\ task'[p].passiveOut = task[p].passiveOut
           /\ task'[p].matchOut = task[p].matchOut
<1> DEFINE n == task[p].matchOffset + 1
           match == matchEvents[p][n]
           t == [task[p] EXCEPT !.matchOffset = @ + 1,
                                !.matchHistory = @ \cup {match}]
<1>1. task[p] \in Task /\ matchEvents[p] \in Seq(Pair) /\ task \in [Partitions -> Task]
  BY DEF Types
<1>2. task[p].matchOffset \in Nat
  BY <1>1 DEF Task
<1>3. HasNext(matchEvents[p], task[p].matchOffset)
  BY DEF ProcessMatch
<1>4. n \in DOMAIN matchEvents[p] /\ match \in Pair /\ n \in Nat
  BY <1>1, <1>2, <1>3, ReadRecord
<1>5. task' = [task EXCEPT ![p] = t]
  BY <1>1 DEF ProcessMatch
<1> HIDE DEF match, n
<1>6. t \in Task
  BY <1>1, <1>2, <1>4 DEF Task, n
<1>7. /\ t.passiveOffset = task[p].passiveOffset
      /\ t.matchHistory = task[p].matchHistory \cup {match}
      /\ t.likeHistory = task[p].likeHistory
      /\ t.passiveOut = task[p].passiveOut
      /\ t.matchOut = task[p].matchOut
  BY <1>1 DEF Task
<1> HIDE DEF t
<1>8. /\ task' \in [Partitions -> Task] /\ task'[p] = t
      /\ \A q \in Partitions : q # p => task'[q] = task[q]
  BY <1>1, <1>5, <1>6
<1> QED
  BY <1>4, <1>7, <1>8 DEF match

\* A thread that dies resumes from its last commit.
LEMMA ResetEffect ==
  ASSUME Types, NEW p \in Partitions, task' = [task EXCEPT ![p] = saved[p]]
  PROVE  /\ task' \in [Partitions -> Task] /\ task'[p] = saved[p]
         /\ \A q \in Partitions : q # p => task'[q] = task[q]
  BY DEF Types

LEMMA CommitEffect ==
  ASSUME Types, NEW p \in Partitions, CommitTask(p)
  PROVE  /\ task' \in [Partitions -> Task] /\ saved' \in [Partitions -> Task]
         /\ passiveLikes' \in Logs /\ matchEvents' \in Logs
         /\ \A q \in Partitions : q # p => task'[q] = task[q] /\ saved'[q] = saved[q]
         /\ task'[p] = saved'[p]
         /\ saved'[p].passiveOffset = task[p].passiveOffset
         /\ saved'[p].likeHistory = task[p].likeHistory
         /\ saved'[p].matchHistory = task[p].matchHistory
         /\ saved'[p].passiveOut = NoOutput /\ saved'[p].matchOut = NoOutput
         /\ \A q \in Partitions :
              /\ Appended(passiveLikes[q], task[p].passiveOut[q], passiveLikes'[q])
              /\ Appended(matchEvents[q], task[p].matchOut[q], matchEvents'[q])
<1> DEFINE t == Committed(task[p])
<1>1. task[p] \in Task /\ task \in [Partitions -> Task] /\ saved \in [Partitions -> Task]
  BY DEF Types
<1>2. task[p].passiveOut \in Logs /\ task[p].matchOut \in Logs
  BY <1>1 DEF Task, Logs
<1>3. passiveLikes \in Logs /\ matchEvents \in Logs
  BY DEF Types, Logs
<1>4. NoOutput \in Logs
  BY DEF NoOutput, Logs
<1>5. t \in Task
  BY <1>1, <1>4 DEF Committed, Task, Logs
<1>6. /\ t.passiveOffset = task[p].passiveOffset
      /\ t.likeHistory = task[p].likeHistory
      /\ t.matchHistory = task[p].matchHistory
      /\ t.passiveOut = NoOutput /\ t.matchOut = NoOutput
  BY <1>1 DEF Committed, Task
<1>7. /\ task' = [task EXCEPT ![p] = t] /\ saved' = [saved EXCEPT ![p] = t]
      /\ passiveLikes' = Deliver(passiveLikes, task[p].passiveOut)
      /\ matchEvents' = Deliver(matchEvents, task[p].matchOut)
  BY DEF CommitTask
<1> HIDE DEF t
<1>8. /\ task' \in [Partitions -> Task] /\ saved' \in [Partitions -> Task]
      /\ task'[p] = t /\ saved'[p] = t
      /\ \A q \in Partitions : q # p => task'[q] = task[q] /\ saved'[q] = saved[q]
  BY <1>1, <1>5, <1>7
<1>9. /\ passiveLikes' \in Logs
      /\ \A q \in Partitions :
           Appended(passiveLikes[q], task[p].passiveOut[q], passiveLikes'[q])
  BY <1>2, <1>3, <1>7, DeliverFacts
<1>10. /\ matchEvents' \in Logs
       /\ \A q \in Partitions :
            Appended(matchEvents[q], task[p].matchOut[q], matchEvents'[q])
  BY <1>2, <1>3, <1>7, DeliverFacts
<1> QED
  BY <1>6, <1>8, <1>9, <1>10

-----------------------------------------------------------------------------
(* Type correctness *)

LEMMA TypeInit == Init => Types
<1> SUFFICES ASSUME Init PROVE Types
  OBVIOUS
<1>1. NoOutput \in [Partitions -> Seq(Pair)]
  BY DEF NoOutput
<1>2. [d \in Dancers |-> [name |-> {}, history |-> {}]] \in [Dancers -> LikedBy]
  BY DEF LikedBy
<1>3. FreshTask \in Task
  BY <1>1, <1>2 DEF FreshTask, Task
<1> QED
  BY <1>3, MatchmakingAssumption DEF Init, Types

LEMMA TypeStep == Types /\ [Next]_vars => Types'
<1> SUFFICES ASSUME Types, [Next]_vars PROVE Types'
  OBVIOUS
<1>1. ASSUME NEW like \in Likes, LikeADancer(like) PROVE Types'
  <2>1. like \in Pair
    BY MatchmakingAssumption DEF Pair
  <2>2. \A q \in Partitions : Append(danceEvents[q], like) \in Seq(Pair)
    BY <2>1 DEF Types
  <2> QED
    BY <1>1, <2>2 DEF LikeADancer, Types
<1>2. ASSUME NEW p \in Partitions, ProcessLike(p) PROVE Types'
  <2>1. task' \in [Partitions -> Task]
    BY <1>2, LikeEffect
  <2> QED
    BY <1>2, <2>1 DEF ProcessLike, topicVars, Types
<1>3. ASSUME NEW p \in Partitions, ProcessPassiveLike(p) PROVE Types'
  <2>1. task' \in [Partitions -> Task]
    BY <1>3, PassiveEffect
  <2> QED
    BY <1>3, <2>1 DEF ProcessPassiveLike, topicVars, Types
<1>4. ASSUME NEW p \in Partitions, ProcessMatch(p) PROVE Types'
  <2>1. task' \in [Partitions -> Task]
    BY <1>4, MatchEffect
  <2> QED
    BY <1>4, <2>1 DEF ProcessMatch, topicVars, Types
<1>5. ASSUME NEW p \in Partitions, CommitTask(p) PROVE Types'
  <2>1. /\ task' \in [Partitions -> Task] /\ saved' \in [Partitions -> Task]
        /\ passiveLikes' \in Logs /\ matchEvents' \in Logs
    BY <1>5, CommitEffect
  <2> QED
    BY <1>5, <2>1 DEF CommitTask, Types, Logs
<1>6. ASSUME NEW p \in Partitions, DieOnSelfMatch(p) PROVE Types'
  <2>1. task' \in [Partitions -> Task]
    BY <1>6, ResetEffect DEF DieOnSelfMatch
  <2> QED
    BY <1>6, <2>1 DEF DieOnSelfMatch, topicVars, Types
<1>7. ASSUME NEW p \in Partitions, CrashAndRestart(p) PROVE Types'
  <2>1. task' \in [Partitions -> Task]
    BY <1>7, ResetEffect DEF CrashAndRestart
  <2>2. crashes' \in 0 .. MaxCrashes
    BY <1>7, MatchmakingAssumption DEF CrashAndRestart, Types
  <2> QED
    BY <1>7, <2>1, <2>2 DEF CrashAndRestart, topicVars, Types
<1>8. CASE UNCHANGED vars
  BY <1>8 DEF vars, topicVars, Types
<1> QED
  BY <1>1, <1>2, <1>3, <1>4, <1>5, <1>6, <1>7, <1>8 DEF Next, ThreadStep

-----------------------------------------------------------------------------
(* The inductive invariant *)

LEMMA InvInit == Init => IInv
<1> SUFFICES ASSUME Init, Types PROVE IInv
  BY TypeInit
<1>1. /\ \A p \in Partitions : task[p] = FreshTask /\ saved[p] = FreshTask
      /\ \A p \in Partitions :
           danceEvents[p] = <<>> /\ passiveLikes[p] = <<>> /\ matchEvents[p] = <<>>
  BY DEF Init
<1>2. /\ FreshTask.passiveOut = NoOutput /\ FreshTask.matchOut = NoOutput
      /\ FreshTask.likeHistory = {} /\ FreshTask.matchHistory = {}
      /\ FreshTask.passiveOffset = 0 /\ Len(<<>>) = 0 /\ DOMAIN <<>> = {}
      /\ \A q \in Partitions : NoOutput[q] = <<>>
  BY DEF FreshTask, NoOutput
<1>3. Commits
  BY <1>1, <1>2 DEF Commits
<1>4. SentAtHome /\ OutAtHome /\ PassedAtHome /\ NewIsPassedOn /\ ReadIsJoined
  BY <1>1, <1>2 DEF SentAtHome, OutAtHome, PassedAtHome, NewIsPassedOn, ReadIsJoined
<1>5. OutIsLiked /\ EventsAreMutual /\ HistoriesAreMutual
  BY <1>1, <1>2 DEF OutIsLiked, EventsAreMutual, HistoriesAreMutual
<1>6. Noticed
  BY <1>1, <1>2, PairFacts DEF Noticed, Mutual, Stored
<1> QED
  BY <1>3, <1>4, <1>5, <1>6 DEF IInv

\* A dancer is sent a like: it enters the log of the liker's partition.
LEMMA SendStep ==
  ASSUME IInv, Types', NEW like \in Likes, LikeADancer(like)
  PROVE  IInv'
<1> DEFINE p == PartitionOf[Liker(like)]
<1>1. UNCHANGED <<passiveLikes, matchEvents, task, saved>>
  BY DEF LikeADancer
<1>2. danceEvents' = [danceEvents EXCEPT ![p] = Append(@, like)]
  BY DEF LikeADancer
<1>3. danceEvents \in [Partitions -> Seq(Pair)] /\ like \in Pair
  BY MatchmakingAssumption DEF IInv, Types, Pair
<1>4. SentAtHome'
  <2> SUFFICES ASSUME NEW q \in Partitions, NEW n \in DOMAIN danceEvents'[q]
               PROVE  PartitionOf[Liker(danceEvents'[q][n])] = q
    BY DEF SentAtHome
  <2>1. CASE q # p
    <3>1. danceEvents'[q] = danceEvents[q]
      BY <1>2, <1>3, <2>1
    <3> QED
      BY <3>1 DEF IInv, SentAtHome
  <2>2. CASE q = p
    <3>1. danceEvents'[q] = Append(danceEvents[q], like) /\ danceEvents[q] \in Seq(Pair)
      BY <1>2, <1>3, <2>2
    <3> HIDE DEF p
    <3>2. \/ n \in DOMAIN danceEvents[q] /\ danceEvents'[q][n] = danceEvents[q][n]
          \/ danceEvents'[q][n] = like
      BY <1>3, <3>1
    <3> QED
      BY <2>2, <3>2 DEF IInv, SentAtHome, p
  <2> QED
    BY <2>1, <2>2
<1>5. Commits' /\ OutAtHome' /\ PassedAtHome' /\ NewIsPassedOn' /\ ReadIsJoined'
  BY <1>1 DEF IInv, Commits, OutAtHome, PassedAtHome, NewIsPassedOn, ReadIsJoined, Stored
<1>6. OutIsLiked' /\ EventsAreMutual' /\ HistoriesAreMutual' /\ Noticed'
  BY <1>1 DEF IInv, OutIsLiked, EventsAreMutual, HistoriesAreMutual, Noticed, Sees,
              Mutual, Stored, Awaits
<1> QED
  BY <1>4, <1>5, <1>6 DEF IInv

\* The like enters the like history and the batch of passive likes.
LEMMA LikeStep ==
  ASSUME IInv, Types', NEW p \in Partitions, ProcessLike(p)
  PROVE  IInv'
<1>1. UNCHANGED <<danceEvents, passiveLikes, matchEvents, saved>>
  BY DEF ProcessLike, topicVars
<1>2. Types /\ \A q \in Partitions : task[q].passiveOut \in Logs
  BY DEF IInv, Types, Task, Logs
<1>3. PICK like \in Pair, n \in DOMAIN danceEvents[p] :
           /\ like = danceEvents[p][n]
           /\ task' \in [Partitions -> Task]
           /\ \A q \in Partitions : q # p => task'[q] = task[q]
           /\ task'[p].passiveOffset = task[p].passiveOffset
           /\ task'[p].matchHistory = task[p].matchHistory
           /\ task'[p].likeHistory = task[p].likeHistory \cup {like}
           /\ task'[p].passiveOut = PassOn(task[p].passiveOut, like)
           /\ task'[p].matchOut = task[p].matchOut
  BY <1>2, LikeEffect
<1>4. PartitionOf[Liker(like)] = p
  BY <1>3 DEF IInv, SentAtHome
<1>5. \A q \in Partitions :
        /\ task'[q].passiveOffset = task[q].passiveOffset
        /\ task'[q].matchHistory = task[q].matchHistory
        /\ task'[q].matchOut = task[q].matchOut
        /\ task[q].likeHistory \subseteq task'[q].likeHistory
  BY <1>3
<1>6. /\ \A q \in Partitions :
           /\ \A m \in DOMAIN task[p].passiveOut[q] :
                /\ m \in DOMAIN task'[p].passiveOut[q]
                /\ task'[p].passiveOut[q][m] = task[p].passiveOut[q][m]
           /\ \A m \in DOMAIN task'[p].passiveOut[q] :
                \/ /\ m \in DOMAIN task[p].passiveOut[q]
                   /\ task'[p].passiveOut[q][m] = task[p].passiveOut[q][m]
                \/ q = PartitionOf[Likee(like)] /\ task'[p].passiveOut[q][m] = like
      /\ Holds(task'[p].passiveOut[PartitionOf[Likee(like)]], like)
  BY <1>2, <1>3, PairFacts, EmitFacts DEF PassOn
<1>7. Commits'
  BY <1>1, <1>5 DEF IInv, Commits
<1>8. SentAtHome' /\ PassedAtHome' /\ EventsAreMutual' /\ Noticed'
  BY <1>1 DEF IInv, SentAtHome, PassedAtHome, EventsAreMutual, Noticed, Mutual, Stored, Awaits
<1>9. OutAtHome'
  <2> SUFFICES ASSUME NEW r \in Partitions, NEW q \in Partitions,
                      NEW m \in DOMAIN task'[r].passiveOut[q]
               PROVE  LET out == task'[r].passiveOut[q][m]
                      IN  /\ PartitionOf[Liker(out)] = r /\ PartitionOf[Likee(out)] = q
                          /\ out \in task'[r].likeHistory
    BY DEF OutAtHome
  <2>1. CASE r # p
    BY <1>3, <2>1 DEF IInv, OutAtHome
  <2>2. CASE r = p
    BY <1>3, <1>4, <1>6, <2>2 DEF IInv, OutAtHome
  <2> QED
    BY <2>1, <2>2
<1>10. NewIsPassedOn'
  <2> SUFFICES ASSUME NEW r \in Partitions, NEW l \in task'[r].likeHistory
               PROVE  \/ l \in saved'[r].likeHistory
                      \/ Holds(task'[r].passiveOut[PartitionOf[Likee(l)]], l)
    BY DEF NewIsPassedOn
  <2>1. CASE r # p
    BY <1>1, <1>3, <2>1 DEF IInv, NewIsPassedOn
  <2>2. CASE r = p /\ l = like
    BY <1>6, <2>2
  <2>3. CASE r = p /\ l \in task[p].likeHistory
    <3>1. l \in Pair /\ PartitionOf[Likee(l)] \in Partitions
      BY <1>2, <2>3, PairFacts DEF Types, Task
    <3>2. l \in saved[p].likeHistory \/ Holds(task[p].passiveOut[PartitionOf[Likee(l)]], l)
      BY <2>3 DEF IInv, NewIsPassedOn
    <3> QED
      BY <1>1, <1>6, <2>3, <3>1, <3>2 DEF Holds
  <2> QED
    BY <1>3, <2>1, <2>2, <2>3
<1>11. ReadIsJoined'
  BY <1>1, <1>5 DEF IInv, ReadIsJoined
<1>12. OutIsLiked'
  BY <1>1, <1>5 DEF IInv, OutIsLiked, Sees, Stored
<1>13. HistoriesAreMutual'
  BY <1>1, <1>5 DEF IInv, HistoriesAreMutual, Mutual, Stored
<1> QED
  BY <1>7, <1>8, <1>9, <1>10, <1>11, <1>12, <1>13 DEF IInv

\* The passive like is joined with the likes of the likee.
LEMMA PassiveStep ==
  ASSUME IInv, Types', NEW p \in Partitions, ProcessPassiveLike(p)
  PROVE  IInv'
<1>1. UNCHANGED <<danceEvents, passiveLikes, matchEvents, saved>>
  BY DEF ProcessPassiveLike, topicVars
<1>2. Types /\ \A q \in Partitions : task[q].matchOut \in Logs /\ task[q].passiveOffset \in Nat
  BY DEF IInv, Types, Task, Logs
<1>3. PICK like \in Pair, n \in DOMAIN passiveLikes[p] :
           /\ like = passiveLikes[p][n]
           /\ n = task[p].passiveOffset + 1
           /\ task' \in [Partitions -> Task]
           /\ \A q \in Partitions : q # p => task'[q] = task[q]
           /\ task'[p].passiveOffset = n
           /\ task'[p].matchHistory = task[p].matchHistory
           /\ task'[p].likeHistory = task[p].likeHistory
           /\ task'[p].passiveOut = task[p].passiveOut
           /\ task'[p].matchOut = IF Reverse2(like) \in task[p].likeHistory
                                  THEN EmitBoth(task[p].matchOut, like)
                                  ELSE task[p].matchOut
  BY <1>2, PassiveEffect
<1>4. PartitionOf[Likee(like)] = p /\ Stored(like)
  BY <1>3 DEF IInv, PassedAtHome
<1>5. \A q \in Partitions :
        /\ task'[q].matchHistory = task[q].matchHistory
        /\ task'[q].likeHistory = task[q].likeHistory
        /\ task'[q].passiveOut = task[q].passiveOut
  BY <1>3
<1>6. /\ \A q \in Partitions :
           /\ \A m \in DOMAIN EmitBoth(task[p].matchOut, like)[q] :
                \/ /\ m \in DOMAIN task[p].matchOut[q]
                   /\ EmitBoth(task[p].matchOut, like)[q][m] = task[p].matchOut[q][m]
                \/ EmitBoth(task[p].matchOut, like)[q][m] = like
                \/ EmitBoth(task[p].matchOut, like)[q][m] = Reverse2(like)
           /\ \A m \in DOMAIN task[p].matchOut[q] :
                /\ m \in DOMAIN EmitBoth(task[p].matchOut, like)[q]
                /\ EmitBoth(task[p].matchOut, like)[q][m] = task[p].matchOut[q][m]
      /\ Joined(EmitBoth(task[p].matchOut, like), like)
  <2> DEFINE one == Emit(task[p].matchOut, like, Liker(like))
             both == Emit(one, Reverse2(like), Likee(like))
  <2>1. /\ Liker(like) \in Dancers /\ Likee(like) \in Dancers /\ Reverse2(like) \in Pair
        /\ PartitionOf[Liker(like)] \in Partitions
    BY PairFacts
  <2>2. /\ one \in Logs
        /\ \A q \in Partitions :
             /\ \A m \in DOMAIN task[p].matchOut[q] :
                  m \in DOMAIN one[q] /\ one[q][m] = task[p].matchOut[q][m]
             /\ \A m \in DOMAIN one[q] :
                  \/ m \in DOMAIN task[p].matchOut[q] /\ one[q][m] = task[p].matchOut[q][m]
                  \/ one[q][m] = like
        /\ Holds(one[PartitionOf[Liker(like)]], like)
    BY <1>2, <2>1, EmitFacts
  <2> HIDE DEF one
  <2>3. /\ \A q \in Partitions :
             /\ \A m \in DOMAIN one[q] : m \in DOMAIN both[q] /\ both[q][m] = one[q][m]
             /\ \A m \in DOMAIN both[q] :
                  \/ m \in DOMAIN one[q] /\ both[q][m] = one[q][m]
                  \/ both[q][m] = Reverse2(like)
        /\ Holds(both[PartitionOf[Likee(like)]], Reverse2(like))
    BY <2>1, <2>2, EmitFacts
  <2> HIDE DEF both
  <2>4. Holds(both[PartitionOf[Liker(like)]], like)
    BY <2>1, <2>2, <2>3 DEF Holds
  <2>5. EmitBoth(task[p].matchOut, like) = both
    BY DEF EmitBoth, one, both
  <2> QED
    BY <2>2, <2>3, <2>4, <2>5 DEF Joined
<1>7. /\ \A q \in Partitions : \A m \in DOMAIN task[p].matchOut[q] :
           /\ m \in DOMAIN task'[p].matchOut[q]
           /\ task'[p].matchOut[q][m] = task[p].matchOut[q][m]
      /\ \A x \in Pair : Joined(task[p].matchOut, x) => Joined(task'[p].matchOut, x)
  <2>1. \A q \in Partitions : \A m \in DOMAIN task[p].matchOut[q] :
          /\ m \in DOMAIN task'[p].matchOut[q]
          /\ task'[p].matchOut[q][m] = task[p].matchOut[q][m]
    BY <1>3, <1>6
  <2> QED
    BY <2>1, PairFacts DEF Joined, Holds
<1>8. Commits'
  <2>1. Len(passiveLikes[p]) \in Nat /\ n \in 1 .. Len(passiveLikes[p])
    BY <1>2, <1>3 DEF Types
  <2>2. saved[p].passiveOffset \in Nat
    BY <1>2 DEF Types, Task
  <2> QED
    BY <1>1, <1>2, <1>3, <1>5, <2>1, <2>2 DEF IInv, Commits
<1>9. SentAtHome' /\ PassedAtHome' /\ EventsAreMutual' /\ Noticed'
  BY <1>1 DEF IInv, SentAtHome, PassedAtHome, EventsAreMutual, Noticed, Mutual, Stored, Awaits
<1>10. OutAtHome' /\ NewIsPassedOn' /\ HistoriesAreMutual'
  BY <1>1, <1>5 DEF IInv, OutAtHome, NewIsPassedOn, HistoriesAreMutual, Mutual, Stored
<1>11. ReadIsJoined'
  <2> SUFFICES ASSUME NEW r \in Partitions, NEW m \in DOMAIN passiveLikes[r],
                      m > saved[r].passiveOffset, m <= task'[r].passiveOffset,
                      Reverse2(passiveLikes[r][m]) \in saved[r].likeHistory
               PROVE  Joined(task'[r].matchOut, passiveLikes[r][m])
    BY <1>1 DEF ReadIsJoined
  <2>1. passiveLikes[r][m] \in Pair /\ m \in Nat
    BY <1>2 DEF Types
  <2>2. CASE r # p
    BY <1>3, <2>2 DEF IInv, ReadIsJoined
  <2>3. CASE r = p /\ m <= task[p].passiveOffset
    <3>1. Joined(task[p].matchOut, passiveLikes[p][m])
      BY <2>3 DEF IInv, ReadIsJoined
    <3> QED
      BY <1>7, <2>1, <2>3, <3>1
  <2>4. CASE r = p /\ m = n
    <3>1. Reverse2(like) \in task[p].likeHistory
      BY <1>3, <2>4 DEF IInv, Commits
    <3> QED
      BY <1>3, <1>6, <2>4, <3>1
  <2>5. r = p => m <= task[p].passiveOffset \/ m = n
    BY <1>2, <1>3, <2>1
  <2> QED
    BY <2>2, <2>3, <2>4, <2>5
<1>12. OutIsLiked'
  <2> SUFFICES ASSUME NEW r \in Partitions, NEW q \in Partitions,
                      NEW m \in DOMAIN task'[r].matchOut[q]
               PROVE  /\ Sees(r, task'[r].matchOut[q][m])
                      /\ Sees(r, Reverse2(task'[r].matchOut[q][m]))
    BY <1>1, <1>5 DEF OutIsLiked, Sees, Stored
  <2>2. CASE r # p
    BY <1>3, <2>2 DEF IInv, OutIsLiked
  <2>3. CASE r = p /\ m \in DOMAIN task[p].matchOut[q]
    BY <1>7, <2>3 DEF IInv, OutIsLiked
  <2>4. CASE r = p /\ m \notin DOMAIN task[p].matchOut[q]
    <3>1. Reverse2(like) \in task[p].likeHistory
      BY <1>3, <2>4
    <3>2. task'[p].matchOut[q][m] = like \/ task'[p].matchOut[q][m] = Reverse2(like)
      BY <1>3, <1>6, <2>4, <3>1
    <3>3. Sees(p, like) /\ Sees(p, Reverse2(like)) /\ Reverse2(Reverse2(like)) = like
      BY <1>4, <3>1, PairFacts DEF Sees
    <3> QED
      BY <2>4, <3>2, <3>3
  <2> QED
    BY <2>2, <2>3, <2>4
<1> QED
  BY <1>8, <1>9, <1>10, <1>11, <1>12 DEF IInv

\* The match event enters the match history.
LEMMA MatchStep ==
  ASSUME IInv, Types', NEW p \in Partitions, ProcessMatch(p)
  PROVE  IInv'
<1>1. UNCHANGED <<danceEvents, passiveLikes, matchEvents, saved>>
  BY DEF ProcessMatch, topicVars
<1>2. Types
  BY DEF IInv
<1>3. PICK n \in DOMAIN matchEvents[p] :
           /\ matchEvents[p][n] \in Pair
           /\ task' \in [Partitions -> Task]
           /\ \A q \in Partitions : q # p => task'[q] = task[q]
           /\ task'[p].passiveOffset = task[p].passiveOffset
           /\ task'[p].matchHistory = task[p].matchHistory \cup {matchEvents[p][n]}
           /\ task'[p].likeHistory = task[p].likeHistory
           /\ task'[p].passiveOut = task[p].passiveOut
           /\ task'[p].matchOut = task[p].matchOut
  BY <1>2, MatchEffect
<1>4. \A q \in Partitions :
        /\ task'[q].passiveOffset = task[q].passiveOffset
        /\ task'[q].likeHistory = task[q].likeHistory
        /\ task'[q].passiveOut = task[q].passiveOut
        /\ task'[q].matchOut = task[q].matchOut
  BY <1>3
<1>5. Commits' /\ SentAtHome' /\ OutAtHome' /\ PassedAtHome' /\ NewIsPassedOn'
  BY <1>1, <1>4 DEF IInv, Commits, SentAtHome, OutAtHome, PassedAtHome, NewIsPassedOn, Stored
<1>6. ReadIsJoined' /\ OutIsLiked' /\ EventsAreMutual' /\ Noticed'
  BY <1>1, <1>4 DEF IInv, ReadIsJoined, OutIsLiked, EventsAreMutual, Noticed, Sees, Mutual,
                    Stored, Awaits
<1>7. HistoriesAreMutual'
  <2>1. Mutual(matchEvents[p][n])
    BY DEF IInv, EventsAreMutual
  <2> QED
    BY <1>1, <1>3, <2>1 DEF IInv, HistoriesAreMutual, Mutual, Stored
<1> QED
  BY <1>5, <1>6, <1>7 DEF IInv

\* A thread that dies, by itself or with its instance, is back at its last commit.
LEMMA ResetStep ==
  ASSUME IInv, Types', NEW p \in Partitions,
         task' = [task EXCEPT ![p] = saved[p]],
         UNCHANGED <<danceEvents, passiveLikes, matchEvents, saved>>
  PROVE  IInv'
<1>1. /\ task'[p] = saved[p]
      /\ \A q \in Partitions : q # p => task'[q] = task[q]
  BY ResetEffect DEF IInv
<1>2. /\ \A q \in Partitions : NoOutput[q] = <<>> /\ DOMAIN NoOutput[q] = {}
      /\ saved[p].passiveOut = NoOutput /\ saved[p].matchOut = NoOutput
  BY DEF NoOutput, IInv, Commits
<1>3. /\ saved[p].passiveOffset \in Nat /\ task[p].passiveOffset \in Nat
      /\ Len(passiveLikes[p]) \in Nat /\ DOMAIN passiveLikes[p] \subseteq Nat
  BY DEF IInv, Types, Task
<1>4. Commits'
  BY <1>1, <1>3 DEF IInv, Commits
<1>5. SentAtHome' /\ PassedAtHome' /\ EventsAreMutual' /\ Noticed'
  BY DEF IInv, SentAtHome, PassedAtHome, EventsAreMutual, Noticed, Mutual, Stored, Awaits
<1>6. OutAtHome'
  BY <1>1, <1>2 DEF IInv, OutAtHome
<1>7. NewIsPassedOn' /\ HistoriesAreMutual'
  BY <1>1 DEF IInv, NewIsPassedOn, HistoriesAreMutual, Mutual, Stored
<1>8. ReadIsJoined'
  BY <1>1, <1>3 DEF IInv, ReadIsJoined
<1>9. OutIsLiked'
  BY <1>1, <1>2 DEF IInv, OutIsLiked, Sees, Stored
<1> QED
  BY <1>4, <1>5, <1>6, <1>7, <1>8, <1>9 DEF IInv

\* What the thread stored and emitted takes effect for the others.
LEMMA CommitStep ==
  ASSUME IInv, Types', NEW p \in Partitions, CommitTask(p)
  PROVE  IInv'
<1>1. UNCHANGED danceEvents
  BY DEF CommitTask
<1>2. /\ Types /\ \A q \in Partitions : NoOutput[q] = <<>> /\ DOMAIN NoOutput[q] = {}
      /\ \A q \in Partitions :
           /\ task[q].passiveOffset \in Nat /\ saved[q].passiveOffset \in Nat
           /\ task[q].likeHistory \subseteq Pair /\ task[q].matchOut \in [Partitions -> Seq(Pair)]
           /\ Len(passiveLikes[q]) \in Nat
           /\ Len(passiveLikes'[q]) \in Nat
           /\ DOMAIN passiveLikes[q] = 1 .. Len(passiveLikes[q])
           /\ DOMAIN passiveLikes'[q] = 1 .. Len(passiveLikes'[q])
  <2>1. Types /\ \A q \in Partitions : NoOutput[q] = <<>> /\ DOMAIN NoOutput[q] = {}
    BY DEF IInv, NoOutput
  <2>2. \A q \in Partitions :
          /\ task[q].passiveOffset \in Nat /\ saved[q].passiveOffset \in Nat
          /\ task[q].likeHistory \subseteq Pair /\ task[q].matchOut \in [Partitions -> Seq(Pair)]
    BY <2>1 DEF Types, Task
  <2>3. \A log \in Seq(Pair) : Len(log) \in Nat /\ DOMAIN log = 1 .. Len(log)
    OBVIOUS
  <2>4. \A q \in Partitions : passiveLikes[q] \in Seq(Pair) /\ passiveLikes'[q] \in Seq(Pair)
    BY <2>1 DEF Types
  <2> QED
    BY <2>1, <2>2, <2>3, <2>4
<1>3. /\ \A q \in Partitions : q # p => task'[q] = task[q] /\ saved'[q] = saved[q]
      /\ task'[p] = saved'[p]
      /\ saved'[p].passiveOffset = task[p].passiveOffset
      /\ saved'[p].likeHistory = task[p].likeHistory
      /\ saved'[p].matchHistory = task[p].matchHistory
      /\ saved'[p].passiveOut = NoOutput /\ saved'[p].matchOut = NoOutput
      /\ \A q \in Partitions :
           /\ Appended(passiveLikes[q], task[p].passiveOut[q], passiveLikes'[q])
           /\ Appended(matchEvents[q], task[p].matchOut[q], matchEvents'[q])
  BY <1>2, CommitEffect
<1>4. /\ \A q \in Partitions : saved[q].likeHistory \subseteq saved'[q].likeHistory
      /\ \A x \in Pair : Stored(x) => Stored(x)'
      /\ \A x \in Pair : Mutual(x) => Mutual(x)'
  <2>1. \A q \in Partitions : saved[q].likeHistory \subseteq saved'[q].likeHistory
    BY <1>3 DEF IInv, Commits
  <2>2. \A x \in Pair : Stored(x) => Stored(x)'
    BY <2>1, PairFacts DEF Stored
  <2> QED
    BY <2>1, <2>2, PairFacts DEF Mutual
<1>5. Commits'
  <2>1. \A q \in Partitions : Len(passiveLikes[q]) <= Len(passiveLikes'[q])
    BY <1>3 DEF Appended
  <2> QED
    BY <1>2, <1>3, <2>1 DEF IInv, Commits
<1>6. SentAtHome' /\ OutAtHome'
  BY <1>1, <1>2, <1>3 DEF IInv, SentAtHome, OutAtHome
<1>7. PassedAtHome'
  <2> SUFFICES ASSUME NEW q \in Partitions, NEW n \in DOMAIN passiveLikes'[q]
               PROVE  /\ PartitionOf[Likee(passiveLikes'[q][n])] = q
                      /\ Stored(passiveLikes[q][n])'
    BY DEF PassedAtHome
  <2>1. \/ n \in DOMAIN passiveLikes[q] /\ passiveLikes'[q][n] = passiveLikes[q][n]
        \/ \E m \in DOMAIN task[p].passiveOut[q] : passiveLikes'[q][n] = task[p].passiveOut[q][m]
    BY <1>3 DEF Appended
  <2>2. CASE n \in DOMAIN passiveLikes[q] /\ passiveLikes'[q][n] = passiveLikes[q][n]
    <3>1. passiveLikes[q][n] \in Pair
      BY <1>2, <2>2 DEF Types
    <3>2. PartitionOf[Likee(passiveLikes[q][n])] = q /\ Stored(passiveLikes[q][n])
      BY <2>2 DEF IInv, PassedAtHome
    <3> QED
      BY <1>4, <2>2, <3>1, <3>2, PairFacts DEF Stored
  <2>3. ASSUME NEW m \in DOMAIN task[p].passiveOut[q],
               passiveLikes'[q][n] = task[p].passiveOut[q][m]
        PROVE  /\ PartitionOf[Likee(passiveLikes'[q][n])] = q
               /\ Stored(passiveLikes[q][n])'
    BY <1>3, <2>3 DEF IInv, OutAtHome, Stored
  <2> QED
    BY <2>1, <2>2, <2>3
<1>8. NewIsPassedOn'
  BY <1>3 DEF IInv, NewIsPassedOn
<1>9. ReadIsJoined'
  <2> SUFFICES ASSUME NEW r \in Partitions, NEW n \in DOMAIN passiveLikes'[r],
                      n > saved'[r].passiveOffset, n <= task'[r].passiveOffset,
                      Reverse2(passiveLikes'[r][n]) \in saved'[r].likeHistory
               PROVE  Joined(task'[r].matchOut, passiveLikes'[r][n])
    BY DEF ReadIsJoined
  <2>1. r # p
    BY <1>2, <1>3
  <2>2. n \in DOMAIN passiveLikes[r]
    BY <1>2, <1>3, <2>1 DEF IInv, Commits
  <2>3. passiveLikes'[r][n] = passiveLikes[r][n]
    BY <1>3, <2>2 DEF Appended
  <2> QED
    BY <1>3, <2>1, <2>2, <2>3 DEF IInv, ReadIsJoined
<1>10. OutIsLiked'
  <2> SUFFICES ASSUME NEW r \in Partitions, NEW q \in Partitions,
                      NEW n \in DOMAIN task'[r].matchOut[q], NEW x,
                      x = task'[r].matchOut[q][n]
               PROVE  Sees(r, x)' /\ Sees(r, Reverse2(x))'
    BY DEF OutIsLiked, Sees, Stored
  <2>1. r # p /\ task'[r] = task[r]
    BY <1>2, <1>3
  <2>2. x \in Pair
    <3>1. task[r].matchOut[q] \in Seq(Pair) /\ n \in DOMAIN task[r].matchOut[q]
      BY <1>2, <2>1
    <3> QED
      BY <2>1, <3>1
  <2>3. Sees(r, x) /\ Sees(r, Reverse2(x)) /\ Reverse2(x) \in Pair
    BY <2>1, <2>2, PairFacts DEF IInv, OutIsLiked
  <2>4. \A y \in Pair : Sees(r, y) => Sees(r, y)'
    BY <1>4, <2>1 DEF Sees
  <2> QED
    BY <2>2, <2>3, <2>4
<1>11. \A x \in Pair : Sees(p, x) => Stored(x)'
  BY <1>3, <1>4 DEF Sees, Stored
<1>12. EventsAreMutual'
  <2> SUFFICES ASSUME NEW q \in Partitions, NEW n \in DOMAIN matchEvents'[q], NEW x,
                      x = matchEvents'[q][n]
               PROVE  Mutual(x)'
    BY DEF EventsAreMutual, Mutual, Stored
  <2>1. \/ n \in DOMAIN matchEvents[q] /\ x = matchEvents[q][n]
        \/ \E m \in DOMAIN task[p].matchOut[q] : x = task[p].matchOut[q][m]
    BY <1>3 DEF Appended
  <2>2. CASE n \in DOMAIN matchEvents[q] /\ x = matchEvents[q][n]
    <3>1. x \in Pair /\ Mutual(x)
      BY <1>2, <2>2 DEF Types, IInv, EventsAreMutual
    <3> QED
      BY <1>4, <3>1
  <2>3. ASSUME NEW m \in DOMAIN task[p].matchOut[q], x = task[p].matchOut[q][m]
        PROVE  Mutual(x)'
    <3>1. x \in Pair
      <4>1. task[p].matchOut[q] \in Seq(Pair)
        BY <1>2
      <4> QED
        BY <2>3, <4>1
    <3>2. Sees(p, x) /\ Sees(p, Reverse2(x)) /\ Reverse2(x) \in Pair
      BY <2>3, <3>1, PairFacts DEF IInv, OutIsLiked
    <3> QED
      BY <1>11, <3>1, <3>2 DEF Mutual
  <2> QED
    BY <2>1, <2>2, <2>3
<1>13. HistoriesAreMutual'
  <2> SUFFICES ASSUME NEW r \in Partitions, NEW x \in task'[r].matchHistory \cup saved'[r].matchHistory
               PROVE  Mutual(x)'
    BY DEF HistoriesAreMutual, Mutual, Stored
  <2>1. x \in task[r].matchHistory \cup saved[r].matchHistory
    BY <1>3
  <2>2. x \in Pair /\ Mutual(x)
    BY <1>2, <2>1 DEF Types, Task, IInv, HistoriesAreMutual
  <2> QED
    BY <1>4, <2>2
<1>14. ASSUME NEW x \in Pair, ~Stored(x), Stored(x)'
       PROVE  Awaits(x)'
  <2> DEFINE q == PartitionOf[Likee(x)]
  <2>1. q \in Partitions /\ PartitionOf[Liker(x)] \in Partitions
    BY PairFacts
  <2>2. x \in task[p].likeHistory /\ x \notin saved[p].likeHistory
    BY <1>3, <1>14, <2>1 DEF Stored
  <2>3. Holds(task[p].passiveOut[q], x)
    BY <2>2 DEF IInv, NewIsPassedOn
  <2>4. PICK n \in DOMAIN passiveLikes'[q] :
          n > Len(passiveLikes[q]) /\ passiveLikes'[q][n] = x
    BY <1>3, <2>1, <2>3 DEF Holds, Appended
  <2>5. saved'[q].passiveOffset <= Len(passiveLikes[q])
    <3> HIDE DEF q
    <3>1. /\ saved[q].passiveOffset <= task[q].passiveOffset
          /\ task[q].passiveOffset <= Len(passiveLikes[q])
      BY <2>1 DEF IInv, Commits
    <3>2. \/ saved'[q].passiveOffset = saved[q].passiveOffset
          \/ saved'[q].passiveOffset = task[q].passiveOffset
      BY <1>3, <2>1
    <3> QED
      BY <1>2, <2>1, <3>1, <3>2
  <2>6. n > saved'[q].passiveOffset
    BY <1>2, <1>3, <2>1, <2>4, <2>5
  <2> QED
    BY <2>4, <2>6 DEF Awaits
<1>15. ASSUME NEW x \in Pair, Stored(Reverse2(x)), Awaits(x)
       PROVE  Awaits(x)' \/ Joined(matchEvents, x)'
  <2> DEFINE q == PartitionOf[Likee(x)]
  <2>1. q \in Partitions /\ PartitionOf[Liker(x)] \in Partitions
    BY PairFacts
  <2>2. PICK n \in DOMAIN passiveLikes[q] :
          n > saved[q].passiveOffset /\ passiveLikes[q][n] = x
    BY <1>15 DEF Awaits
  <2>3. n \in DOMAIN passiveLikes'[q] /\ passiveLikes'[q][n] = x
    BY <1>3, <2>1, <2>2 DEF Appended
  <2>4. CASE n > saved'[q].passiveOffset
    BY <2>3, <2>4 DEF Awaits
  <2>5. CASE ~(n > saved'[q].passiveOffset)
    <3>1. q = p /\ n <= task[p].passiveOffset
      <4> HIDE DEF q
      <4>1. q # p => saved'[q].passiveOffset = saved[q].passiveOffset
        BY <1>3, <2>1
      <4>2. q = p
        BY <2>2, <2>5, <4>1
      <4>3. n \in Nat /\ task[p].passiveOffset \in Nat
        BY <1>2, <2>1, <2>2
      <4> QED
        BY <1>3, <2>5, <4>2, <4>3
    <3>2. Reverse2(x) \in saved[p].likeHistory
      BY <1>15, <3>1, PairFacts DEF Stored
    <3>3. Joined(task[p].matchOut, x)
      BY <2>2, <3>1, <3>2 DEF IInv, ReadIsJoined
    <3> QED
      BY <1>3, <2>1, <3>3 DEF Joined, Holds, Appended
  <2> QED
    BY <2>4, <2>5
<1>16. Noticed'
  <2> SUFFICES ASSUME NEW x \in Pair, Mutual(x)'
               PROVE  Awaits(x)' \/ Awaits(Reverse2(x))' \/ Joined(matchEvents, x)'
    BY DEF Noticed
  <2>1. /\ Reverse2(x) \in Pair /\ Reverse2(Reverse2(x)) = x
        /\ Stored(x)' /\ Stored(Reverse2(x))'
    BY PairFacts DEF Mutual
  <2>2. CASE ~Stored(x)
    BY <1>14, <2>1, <2>2
  <2>3. CASE ~Stored(Reverse2(x))
    BY <1>14, <2>1, <2>3
  <2>4. CASE Mutual(x) /\ Awaits(x)
    BY <1>15, <2>4 DEF Mutual
  <2>5. CASE Mutual(x) /\ Awaits(Reverse2(x))
    <3>1. Awaits(Reverse2(x))' \/ Joined(matchEvents, Reverse2(x))'
      BY <1>15, <2>1, <2>5 DEF Mutual
    <3>2. Joined(matchEvents, Reverse2(x))' => Joined(matchEvents, x)'
      BY <2>1, PairFacts DEF Joined
    <3> QED
      BY <3>1, <3>2
  <2>6. CASE Mutual(x) /\ Joined(matchEvents, x)
    <3>1. PartitionOf[Liker(x)] \in Partitions /\ PartitionOf[Likee(x)] \in Partitions
      BY PairFacts
    <3> QED
      BY <1>3, <2>6, <3>1 DEF Joined, Holds, Appended
  <2>7. Mutual(x) => Awaits(x) \/ Awaits(Reverse2(x)) \/ Joined(matchEvents, x)
    BY DEF IInv, Noticed
  <2> QED
    BY <2>2, <2>3, <2>4, <2>5, <2>6, <2>7 DEF Mutual
<1> QED
  BY <1>5, <1>6, <1>7, <1>8, <1>9, <1>10, <1>12, <1>13, <1>16 DEF IInv

LEMMA InvStep == IInv /\ [Next]_vars => IInv'
<1> SUFFICES ASSUME IInv, [Next]_vars PROVE IInv'
  OBVIOUS
<1>1. Types'
  BY TypeStep DEF IInv
<1>2. ASSUME NEW like \in Likes, LikeADancer(like) PROVE IInv'
  BY <1>1, <1>2, SendStep
<1>3. ASSUME NEW p \in Partitions, ProcessLike(p) PROVE IInv'
  BY <1>1, <1>3, LikeStep
<1>4. ASSUME NEW p \in Partitions, ProcessPassiveLike(p) PROVE IInv'
  BY <1>1, <1>4, PassiveStep
<1>5. ASSUME NEW p \in Partitions, ProcessMatch(p) PROVE IInv'
  BY <1>1, <1>5, MatchStep
<1>6. ASSUME NEW p \in Partitions, CommitTask(p) PROVE IInv'
  BY <1>1, <1>6, CommitStep
<1>7. ASSUME NEW p \in Partitions, DieOnSelfMatch(p) PROVE IInv'
  BY <1>1, <1>7, ResetStep DEF DieOnSelfMatch, topicVars
<1>8. ASSUME NEW p \in Partitions, CrashAndRestart(p) PROVE IInv'
  BY <1>1, <1>8, ResetStep DEF CrashAndRestart, topicVars
<1>9. CASE UNCHANGED vars
  <2>1. UNCHANGED <<danceEvents, passiveLikes, matchEvents, task, saved>>
    BY <1>9 DEF vars, topicVars
  <2>2. Commits' /\ SentAtHome' /\ OutAtHome' /\ PassedAtHome' /\ NewIsPassedOn' /\ ReadIsJoined'
    BY <2>1 DEF IInv, Commits, SentAtHome, OutAtHome, PassedAtHome, NewIsPassedOn,
                ReadIsJoined, Stored
  <2>3. OutIsLiked' /\ EventsAreMutual' /\ HistoriesAreMutual' /\ Noticed'
    BY <2>1 DEF IInv, OutIsLiked, EventsAreMutual, HistoriesAreMutual, Noticed, Sees,
                Mutual, Stored, Awaits
  <2> QED
    BY <1>1, <2>2, <2>3 DEF IInv
<1> QED
  BY <1>2, <1>3, <1>4, <1>5, <1>6, <1>7, <1>8, <1>9 DEF Next, ThreadStep

LEMMA Inductive == Spec => []IInv
  BY InvInit, InvStep, PTL DEF Spec

-----------------------------------------------------------------------------
(* What it shows *)

\* Every variable keeps its type, and every like and passive like is in the
\* partition of the thread that has the history it belongs to.
THEOREM TypeCorrect == Spec => []TypeOK
<1>1. IInv => TypeOK
  BY DEF IInv, Types, TypeOK, SentAtHome, PassedAtHome, ToSet
<1> QED
  BY <1>1, Inductive, PTL

\* Whatever number of threads commits and dies in whatever order: a match in a
\* match history, committed or not, rests on two likes that no crash can undo.
THEOREM MatchesAreMutual == Spec => []MatchIsMutual
<1>1. IInv => MatchIsMutual
  <2> SUFFICES ASSUME IInv, NEW p \in Partitions, NEW m \in task[p].matchHistory
               PROVE  HasLiked(m[1], m[2]) /\ HasLiked(m[2], m[1])
    BY DEF MatchIsMutual
  <2>1. m \in Pair /\ Mutual(m)
    BY DEF IInv, Types, Task, HistoriesAreMutual
  <2>2. m = <<m[1], m[2]>>
    BY <2>1 DEF Pair
  <2> QED
    BY <2>1, <2>2 DEF Mutual, Stored, HasLiked, Reverse2, Liker
<1> QED
  BY <1>1, Inductive, PTL

LEMMA UnreadFacts ==
  ASSUME NEW log \in Seq(Pair), NEW offset \in Nat, NEW n \in DOMAIN log, n > offset
  PROVE  log[n] \in Unread(log, offset)
<1> DEFINE rest == SubSeq(log, offset + 1, Len(log))
<1>1. Len(log) \in Nat /\ n \in 1 .. Len(log)
  OBVIOUS
<1>2. n - offset \in DOMAIN rest /\ rest[n - offset] = log[n]
  BY <1>1
<1> QED
  BY <1>2 DEF Unread, ToSet

\* Two committed mutual likes never miss each other, whatever the interleaving of
\* their threads: one of them is still to be joined or both match events are out.
THEOREM MutualLikesAreNoticed == Spec => []MutualIsNoticed
<1>1. IInv => MutualIsNoticed
  <2> SUFFICES ASSUME IInv, NEW a \in Dancers, NEW b \in Dancers,
                      HasLiked(a, b), HasLiked(b, a)
               PROVE  \/ OnItsWay(<<a, b>>) \/ OnItsWay(<<b, a>>)
                      \/ IsMatched(a, b) /\ IsMatched(b, a)
    BY DEF MutualIsNoticed
  <2>1. <<a, b>> \in Pair /\ <<b, a>> \in Pair /\ Reverse2(<<a, b>>) = <<b, a>>
    BY DEF Pair, Reverse2
  <2>2. Mutual(<<a, b>>)
    BY <2>1 DEF Mutual, Stored, HasLiked, Liker
  <2>3. \A x \in Pair : Awaits(x) => OnItsWay(x)
    <3> SUFFICES ASSUME NEW x \in Pair, Awaits(x) PROVE OnItsWay(x)
      OBVIOUS
    <3> DEFINE q == PartitionOf[Likee(x)]
    <3>1. q \in Partitions
      BY PairFacts
    <3>2. passiveLikes[q] \in Seq(Pair) /\ saved[q].passiveOffset \in Nat
      BY <3>1 DEF IInv, Types, Task
    <3> QED
      BY <3>2, UnreadFacts DEF Awaits, OnItsWay
  <2>4. \A log, x : Holds(log, x) => x \in ToSet(log)
    BY DEF Holds, ToSet
  <2>5. Joined(matchEvents, <<a, b>>) => IsMatched(a, b) /\ IsMatched(b, a)
    BY <2>1, <2>4 DEF Joined, IsMatched, Liker, Likee
  <2> QED
    BY <2>1, <2>2, <2>3, <2>5 DEF IInv, Noticed
<1> QED
  BY <1>1, Inductive, PTL

-----------------------------------------------------------------------------
(* Counting records                                                         *)

\* The records among the first k of a log that are x.
Places(x, log, k) == {n \in 1 .. k : log[n] = x}

\* They are finitely many,
LEMMA PlacesFinite ==
  ASSUME NEW x, NEW log, NEW k \in Nat
  PROVE  /\ IsFiniteSet(Places(x, log, k))
         /\ Cardinality(Places(x, log, k)) \in Nat
<1>1. IsFiniteSet(1 .. k)
  BY FS_Interval
<1>2. Places(x, log, k) \in SUBSET (1 .. k)
  BY DEF Places
<1>3. QED
  BY <1>1, <1>2, FS_Subset, FS_CardinalityType

\* and the next record is one more, or none.
LEMMA PlacesNext ==
  ASSUME NEW x, NEW log, NEW k \in Nat
  PROVE  Cardinality(Places(x, log, k + 1)) =
           Cardinality(Places(x, log, k)) + (IF log[k + 1] = x THEN 1 ELSE 0)
<1>1. CASE log[k + 1] = x
  <2>1. Places(x, log, k + 1) = Places(x, log, k) \cup {k + 1} /\ k + 1 \notin Places(x, log, k)
    BY <1>1 DEF Places
  <2>2. QED
    BY <1>1, <2>1, PlacesFinite, FS_AddElement
<1>2. CASE log[k + 1] # x
  <2>1. Places(x, log, k + 1) = Places(x, log, k)
    BY <1>2 DEF Places
  <2>2. QED
    BY <1>2, <2>1, PlacesFinite
<1>3. QED
  BY <1>1, <1>2

\* Only the records counted matter.
LEMMA PlacesSame ==
  ASSUME NEW x, NEW s, NEW t, NEW k \in Nat, \A n \in 1 .. k : s[n] = t[n]
  PROVE  Places(x, s, k) = Places(x, t, k)
BY DEF Places

\* Count counts the places in the whole log.
LEMMA CountPlaces ==
  ASSUME NEW x, NEW s \in Seq(Pair)
  PROVE  Count(x, s) = Cardinality(Places(x, s, Len(s))) /\ Len(s) \in Nat
<1>1. DOMAIN s = 1 .. Len(s) /\ Len(s) \in Nat
  OBVIOUS
<1>2. QED
  BY <1>1 DEF Count, Places

\* The part of a log before an offset holds the places up to it.
LEMMA CountPrefix ==
  ASSUME NEW x, NEW s \in Seq(Pair), NEW k \in Nat, k <= Len(s)
  PROVE  Count(x, SubSeq(s, 1, k)) = Cardinality(Places(x, s, k))
<1> DEFINE pre == SubSeq(s, 1, k)
<1>1. /\ pre \in Seq(Pair) /\ Len(pre) = k
      /\ \A n \in 1 .. k : pre[n] = s[n]
  OBVIOUS
<1> HIDE DEF pre
<1>2. Count(x, pre) = Cardinality(Places(x, pre, k))
  BY <1>1, CountPlaces
<1>3. Places(x, pre, k) = Places(x, s, k)
  BY <1>1, PlacesSame
<1>4. QED
  BY <1>2, <1>3 DEF pre

\* Appending a record adds one to the count of that record.
LEMMA CountAppend ==
  ASSUME NEW x, NEW s \in Seq(Pair), NEW y \in Pair
  PROVE  Count(x, Append(s, y)) = Count(x, s) + (IF y = x THEN 1 ELSE 0)
<1> DEFINE d == Append(s, y)
           k == Len(s)
<1>1. /\ d \in Seq(Pair) /\ Len(d) = k + 1 /\ k \in Nat
      /\ d[k + 1] = y
      /\ \A n \in 1 .. k : d[n] = s[n]
  OBVIOUS
<1> HIDE DEF d, k
<1>2. Count(x, d) = Cardinality(Places(x, d, k + 1)) /\ Count(x, s) = Cardinality(Places(x, s, k))
  BY <1>1, CountPlaces DEF k
<1>3. Places(x, d, k) = Places(x, s, k)
  BY <1>1, PlacesSame
<1>4. Cardinality(Places(x, d, k + 1)) =
        Cardinality(Places(x, d, k)) + (IF d[k + 1] = x THEN 1 ELSE 0)
  BY <1>1, PlacesNext
<1>5. QED
  BY <1>1, <1>2, <1>3, <1>4 DEF d

\* The records of two logs, one after the other; by a least counterexample on how
\* much of the second log is counted.
LEMMA CountConcat ==
  ASSUME NEW x, NEW s \in Seq(Pair), NEW t \in Seq(Pair)
  PROVE  Count(x, s \o t) = Count(x, s) + Count(x, t)
<1> DEFINE d == s \o t
           k == Len(s)
           P(n) == Cardinality(Places(x, d, k + n)) =
                     Cardinality(Places(x, s, k)) + Cardinality(Places(x, t, n))
           Bad == {n \in 0 .. Len(t) : ~P(n)}
<1>1. /\ d \in Seq(Pair) /\ k \in Nat /\ Len(t) \in Nat /\ Len(d) = k + Len(t)
      /\ \A n \in 1 .. k : d[n] = s[n]
      /\ \A n \in 1 .. Len(t) : d[k + n] = t[n]
  OBVIOUS
<1> HIDE DEF d, k
<1>2. P(0)
  <2>1. Places(x, d, k) = Places(x, s, k)
    BY <1>1, PlacesSame
  <2>2. Places(x, t, 0) = {}
    BY DEF Places
  <2>3. QED
    BY <1>1, <2>1, <2>2, PlacesFinite, FS_EmptySet
<1>3. ASSUME NEW n \in 0 .. Len(t) - 1, P(n) PROVE P(n + 1)
  <2>1. n \in Nat /\ k + n \in Nat /\ n + 1 \in 1 .. Len(t) /\ (k + n) + 1 = k + (n + 1)
    BY <1>1
  <2>2. d[(k + n) + 1] = t[n + 1]
    BY <1>1, <2>1
  <2>3. /\ Cardinality(Places(x, d, (k + n) + 1)) =
             Cardinality(Places(x, d, k + n)) + (IF d[(k + n) + 1] = x THEN 1 ELSE 0)
        /\ Cardinality(Places(x, t, n + 1)) =
             Cardinality(Places(x, t, n)) + (IF t[n + 1] = x THEN 1 ELSE 0)
    <3>1. k + n \in Nat /\ n \in Nat
      BY <2>1
    <3>2. QED
      BY <3>1, PlacesNext
  <2>4. /\ Cardinality(Places(x, s, k)) \in Nat /\ Cardinality(Places(x, t, n)) \in Nat
    BY <1>1, <2>1, PlacesFinite
  <2>5. QED
    BY <1>3, <2>1, <2>2, <2>3, <2>4
<1>4. \A n \in 0 .. Len(t) : P(n)
  <2> HIDE DEF P
  <2>1. SUFFICES ASSUME Bad # {} PROVE FALSE
    OBVIOUS
  <2>2. Bad \subseteq Nat
    BY <1>1
  <2>3. PICK n \in Bad : \A m \in Bad : n <= m
    <3> HIDE DEF Bad
    <3> QED
      BY <2>1, <2>2, LeastNumber
  <2>4. n # 0 /\ n \in 1 .. Len(t)
    BY <1>1, <1>2, <2>3
  <2>5. n - 1 \in 0 .. Len(t) - 1 /\ P(n - 1) /\ (n - 1) + 1 = n
    BY <1>1, <2>3, <2>4
  <2>6. P(n)
    BY <1>3, <2>5
  <2>7. QED
    BY <2>3, <2>6
<1>5. /\ Count(x, d) = Cardinality(Places(x, d, k + Len(t)))
      /\ Count(x, s) = Cardinality(Places(x, s, k))
      /\ Count(x, t) = Cardinality(Places(x, t, Len(t)))
  BY <1>1, CountPlaces DEF k
<1>6. QED
  BY <1>1, <1>4, <1>5 DEF d

-----------------------------------------------------------------------------
(* Passing on                                                               *)

\* A thread has read no further than the topic goes.
OffsetsInLog ==
  \A p \in Partitions :
    /\ task[p].danceOffset <= Len(danceEvents[p])
    /\ saved[p].danceOffset <= task[p].danceOffset

\* How often x is among the likes the thread t has read from the partition of x.
Read(x, t) == Cardinality(Places(x, danceEvents[PartitionOf[Liker(x)]], t.danceOffset))

\* What was committed was passed on; what was read since is about to be.
PassedOn(x) ==
  LET p == PartitionOf[Liker(x)]
      q == PartitionOf[Likee(x)]
  IN  /\ Count(x, passiveLikes[q]) = Read(x, saved[p])
      /\ Count(x, passiveLikes[q]) + Count(x, task[p].passiveOut[q]) = Read(x, task[p])

CountInv == OffsetsInLog /\ \A x \in Pair : PassedOn(x)

\* An empty log holds nothing.
LEMMA CountNothing == ASSUME NEW x PROVE Count(x, <<>>) = 0
<1>1. {n \in DOMAIN <<>> : <<>>[n] = x} = {}
  OBVIOUS
<1>2. QED
  BY <1>1, FS_EmptySet DEF Count

\* Every log is empty,
LEMMA CountInit == Init => CountInv
<1> SUFFICES ASSUME Init PROVE CountInv
  OBVIOUS
<1>1. OffsetsInLog
  BY DEF Init, OffsetsInLog, FreshTask
<1>2. ASSUME NEW x \in Pair PROVE PassedOn(x)
  <2> DEFINE p == PartitionOf[Liker(x)]
             q == PartitionOf[Likee(x)]
  <2>1. p \in Partitions /\ q \in Partitions
    BY PairFacts
  <2>2. /\ passiveLikes[q] = <<>> /\ task[p].passiveOut[q] = <<>>
        /\ task[p].danceOffset = 0 /\ saved[p].danceOffset = 0
    BY <2>1 DEF Init, FreshTask, NoOutput
  <2>3. Places(x, danceEvents[p], 0) = {}
    BY DEF Places
  <2>4. Read(x, task[p]) = 0 /\ Read(x, saved[p]) = 0
    BY <2>2, <2>3, FS_EmptySet DEF Read
  <2>5. QED
    BY <2>2, <2>4, CountNothing DEF PassedOn
<1>3. QED
  BY <1>1, <1>2 DEF CountInv

\* The types the steps need.
LEMMA LogTypes ==
  ASSUME Types, NEW p \in Partitions
  PROVE  /\ danceEvents[p] \in Seq(Pair) /\ passiveLikes[p] \in Seq(Pair)
         /\ task[p].danceOffset \in Nat /\ saved[p].danceOffset \in Nat
         /\ task[p].passiveOut \in Logs
         /\ \A q \in Partitions : task[p].passiveOut[q] \in Seq(Pair)
BY DEF Types, Task, Logs

\* Nothing counted is touched.
LEMMA CountUntouched ==
  ASSUME CountInv, UNCHANGED <<danceEvents, passiveLikes, saved>>,
         \A p \in Partitions : /\ task'[p].danceOffset = task[p].danceOffset
                               /\ task'[p].passiveOut = task[p].passiveOut
  PROVE  CountInv'
<1>1. OffsetsInLog'
  BY DEF CountInv, OffsetsInLog
<1>2. ASSUME NEW x \in Pair PROVE PassedOn(x)'
  BY PairFacts DEF CountInv, PassedOn, Read
<1>3. QED
  BY <1>1, <1>2 DEF CountInv

\* A like that is sent comes behind all that was read.
LEMMA CountSend ==
  ASSUME Types, CountInv, NEW like \in Likes, LikeADancer(like)
  PROVE  CountInv'
<1> DEFINE r == PartitionOf[Liker(like)]
<1>1. like \in Pair /\ r \in Partitions
  BY PairFacts, MatchmakingAssumption DEF Pair
<1>2. /\ danceEvents' = [danceEvents EXCEPT ![r] = Append(@, like)]
      /\ UNCHANGED <<passiveLikes, task, saved>>
  BY DEF LikeADancer
<1>3. ASSUME NEW p \in Partitions
      PROVE  /\ Len(danceEvents[p]) <= Len(danceEvents'[p])
             /\ \A n \in 1 .. Len(danceEvents[p]) : danceEvents'[p][n] = danceEvents[p][n]
             /\ Len(danceEvents[p]) \in Nat /\ Len(danceEvents'[p]) \in Nat
  <2>1. danceEvents[p] \in Seq(Pair)
    BY LogTypes
  <2>2. CASE p = r
    <3>1. danceEvents'[p] = Append(danceEvents[p], like)
      BY <1>1, <1>2, <2>2 DEF Types
    <3>2. QED
      BY <1>1, <2>1, <3>1
  <2>3. CASE p # r
    <3>1. danceEvents'[p] = danceEvents[p]
      BY <1>2, <2>3 DEF Types
    <3>2. QED
      BY <2>1, <3>1
  <2>4. QED
    BY <2>2, <2>3
<1>4. OffsetsInLog'
  <2> SUFFICES ASSUME NEW p \in Partitions
               PROVE  /\ task'[p].danceOffset <= Len(danceEvents'[p])
                      /\ saved'[p].danceOffset <= task'[p].danceOffset
    BY DEF OffsetsInLog
  <2>1. task[p].danceOffset \in Nat
    BY LogTypes
  <2>2. QED
    BY <1>2, <1>3, <2>1 DEF CountInv, OffsetsInLog
<1>5. ASSUME NEW x \in Pair PROVE PassedOn(x)'
  <2> DEFINE p == PartitionOf[Liker(x)]
  <2>1. p \in Partitions
    BY PairFacts
  <2>2. /\ task[p].danceOffset \in Nat /\ saved[p].danceOffset \in Nat
        /\ task[p].danceOffset <= Len(danceEvents[p])
        /\ saved[p].danceOffset <= Len(danceEvents[p])
    BY <1>3, <2>1, LogTypes DEF CountInv, OffsetsInLog
  <2>3. /\ Places(x, danceEvents'[p], task[p].danceOffset)
             = Places(x, danceEvents[p], task[p].danceOffset)
        /\ Places(x, danceEvents'[p], saved[p].danceOffset)
             = Places(x, danceEvents[p], saved[p].danceOffset)
    BY <1>3, <2>1, <2>2 DEF Places
  <2>4. QED
    BY <1>2, <2>3 DEF CountInv, PassedOn, Read
<1>6. QED
  BY <1>4, <1>5 DEF CountInv

\* A like that is read is put into the batch of the likee's partition.
LEMMA CountLike ==
  ASSUME Types, CountInv, SentAtHome, NEW p \in Partitions, ProcessLike(p)
  PROVE  CountInv'
<1> DEFINE k == task[p].danceOffset
           like == danceEvents[p][k + 1]
<1>1. /\ task[p] \in Task /\ task \in [Partitions -> Task]
      /\ danceEvents[p] \in Seq(Pair) /\ k \in Nat /\ task[p].passiveOut \in Logs
  BY LogTypes DEF Types
<1>2. k + 1 \in DOMAIN danceEvents[p] /\ like \in Pair /\ k + 1 <= Len(danceEvents[p])
  BY <1>1, ReadRecord DEF ProcessLike
<1>3. PartitionOf[Liker(like)] = p
  BY <1>2 DEF SentAtHome
<1>4. /\ task'[p].danceOffset = k + 1
      /\ task'[p].passiveOut = Emit(task[p].passiveOut, like, Likee(like))
      /\ \A r \in Partitions \ {p} : task'[r] = task[r]
      /\ UNCHANGED <<danceEvents, passiveLikes, saved>>
  BY <1>1 DEF ProcessLike, PassOn, Task, topicVars
<1> HIDE DEF like, k
<1>5. OffsetsInLog'
  <2> SUFFICES ASSUME NEW r \in Partitions
               PROVE  /\ task'[r].danceOffset <= Len(danceEvents'[r])
                      /\ saved'[r].danceOffset <= task'[r].danceOffset
    BY DEF OffsetsInLog
  <2>1. saved[p].danceOffset <= k /\ saved[p].danceOffset \in Nat
    BY LogTypes DEF CountInv, OffsetsInLog, k
  <2>2. CASE r = p
    BY <1>1, <1>2, <1>4, <2>1, <2>2
  <2>3. CASE r # p
    BY <1>4, <2>3 DEF CountInv, OffsetsInLog
  <2>4. QED
    BY <2>2, <2>3
<1>6. ASSUME NEW x \in Pair PROVE PassedOn(x)'
  <2> DEFINE q == PartitionOf[Likee(x)]
             out == task[p].passiveOut
  <2>1. q \in Partitions /\ PassedOn(x) /\ PartitionOf[Liker(x)] \in Partitions
    BY PairFacts DEF CountInv
  <2>2. CASE PartitionOf[Liker(x)] # p
    BY <1>4, <2>1, <2>2 DEF PassedOn, Read
  <2>3. CASE PartitionOf[Liker(x)] = p
    <3>1. Read(x, task[p])' = Read(x, task[p]) + (IF like = x THEN 1 ELSE 0)
      BY <1>1, <1>4, <2>3, PlacesNext DEF Read, like, k
    <3>2. out[q] \in Seq(Pair)
      BY <2>1, LogTypes
    <3>3. Count(x, task'[p].passiveOut[q]) = Count(x, out[q]) + (IF like = x THEN 1 ELSE 0)
      <4>1. CASE q = PartitionOf[Likee(like)]
        <5>1. task'[p].passiveOut[q] = Append(out[q], like)
          BY <1>1, <1>4, <2>1, <4>1 DEF Emit, Logs
        <5>2. QED
          BY <1>2, <3>2, <5>1, CountAppend
      <4>2. CASE q # PartitionOf[Likee(like)]
        <5>1. task'[p].passiveOut[q] = out[q]
          BY <1>1, <1>4, <2>1, <4>2 DEF Emit, Logs
        <5>2. like # x
          BY <4>2
        <5>3. Count(x, out[q]) \in Nat
          BY <3>2, CountPlaces, PlacesFinite
        <5>4. QED
          BY <5>1, <5>2, <5>3
      <4>3. QED
        BY <4>1, <4>2
    <3>4. /\ Count(x, passiveLikes[q]) \in Nat /\ Count(x, out[q]) \in Nat
          /\ Read(x, task[p]) \in Nat
      BY <1>1, <2>1, <2>3, <3>2, LogTypes, CountPlaces, PlacesFinite DEF Read, k
    <3>5. Read(x, saved[p])' = Read(x, saved[p])
      BY <1>4 DEF Read
    <3>6. QED
      BY <1>4, <2>1, <2>3, <3>1, <3>3, <3>4, <3>5 DEF PassedOn
  <2>4. QED
    BY <2>2, <2>3
<1>7. QED
  BY <1>5, <1>6 DEF CountInv

\* A thread that dies forgets what it read together with what it emitted.
LEMMA CountReset ==
  ASSUME Types, CountInv, Commits, NEW p \in Partitions,
         task' = [task EXCEPT ![p] = saved[p]], UNCHANGED <<danceEvents, passiveLikes, saved>>
  PROVE  CountInv'
<1>1. task'[p] = saved[p] /\ \A r \in Partitions : r # p => task'[r] = task[r]
  BY ResetEffect
<1>2. OffsetsInLog'
  <2> SUFFICES ASSUME NEW r \in Partitions
               PROVE  /\ task'[r].danceOffset <= Len(danceEvents'[r])
                      /\ saved'[r].danceOffset <= task'[r].danceOffset
    BY DEF OffsetsInLog
  <2>1. /\ task[r].danceOffset \in Nat /\ saved[r].danceOffset \in Nat
        /\ danceEvents[r] \in Seq(Pair)
    BY LogTypes
  <2>2. Len(danceEvents[r]) \in Nat
    BY <2>1
  <2>3. QED
    BY <1>1, <2>1, <2>2 DEF CountInv, OffsetsInLog
<1>3. ASSUME NEW x \in Pair PROVE PassedOn(x)'
  <2> DEFINE q == PartitionOf[Likee(x)]
  <2>1. q \in Partitions /\ PassedOn(x) /\ PartitionOf[Liker(x)] \in Partitions
    BY PairFacts DEF CountInv
  <2>2. CASE PartitionOf[Liker(x)] # p
    BY <1>1, <2>1, <2>2 DEF PassedOn, Read
  <2>3. CASE PartitionOf[Liker(x)] = p
    <3>1. task'[p].passiveOut[q] = <<>>
      BY <1>1, <2>1 DEF Commits, NoOutput
    <3>2. Count(x, passiveLikes[q]) \in Nat
      BY <2>1, LogTypes, CountPlaces, PlacesFinite
    <3>3. Read(x, task[p])' = Read(x, saved[p]) /\ Read(x, saved[p])' = Read(x, saved[p])
      BY <1>1 DEF Read
    <3>4. QED
      BY <2>1, <2>3, <3>1, <3>2, <3>3, CountNothing DEF PassedOn
  <2>4. QED
    BY <2>2, <2>3
<1>4. QED
  BY <1>2, <1>3 DEF CountInv

\* A commit moves the batches to their topics and the offset past their likes.
LEMMA CountCommit ==
  ASSUME Types, CountInv, OutAtHome, NEW p \in Partitions, CommitTask(p)
  PROVE  CountInv'
<1>1. /\ task[p] \in Task /\ task \in [Partitions -> Task] /\ saved \in [Partitions -> Task]
  BY DEF Types
<1>2. /\ saved'[p].danceOffset = task[p].danceOffset
      /\ task'[p].danceOffset = task[p].danceOffset
      /\ task'[p].passiveOut = NoOutput
      /\ \A r \in Partitions \ {p} : task'[r] = task[r] /\ saved'[r] = saved[r]
      /\ danceEvents' = danceEvents
      /\ passiveLikes' = Deliver(passiveLikes, task[p].passiveOut)
  BY <1>1 DEF CommitTask, Committed, Task
<1>3. OffsetsInLog'
  <2> SUFFICES ASSUME NEW r \in Partitions
               PROVE  /\ task'[r].danceOffset <= Len(danceEvents'[r])
                      /\ saved'[r].danceOffset <= task'[r].danceOffset
    BY DEF OffsetsInLog
  <2>1. task[r].danceOffset \in Nat
    BY LogTypes
  <2>2. QED
    BY <1>2, <2>1 DEF CountInv, OffsetsInLog
<1>4. ASSUME NEW x \in Pair PROVE PassedOn(x)'
  <2> DEFINE q == PartitionOf[Likee(x)]
             out == task[p].passiveOut[q]
  <2>1. q \in Partitions /\ PassedOn(x) /\ PartitionOf[Liker(x)] \in Partitions
    BY PairFacts DEF CountInv
  <2>2. passiveLikes[q] \in Seq(Pair) /\ out \in Seq(Pair)
    BY <2>1, LogTypes
  <2>3. Count(x, passiveLikes'[q]) = Count(x, passiveLikes[q]) + Count(x, out)
    <3>1. passiveLikes'[q] = passiveLikes[q] \o out
      BY <1>2, <2>1 DEF Deliver
    <3>2. QED
      BY <2>2, <3>1, CountConcat
  <2>4. Count(x, passiveLikes[q]) \in Nat /\ Count(x, out) \in Nat
    BY <2>2, CountPlaces, PlacesFinite
  <2>5. CASE PartitionOf[Liker(x)] # p
    <3>1. Count(x, out) = 0
      <4>1. {n \in DOMAIN out : out[n] = x} = {}
        BY <2>1, <2>5 DEF OutAtHome
      <4>2. QED
        BY <4>1, FS_EmptySet DEF Count
    <3>2. Count(x, passiveLikes'[q]) = Count(x, passiveLikes[q])
      BY <2>3, <2>4, <3>1
    <3>3. QED
      BY <1>2, <2>1, <2>5, <3>2 DEF PassedOn, Read
  <2>6. CASE PartitionOf[Liker(x)] = p
    <3>1. task'[p].passiveOut[q] = <<>>
      BY <1>2, <2>1 DEF NoOutput
    <3>2. Read(x, task[p])' = Read(x, task[p]) /\ Read(x, saved[p])' = Read(x, task[p])
      BY <1>2, <2>6 DEF Read
    <3>3. Count(x, passiveLikes[q]) + Count(x, out) = Read(x, task[p])
      BY <2>1, <2>6 DEF PassedOn
    <3>4. Count(x, passiveLikes'[q]) \in Nat
      BY <2>3, <2>4
    <3>5. QED
      BY <2>3, <2>6, <3>1, <3>2, <3>3, <3>4, CountNothing DEF PassedOn
  <2>7. QED
    BY <2>5, <2>6
<1>5. QED
  BY <1>3, <1>4 DEF CountInv

\* and every step keeps the count, whether or not its transaction commits.
LEMMA CountStep == IInv /\ CountInv /\ [Next]_vars => CountInv'
<1> SUFFICES ASSUME IInv, CountInv, [Next]_vars PROVE CountInv'
  OBVIOUS
<1>1. Types /\ Commits /\ SentAtHome /\ OutAtHome
  BY DEF IInv
<1>2. ASSUME NEW like \in Likes, LikeADancer(like) PROVE CountInv'
  BY <1>1, <1>2, CountSend
<1>3. ASSUME NEW p \in Partitions, ProcessLike(p) PROVE CountInv'
  BY <1>1, <1>3, CountLike
<1>4. ASSUME NEW p \in Partitions, ProcessPassiveLike(p) \/ ProcessMatch(p) PROVE CountInv'
  <2>1. /\ UNCHANGED <<danceEvents, passiveLikes, saved>>
        /\ \A r \in Partitions \ {p} : task'[r] = task[r]
        /\ task'[p].passiveOut = task[p].passiveOut
        /\ task'[p].danceOffset = task[p].danceOffset
    <3>1. task[p] \in Task /\ task \in [Partitions -> Task]
      BY <1>1 DEF Types
    <3>2. CASE ProcessPassiveLike(p)
      BY <3>1, <3>2 DEF ProcessPassiveLike, Task, topicVars
    <3>3. CASE ProcessMatch(p)
      BY <3>1, <3>3 DEF ProcessMatch, Task, topicVars
    <3>4. QED
      BY <1>4, <3>2, <3>3
  <2>2. QED
    BY <2>1, CountUntouched
<1>5. ASSUME NEW p \in Partitions, CommitTask(p) PROVE CountInv'
  BY <1>1, <1>5, CountCommit
<1>6. ASSUME NEW p \in Partitions, DieOnSelfMatch(p) \/ CrashAndRestart(p) PROVE CountInv'
  <2>1. task' = [task EXCEPT ![p] = saved[p]] /\ UNCHANGED <<danceEvents, passiveLikes, saved>>
    BY <1>6 DEF DieOnSelfMatch, CrashAndRestart, topicVars
  <2>2. QED
    BY <1>1, <2>1, CountReset
<1>7. CASE UNCHANGED vars
  BY <1>7, CountUntouched DEF vars, topicVars
<1>8. QED
  BY <1>2, <1>3, <1>4, <1>5, <1>6, <1>7 DEF Next, ThreadStep

\* However often the thread that passes a like on is restarted in between, the
\* like is passed on as often as it was sent and read for good.
THEOREM LikesArePassedOnOnce == Spec => []PassedOnOnce
<1>1. IInv /\ CountInv => PassedOnOnce
  <2> SUFFICES ASSUME IInv, CountInv, NEW like \in Likes
               PROVE  LET p == PartitionOf[Liker(like)]
                      IN  Count(like, passiveLikes[PartitionOf[Likee(like)]])
                            = Count(like, SubSeq(danceEvents[p], 1, saved[p].danceOffset))
    BY DEF PassedOnOnce
  <2> DEFINE p == PartitionOf[Liker(like)]
  <2>1. like \in Pair /\ p \in Partitions
    BY PairFacts, MatchmakingAssumption DEF Pair
  <2>2. danceEvents[p] \in Seq(Pair) /\ saved[p].danceOffset \in Nat /\ task[p].danceOffset \in Nat
    BY <2>1, LogTypes DEF IInv
  <2>3. saved[p].danceOffset <= Len(danceEvents[p])
    <3>1. Len(danceEvents[p]) \in Nat
      BY <2>2
    <3>2. QED
      BY <2>1, <2>2, <3>1 DEF CountInv, OffsetsInLog
  <2>4. Count(like, SubSeq(danceEvents[p], 1, saved[p].danceOffset)) = Read(like, saved[p])
    BY <2>2, <2>3, CountPrefix DEF Read
  <2>5. QED
    BY <2>1, <2>4 DEF CountInv, PassedOn
<1>2. QED
  BY <1>1, Inductive, CountInit, CountStep, PTL DEF Spec

=============================================================================
