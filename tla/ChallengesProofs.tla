-------------------------- MODULE ChallengesProofs --------------------------
(***************************************************************************)
(* Theorems about Challenges, for every number of challenges, instances,   *)
(* requests and failures.  The stores, the working one and the committed   *)
(* one, each follow the log up to their own position; that survives lost,  *)
(* late and compacted events and every return to the last commit.          *)
(***************************************************************************)
EXTENDS Challenges, TLAPS

\* The store of a position says what the last event of each challenge says.
Follows(events, removed, pos, store) ==
  \A k \in DOMAIN events :
    (/\ k <= pos /\ k \notin removed
     /\ \A l \in DOMAIN events : l > k /\ l <= pos => events[l].key # events[k].key)
    => store[events[k].key] = Apply(events[k])

\* An entry comes from an event up to the position.
Founded(events, pos, store) ==
  \A c \in Nonces : store[c] # NoEntry =>
    \E k \in DOMAIN events : k <= pos /\ events[k].key = c

StoresFollow ==
  /\ Follows(log, gone, position, challenges)
  /\ Follows(log, gone, committed.position, committed.challenges)

StoresFounded ==
  /\ Founded(log, position, challenges)
  /\ Founded(log, committed.position, committed.challenges)

IInv == TypeOK /\ StoresFollow /\ StoresFounded

-----------------------------------------------------------------------------
(* The log *)

\* Sending appends at most one event, compaction only adds to what is gone.
LogKept ==
  /\ \A k \in DOMAIN log : k \in DOMAIN log' /\ log'[k] = log[k]
  /\ Len(log) <= Len(log')
  /\ gone \subseteq gone'

LEMMA StoreOutlivesLog ==
  ASSUME TypeOK, TypeOK', LogKept, NEW pos \in 0 .. Len(log), NEW store,
         Follows(log, gone, pos, store), Founded(log, pos, store)
  PROVE  Follows(log', gone', pos, store) /\ Founded(log', pos, store)
<1>1. DOMAIN log = 1 .. Len(log) /\ DOMAIN log' = 1 .. Len(log')
  BY DEF TypeOK
<1>2. \A k \in DOMAIN log' : k <= pos => k \in DOMAIN log
  BY <1>1 DEF TypeOK
<1>3. Follows(log', gone', pos, store)
  BY <1>1, <1>2 DEF Follows, LogKept
<1>4. Founded(log', pos, store)
  BY DEF Founded, LogKept
<1> QED
  BY <1>3, <1>4

LEMMA LogGrows == TypeOK /\ [Next]_vars => LogKept
<1> SUFFICES ASSUME TypeOK, [Next]_vars PROVE LogKept
  OBVIOUS
<1>1. log \in Seq(Events) /\ Len(log) \in Nat /\ DOMAIN log = 1 .. Len(log)
  BY DEF TypeOK
<1>2. ASSUME NEW i \in Instances, Send(i) PROVE LogKept
  <2>1. unsent[i] \in Seq(Events) /\ unsent[i] # <<>>
    BY <1>2 DEF Send, TypeOK
  <2>2. Head(unsent[i]) \in Events
    BY <2>1
  <2>3. log' = log \/ log' = Append(log, Head(unsent[i]))
    BY <1>2 DEF Send
  <2>4. gone' = gone
    BY <1>2 DEF Send
  <2> QED
    BY <1>1, <2>2, <2>3, <2>4 DEF LogKept
<1>3. ASSUME NEW k \in DOMAIN log, Compact(k) PROVE LogKept
  BY <1>1, <1>3 DEF Compact, LogKept
<1>4. CASE UNCHANGED <<log, gone>>
  BY <1>1, <1>4 DEF LogKept
<1> QED
  BY <1>2, <1>3, <1>4 DEF Next, RequestStep, Create, Capture, Sign, Login, Log, Crash,
     Assign, Handle, Commit, ThreadDies, Revoke, vars, topicVars

-----------------------------------------------------------------------------
(* Type correctness *)

\* What the log holds.
LEMMA LogFacts ==
  ASSUME TypeOK
  PROVE  /\ DOMAIN log = 1 .. Len(log) /\ Len(log) \in Nat /\ position \in Nat
         /\ \A l \in DOMAIN log : log[l] \in Events /\ log[l].key \in Nonces
<1>1. DOMAIN log = 1 .. Len(log) /\ Len(log) \in Nat /\ position \in Nat
  BY DEF TypeOK
<1>2. \A l \in DOMAIN log : log[l] \in Events
  BY DEF TypeOK
<1>3. \A e \in Events : e.key \in Nonces
  BY DEF Events
<1> QED
  BY <1>1, <1>2, <1>3

LEMMA LogTyped ==
  ASSUME TypeOK, NEW i \in Instances, NEW c \in Nonces,
         NEW kind \in {"created", "captured", "signed", "usedForLogin"},
         Log(i, c, kind)
  PROVE  TypeOK'
<1> DEFINE e == [key |-> c, kind |-> kind]
<1>1. e \in Events
  BY DEF Events
<1>2. unsent' = [unsent EXCEPT ![i] = Append(@, e)]
  BY DEF Log
<1>3. unsent[i] \in Seq(Events)
  BY DEF TypeOK
<1>4. Append(unsent[i], e) \in Seq(Events)
  BY <1>1, <1>3
<1> HIDE DEF e
<1>5. unsent' \in [Instances -> Seq(Events)]
  BY <1>2, <1>4 DEF TypeOK
<1>6. via' \in [Nonces -> SUBSET Instances] /\ accepted' \in 0 .. MaxEvents
  BY ChallengesAssumption DEF Log, TypeOK
<1>7. UNCHANGED <<log, gone, running, owner, position, challenges, committed, failures>>
  BY DEF Log, streamVars
<1> QED
  BY <1>5, <1>6, <1>7 DEF TypeOK

LEMMA SendTyped == ASSUME TypeOK, NEW i \in Instances, Send(i) PROVE TypeOK'
<1>1. unsent[i] \in Seq(Events) /\ unsent[i] # <<>>
  BY DEF Send, TypeOK
<1>2. Head(unsent[i]) \in Events /\ Tail(unsent[i]) \in Seq(Events)
  BY <1>1
<1>3. unsent' \in [Instances -> Seq(Events)]
  BY <1>2 DEF Send, TypeOK
<1>4. log' \in Seq(Events) /\ Len(log) <= Len(log') /\ DOMAIN log \subseteq DOMAIN log'
  <2>1. log' = log \/ log' = Append(log, Head(unsent[i]))
    BY DEF Send
  <2>2. log \in Seq(Events) /\ Len(log) \in Nat /\ DOMAIN log = 1 .. Len(log)
    BY DEF TypeOK
  <2>3. CASE log' = Append(log, Head(unsent[i]))
    BY <1>2, <2>2, <2>3
  <2> QED
    BY <2>1, <2>2, <2>3
<1>5. failures' \in 0 .. MaxFailures
  BY ChallengesAssumption DEF Send, CanFail, TypeOK
<1>6. UNCHANGED <<gone, running, owner, position, challenges, committed, via, accepted>>
  BY DEF Send, streamVars, clientVars
<1>7. position' \in 0 .. Len(log')
  BY <1>4, <1>6 DEF TypeOK
<1> QED
  BY <1>3, <1>4, <1>5, <1>6, <1>7 DEF TypeOK

\* What the aggregation writes is an entry.
LEMMA ApplyTyped ==
  ASSUME NEW e \in Events
  PROVE  /\ Apply(e) \in Entries /\ Apply(e) # NoEntry
         /\ e.kind # "created" => Apply(e) = Outcome(e.kind)
  BY DEF Apply, Outcome, Events, Entries, NoEntry, ReadBack

LEMMA HandleTyped == ASSUME TypeOK, NEW k \in DOMAIN log, Handle(k) PROVE TypeOK'
<1>1. log[k] \in Events /\ k \in 1 .. Len(log) /\ k > position
  BY DEF Handle, IsNext, TypeOK
<1>2. Apply(log[k]) \in Entries
  BY <1>1, ApplyTyped
<1>3. challenges' \in [Nonces -> Entries]
  BY <1>2 DEF Handle, TypeOK
<1>4. position' = k /\ committed' = committed
  BY DEF Handle
<1>5. position' \in 0 .. Len(log) /\ committed' \in [position : 0 .. position', challenges : [Nonces -> Entries]]
  <2>1. committed.position \in 0 .. k /\ committed \in [position : 0 .. position, challenges : [Nonces -> Entries]]
    BY <1>1 DEF TypeOK
  <2>2. 0 .. position \subseteq 0 .. k
    BY <1>1 DEF TypeOK
  <2> QED
    BY <1>1, <1>4, <2>1, <2>2
<1>6. UNCHANGED <<unsent, log, gone, running, owner, via, accepted, failures>>
  BY DEF Handle, topicVars, clientVars
<1> QED
  BY <1>3, <1>5, <1>6 DEF TypeOK

\* Going back to the last commit keeps the types.
LEMMA AbortTyped ==
  ASSUME TypeOK, Abort, committed' = committed, log' = log
  PROVE  /\ position' \in 0 .. Len(log')
         /\ challenges' \in [Nonces -> Entries]
         /\ committed' \in [position : 0 .. position', challenges : [Nonces -> Entries]]
<1>1. committed.position \in 0 .. position /\ committed.challenges \in [Nonces -> Entries]
  BY DEF TypeOK
<1>2. committed = [position |-> committed.position, challenges |-> committed.challenges]
  BY DEF TypeOK
<1> QED
  BY <1>1, <1>2 DEF Abort, TypeOK

\* So does a commit.
LEMMA CommitTyped ==
  ASSUME TypeOK, committed' = [position |-> position, challenges |-> challenges],
         position' = position
  PROVE  committed' \in [position : 0 .. position', challenges : [Nonces -> Entries]]
  BY DEF TypeOK

LEMMA TypeInit == Init => TypeOK
  BY ChallengesAssumption DEF Init, TypeOK, Entries

LEMMA TypeNext == TypeOK /\ [Next]_vars => TypeOK'
<1> SUFFICES ASSUME TypeOK, [Next]_vars PROVE TypeOK'
  OBVIOUS
<1>1. ASSUME NEW i \in Instances, RequestStep(i) PROVE TypeOK'
  <2>1. CASE Create(i)
    <3>1. PICK c \in Nonces : Log(i, c, "created")
      BY <2>1 DEF Create, Unused
    <3> QED
      BY <3>1, LogTyped
  <2>2. ASSUME NEW c \in Nonces, Capture(i, c) \/ Sign(i, c) \/ Login(i, c) PROVE TypeOK'
    BY <2>2, LogTyped DEF Capture, Sign, Login
  <2> QED
    BY <1>1, <2>1, <2>2 DEF RequestStep
<1>2. ASSUME NEW i \in Instances, Assign(i) PROVE TypeOK'
  BY <1>2 DEF Assign, TypeOK, topicVars, clientVars
<1>3. ASSUME NEW i \in Instances, Crash(i) PROVE TypeOK'
  <2>1. /\ UNCHANGED <<log, gone, committed, via, accepted>>
        /\ unsent' \in [Instances -> Seq(Events)]
        /\ running' = running \cup {i}
    BY <1>3 DEF Crash, TypeOK, clientVars
  <2>2. failures' \in 0 .. MaxFailures
    BY <1>3, ChallengesAssumption DEF Crash, CanFail, TypeOK
  <2>3. owner' \in running' \cup {NoOwner}
    BY <1>3 DEF Crash, TypeOK
  <2>4. /\ position' \in 0 .. Len(log')
        /\ challenges' \in [Nonces -> Entries]
        /\ committed' \in [position : 0 .. position', challenges : [Nonces -> Entries]]
    <3>1. CASE Abort
      BY <2>1, <3>1, AbortTyped
    <3>2. CASE UNCHANGED <<position, challenges>>
      BY <2>1, <3>2 DEF TypeOK
    <3> QED
      BY <1>3, <3>1, <3>2 DEF Crash
  <2> QED
    BY <2>1, <2>2, <2>3, <2>4 DEF TypeOK
<1>4. ASSUME NEW k \in DOMAIN log, Compact(k) PROVE TypeOK'
  BY <1>4 DEF Compact, TypeOK, streamVars, clientVars
<1>5. CASE Commit
  BY <1>5, CommitTyped DEF Commit, TypeOK, topicVars, clientVars
<1>6. ASSUME NEW i \in Instances, ThreadDies(i) PROVE TypeOK'
  <2>1. /\ UNCHANGED <<unsent, log, gone, committed, via, accepted>>
        /\ running' = running \ {i}
    BY <1>6 DEF ThreadDies, topicVars, clientVars
  <2>2. failures' \in 0 .. MaxFailures
    BY <1>6, ChallengesAssumption DEF ThreadDies, CanFail, TypeOK
  <2>3. owner' \in running' \cup {NoOwner}
    BY <1>6, <2>1 DEF ThreadDies, TypeOK
  <2>4. /\ position' \in 0 .. Len(log')
        /\ challenges' \in [Nonces -> Entries]
        /\ committed' \in [position : 0 .. position', challenges : [Nonces -> Entries]]
    <3>1. CASE Abort
      BY <2>1, <3>1, AbortTyped
    <3>2. CASE UNCHANGED <<position, challenges>>
      BY <2>1, <3>2 DEF TypeOK
    <3> QED
      BY <1>6, <3>1, <3>2 DEF ThreadDies
  <2> QED
    BY <2>1, <2>2, <2>3, <2>4 DEF TypeOK
<1>7. CASE Revoke
  <2>1. failures' \in 0 .. MaxFailures
    BY <1>7, ChallengesAssumption DEF Revoke, CanFail, TypeOK
  <2> QED
    BY <1>7, <2>1, CommitTyped DEF Revoke, TypeOK, topicVars, clientVars
<1>8. CASE UNCHANGED vars
  BY <1>8 DEF vars, topicVars, streamVars, clientVars, TypeOK
<1> QED
  BY <1>1, <1>2, <1>3, <1>4, <1>5, <1>6, <1>7, <1>8, SendTyped, HandleTyped DEF Next

-----------------------------------------------------------------------------
(* The stores follow the log *)

\* Handling the next event takes the store from one position to the next: what
\* lies in between has been compacted away.
LEMMA HandleFollows ==
  ASSUME TypeOK, NEW k \in DOMAIN log, Handle(k),
         Follows(log, gone, position, challenges), Founded(log, position, challenges)
  PROVE  Follows(log, gone, position', challenges') /\ Founded(log, position', challenges')
<1>1. /\ k > position /\ k \notin gone /\ position' = k
      /\ \A other \in DOMAIN log : other \notin gone /\ other > position => k <= other
      /\ challenges' = [challenges EXCEPT ![log[k].key] = Apply(log[k])]
  BY DEF Handle, IsNext
<1>2. /\ DOMAIN log = 1 .. Len(log) /\ Len(log) \in Nat /\ position \in Nat
      /\ challenges \in [Nonces -> Entries]
      /\ \A l \in DOMAIN log : log[l] \in Events /\ log[l].key \in Nonces
  BY LogFacts DEF TypeOK
<1>3. Apply(log[k]) # NoEntry
  BY <1>2, ApplyTyped
<1>4. Follows(log, gone, k, challenges')
  <2> SUFFICES ASSUME NEW n \in DOMAIN log, n <= k, n \notin gone,
                      \A l \in DOMAIN log : l > n /\ l <= k => log[l].key # log[n].key
               PROVE  challenges'[log[n].key] = Apply(log[n])
    BY DEF Follows
  <2>1. CASE n = k
    BY <1>1, <1>2, <1>3, <2>1
  <2>2. CASE n # k
    <3>1. n < k /\ log[k].key # log[n].key
      BY <1>2, <2>2
    <3>2. n <= position
      BY <1>1, <1>2, <3>1
    <3>3. \A l \in DOMAIN log : l > n /\ l <= position => log[l].key # log[n].key
      BY <1>1, <1>2
    <3>4. challenges[log[n].key] = Apply(log[n])
      BY <3>2, <3>3 DEF Follows
    <3> QED
      BY <1>1, <1>2, <3>1, <3>4
  <2> QED
    BY <2>1, <2>2
<1>5. Founded(log, k, challenges')
  <2> SUFFICES ASSUME NEW c \in Nonces, challenges'[c] # NoEntry
               PROVE  \E l \in DOMAIN log : l <= k /\ log[l].key = c
    BY DEF Founded
  <2>1. CASE c = log[k].key
    BY <1>2, <2>1
  <2>2. CASE c # log[k].key
    <3>1. challenges[c] # NoEntry
      BY <1>1, <1>2, <2>2
    <3>2. PICK l \in DOMAIN log : l <= position /\ log[l].key = c
      BY <3>1 DEF Founded
    <3>3. l <= k
      BY <1>1, <1>2, <3>2
    <3> QED
      BY <3>2, <3>3
  <2> QED
    BY <2>1, <2>2
<1> QED
  BY <1>1, <1>4, <1>5

LEMMA InvInit == Init => IInv
<1> SUFFICES ASSUME Init PROVE IInv
  OBVIOUS
<1>1. DOMAIN log = {} /\ committed.challenges = challenges /\ committed.position = position
  BY DEF Init
<1>2. \A c \in Nonces : challenges[c] = NoEntry
  BY DEF Init
<1> QED
  BY <1>1, <1>2, TypeInit DEF IInv, StoresFollow, StoresFounded, Follows, Founded

LEMMA InvNext == IInv /\ [Next]_vars => IInv'
<1> SUFFICES ASSUME IInv, [Next]_vars PROVE IInv'
  OBVIOUS
<1>1. TypeOK /\ TypeOK' /\ LogKept
  BY TypeNext, LogGrows DEF IInv
<1>2. committed.position \in 0 .. Len(log) /\ position \in 0 .. Len(log)
  BY <1>1 DEF TypeOK
<1>3. /\ Follows(log', gone', position, challenges)
      /\ Founded(log', position, challenges)
  BY <1>1, <1>2, StoreOutlivesLog DEF IInv, StoresFollow, StoresFounded
<1>4. /\ Follows(log', gone', committed.position, committed.challenges)
      /\ Founded(log', committed.position, committed.challenges)
  BY <1>1, <1>2, StoreOutlivesLog DEF IInv, StoresFollow, StoresFounded
<1>5. /\ Follows(log', gone', position', challenges')
      /\ Founded(log', position', challenges')
  <2>1. ASSUME NEW k \in DOMAIN log, Handle(k)
        PROVE  /\ Follows(log', gone', position', challenges')
               /\ Founded(log', position', challenges')
    <3>1. log' = log /\ gone' = gone
      BY <2>1 DEF Handle, topicVars
    <3> QED
      BY <1>1, <2>1, <3>1, HandleFollows DEF IInv, StoresFollow, StoresFounded
  <2>2. CASE Abort
    BY <1>4, <2>2 DEF Abort
  <2>3. CASE UNCHANGED <<position, challenges>>
    BY <1>3, <2>3
  <2> QED
    BY <2>1, <2>2, <2>3 DEF Next, RequestStep, Create, Capture, Sign, Login, Log, Send,
       Compact, Crash, Assign, Commit, ThreadDies, Revoke, vars, streamVars
<1>6. /\ Follows(log', gone', committed'.position, committed'.challenges)
      /\ Founded(log', committed'.position, committed'.challenges)
  <2>1. CASE committed' = [position |-> position, challenges |-> challenges]
    BY <1>3, <2>1
  <2>2. CASE UNCHANGED committed
    BY <1>4, <2>2
  <2> QED
    BY <2>1, <2>2 DEF Next, RequestStep, Create, Capture, Sign, Login, Log, Send,
       Compact, Crash, Assign, Handle, Commit, ThreadDies, Revoke, vars, streamVars
<1> QED
  BY <1>1, <1>5, <1>6 DEF IInv, StoresFollow, StoresFounded

LEMMA InvHolds == Spec => []IInv
  BY InvInit, InvNext, PTL DEF Spec

\* Every variable keeps its type: the thread that has the partition is alive and
\* the committed position is never ahead of the working one.
THEOREM TypeCorrect == Spec => []TypeOK
  BY InvHolds, PTL DEF IInv

\* The store says of a challenge what the last event of it that was handled says,
\* however many instances, crashes, lost and compacted events there are.
THEOREM LastEventAlwaysDecides == Spec => []LastEventDecides
<1>1. IInv => LastEventDecides
  <2> SUFFICES ASSUME IInv, NEW k \in DOMAIN log, HandledLast(k), log[k].kind # "created"
               PROVE  challenges[log[k].key] = Outcome(log[k].kind)
    BY DEF LastEventDecides
  <2>1. DOMAIN log = 1 .. Len(log) /\ position \in Nat /\ Len(log) \in Nat /\ log[k] \in Events
    BY LogFacts DEF IInv
  <2>2. \A l \in DOMAIN log : l > k /\ l <= position => log[l].key # log[k].key
    BY <2>1 DEF HandledLast
  <2>3. challenges[log[k].key] = Apply(log[k])
    BY <2>2 DEF IInv, StoresFollow, Follows, HandledLast
  <2> QED
    BY <2>1, <2>3, ApplyTyped
<1> QED
  BY <1>1, InvHolds, PTL

\* Only an event of a challenge that had an earlier one stops the stream.
THEOREM LoneEventNeverStops == Spec => []LoneEventIsHandled
<1>1. IInv => LoneEventIsHandled
  <2> SUFFICES ASSUME IInv, NEW k \in DOMAIN log, IsNext(k), Throws(log[k])
               PROVE  \E earlier \in 1 .. k - 1 : log[earlier].key = log[k].key
    BY DEF LoneEventIsHandled
  <2>1. log[k].key \in Nonces /\ DOMAIN log = 1 .. Len(log) /\ position \in Nat /\ Len(log) \in Nat
    BY LogFacts DEF IInv
  <2>2. challenges[log[k].key] # NoEntry
    BY DEF Throws, Current, CreateNew
  <2>3. PICK l \in DOMAIN log : l <= position /\ log[l].key = log[k].key
    BY <2>1, <2>2 DEF IInv, StoresFounded, Founded
  <2>4. l \in 1 .. k - 1
    BY <2>1, <2>3 DEF IsNext
  <2> QED
    BY <2>3, <2>4
<1> QED
  BY <1>1, InvHolds, PTL

-----------------------------------------------------------------------------
(* A challenge that is used at one instance never goes back *)

One(set) == \A i, j \in set : i = j

\* Only requests with a nonce bring events of it, to the instances they go to.
EventsAreAskedFor ==
  /\ \A i \in Instances : \A n \in DOMAIN unsent[i] :
       i \in via[unsent[i][n].key]
  /\ \A k \in DOMAIN log : via[log[k].key] # {}

\* A producer's creation comes before its other events of the challenge; at one
\* instance it then comes first in the log, if it comes.
CreatedFirst ==
  /\ \A i \in Instances : \A n \in DOMAIN unsent[i] :
       unsent[i][n].kind = "created" =>
         /\ \A m \in DOMAIN unsent[i] : m < n => unsent[i][m].key # unsent[i][n].key
         /\ One(via[unsent[i][n].key]) =>
              \A k \in DOMAIN log : log[k].key # unsent[i][n].key
  /\ \A k \in DOMAIN log :
       log[k].kind = "created" /\ One(via[log[k].key]) =>
         \A j \in DOMAIN log : j < k => log[j].key # log[k].key

OrderInv == EventsAreAskedFor /\ CreatedFirst

\* The working store is never behind the committed one.
AheadOfCommit ==
  \A c \in Nonces : UsedAtOne(c) =>
    Rank(challenges[c]) >= Rank(committed.challenges[c])

LEMMA UnsentFacts ==
  ASSUME TypeOK, NEW i \in Instances
  PROVE  /\ unsent[i] \in Seq(Events) /\ Len(unsent[i]) \in Nat
         /\ DOMAIN unsent[i] = 1 .. Len(unsent[i])
         /\ \A n \in DOMAIN unsent[i] : unsent[i][n] \in Events
  BY DEF TypeOK

\* A request adds its event behind the others; that of create is the first.
LEMMA LogOrdered ==
  ASSUME TypeOK, OrderInv, NEW i \in Instances, NEW c \in Nonces,
         NEW kind \in {"created", "captured", "signed", "usedForLogin"},
         Log(i, c, kind), kind = "created" => via[c] = {}
  PROVE  OrderInv'
<1> DEFINE e == [key |-> c, kind |-> kind]
<1>1. /\ unsent' = [unsent EXCEPT ![i] = Append(@, e)]
      /\ via' = [via EXCEPT ![c] = @ \cup {i}]
      /\ log' = log
  BY DEF Log
<1>2. e.key = c /\ e.kind = kind
  OBVIOUS
<1> HIDE DEF e
<1>3. \A j \in Instances : j # i => unsent'[j] = unsent[j]
  BY <1>1 DEF TypeOK
<1>4. /\ DOMAIN unsent'[i] = 1 .. Len(unsent[i]) + 1
      /\ \A n \in DOMAIN unsent[i] : unsent'[i][n] = unsent[i][n]
      /\ unsent'[i][Len(unsent[i]) + 1] = e
      /\ \A n \in DOMAIN unsent'[i] : n \in DOMAIN unsent[i] \/ n = Len(unsent[i]) + 1
  <2>1. unsent'[i] = Append(unsent[i], e)
    BY <1>1 DEF TypeOK
  <2> QED
    BY <2>1, UnsentFacts
<1>5. \A d \in Nonces : via[d] \subseteq via'[d] /\ (One(via'[d]) => One(via[d]))
  BY <1>1 DEF TypeOK, One
<1>6. i \in via'[c]
  BY <1>1 DEF TypeOK
<1>7. \A j \in Instances : \A n \in DOMAIN unsent[j] : unsent[j][n].key \in Nonces
  BY UnsentFacts DEF Events
<1>8. \A k \in DOMAIN log : log[k].key \in Nonces
  BY LogFacts
<1>9. EventsAreAskedFor'
  <2>1. ASSUME NEW j \in Instances, NEW n \in DOMAIN unsent'[j]
        PROVE  j \in via'[unsent'[j][n].key]
    <3>1. CASE j = i /\ n = Len(unsent[i]) + 1
      BY <1>2, <1>4, <1>6, <3>1
    <3>2. CASE n \in DOMAIN unsent[j] /\ unsent'[j][n] = unsent[j][n]
      BY <1>5, <1>7, <3>2 DEF OrderInv, EventsAreAskedFor
    <3> QED
      BY <1>3, <1>4, <3>1, <3>2
  <2>2. \A k \in DOMAIN log' : via'[log'[k].key] # {}
    BY <1>1, <1>5, <1>8 DEF OrderInv, EventsAreAskedFor
  <2> QED
    BY <2>1, <2>2 DEF EventsAreAskedFor
<1>10. CreatedFirst'
  <2>1. ASSUME NEW j \in Instances, NEW n \in DOMAIN unsent'[j], unsent'[j][n].kind = "created"
        PROVE  /\ \A m \in DOMAIN unsent'[j] : m < n => unsent'[j][m].key # unsent'[j][n].key
               /\ One(via'[unsent'[j][n].key]) =>
                    \A k \in DOMAIN log' : log'[k].key # unsent'[j][n].key
    <3>1. CASE j = i /\ n = Len(unsent[i]) + 1
      <4>1. unsent'[j][n] = e /\ via[c] = {}
        BY <1>2, <1>4, <2>1, <3>1
      <4>2. \A m \in DOMAIN unsent'[i] : m < n => m \in DOMAIN unsent[i]
        BY <1>4, <3>1, UnsentFacts
      <4>3. \A m \in DOMAIN unsent'[i] : m < n => via[unsent'[i][m].key] # {}
        BY <1>4, <4>2 DEF OrderInv, EventsAreAskedFor
      <4>4. \A k \in DOMAIN log' : via[log'[k].key] # {}
        BY <1>1 DEF OrderInv, EventsAreAskedFor
      <4> QED
        BY <1>2, <3>1, <4>1, <4>3, <4>4
    <3>2. CASE n \in DOMAIN unsent[j] /\ unsent'[j][n] = unsent[j][n]
      <4>1. \A m \in DOMAIN unsent'[j] : m < n => m \in DOMAIN unsent[j] /\ unsent'[j][m] = unsent[j][m]
        BY <1>3, <1>4, <3>2, UnsentFacts
      <4>2. \A m \in DOMAIN unsent[j] : m < n => unsent[j][m].key # unsent[j][n].key
        BY <2>1, <3>2 DEF OrderInv, CreatedFirst
      <4>3. One(via[unsent[j][n].key]) => \A k \in DOMAIN log : log[k].key # unsent[j][n].key
        BY <2>1, <3>2 DEF OrderInv, CreatedFirst
      <4>4. One(via'[unsent'[j][n].key]) => One(via[unsent[j][n].key])
        BY <1>5, <1>7, <3>2
      <4> QED
        BY <1>1, <3>2, <4>1, <4>2, <4>3, <4>4
    <3> QED
      BY <1>3, <1>4, <3>1, <3>2
  <2>2. ASSUME NEW k \in DOMAIN log', log'[k].kind = "created", One(via'[log'[k].key])
        PROVE  \A j \in DOMAIN log' : j < k => log'[j].key # log'[k].key
    <3>1. One(via[log[k].key])
      BY <1>1, <1>5, <1>8, <2>2
    <3> QED
      BY <1>1, <2>2, <3>1 DEF OrderInv, CreatedFirst
  <2> QED
    BY <2>1, <2>2 DEF CreatedFirst
<1> QED
  BY <1>9, <1>10 DEF OrderInv

LEMMA SendOrdered ==
  ASSUME TypeOK, OrderInv, NEW i \in Instances, Send(i)
  PROVE  OrderInv'
<1> DEFINE e == Head(unsent[i])
<1>1. unsent[i] # <<>> /\ unsent' = [unsent EXCEPT ![i] = Tail(@)] /\ UNCHANGED via
  BY DEF Send, clientVars
<1>2. Len(unsent[i]) > 0 /\ e = unsent[i][1] /\ 1 \in DOMAIN unsent[i]
  BY <1>1, UnsentFacts
<1>3. /\ DOMAIN unsent'[i] = 1 .. Len(unsent[i]) - 1
      /\ \A n \in DOMAIN unsent'[i] : n + 1 \in DOMAIN unsent[i] /\ unsent'[i][n] = unsent[i][n + 1]
  <2>1. unsent'[i] = Tail(unsent[i])
    BY <1>1 DEF TypeOK
  <2> QED
    BY <2>1, <1>1, UnsentFacts
<1>4. \A j \in Instances : j # i => unsent'[j] = unsent[j]
  BY <1>1 DEF TypeOK
<1>5. e \in Events /\ i \in via[e.key]
  BY <1>2, UnsentFacts DEF OrderInv, EventsAreAskedFor
<1>6. /\ DOMAIN log = 1 .. Len(log) /\ Len(log) \in Nat
      /\ \/ log' = log
         \/ /\ DOMAIN log' = 1 .. Len(log) + 1
            /\ \A k \in DOMAIN log : log'[k] = log[k]
            /\ log'[Len(log) + 1] = e
  <2>1. log' = log \/ log' = Append(log, e)
    BY DEF Send
  <2>2. log \in Seq(Events) /\ Len(log) \in Nat /\ DOMAIN log = 1 .. Len(log)
    BY DEF TypeOK
  <2> HIDE DEF e
  <2> QED
    BY <1>5, <2>1, <2>2
<1> HIDE DEF e
<1>7. \A k \in DOMAIN log' :
        (k \in DOMAIN log /\ log'[k] = log[k]) \/ (k = Len(log) + 1 /\ log'[k] = e)
  BY <1>6
<1>8. \A d : One(via'[d]) <=> One(via[d])
  BY <1>1 DEF One
\* What waits now waited before, behind the event that is sent.
<1>9. ASSUME NEW j \in Instances, NEW n \in DOMAIN unsent'[j]
      PROVE  \E o \in DOMAIN unsent[j] :
               /\ unsent'[j][n] = unsent[j][o]
               /\ j = i => o = n + 1
               /\ j # i => o = n
  BY <1>3, <1>4
<1>10. EventsAreAskedFor'
  <2>1. ASSUME NEW j \in Instances, NEW n \in DOMAIN unsent'[j]
        PROVE  j \in via'[unsent'[j][n].key]
    BY <1>1, <1>9, <2>1 DEF OrderInv, EventsAreAskedFor
  <2>2. ASSUME NEW k \in DOMAIN log' PROVE via'[log'[k].key] # {}
    BY <1>1, <1>5, <1>7, <2>2 DEF OrderInv, EventsAreAskedFor
  <2> QED
    BY <2>1, <2>2 DEF EventsAreAskedFor
<1>11. ASSUME NEW j \in Instances, NEW n \in DOMAIN unsent'[j], unsent'[j][n].kind = "created"
       PROVE  /\ \A m \in DOMAIN unsent'[j] : m < n => unsent'[j][m].key # unsent'[j][n].key
              /\ One(via'[unsent'[j][n].key]) =>
                   \A k \in DOMAIN log' : log'[k].key # unsent'[j][n].key
  <2>1. PICK o \in DOMAIN unsent[j] :
          /\ unsent'[j][n] = unsent[j][o]
          /\ j = i => o = n + 1
          /\ j # i => o = n
    BY <1>9
  <2>2. /\ \A m \in DOMAIN unsent[j] : m < o => unsent[j][m].key # unsent[j][o].key
        /\ One(via[unsent[j][o].key]) => \A k \in DOMAIN log : log[k].key # unsent[j][o].key
    BY <1>11, <2>1 DEF OrderInv, CreatedFirst
  <2>3. \A m \in DOMAIN unsent'[j] : m < n => unsent'[j][m].key # unsent'[j][n].key
    <3>1. CASE j = i
      <4> SUFFICES ASSUME NEW m \in DOMAIN unsent'[j], m < n
                   PROVE  unsent'[j][m].key # unsent'[j][n].key
        OBVIOUS
      <4>1. m + 1 \in DOMAIN unsent[i] /\ unsent'[i][m] = unsent[i][m + 1] /\ m + 1 < n + 1
        BY <1>3, <3>1, UnsentFacts
      <4> QED
        BY <2>1, <2>2, <3>1, <4>1
    <3>2. CASE j # i
      BY <1>4, <2>1, <2>2, <3>2
    <3> QED
      BY <3>1, <3>2
  <2>4. One(via[unsent[j][o].key]) => e.key # unsent[j][o].key
    <3>1. CASE j = i
      <4>1. 1 < o
        BY <1>3, <2>1, <3>1, UnsentFacts
      <4> QED
        BY <1>2, <2>2, <3>1, <4>1
    <3>2. CASE j # i
      <4>1. j \in via[unsent[j][o].key]
        BY DEF OrderInv, EventsAreAskedFor
      <4> QED
        BY <1>5, <3>2, <4>1 DEF One
    <3> QED
      BY <3>1, <3>2
  <2> QED
    BY <1>7, <1>8, <2>1, <2>2, <2>3, <2>4
<1>12. ASSUME NEW k \in DOMAIN log', log'[k].kind = "created", One(via'[log'[k].key])
       PROVE  \A j \in DOMAIN log' : j < k => log'[j].key # log'[k].key
  <2>1. \A j \in DOMAIN log' : j < k => j \in DOMAIN log /\ log'[j] = log[j]
    BY <1>6, <1>7
  <2>2. CASE k \in DOMAIN log /\ log'[k] = log[k]
    BY <1>8, <1>12, <2>1, <2>2 DEF OrderInv, CreatedFirst
  <2>3. CASE log'[k] = e
    <3>1. \A l \in DOMAIN log : log[l].key # e.key
      BY <1>2, <1>8, <1>12, <2>3 DEF OrderInv, CreatedFirst
    <3> QED
      BY <2>1, <2>3, <3>1
  <2> QED
    BY <1>7, <2>2, <2>3
<1> QED
  BY <1>10, <1>11, <1>12 DEF OrderInv, CreatedFirst

LEMMA OrderNext == TypeOK /\ OrderInv /\ [Next]_vars => OrderInv'
<1> SUFFICES ASSUME TypeOK, OrderInv, [Next]_vars PROVE OrderInv'
  OBVIOUS
<1>1. ASSUME NEW i \in Instances, RequestStep(i) PROVE OrderInv'
  <2>1. CASE Create(i)
    <3> DEFINE c == CHOOSE other \in Unused : TRUE
    <3>1. c \in Unused /\ Log(i, c, "created")
      BY <2>1 DEF Create
    <3> HIDE DEF c
    <3> QED
      BY <3>1, LogOrdered DEF Unused
  <2>2. ASSUME NEW c \in Nonces, NEW kind \in {"captured", "signed", "usedForLogin"},
               Log(i, c, kind)
        PROVE  OrderInv'
    BY <2>2, LogOrdered
  <2> QED
    BY <1>1, <2>1, <2>2 DEF RequestStep, Capture, Sign, Login
<1>2. ASSUME NEW i \in Instances, Crash(i) PROVE OrderInv'
  <2>1. unsent' = [unsent EXCEPT ![i] = <<>>] /\ UNCHANGED <<log, via>>
    BY <1>2 DEF Crash, clientVars
  <2>2. \A j \in Instances : unsent'[j] = unsent[j] \/ DOMAIN unsent'[j] = {}
    BY <2>1 DEF TypeOK
  <2>3. \A d : One(via'[d]) <=> One(via[d])
    BY <2>1 DEF One
  <2>4. EventsAreAskedFor'
    BY <2>1, <2>2 DEF OrderInv, EventsAreAskedFor
  <2>5. CreatedFirst'
    BY <2>1, <2>2, <2>3 DEF OrderInv, CreatedFirst
  <2> QED
    BY <2>4, <2>5 DEF OrderInv
<1>3. CASE UNCHANGED <<unsent, log, via>>
  BY <1>3 DEF OrderInv, EventsAreAskedFor, CreatedFirst
<1> QED
  BY <1>1, <1>2, <1>3, SendOrdered DEF Next, Compact, Assign, Handle, Commit, ThreadDies,
     Revoke, vars, topicVars, clientVars

LEMMA RankValues ==
  /\ Rank(NoEntry) = 0 /\ Rank("null") = 1 /\ Rank("AWAITING_CAPTURE") = 1
  /\ Rank("CAPTURED") = 2 /\ Rank("SIGNED") = 3 /\ Rank("INVALID") = 4
<1>1. Rank(NoEntry) = 0
  BY DEF Rank, NoEntry
<1>2. Rank("null") = 1
  BY DEF Rank, NoEntry
<1>3. Rank("AWAITING_CAPTURE") = 1
  BY DEF Rank, NoEntry
<1>4. Rank("CAPTURED") = 2
  BY DEF Rank, NoEntry
<1>5. Rank("SIGNED") = 3
  BY DEF Rank, NoEntry
<1>6. Rank("INVALID") = 4
  BY DEF Rank, NoEntry
<1> QED
  BY <1>1, <1>2, <1>3, <1>4, <1>5, <1>6

\* Handling an event never takes a challenge back: what could, its creation,
\* comes first.
LEMMA HandleForward ==
  ASSUME IInv, OrderInv, NEW k \in DOMAIN log, Handle(k), NEW c \in Nonces, UsedAtOne(c)
  PROVE  Rank(challenges'[c]) >= Rank(challenges[c])
<1>1. /\ challenges \in [Nonces -> Entries]
      /\ challenges' = [challenges EXCEPT ![log[k].key] = Apply(log[k])]
      /\ ~Throws(log[k]) /\ k > position
  BY DEF IInv, TypeOK, Handle, IsNext
<1>2. log[k] \in Events /\ log[k].key \in Nonces /\ position \in Nat /\ DOMAIN log = 1 .. Len(log)
  BY LogFacts DEF IInv
<1>3. CASE c # log[k].key
  <2>1. challenges'[c] = challenges[c] /\ challenges[c] \in Entries
    BY <1>1, <1>2, <1>3
  <2> QED
    BY <2>1, RankValues DEF Entries
<1>4. CASE c = log[k].key
  <2>1. challenges'[c] = Apply(log[k]) /\ challenges[c] \in Entries
    BY <1>1, <1>2, <1>4
  <2>2. log[k].kind \in {"created", "captured", "signed", "usedForLogin"}
    BY <1>2 DEF Events
  <2>3. CASE log[k].kind = "usedForLogin"
    <3>1. challenges'[c] = "INVALID"
      BY <2>1, <2>3 DEF Apply
    <3> QED
      BY <2>1, <3>1, RankValues DEF Entries
  <2>4. CASE challenges[c] = NoEntry
    <3>1. challenges'[c] \in Entries
      BY <1>2, <2>1, ApplyTyped
    <3> QED
      BY <2>4, <3>1, RankValues DEF Entries
  <2>5. CASE log[k].kind = "created" /\ challenges[c] # NoEntry
    <3>1. PICK l \in DOMAIN log : l <= position /\ log[l].key = c
      BY <2>5 DEF IInv, StoresFounded, Founded
    <3>2. l < k
      BY <1>1, <1>2, <3>1
    <3> QED
      BY <1>4, <2>5, <3>1, <3>2 DEF OrderInv, CreatedFirst, UsedAtOne, One
  <2>6. CASE log[k].kind \in {"captured", "signed"} /\ challenges[c] # NoEntry
    BY <1>1, <1>4, <2>6 DEF Throws, Current, ReadBack
  <2> QED
    BY <2>2, <2>3, <2>4, <2>5, <2>6
<1> QED
  BY <1>3, <1>4

LEMMA AheadNext == IInv /\ OrderInv /\ AheadOfCommit /\ [Next]_vars => AheadOfCommit'
<1> SUFFICES ASSUME IInv, OrderInv, AheadOfCommit, [Next]_vars,
                    NEW c \in Nonces, UsedAtOne(c)'
             PROVE  Rank(challenges'[c]) >= Rank(committed'.challenges[c])
  BY DEF AheadOfCommit
<1>1. UsedAtOne(c)
  <2>1. ASSUME NEW i \in Instances, RequestStep(i)
        PROVE  \E d : via' = [via EXCEPT ![d] = @ \cup {i}]
    BY <2>1 DEF RequestStep, Create, Capture, Sign, Login, Log
  <2>2. ASSUME NEW i \in Instances, RequestStep(i) PROVE via[c] \subseteq via'[c]
    <3>1. PICK d : via' = [via EXCEPT ![d] = @ \cup {i}]
      BY <2>1, <2>2
    <3>2. DOMAIN via = Nonces
      BY DEF IInv, TypeOK
    <3>3. CASE d = c
      BY <3>1, <3>2, <3>3
    <3>4. CASE d # c
      BY <3>1, <3>2, <3>4
    <3> QED
      BY <3>3, <3>4
  <2>3. UNCHANGED via => via[c] \subseteq via'[c]
    OBVIOUS
  <2>4. (\E i \in Instances : RequestStep(i)) \/ UNCHANGED via
    BY DEF Next, Send, Compact, Crash, Assign, Handle, Commit, ThreadDies, Revoke, vars,
       clientVars
  <2>5. via[c] \subseteq via'[c]
    BY <2>2, <2>3, <2>4
  <2> QED
    BY <2>5 DEF UsedAtOne
<1>2. Rank(challenges[c]) >= Rank(committed.challenges[c])
  BY <1>1 DEF AheadOfCommit
<1>3. \A entry \in Entries : Rank(entry) \in Nat
  BY RankValues DEF Entries
<1>4. /\ challenges[c] \in Entries /\ challenges'[c] \in Entries
      /\ committed.challenges[c] \in Entries
  BY TypeNext DEF IInv, TypeOK
<1>5. ASSUME NEW k \in DOMAIN log, Handle(k)
      PROVE  Rank(challenges'[c]) >= Rank(committed'.challenges[c])
  <2>1. Rank(challenges'[c]) >= Rank(challenges[c]) /\ committed' = committed
    BY <1>1, <1>5, HandleForward DEF Handle
  <2> QED
    BY <1>2, <1>3, <1>4, <2>1
<1>6. CASE UNCHANGED <<challenges, committed>>
  BY <1>2, <1>6
<1>7. CASE challenges' = challenges /\ committed' = [position |-> position, challenges |-> challenges]
  BY <1>3, <1>4, <1>7
<1>8. CASE challenges' = committed.challenges /\ committed' = committed
  BY <1>3, <1>4, <1>8
<1> QED
  BY <1>5, <1>6, <1>7, <1>8 DEF Next, RequestStep, Create, Capture, Sign, Login, Log, Send,
     Compact, Crash, Assign, Commit, ThreadDies, Revoke, Abort, vars, streamVars

LEMMA OrderHolds == Spec => [](IInv /\ OrderInv /\ AheadOfCommit)
<1>1. Init => OrderInv /\ AheadOfCommit
  <2> SUFFICES ASSUME Init PROVE OrderInv /\ AheadOfCommit
    OBVIOUS
  <2>1. DOMAIN log = {} /\ \A i \in Instances : DOMAIN unsent[i] = {}
    BY DEF Init
  <2>2. \A c \in Nonces : Rank(challenges[c]) = 0 /\ Rank(committed.challenges[c]) = 0
    BY RankValues DEF Init
  <2> QED
    BY <2>1, <2>2 DEF OrderInv, EventsAreAskedFor, CreatedFirst, AheadOfCommit
<1>2. IInv /\ OrderInv /\ AheadOfCommit /\ [Next]_vars => (IInv /\ OrderInv /\ AheadOfCommit)'
  BY InvNext, OrderNext, AheadNext DEF IInv
<1> QED
  BY InvInit, <1>1, <1>2, PTL DEF Spec

\* What is committed of a challenge that is used at one instance never goes back,
\* over crashes, rebalances, compaction and whatever is asked for, in any order.
THEOREM CommittedNeverGoesBack == Spec => NeverBack
<1>1. ASSUME IInv, AheadOfCommit, [Next]_vars, NEW c \in Nonces, UsedAtOne(c)
      PROVE  Rank(committed'.challenges[c]) >= Rank(committed.challenges[c])
  <2>1. \A entry \in Entries : Rank(entry) \in Nat
    BY RankValues DEF Entries
  <2>2. committed.challenges[c] \in Entries
    BY <1>1 DEF IInv, TypeOK
  <2>3. CASE UNCHANGED committed
    BY <2>1, <2>2, <2>3
  <2>4. CASE committed' = [position |-> position, challenges |-> challenges]
    BY <1>1, <2>4 DEF AheadOfCommit
  <2> QED
    BY <1>1, <2>3, <2>4 DEF Next, RequestStep, Create, Capture, Sign, Login, Log, Send,
       Compact, Crash, Assign, Handle, Commit, ThreadDies, Revoke, vars, streamVars
<1>2. IInv /\ AheadOfCommit /\ [Next]_vars =>
        [\A c \in Nonces : UsedAtOne(c) =>
           Rank(committed'.challenges[c]) >= Rank(committed.challenges[c])]_vars
  BY <1>1
<1> QED
  BY <1>2, OrderHolds, PTL DEF Spec, NeverBack
=============================================================================
