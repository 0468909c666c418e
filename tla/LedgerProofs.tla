---------------------------- MODULE LedgerProofs ----------------------------
(***************************************************************************)
(* Theorems about Ledger and AccountHistory, for every set of accounts,    *)
(* transfers, amounts and pods.                                            *)
(***************************************************************************)
EXTENDS AccountHistory, FiniteSums

(***************************************************************************)
(* The inductive invariant.  The guard of save looks at the version of the *)
(* event, not at the version of the row catchUp loaded, so that a save is  *)
(* not stale has to come from elsewhere: an event is never built on a      *)
(* version its account has not had yet (EventsAreBuilt), hence a loaded    *)
(* row lies between the event's version and the current one                *)
(* (LoadedRowsFit).                                                        *)
(***************************************************************************)
InFlight == domainEvents \cup UNION {inserted[t] : t \in Transfers}

\* The row an event was built on existed at version `at`, and covers a debit
\* for as long as it stays at that version.
Covers(a, at, amount) == version[a] = at => balance[a] >= amount
BuiltOnRow(a, at) == a \in accounts /\ at <= version[a]

EventFits(e) ==
  /\ BuiltOnRow(e.account, e.at)
  /\ IsDebit(e) => Covers(e.account, e.at, e.amount)

EventsAreBuilt == \A e \in InFlight : EventFits(e)

\* The same of the versions a transfer holds before it inserts.
ReadsFit(t) ==
  /\ stage[t] \in {"fromRead", "toRead"} =>
       /\ BuiltOnRow(request[t].from, fromVersion[t])
       /\ Covers(request[t].from, fromVersion[t], request[t].amount)
  /\ stage[t] \in {"toRead", "debitInserted"} =>
       BuiltOnRow(request[t].to, toVersion[t])

ReadsAreBuilt == \A t \in Transfers : ReadsFit(t)

\* What a pod has loaded is the current row, or a row superseded since.
LoadedFits(p) ==
  podStage[p] = "loaded" =>
    LET e == fetched[p]
        a == e.account
    IN  /\ e.at <= loaded[p].version
        /\ loaded[p].version <= version[a]
        /\ loaded[p].version = version[a] => loaded[p].balance = balance[a]
        /\ IsDebit(e) /\ loaded[p].version = e.at => loaded[p].balance >= e.amount

LoadedRowsFit == \A p \in Pods : LoadedFits(p)

\* Every version an account has left was left by a posted event.
VersionsAreTaken ==
  \A a \in Accounts : \A v \in 0 .. version[a] - 1 :
    \E f \in posted : f.account = a /\ f.at = v

IInv ==
  /\ TypeOK
  /\ EventsAreBuilt
  /\ ReadsAreBuilt
  /\ LoadedRowsFit
  /\ ConsumedIsSettled
  /\ VersionsAreTaken

-----------------------------------------------------------------------------

\* The two rows a transfer inserts are events.
LEMMA EventsOfTransfer ==
  ASSUME TypeOK, NEW t \in Transfers, NEW n \in Nat
  PROVE  DebitOf(t, n) \in Event /\ CreditOf(t, n) \in Event
BY DEF TypeOK, DebitOf, CreditOf, Event, Request

\* A row Account.apply computes is a row.
LEMMA FinalStateType ==
  ASSUME NEW row \in Row, NEW e \in Event
  PROVE  FinalState(row, e) \in Row
<1>1. e.amount \in Int /\ e.at \in Nat
  BY LedgerAssumption DEF Event
<1>2. Signed(e) \in Int
  BY <1>1 DEF Signed
<1>3. QED
  BY <1>1, <1>2 DEF FinalState, Row

\* The initial tables and transactions are typed.
LEMMA TypeInit == Init => TypeOK
BY LedgerAssumption DEF Init, TypeOK, OpeningBalance, Row

\* Every action keeps the types; one step per action.
LEMMA TypeNext == TypeOK /\ [Next]_vars => TypeOK'
<1> SUFFICES ASSUME TypeOK, [Next]_vars PROVE TypeOK'
  OBVIOUS
<1>1. ASSUME NEW t \in Transfers, ReadFrom(t) PROVE TypeOK'
  BY <1>1 DEF TypeOK, ReadFrom, tableVars, podVars, historyVars, Request
<1>2. ASSUME NEW t \in Transfers, ReadTo(t) PROVE TypeOK'
  BY <1>2 DEF TypeOK, ReadTo, tableVars, podVars, historyVars, Request
<1>3. ASSUME NEW t \in Transfers, Reject(t) PROVE TypeOK'
  BY <1>3 DEF TypeOK, Reject, tableVars, podVars, historyVars
<1>4. ASSUME NEW t \in Transfers, InsertDebit(t) PROVE TypeOK'
  <2>1. DebitOf(t, sequence') \in Event
    BY <1>4, EventsOfTransfer DEF InsertDebit, TypeOK
  <2>2. QED
    BY <1>4, <2>1 DEF TypeOK, InsertDebit, tableVars, podVars, historyVars
<1>5. ASSUME NEW t \in Transfers, InsertCredit(t) PROVE TypeOK'
  <2>1. CreditOf(t, sequence') \in Event
    BY <1>5, EventsOfTransfer DEF InsertCredit, TypeOK
  <2>2. QED
    BY <1>5, <2>1 DEF TypeOK, InsertCredit, tableVars, podVars, historyVars
<1>6. ASSUME NEW t \in Transfers, CommitTransfer(t) PROVE TypeOK'
  BY <1>6 DEF TypeOK, CommitTransfer, tableVars, podVars, historyVars
<1>7. ASSUME NEW t \in Transfers, AbortTransfer(t) PROVE TypeOK'
  BY <1>7 DEF TypeOK, AbortTransfer, tableVars, podVars, historyVars
<1>8. ASSUME NEW a \in Accounts, CreateAccount(a) PROVE TypeOK'
  BY <1>8 DEF TypeOK, CreateAccount, transferVars, podVars, historyVars
<1>9. ASSUME NEW p \in Pods, FetchNext(p) PROVE TypeOK'
  BY <1>9 DEF TypeOK, FetchNext, Unprocessed, tableVars, transferVars, historyVars
<1>10. ASSUME NEW p \in Pods, LoadAccount(p) PROVE TypeOK'
  <2>1. fetched[p] \in Event
    BY <1>10 DEF LoadAccount, TypeOK
  <2>2. [balance |-> balance[fetched[p].account],
         version |-> version[fetched[p].account]] \in Row
    BY <2>1 DEF TypeOK, Row, Event
  <2>3. QED
    BY <1>10, <2>2 DEF TypeOK, LoadAccount, tableVars, transferVars, historyVars
<1>11. ASSUME NEW p \in Pods, Post(p) PROVE TypeOK'
  <2> DEFINE e == fetched[p]
             final == FinalState(loaded[p], e)
  <2>1. e \in Event /\ e \in domainEvents
    BY <1>11 DEF Post, TypeOK
  <2>2. final \in Row
    BY <2>1, FinalStateType DEF TypeOK
  <2>3. final.balance \in Int /\ final.version \in Nat
    BY <2>2 DEF Row
  <2>4. e.account \in Accounts /\ e.seq \in Nat
    BY <2>1 DEF Event
  <2> HIDE DEF final
  <2>5. balance' \in [Accounts -> Int] /\ version' \in [Accounts -> Nat]
    BY <1>11, <2>3 DEF Post, TypeOK, final
  <2>6. offset' \in [Consumers -> Nat]
    BY <1>11, <2>4 DEF Post, UpdateOffset, TypeOK
  <2>7. QED
    BY <1>11, <2>1, <2>5, <2>6 DEF TypeOK, Post, transferVars
<1>12. ASSUME NEW p \in Pods, Drop(p) PROVE TypeOK'
  <2>1. fetched[p] \in Event /\ fetched[p] \in domainEvents
    BY <1>12 DEF Drop, TypeOK
  <2>2. offset' \in [Consumers -> Nat]
    BY <1>12, <2>1 DEF Drop, UpdateOffset, TypeOK, Event
  <2>3. QED
    BY <1>12, <2>1, <2>2 DEF TypeOK, Drop, tableVars, transferVars
<1>13. ASSUME NEW p \in Pods, Rollback(p) PROVE TypeOK'
  BY <1>13 DEF TypeOK, Rollback, tableVars, transferVars, historyVars
<1>14. CASE UNCHANGED vars
  BY <1>14 DEF TypeOK, vars, tableVars, transferVars, podVars, historyVars, Unprocessed
<1>15. QED
  BY <1>1, <1>2, <1>3, <1>4, <1>5, <1>6, <1>7, <1>8, <1>9, <1>10, <1>11, <1>12,
     <1>13, <1>14 DEF Next, TransferStep, PodStep

\* Every table, request, transaction and history stays within its type.
THEOREM TypeCorrect == Spec => []TypeOK
BY TypeInit, TypeNext, PTL DEF Spec

-----------------------------------------------------------------------------
(***************************************************************************)
(* A step leaves an account's row alone or moves it to a higher version.   *)
(* Facts about a version an account has had survive either.                *)
(***************************************************************************)
RowsAdvance ==
  /\ accounts \subseteq accounts'
  /\ \A a \in Accounts :
       \/ version'[a] = version[a] /\ balance'[a] = balance[a]
       \/ version'[a] > version[a]

\* An event that fits its account keeps fitting it when versions only grow and a
\* balance changes only together with its version.
LEMMA BuiltStaysBuilt ==
  ASSUME TypeOK, TypeOK', RowsAdvance
  PROVE  \A a \in Accounts, at \in Nat, amount \in Int :
           a \in accounts /\ at <= version[a] =>
             /\ a \in accounts' /\ at <= version'[a]
             /\ (version[a] = at => balance[a] >= amount) =>
                  (version'[a] = at => balance'[a] >= amount)
BY DEF RowsAdvance, TypeOK

\* The heart of the matter: if the guard of save holds, the loaded row is the
\* current row, and the step adds the event to it.
LEMMA SaveIsFresh ==
  ASSUME TypeOK, LoadedRowsFit, NEW p \in Pods, podStage[p] = "loaded", Saves(p)
  PROVE  LET e == fetched[p]
             a == e.account
         IN  /\ e \in Event
             /\ e \in domainEvents
             /\ version[a] = e.at
             /\ loaded[p].version = version[a]
             /\ loaded[p].balance = balance[a]
             /\ IsDebit(e) => balance[a] >= e.amount
             /\ FinalState(loaded[p], e).balance = balance[a] + Signed(e)
             /\ FinalState(loaded[p], e).version = version[a] + 1
<1> DEFINE e == fetched[p]
           a == e.account
<1>1. e \in Event /\ e \in domainEvents
  BY DEF TypeOK
<1>2. e.at \in Nat /\ a \in Accounts
  BY <1>1 DEF Event
<1>3. version[a] = e.at
  BY <1>1, <1>2 DEF Saves, FinalState, TypeOK
<1>4. loaded[p].version \in Nat /\ version[a] \in Nat
  BY <1>2 DEF TypeOK, Row
<1>5. loaded[p].version = version[a] /\ loaded[p].balance = balance[a]
  BY <1>2, <1>3, <1>4 DEF LoadedRowsFit, LoadedFits
<1>6. IsDebit(e) => balance[a] >= e.amount
  BY <1>5 DEF Saves, Succeeds
<1>7. QED
  BY <1>1, <1>3, <1>5, <1>6 DEF FinalState

\* A post moves one account one version on, and no other account.
LEMMA PostAdvances ==
  ASSUME TypeOK, LoadedRowsFit, NEW p \in Pods, Post(p)
  PROVE  LET e == fetched[p]
             a == e.account
         IN  /\ RowsAdvance
             /\ balance' = [balance EXCEPT ![a] = @ + Signed(e)]
             /\ version' = [version EXCEPT ![a] = @ + 1]
             /\ version'[a] = e.at + 1
<1> DEFINE e == fetched[p]
           a == e.account
<1>1. podStage[p] = "loaded" /\ Saves(p)
  BY DEF Post
<1>2. /\ e \in Event
      /\ version[a] = e.at
      /\ FinalState(loaded[p], e).balance = balance[a] + Signed(e)
      /\ FinalState(loaded[p], e).version = version[a] + 1
  BY <1>1, SaveIsFresh
<1>3. a \in Accounts
  BY <1>2 DEF Event
<1>4. /\ balance' = [balance EXCEPT ![a] = @ + Signed(e)]
      /\ version' = [version EXCEPT ![a] = @ + 1]
  BY <1>2 DEF Post
<1>5. version'[a] = version[a] + 1 /\ version[a] \in Nat
  BY <1>3, <1>4 DEF TypeOK
<1>6. \A b \in Accounts \ {a} : version'[b] = version[b] /\ balance'[b] = balance[b]
  BY <1>4 DEF TypeOK
<1>7. RowsAdvance
  BY <1>5, <1>6 DEF RowsAdvance, Post
<1>8. QED
  BY <1>2, <1>4, <1>5, <1>7

\* No step takes an account back, or changes a balance within a version.
LEMMA StepsAdvance ==
  ASSUME TypeOK, LoadedRowsFit, [Next]_vars
  PROVE  RowsAdvance
<1>1. ASSUME NEW t \in Transfers, TransferStep(t) PROVE RowsAdvance
  BY <1>1 DEF TransferStep, ReadFrom, ReadTo, Reject, InsertDebit, InsertCredit,
     CommitTransfer, AbortTransfer, tableVars, RowsAdvance
<1>2. ASSUME NEW a \in Accounts, CreateAccount(a) PROVE RowsAdvance
  BY <1>2 DEF CreateAccount, RowsAdvance
<1>3. ASSUME NEW p \in Pods, PodStep(p), ~Post(p) PROVE RowsAdvance
  BY <1>3 DEF PodStep, FetchNext, LoadAccount, Drop, Rollback, tableVars, RowsAdvance
<1>4. ASSUME NEW p \in Pods, Post(p) PROVE RowsAdvance
  BY <1>4, PostAdvances
<1>5. CASE UNCHANGED vars
  BY <1>5 DEF vars, tableVars, RowsAdvance
<1>6. QED
  BY <1>1, <1>2, <1>3, <1>4, <1>5 DEF Next

-----------------------------------------------------------------------------

\* The invariant holds before the first request.
LEMMA InvInit == Init => IInv
<1> SUFFICES ASSUME Init PROVE IInv
  OBVIOUS
<1>1. TypeOK
  BY TypeInit
<1>2. InFlight = {}
  BY DEF Init, InFlight
<1>3. EventsAreBuilt
  BY <1>2 DEF EventsAreBuilt
<1>4. ReadsAreBuilt /\ LoadedRowsFit /\ ConsumedIsSettled /\ VersionsAreTaken
  BY DEF Init, ReadsAreBuilt, ReadsFit, LoadedRowsFit, LoadedFits, ConsumedIsSettled, VersionsAreTaken
<1>5. QED
  BY <1>1, <1>3, <1>4 DEF IInv

\* What is in flight is an event.
LEMMA InFlightType == TypeOK => InFlight \subseteq Event
BY DEF TypeOK, InFlight

\* What a transfer has read stays a past row of its accounts.
LEMMA ReadsNext ==
  ASSUME IInv, [Next]_vars, TypeOK', RowsAdvance
  PROVE  ReadsAreBuilt'
<1> USE DEF IInv, BuiltOnRow, Covers
<1> SUFFICES ASSUME NEW t \in Transfers PROVE ReadsFit(t)'
  BY DEF ReadsAreBuilt
<1>1. /\ request[t].from \in Accounts
      /\ request[t].to \in Accounts
      /\ request[t].amount \in Int
      /\ fromVersion[t] \in Nat
      /\ toVersion[t] \in Nat
  BY LedgerAssumption DEF TypeOK, Request
<1>2. ReadsFit(t)
  BY DEF ReadsAreBuilt
<1>3. ASSUME stage'[t] = stage[t], request'[t] = request[t],
             fromVersion'[t] = fromVersion[t], toVersion'[t] = toVersion[t]
      PROVE  ReadsFit(t)'
  BY <1>1, <1>2, <1>3, BuiltStaysBuilt DEF ReadsFit
<1>4. CASE ReadFrom(t)
  <2>1. /\ fromVersion'[t] = version[request[t].from]
        /\ stage'[t] = "fromRead"
        /\ request'[t] = request[t]
    BY <1>4 DEF ReadFrom, TypeOK
  <2>2. QED
    BY <1>1, <1>4, <2>1 DEF ReadFrom, ReadsFit, TypeOK, tableVars
<1>5. CASE ReadTo(t)
  <2>1. /\ toVersion'[t] = version[request[t].to]
        /\ stage'[t] = "toRead"
        /\ request'[t] = request[t]
        /\ fromVersion'[t] = fromVersion[t]
    BY <1>5 DEF ReadTo, TypeOK
  <2>2. QED
    BY <1>1, <1>2, <1>5, <2>1 DEF ReadTo, ReadsFit, TypeOK, tableVars
<1>6. CASE Reject(t) \/ InsertCredit(t) \/ CommitTransfer(t) \/ AbortTransfer(t)
  BY <1>6 DEF Reject, InsertCredit, CommitTransfer, AbortTransfer, TypeOK, ReadsFit
<1>7. CASE InsertDebit(t)
  <2>1. stage'[t] = "debitInserted" /\ request' = request /\ toVersion' = toVersion
    BY <1>7 DEF InsertDebit, TypeOK
  <2>2. QED
    BY <1>1, <1>2, <1>7, <2>1, BuiltStaysBuilt DEF InsertDebit, ReadsFit
<1>8. ASSUME NEW u \in Transfers \ {t}, TransferStep(u)
      PROVE  ReadsFit(t)'
  <2>1. /\ stage'[t] = stage[t]
        /\ request'[t] = request[t]
        /\ fromVersion'[t] = fromVersion[t]
        /\ toVersion'[t] = toVersion[t]
    BY <1>8 DEF TransferStep, ReadFrom, ReadTo, Reject, InsertDebit, InsertCredit,
       CommitTransfer, AbortTransfer, TypeOK
  <2>2. QED
    BY <1>3, <2>1
<1>9. CASE (\E a \in Accounts : CreateAccount(a)) \/ (\E p \in Pods : PodStep(p))
  BY <1>3, <1>9 DEF CreateAccount, PodStep, FetchNext, LoadAccount, Post, Drop,
     Rollback, transferVars
<1>10. CASE UNCHANGED vars
  BY <1>3, <1>10 DEF vars, transferVars
<1>11. QED
  BY <1>4, <1>5, <1>6, <1>7, <1>8, <1>9, <1>10 DEF Next, TransferStep

\* An inserted event carries what its transfer read, so it fits.
LEMMA EventsNext ==
  ASSUME IInv, [Next]_vars, TypeOK', RowsAdvance
  PROVE  EventsAreBuilt'
<1> USE DEF IInv, BuiltOnRow, Covers
<1> SUFFICES ASSUME NEW e \in InFlight' PROVE EventFits(e)'
  BY DEF EventsAreBuilt
<1>1. ASSUME e \in InFlight PROVE EventFits(e)'
  <2>1. e.account \in Accounts /\ e.at \in Nat /\ e.amount \in Int
    BY <1>1, InFlightType, LedgerAssumption DEF Event
  <2>2. QED
    BY <1>1, <2>1, BuiltStaysBuilt DEF EventsAreBuilt, EventFits
<1>2. ASSUME NEW t \in Transfers, InsertDebit(t) PROVE EventFits(e)'
  <2>1. e \in InFlight \/ e = DebitOf(t, sequence')
    BY <1>2 DEF InsertDebit, InFlight, TypeOK
  <2>2. /\ request[t].from \in Accounts
        /\ request[t].amount \in Int
        /\ fromVersion[t] \in Nat
    BY LedgerAssumption DEF TypeOK, Request
  <2>3. ReadsFit(t) /\ stage[t] = "toRead"
    BY <1>2 DEF InsertDebit, ReadsAreBuilt
  <2>4. CASE e = DebitOf(t, sequence')
    BY <2>2, <2>3, <2>4, BuiltStaysBuilt DEF DebitOf, ReadsFit, EventFits
  <2>5. QED
    BY <1>1, <2>1, <2>4
<1>3. ASSUME NEW t \in Transfers, InsertCredit(t) PROVE EventFits(e)'
  <2>1. e \in InFlight \/ e = CreditOf(t, sequence')
    BY <1>3 DEF InsertCredit, InFlight, TypeOK
  <2>2. request[t].to \in Accounts /\ toVersion[t] \in Nat
    BY DEF TypeOK, Request
  <2>3. ReadsFit(t) /\ stage[t] = "debitInserted"
    BY <1>3 DEF InsertCredit, ReadsAreBuilt
  <2>4. CASE e = CreditOf(t, sequence')
    BY <2>2, <2>3, <2>4, BuiltStaysBuilt DEF CreditOf, IsDebit, ReadsFit, EventFits
  <2>5. QED
    BY <1>1, <2>1, <2>4
<1>4. ASSUME NEW t \in Transfers, TransferStep(t), ~InsertDebit(t), ~InsertCredit(t)
      PROVE  EventFits(e)'
  BY <1>1, <1>4 DEF TransferStep, ReadFrom, ReadTo, Reject, CommitTransfer,
     AbortTransfer, InFlight, TypeOK
<1>5. CASE (\E a \in Accounts : CreateAccount(a)) \/ (\E p \in Pods : PodStep(p))
  BY <1>1, <1>5 DEF CreateAccount, PodStep, FetchNext, LoadAccount, Post, Drop,
     Rollback, transferVars, InFlight
<1>6. CASE UNCHANGED vars
  BY <1>1, <1>6 DEF vars, transferVars, InFlight
<1>7. QED
  BY <1>2, <1>3, <1>4, <1>5, <1>6 DEF Next

\* What a pod has loaded stays a past row of the account.
LEMMA LoadedNext ==
  ASSUME IInv, [Next]_vars, TypeOK', RowsAdvance
  PROVE  LoadedRowsFit'
<1> USE DEF IInv
<1> SUFFICES ASSUME NEW p \in Pods PROVE LoadedFits(p)'
  BY DEF LoadedRowsFit
<1>1. LoadedFits(p)
  BY DEF LoadedRowsFit
<1>2. ASSUME podStage'[p] = podStage[p], fetched'[p] = fetched[p], loaded'[p] = loaded[p]
      PROVE  LoadedFits(p)'
  <2> SUFFICES ASSUME podStage[p] = "loaded" PROVE LoadedFits(p)'
    BY <1>2 DEF LoadedFits
  <2>1. fetched[p].account \in Accounts /\ loaded[p].version \in Nat
    BY DEF TypeOK, Event, Row
  <2>2. QED
    BY <1>1, <1>2, <2>1 DEF LoadedFits, RowsAdvance, TypeOK
<1>3. CASE LoadAccount(p)
  <2>1. fetched[p] \in Event /\ EventFits(fetched[p])
    BY <1>3 DEF LoadAccount, TypeOK, EventsAreBuilt, InFlight
  <2>2. /\ fetched' = fetched /\ version' = version /\ balance' = balance
        /\ loaded'[p].version = version[fetched[p].account]
        /\ loaded'[p].balance = balance[fetched[p].account]
    BY <1>3 DEF LoadAccount, TypeOK, tableVars
  <2>3. version[fetched[p].account] \in Nat /\ fetched[p].at \in Nat
    BY <2>1 DEF TypeOK, Event
  <2>4. QED
    BY <2>1, <2>2, <2>3 DEF LoadedFits, EventFits, BuiltOnRow, Covers
<1>4. CASE FetchNext(p) \/ Post(p) \/ Drop(p) \/ Rollback(p)
  <2>1. podStage'[p] # "loaded"
    BY <1>4 DEF FetchNext, Post, Drop, Rollback, TypeOK
  <2>2. QED
    BY <2>1 DEF LoadedFits
<1>5. ASSUME NEW q \in Pods \ {p}, PodStep(q) PROVE LoadedFits(p)'
  BY <1>2, <1>5 DEF PodStep, FetchNext, LoadAccount, Post, Drop, Rollback, TypeOK
<1>6. CASE (\E t \in Transfers : TransferStep(t)) \/ (\E a \in Accounts : CreateAccount(a))
  BY <1>2, <1>6 DEF TransferStep, ReadFrom, ReadTo, Reject, InsertDebit,
     InsertCredit, CommitTransfer, AbortTransfer, CreateAccount, podVars
<1>7. CASE UNCHANGED vars
  BY <1>2, <1>7 DEF vars, podVars
<1>8. QED
  BY <1>3, <1>4, <1>5, <1>6, <1>7 DEF Next, PodStep

\* A dropped event is below the version of its account: it is not above it, and
\* at the very version save would have matched and the balance covered a debit.
LEMMA DropIsLate ==
  ASSUME TypeOK, EventsAreBuilt, LoadedRowsFit, NEW p \in Pods, Drop(p)
  PROVE  version[fetched[p].account] > fetched[p].at
<1> DEFINE e == fetched[p]
           a == e.account
<1>1. podStage[p] = "loaded" /\ ~Saves(p)
  BY DEF Drop
<1>2. e \in Event /\ EventFits(e) /\ LoadedFits(p)
  BY <1>1 DEF TypeOK, EventsAreBuilt, InFlight, LoadedRowsFit
<1>3. a \in Accounts /\ e.at \in Nat /\ version[a] \in Nat /\ loaded[p].version \in Nat
  BY <1>2 DEF Event, TypeOK, Row
<1>4. SUFFICES ASSUME version[a] = e.at PROVE FALSE
  BY <1>2, <1>3 DEF EventFits, BuiltOnRow
<1>5. loaded[p].version = e.at
  BY <1>1, <1>2, <1>3, <1>4 DEF LoadedFits
<1>6. Succeeds(loaded[p], e)
  BY <1>1, <1>2, <1>5 DEF LoadedFits, Succeeds
<1>7. QED
  BY <1>1, <1>3, <1>4, <1>6 DEF Saves, FinalState

\* A consumed event stays settled, and the one being consumed becomes so.
LEMMA SettledNext ==
  ASSUME IInv, [Next]_vars, TypeOK', RowsAdvance
  PROVE  ConsumedIsSettled'
<1> USE DEF IInv
<1> SUFFICES ASSUME NEW e \in handled' PROVE version'[e.account] > e.at
  BY DEF ConsumedIsSettled
<1>1. e.account \in Accounts /\ e.at \in Nat
  BY DEF TypeOK, Event
<1>2. /\ version[e.account] \in Nat
      /\ version'[e.account] \in Nat
      /\ version[e.account] <= version'[e.account]
  BY <1>1 DEF RowsAdvance, TypeOK
<1>3. ASSUME e \in handled PROVE version'[e.account] > e.at
  BY <1>1, <1>2, <1>3 DEF ConsumedIsSettled
<1>4. ASSUME NEW p \in Pods, Post(p), e = fetched[p] PROVE version'[e.account] > e.at
  <2>1. version'[e.account] = e.at + 1
    BY <1>4, PostAdvances
  <2>2. QED
    BY <1>1, <2>1
<1>5. ASSUME NEW p \in Pods, Drop(p), e = fetched[p] PROVE version'[e.account] > e.at
  BY <1>1, <1>2, <1>5, DropIsLate
<1>6. ASSUME NEW p \in Pods, PodStep(p) PROVE version'[e.account] > e.at
  BY <1>3, <1>4, <1>5, <1>6 DEF PodStep, FetchNext, LoadAccount, Post, Drop,
     Rollback, historyVars
<1>7. CASE (\E t \in Transfers : TransferStep(t)) \/ (\E a \in Accounts : CreateAccount(a))
  BY <1>3, <1>7 DEF TransferStep, ReadFrom, ReadTo, Reject, InsertDebit,
     InsertCredit, CommitTransfer, AbortTransfer, CreateAccount, historyVars
<1>8. CASE UNCHANGED vars
  BY <1>3, <1>8 DEF vars, historyVars
<1>9. QED
  BY <1>6, <1>7, <1>8 DEF Next

\* A version is left only by the post of an event built on it.
LEMMA VersionsNext ==
  ASSUME IInv, [Next]_vars, TypeOK', RowsAdvance
  PROVE  VersionsAreTaken'
<1> USE DEF IInv
<1> SUFFICES ASSUME NEW a \in Accounts, NEW v \in 0 .. version'[a] - 1
             PROVE  \E f \in posted' : f.account = a /\ f.at = v
  BY DEF VersionsAreTaken
<1>1. ASSUME version'[a] = version[a], posted \subseteq posted'
      PROVE  \E f \in posted' : f.account = a /\ f.at = v
  BY <1>1 DEF VersionsAreTaken
<1>2. ASSUME NEW p \in Pods, Post(p)
      PROVE  \E f \in posted' : f.account = a /\ f.at = v
  <2> DEFINE e == fetched[p]
  <2>1. posted' = posted \cup {e}
    BY <1>2 DEF Post
  <2>2. /\ version' = [version EXCEPT ![e.account] = @ + 1]
        /\ version'[e.account] = e.at + 1
    BY <1>2, PostAdvances
  <2>3. CASE e.account # a
    <3>1. version'[a] = version[a]
      BY <2>2, <2>3 DEF TypeOK
    <3>2. QED
      BY <1>1, <2>1, <3>1
  <2>4. CASE e.account = a /\ v = version[a]
    <3>1. e \in Event
      BY <1>2 DEF Post, TypeOK
    <3>2. version[a] = e.at
      BY <2>2, <2>4, <3>1 DEF TypeOK, Event
    <3>3. QED
      BY <2>1, <2>4, <3>2
  <2>5. CASE e.account = a /\ v # version[a]
    <3>1. v \in 0 .. version[a] - 1
      BY <2>2, <2>5 DEF TypeOK
    <3>2. QED
      BY <2>1, <3>1 DEF VersionsAreTaken
  <2>6. QED
    BY <2>3, <2>4, <2>5
<1>3. ASSUME NEW p \in Pods, PodStep(p), ~Post(p)
      PROVE  version' = version /\ posted' = posted
  BY <1>3 DEF PodStep, FetchNext, LoadAccount, Drop, Rollback, tableVars, historyVars
<1>4. CASE (\E t \in Transfers : TransferStep(t)) \/ (\E b \in Accounts : CreateAccount(b))
  BY <1>1, <1>4 DEF TransferStep, ReadFrom, ReadTo, Reject, InsertDebit,
     InsertCredit, CommitTransfer, AbortTransfer, CreateAccount, tableVars, historyVars
<1>5. CASE UNCHANGED vars
  BY <1>1, <1>5 DEF vars, tableVars, historyVars
<1>6. QED
  BY <1>1, <1>2, <1>3, <1>4, <1>5 DEF Next

\* The invariant is inductive.
LEMMA InvNext == IInv /\ [Next]_vars => IInv'
<1> SUFFICES ASSUME IInv, [Next]_vars PROVE IInv'
  OBVIOUS
<1>1. TypeOK'
  BY TypeNext DEF IInv
<1>2. RowsAdvance
  BY StepsAdvance DEF IInv
<1>3. QED
  BY <1>1, <1>2, ReadsNext, EventsNext, LoadedNext, SettledNext, VersionsNext DEF IInv

\* The inductive invariant holds of every run.
THEOREM Inductive == Spec => []IInv
BY InvInit, InvNext, PTL DEF Spec

-----------------------------------------------------------------------------
(* The theorems                                                             *)

\* No save that takes effect overwrites another pod's update: catchUp may load
\* a row, be overtaken and save, but then the guard of save rejects it.
THEOREM NoUpdateIsLost == Spec => []NoLostUpdate
<1>1. IInv => NoLostUpdate
  <2> SUFFICES ASSUME IInv, NEW p \in Pods, podStage[p] = "loaded", Saves(p)
               PROVE  LET a == fetched[p].account
                      IN  loaded[p] = [balance |-> balance[a], version |-> version[a]]
    BY DEF NoLostUpdate
  <2>1. loaded[p] \in Row
    BY DEF IInv, TypeOK
  <2>2. QED
    BY <2>1, SaveIsFresh DEF IInv, Row
<1>2. QED
  BY <1>1, Inductive, PTL

\* Consuming an event again, on any pod, after any crash, changes nothing.
THEOREM RedeliveryIsInert == Spec => []ConsumedIsSettled
<1>1. IInv => ConsumedIsSettled
  BY DEF IInv
<1>2. QED
  BY <1>1, Inductive, PTL

\* Only an event built on the same version of the account can displace another.
THEOREM DropsAreCollisions == Spec => []DroppedOnlyByCollision
<1>1. IInv => DroppedOnlyByCollision
  <2> SUFFICES ASSUME IInv, NEW e \in handled \ posted
               PROVE  \E f \in posted : f # e /\ f.account = e.account /\ f.at = e.at
    BY DEF DroppedOnlyByCollision
  <2>1. e \in Event /\ version[e.account] > e.at
    BY DEF IInv, TypeOK, ConsumedIsSettled
  <2>2. e.account \in Accounts /\ e.at \in 0 .. version[e.account] - 1
    BY <2>1 DEF IInv, TypeOK, Event
  <2>3. QED
    BY <2>2 DEF IInv, VersionsAreTaken
<1>2. QED
  BY <1>1, Inductive, PTL

\* No version of an account was left twice.
WinnersAreUnique == \A e, f \in posted : e.account = f.account /\ e.at = f.at => e = f

\* The event of a post was built on the current version, and those posted before
\* on versions the account has left.
LEMMA WinnersNext == IInv /\ WinnersAreUnique /\ [Next]_vars => WinnersAreUnique'
<1> SUFFICES ASSUME IInv, WinnersAreUnique, [Next]_vars PROVE WinnersAreUnique'
  OBVIOUS
<1>1. ASSUME NEW p \in Pods, Post(p) PROVE WinnersAreUnique'
  <2> DEFINE e == fetched[p]
  <2>1. e \in Event /\ version[e.account] = e.at /\ posted' = posted \cup {e}
    BY <1>1, SaveIsFresh DEF Post, IInv
  <2>2. \A f \in posted : f \in Event /\ version[f.account] > f.at
    BY DEF IInv, TypeOK, ConsumedIsSettled
  <2>3. \A f \in posted : ~ (f.account = e.account /\ f.at = e.at)
    BY <2>1, <2>2 DEF Event
  <2> HIDE DEF e
  <2>4. QED
    BY <2>1, <2>3 DEF WinnersAreUnique
<1>2. ASSUME \A p \in Pods : ~Post(p) PROVE posted' = posted
  BY <1>2 DEF Next, TransferStep, ReadFrom, ReadTo, Reject, InsertDebit, InsertCredit,
     CommitTransfer, AbortTransfer, CreateAccount, PodStep, FetchNext, LoadAccount,
     Drop, Rollback, vars, historyVars
<1>3. QED
  BY <1>1, <1>2 DEF WinnersAreUnique

\* Of the events built on one version of an account exactly one is posted, whichever
\* pods project them, when the account leaves that version.
THEOREM VersionsHaveOneWinner == Spec => []OneWinnerPerVersion
<1>1. Init => WinnersAreUnique
  BY DEF Init, WinnersAreUnique
<1>2. IInv /\ WinnersAreUnique => OneWinnerPerVersion
  <2> SUFFICES ASSUME IInv, NEW a \in Accounts
               PROVE  {e.at : e \in {f \in posted : f.account = a}} = 0 .. version[a] - 1
    BY DEF OneWinnerPerVersion, WinnersAreUnique
  <2>1. ASSUME NEW e \in posted, e.account = a PROVE e.at \in 0 .. version[a] - 1
    <3>1. e \in Event /\ version[a] > e.at /\ version[a] \in Nat
      BY <2>1 DEF IInv, TypeOK, ConsumedIsSettled
    <3>2. QED
      BY <3>1 DEF Event
  <2>2. ASSUME NEW v \in 0 .. version[a] - 1
        PROVE  \E f \in posted : f.account = a /\ f.at = v
    BY DEF IInv, VersionsAreTaken
  <2>3. QED
    BY <2>1, <2>2
<1>3. QED
  BY <1>1, <1>2, Inductive, WinnersNext, PTL DEF Spec

-----------------------------------------------------------------------------
(* Refinement of the serial projection                                      *)

\* The initial states of the program are initial for SerialProjection.
LEMMA SerialInit == Init => Serial!Init
BY DEF Init, Serial!Init, Serial!OpeningBalance, OpeningBalance

\* Each step of the program is a step of SerialProjection, or a stutter.
LEMMA SerialStep == IInv /\ [Next]_vars => [Serial!Next]_(Serial!serialVars)
<1> SUFFICES ASSUME IInv, [Next]_vars
             PROVE  Serial!Next \/ UNCHANGED Serial!serialVars
  OBVIOUS
<1> USE DEF IInv
<1>1. ASSUME NEW t \in Transfers, CommitTransfer(t) PROVE Serial!Append
  <2>1. inserted[t] \subseteq Event /\ inserted[t] \subseteq InFlight
    BY DEF TypeOK, InFlight
  <2>2. domainEvents' = domainEvents \cup inserted[t]
    BY <1>1 DEF CommitTransfer
  <2>3. domainEvents' \subseteq Serial!Event
    BY <2>1, <2>2 DEF TypeOK, Event, Serial!Event
  <2>4. \A e \in domainEvents' \ domainEvents :
          e.account \in accounts /\ e.at <= version[e.account]
    BY <2>1, <2>2 DEF EventsAreBuilt, EventFits, BuiltOnRow
  <2>5. QED
    BY <1>1, <2>2, <2>3, <2>4 DEF CommitTransfer, Serial!Append, tableVars, historyVars
<1>2. ASSUME NEW t \in Transfers, TransferStep(t), ~CommitTransfer(t)
      PROVE  UNCHANGED Serial!serialVars
  BY <1>2 DEF TransferStep, ReadFrom, ReadTo, Reject, InsertDebit, InsertCredit,
     AbortTransfer, tableVars, historyVars, Serial!serialVars
<1>3. ASSUME NEW a \in Accounts, CreateAccount(a) PROVE Serial!Open(a)
  BY <1>3 DEF CreateAccount, historyVars, Serial!Open
<1>4. ASSUME NEW p \in Pods, Post(p)
      PROVE  fetched[p] \in domainEvents \ handled /\ Serial!PostEvent(fetched[p])
  <2> DEFINE e == fetched[p]
  <2>1. /\ e \in domainEvents
        /\ version[e.account] = e.at
        /\ IsDebit(e) => balance[e.account] >= e.amount
    BY <1>4, SaveIsFresh DEF Post
  <2>2. /\ balance' = [balance EXCEPT ![e.account] = @ + Signed(e)]
        /\ version' = [version EXCEPT ![e.account] = @ + 1]
    BY <1>4, PostAdvances
  <2>3. e \notin handled
    <3>1. e.at \in Nat
      BY <2>1 DEF TypeOK, Event
    <3>2. QED
      BY <2>1, <3>1 DEF ConsumedIsSettled
  <2>4. Serial!Succeeds([balance |-> balance[e.account], version |-> e.at], e)
    BY <2>1 DEF Serial!Succeeds, Serial!IsDebit, IsDebit
  <2>5. Serial!Signed(e) = Signed(e)
    BY DEF Serial!Signed, Signed, Serial!IsDebit, IsDebit
  <2>6. QED
    BY <1>4, <2>1, <2>2, <2>3, <2>4, <2>5 DEF Post, Serial!PostEvent
<1>5. ASSUME NEW p \in Pods, Drop(p), fetched[p] \notin handled
      PROVE  fetched[p] \in domainEvents \ handled /\ Serial!SkipEvent(fetched[p])
  <2>1. version[fetched[p].account] > fetched[p].at
    BY <1>5, DropIsLate
  <2>2. fetched[p] \in domainEvents
    BY <1>5 DEF Drop, TypeOK
  <2>3. QED
    BY <1>5, <2>1, <2>2 DEF Drop, tableVars, Serial!SkipEvent
<1>6. ASSUME NEW p \in Pods, Drop(p), fetched[p] \in handled
      PROVE  UNCHANGED Serial!serialVars
  BY <1>6 DEF Drop, tableVars, Serial!serialVars
<1>7. ASSUME NEW p \in Pods, FetchNext(p) \/ LoadAccount(p) \/ Rollback(p)
      PROVE  UNCHANGED Serial!serialVars
  BY <1>7 DEF FetchNext, LoadAccount, Rollback, tableVars, historyVars, Serial!serialVars
<1>8. CASE UNCHANGED vars
  BY <1>8 DEF vars, tableVars, historyVars, Serial!serialVars
<1>9. QED
  BY <1>1, <1>2, <1>3, <1>4, <1>5, <1>6, <1>7, <1>8 DEF Next, PodStep, Serial!Next

\* Racing, crashing pods over a shared table are one serial, exactly-once
\* projection of the log.
THEOREM ProjectionIsSerial == Spec => ImplementsSerialProjection
BY SerialInit, SerialStep, Inductive, PTL DEF Spec, Serial!Spec, ImplementsSerialProjection

-----------------------------------------------------------------------------
(* Offsets                                                                  *)

\* The event a pod holds is ahead of its consumer's offset, provided no other
\* pod moves the same offset.
FetchedAhead ==
  \A p \in Pods : podStage[p] # "idle" => fetched[p].seq > offset[ConsumerOf[p]]

\* Between the fetch and the commit the offset of the pod stays where it was.
LEMMA FetchedAheadNext ==
  ASSUME \A p, q \in Pods : ConsumerOf[p] = ConsumerOf[q] => p = q,
         TypeOK, FetchedAhead, [Next]_vars
  PROVE  FetchedAhead' /\ (\A c \in Consumers : offset'[c] >= offset[c])
<1>1. ASSUME offset' = offset, podStage' = podStage, fetched' = fetched
      PROVE  FetchedAhead' /\ (\A c \in Consumers : offset'[c] >= offset[c])
  BY <1>1 DEF FetchedAhead, TypeOK
<1>2. ASSUME NEW p \in Pods, FetchNext(p)
      PROVE  FetchedAhead' /\ (\A c \in Consumers : offset'[c] >= offset[c])
  BY <1>2 DEF FetchNext, Unprocessed, FetchedAhead, TypeOK
<1>3. ASSUME NEW p \in Pods, LoadAccount(p) \/ Rollback(p)
      PROVE  FetchedAhead' /\ (\A c \in Consumers : offset'[c] >= offset[c])
  BY <1>3 DEF LoadAccount, Rollback, FetchedAhead, TypeOK
<1>4. ASSUME NEW p \in Pods, Post(p) \/ Drop(p)
      PROVE  FetchedAhead' /\ (\A c \in Consumers : offset'[c] >= offset[c])
  <2>1. /\ offset' = [offset EXCEPT ![ConsumerOf[p]] = fetched[p].seq]
        /\ podStage' = [podStage EXCEPT ![p] = "idle"]
        /\ podStage[p] = "loaded"
        /\ fetched' = fetched
    BY <1>4 DEF Post, Drop, UpdateOffset
  <2>2. fetched[p].seq \in Nat /\ fetched[p].seq > offset[ConsumerOf[p]]
    BY <2>1 DEF TypeOK, Event, FetchedAhead
  <2>3. \A c \in Consumers : offset'[c] >= offset[c]
    BY <2>1, <2>2 DEF TypeOK
  <2>4. ASSUME NEW q \in Pods, podStage'[q] # "idle"
        PROVE  fetched'[q].seq > offset'[ConsumerOf[q]]
    <3>1. q # p /\ podStage[q] # "idle"
      BY <2>1, <2>4 DEF TypeOK
    <3>2. offset'[ConsumerOf[q]] = offset[ConsumerOf[q]]
      BY <2>1, <3>1 DEF TypeOK, Consumers
    <3>3. QED
      BY <2>1, <3>1, <3>2 DEF FetchedAhead
  <2>5. QED
    BY <2>3, <2>4 DEF FetchedAhead
<1>5. ASSUME NEW t \in Transfers, TransferStep(t)
      PROVE  offset' = offset /\ podStage' = podStage /\ fetched' = fetched
  BY <1>5 DEF TransferStep, ReadFrom, ReadTo, Reject, InsertDebit, InsertCredit,
     CommitTransfer, AbortTransfer, podVars
<1>6. ASSUME NEW a \in Accounts, CreateAccount(a)
      PROVE  offset' = offset /\ podStage' = podStage /\ fetched' = fetched
  BY <1>6 DEF CreateAccount, podVars
<1>7. CASE UNCHANGED vars
  BY <1>1, <1>7 DEF vars, podVars
<1>8. QED
  BY <1>1, <1>2, <1>3, <1>4, <1>5, <1>6, <1>7 DEF Next, PodStep

\* With a POD_ID of its own for every pod, offsets only move forward; two pods
\* that share the default "pod1" can move theirs back.
THEOREM OffsetsAdvance ==
  ASSUME \A p, q \in Pods : ConsumerOf[p] = ConsumerOf[q] => p = q
  PROVE  Spec => OffsetNeverRetreats
<1>1. Init => FetchedAhead
  BY DEF Init, FetchedAhead
<1>2. TypeOK /\ FetchedAhead /\ [Next]_vars => FetchedAhead'
  BY FetchedAheadNext
<1>3. TypeOK /\ FetchedAhead /\ [Next]_vars =>
        [\A c \in Consumers : offset'[c] >= offset[c]]_offset
  BY FetchedAheadNext
<1>4. QED
  BY <1>1, <1>2, <1>3, TypeCorrect, PTL DEF Spec, OffsetNeverRetreats

-----------------------------------------------------------------------------
SignedOf == [e \in Event |-> Signed(e)]

\* The sum of BalanceReconciles, whose Signed is an operator, is the sum of a function.
LEMMA SignedSumIsSum ==
  ASSUME NEW S, S \subseteq Event
  PROVE  MapThenSumSet(Signed, S) = SumOver(SignedOf, S)
<1> DEFINE Fold(sum) == sum = [s \in SUBSET S |-> IF s = {} THEN 0
                          ELSE LET x == CHOOSE x \in s : TRUE IN Signed(x) + sum[s \ {x}]]
<1>1. ASSUME NEW sum PROVE Fold(sum) <=> Sums(sum, SignedOf, S)
  <2>1. ASSUME NEW s \in SUBSET S, s # {}
        PROVE  LET x == CHOOSE x \in s : TRUE IN SignedOf[x] = Signed(x)
    BY <2>1 DEF SignedOf
  <2>2. QED
    BY <2>1 DEF Sums
<1>2. MapThenSumSet(Signed, S) = (CHOOSE sum : Fold(sum))[S]
  BY DEF MapThenSumSet, MapThenFoldSet
<1> HIDE DEF Fold
<1>3. (CHOOSE sum : Fold(sum)) = (CHOOSE sum : Sums(sum, SignedOf, S))
  BY <1>1
<1>4. QED
  BY <1>2, <1>3, SumOverIsChosen

-----------------------------------------------------------------------------
(* What the balances add up to                                              *)

\* The log is finite: a transaction commits at most the two rows it inserted.
LogIsFinite ==
  /\ IsFiniteSet(domainEvents)
  /\ \A t \in Transfers : IsFiniteSet(inserted[t])

PostedTo(a) == {e \in posted : e.account = a}

\* BalanceReconciles in terms of SumOver.
BooksAgree ==
  \A a \in Accounts : balance[a] = OpeningBalance(a) + SumOver(SignedOf, PostedTo(a))

BooksInv == IInv /\ LogIsFinite /\ BooksAgree

\* A transaction adds one or two rows at a time.
LEMMA LogFiniteNext ==
  ASSUME TypeOK, LogIsFinite, [Next]_vars
  PROVE  LogIsFinite'
<1>1. ASSUME domainEvents' = domainEvents, inserted' = inserted PROVE LogIsFinite'
  BY <1>1 DEF LogIsFinite
<1>2. ASSUME NEW t \in Transfers, InsertDebit(t) \/ InsertCredit(t) PROVE LogIsFinite'
  <2>1. PICK e : inserted' = [inserted EXCEPT ![t] = {e}]
              \/ inserted' = [inserted EXCEPT ![t] = inserted[t] \cup {e}]
    BY <1>2 DEF InsertDebit, InsertCredit
  <2>2. IsFiniteSet({e}) /\ IsFiniteSet(inserted[t] \cup {e})
    BY FS_Singleton, FS_AddElement DEF LogIsFinite
  <2>3. domainEvents' = domainEvents
    BY <1>2 DEF InsertDebit, InsertCredit
  <2>4. QED
    BY <2>1, <2>2, <2>3 DEF LogIsFinite, TypeOK
<1>3. ASSUME NEW t \in Transfers, CommitTransfer(t) PROVE LogIsFinite'
  <2>1. IsFiniteSet(domainEvents \cup inserted[t]) /\ IsFiniteSet({})
    BY FS_Union, FS_EmptySet DEF LogIsFinite
  <2>2. QED
    BY <1>3, <2>1 DEF CommitTransfer, LogIsFinite, TypeOK
<1>4. ASSUME NEW t \in Transfers, AbortTransfer(t) PROVE LogIsFinite'
  BY <1>4, FS_EmptySet DEF AbortTransfer, LogIsFinite, TypeOK
<1>5. ASSUME NEW t \in Transfers, ReadFrom(t) \/ ReadTo(t) \/ Reject(t) PROVE LogIsFinite'
  BY <1>1, <1>5 DEF ReadFrom, ReadTo, Reject
<1>6. ASSUME NEW a \in Accounts, CreateAccount(a) PROVE LogIsFinite'
  BY <1>1, <1>6 DEF CreateAccount, transferVars
<1>7. ASSUME NEW p \in Pods, PodStep(p) PROVE LogIsFinite'
  BY <1>1, <1>7 DEF PodStep, FetchNext, LoadAccount, Post, Drop, Rollback, transferVars
<1>8. CASE UNCHANGED vars
  BY <1>1, <1>8 DEF vars, transferVars
<1>9. QED
  BY <1>2, <1>3, <1>4, <1>5, <1>6, <1>7, <1>8 DEF Next, TransferStep

\* A post adds one event to the postings, one that was not among them.
LEMMA PostIsNew ==
  ASSUME IInv, NEW p \in Pods, Post(p)
  PROVE  LET e == fetched[p]
         IN  /\ e \in Event
             /\ e \notin posted
             /\ posted' = posted \cup {e}
             /\ balance' = [balance EXCEPT ![e.account] = @ + Signed(e)]
<1> DEFINE e == fetched[p]
<1>1. e \in Event /\ version[e.account] = e.at
  BY SaveIsFresh DEF Post, IInv
<1>2. e \notin handled
  BY <1>1 DEF IInv, ConsumedIsSettled, Event
<1>3. QED
  BY <1>1, <1>2, PostAdvances DEF Post, IInv, TypeOK

\* What an event adds is an integer.
LEMMA SignedType ==
  ASSUME NEW e \in Event
  PROVE  SignedOf[e] = Signed(e) /\ Signed(e) \in Int
<1>1. e.amount \in Int
  BY LedgerAssumption DEF Event
<1>2. Signed(e) \in Int
  BY <1>1 DEF Signed
<1>3. QED
  BY <1>2 DEF SignedOf

\* Only a post changes a balance or the postings.
LEMMA OnlyPostsPost ==
  ASSUME [Next]_vars, \A p \in Pods : ~Post(p)
  PROVE  balance' = balance /\ posted' = posted
BY DEF Next, TransferStep, ReadFrom, ReadTo, Reject, InsertDebit, InsertCredit,
   CommitTransfer, AbortTransfer, CreateAccount, PodStep, FetchNext, LoadAccount,
   Drop, Rollback, vars, tableVars, historyVars

\* The books begin with nothing posted,
LEMMA BooksInit == Init => BooksInv
<1> SUFFICES ASSUME Init PROVE BooksInv
  OBVIOUS
<1>1. LogIsFinite
  BY FS_EmptySet DEF Init, LogIsFinite
<1>2. ASSUME NEW a \in Accounts
      PROVE  balance[a] = OpeningBalance(a) + SumOver(SignedOf, PostedTo(a))
  <2>1. PostedTo(a) = {}
    BY DEF Init, PostedTo
  <2>2. SumOver(SignedOf, PostedTo(a)) = 0
    BY <2>1, SumEmpty
  <2>3. balance[a] = OpeningBalance(a) /\ OpeningBalance(a) \in Int
    BY LedgerAssumption DEF Init, OpeningBalance
  <2>4. QED
    BY <2>2, <2>3
<1>3. QED
  BY <1>1, <1>2, InvInit DEF BooksInv, BooksAgree

\* and a post enters in the balance what it enters in the postings.
LEMMA BooksNext == BooksInv /\ [Next]_vars => BooksInv'
<1> SUFFICES ASSUME BooksInv, [Next]_vars PROVE BooksInv'
  OBVIOUS
<1>1. IInv' /\ LogIsFinite' /\ TypeOK
  BY InvNext, LogFiniteNext DEF BooksInv, IInv
<1>2. ASSUME NEW p \in Pods, Post(p), NEW a \in Accounts
      PROVE  balance'[a] = OpeningBalance(a) + SumOver(SignedOf, PostedTo(a)')
  <2> DEFINE e == fetched[p]
  <2>1. /\ e \in Event /\ e \notin posted /\ posted' = posted \cup {e}
        /\ balance' = [balance EXCEPT ![e.account] = @ + Signed(e)]
    BY <1>2, PostIsNew DEF BooksInv
  <2>2. /\ PostedTo(a) \subseteq Event
        /\ balance[a] = OpeningBalance(a) + SumOver(SignedOf, PostedTo(a))
        /\ balance[a] \in Int /\ OpeningBalance(a) \in Int
    <3>1. OpeningBalance(a) \in Int
      BY LedgerAssumption DEF OpeningBalance
    <3>2. PostedTo(a) \subseteq Event /\ balance[a] \in Int
      BY <1>1 DEF PostedTo, TypeOK
    <3>3. QED
      BY <3>1, <3>2 DEF BooksInv, BooksAgree
  <2>3. IsFiniteSet(PostedTo(a))
    <3>1. PostedTo(a) \in SUBSET domainEvents
      BY <1>1 DEF PostedTo, TypeOK
    <3>2. QED
      BY <3>1, FS_Subset DEF BooksInv, LogIsFinite
  <2>4. CASE e.account # a
    <3>1. PostedTo(a)' = PostedTo(a)
      BY <2>1, <2>4 DEF PostedTo
    <3>2. balance'[a] = balance[a]
      BY <1>1, <2>1, <2>4 DEF TypeOK
    <3>3. QED
      BY <2>2, <3>1, <3>2
  <2>5. CASE e.account = a
    <3>1. PostedTo(a)' = PostedTo(a) \cup {e} /\ e \notin PostedTo(a)
      BY <2>1, <2>5 DEF PostedTo
    <3>2. \A i \in PostedTo(a) \cup {e} : SignedOf[i] \in Int
      BY <2>1, <2>2, SignedType
    <3>3. SumOver(SignedOf, PostedTo(a)') = SumOver(SignedOf, PostedTo(a)) + SignedOf[e]
      BY <2>3, <3>1, <3>2, SumAdd
    <3>4. balance'[a] = balance[a] + Signed(e)
      BY <1>1, <2>1, <2>5 DEF TypeOK
    <3>5. SumOver(SignedOf, PostedTo(a)) \in Int /\ SignedOf[e] = Signed(e) /\ Signed(e) \in Int
      BY <2>1, <2>3, <3>2, SumType, SignedType
    <3>6. QED
      BY <2>2, <3>3, <3>4, <3>5
  <2>6. QED
    BY <2>4, <2>5
<1>3. ASSUME balance' = balance, posted' = posted PROVE BooksAgree'
  BY <1>3 DEF BooksInv, BooksAgree, PostedTo
<1>4. ASSUME NEW p \in Pods, Post(p) PROVE BooksAgree'
  BY <1>2, <1>4 DEF BooksAgree
<1>5. QED
  BY <1>1, <1>3, <1>4, OnlyPostsPost DEF BooksInv

\* Every projected balance is the opening balance plus what was posted to it.
THEOREM BalancesReconcile == Spec => []BalanceReconciles
<1>1. BooksInv => BalanceReconciles
  <2> SUFFICES ASSUME BooksInv, NEW a \in Accounts
               PROVE  balance[a] = OpeningBalance(a)
                        + MapThenSumSet(Signed, {e \in posted : e.account = a})
    BY DEF BalanceReconciles
  <2>1. PostedTo(a) \subseteq Event
    BY DEF BooksInv, IInv, TypeOK, PostedTo
  <2>2. balance[a] = OpeningBalance(a) + MapThenSumSet(Signed, PostedTo(a))
    BY <2>1, SignedSumIsSum DEF BooksInv, BooksAgree
  <2>3. QED
    BY <2>2 DEF PostedTo
<1>2. QED
  BY <1>1, BooksInit, BooksNext, PTL DEF Spec

-----------------------------------------------------------------------------
(* Debits are covered                                                       *)

\* What credits of negative amounts have taken from an account.
Taken(a) == SumOver(SignedOf, NegativeCredits(a))

\* DebitsStayCovered in terms of SumOver.
Covered == \A a \in Accounts : Taken(a) <= 0 /\ balance[a] >= Taken(a)

\* The credits of negative amounts are finitely many events.
LEMMA NegativeCreditsType ==
  ASSUME BooksInv, NEW a
  PROVE  /\ NegativeCredits(a) \subseteq Event /\ IsFiniteSet(NegativeCredits(a))
         /\ Taken(a) \in Int
<1>1. NegativeCredits(a) \subseteq domainEvents /\ domainEvents \subseteq Event
  BY DEF NegativeCredits, BooksInv, IInv, TypeOK
<1>2. IsFiniteSet(NegativeCredits(a))
  BY <1>1, FS_Subset DEF BooksInv, LogIsFinite
<1>3. QED
  BY <1>1, <1>2, SumType, SignedType DEF Taken

\* A post takes from the account what a credit of a negative amount says, else nothing.
LEMMA TakenNext ==
  ASSUME BooksInv, NEW p \in Pods, Post(p), NEW a
  PROVE  LET e == fetched[p]
             takes == e.account = a /\ ~IsDebit(e) /\ e.amount < 0
         IN  Taken(a)' = IF takes THEN Taken(a) + Signed(e) ELSE Taken(a)
<1> DEFINE e == fetched[p]
           takes == e.account = a /\ ~IsDebit(e) /\ e.amount < 0
<1>1. e \in Event /\ e \notin posted /\ posted' = posted \cup {e}
  BY PostIsNew DEF BooksInv
<1>2. NegativeCredits(a) \subseteq Event /\ IsFiniteSet(NegativeCredits(a))
  BY NegativeCreditsType
<1> HIDE DEF e
<1>3. CASE takes
  <2>1. NegativeCredits(a)' = NegativeCredits(a) \cup {e} /\ e \notin NegativeCredits(a)
    BY <1>1, <1>3 DEF NegativeCredits
  <2>2. \A i \in NegativeCredits(a) \cup {e} : SignedOf[i] \in Int
    BY <1>1, <1>2, SignedType
  <2>3. SumOver(SignedOf, NegativeCredits(a) \cup {e}) = Taken(a) + SignedOf[e]
    BY <1>2, <2>1, <2>2, SumAdd DEF Taken
  <2>4. SignedOf[e] = Signed(e)
    BY <1>1, SignedType
  <2>5. QED
    BY <1>3, <2>1, <2>3, <2>4 DEF Taken, e
<1>4. CASE ~takes
  <2>1. NegativeCredits(a)' = NegativeCredits(a)
    BY <1>1, <1>4 DEF NegativeCredits
  <2>2. QED
    BY <1>4, <2>1 DEF Taken, e
<1>5. QED
  BY <1>3, <1>4

\* Nothing is taken at first,
LEMMA CoveredInit == Init => Covered
<1> SUFFICES ASSUME Init, NEW a \in Accounts PROVE Taken(a) <= 0 /\ balance[a] >= Taken(a)
  BY DEF Covered
<1>1. NegativeCredits(a) = {}
  BY DEF Init, NegativeCredits
<1>2. Taken(a) = 0
  BY <1>1, SumEmpty DEF Taken
<1>3. QED
  BY <1>2, LedgerAssumption DEF Init, OpeningBalance

\* and a debit leaves no less than nothing, a credit no less than it took.
LEMMA CoveredNext ==
  ASSUME BooksInv, Covered, [Next]_vars
  PROVE  Covered'
<1>1. ASSUME NEW p \in Pods, Post(p), NEW a \in Accounts
      PROVE  Taken(a)' <= 0 /\ balance'[a] >= Taken(a)'
  <2> DEFINE e == fetched[p]
             takes == e.account = a /\ ~IsDebit(e) /\ e.amount < 0
  <2>1. /\ e \in Event
        /\ balance' = [balance EXCEPT ![e.account] = @ + Signed(e)]
        /\ IsDebit(e) => balance[e.account] >= e.amount
    BY <1>1, PostIsNew, SaveIsFresh DEF Post, BooksInv, IInv
  <2>2. Taken(a)' = IF takes THEN Taken(a) + Signed(e) ELSE Taken(a)
    BY <1>1, TakenNext
  <2>3. /\ Taken(a) \in Int /\ Taken(a) <= 0
        /\ balance \in [Accounts -> Int] /\ balance[a] \in Int /\ balance[a] >= Taken(a)
    BY NegativeCreditsType DEF Covered, BooksInv, IInv, TypeOK
  <2>4. e.amount \in Int /\ Signed(e) = IF IsDebit(e) THEN -e.amount ELSE e.amount
    BY <2>1, LedgerAssumption DEF Event, Signed
  <2>5. balance'[a] = IF e.account = a THEN balance[a] + Signed(e) ELSE balance[a]
    BY <2>1, <2>3
  <2> HIDE DEF e
  <2>6. CASE takes
    BY <2>2, <2>3, <2>4, <2>5, <2>6
  <2>7. CASE e.account = a /\ IsDebit(e)
    BY <2>1, <2>2, <2>3, <2>4, <2>5, <2>7
  <2>8. CASE e.account = a /\ ~IsDebit(e) /\ ~ (e.amount < 0)
    BY <2>2, <2>3, <2>4, <2>5, <2>8
  <2>9. CASE e.account # a
    BY <2>2, <2>3, <2>5, <2>9
  <2>10. QED
    BY <2>6, <2>7, <2>8, <2>9
<1>2. ASSUME balance' = balance, posted' = posted PROVE Covered'
  BY <1>2 DEF Covered, Taken, NegativeCredits
<1>3. QED
  BY <1>1, <1>2, OnlyPostsPost DEF Covered

\* What an account is short of zero was taken from it by credits of negative
\* amounts: no debit is posted that its balance does not cover.
THEOREM BalancesStayCovered == Spec => []DebitsStayCovered
<1>1. BooksInv /\ Covered => DebitsStayCovered
  <2> SUFFICES ASSUME BooksInv, Covered, NEW a \in Accounts
               PROVE  balance[a] >= MapThenSumSet(Signed, NegativeCredits(a))
    BY DEF DebitsStayCovered
  <2>1. MapThenSumSet(Signed, NegativeCredits(a)) = Taken(a)
    BY NegativeCreditsType, SignedSumIsSum DEF Taken
  <2>2. QED
    BY <2>1 DEF Covered
<1>2. BooksInv /\ Covered /\ [Next]_vars => Covered'
  BY CoveredNext
<1>3. QED
  BY <1>1, <1>2, BooksInit, BooksNext, CoveredInit, PTL DEF Spec

-----------------------------------------------------------------------------
(* Conservation                                                             *)

\* A committed transfer left both its legs in the log, an uncommitted one none.
LegsAreCommitted == \A e \in domainEvents : stage[e.transfer] = "committed"

LegsOf(t) ==
  /\ stage[t] = "debitInserted" =>
       \E m \in Nat : inserted[t] = {DebitOf(t, m)}
  /\ stage[t] = "creditInserted" =>
       \E m, n \in Nat : inserted[t] = {DebitOf(t, m), CreditOf(t, n)}

LegsArePaired == \A t \in Transfers : LegsOf(t)

\* Double entry: what the log takes from accounts it gives to accounts.
LogBalances == SumOver(SignedOf, domainEvents) = 0

PairsInv ==
  /\ TypeOK
  /\ LogIsFinite
  /\ LegsAreCommitted
  /\ LegsArePaired
  /\ LogBalances

OpeningOf == [a \in Accounts |-> OpeningBalance(a)]

\* The accounts together hold what they opened with and what was posted.
TotalsAgree ==
  SumOver(balance, Accounts) = SumOver(OpeningOf, Accounts) + SumOver(SignedOf, posted)

\* No event, no transfer.
LEMMA PairsInit == Init => PairsInv
<1> SUFFICES ASSUME Init PROVE PairsInv
  OBVIOUS
<1>1. TypeOK /\ LogIsFinite
  BY BooksInit DEF BooksInv, IInv
<1>2. LegsAreCommitted /\ LegsArePaired
  BY DEF Init, LegsAreCommitted, LegsArePaired, LegsOf
<1>3. LogBalances
  BY SumEmpty DEF Init, LogBalances
<1>4. QED
  BY <1>1, <1>2, <1>3 DEF PairsInv

\* The two legs of a transfer cancel out.
LEMMA LegsCancel ==
  ASSUME PairsInv, NEW t \in Transfers, CommitTransfer(t)
  PROVE  LogBalances'
<1>1. PICK m, n \in Nat : inserted[t] = {DebitOf(t, m), CreditOf(t, n)}
  BY DEF PairsInv, LegsArePaired, LegsOf, CommitTransfer
<1> DEFINE d == DebitOf(t, m)
           c == CreditOf(t, n)
<1>2. /\ d \in Event /\ c \in Event
      /\ d.transfer = t /\ c.transfer = t
      /\ d # c
      /\ Signed(d) = -request[t].amount /\ Signed(c) = request[t].amount
  <2>1. d \in Event /\ c \in Event
    BY EventsOfTransfer DEF PairsInv
  <2>2. d.kind # c.kind /\ d.transfer = t /\ c.transfer = t
    BY DEF DebitOf, CreditOf
  <2>3. Signed(d) = -request[t].amount /\ Signed(c) = request[t].amount
    BY DEF DebitOf, CreditOf, Signed, IsDebit
  <2>4. QED
    BY <2>1, <2>2, <2>3
<1>3. d \notin domainEvents /\ c \notin domainEvents
  BY <1>2 DEF PairsInv, LegsAreCommitted, CommitTransfer
<1>4. domainEvents' = (domainEvents \cup {d}) \cup {c}
  BY <1>1 DEF CommitTransfer
<1> HIDE DEF d, c
<1>5. IsFiniteSet(domainEvents) /\ IsFiniteSet(domainEvents \cup {d})
  BY FS_AddElement DEF PairsInv, LogIsFinite
<1>6. \A e \in (domainEvents \cup {d}) \cup {c} : SignedOf[e] \in Int
  BY <1>2, SignedType DEF PairsInv, TypeOK
<1>7. /\ SumOver(SignedOf, domainEvents \cup {d}) = SumOver(SignedOf, domainEvents) + SignedOf[d]
      /\ SumOver(SignedOf, (domainEvents \cup {d}) \cup {c})
           = SumOver(SignedOf, domainEvents \cup {d}) + SignedOf[c]
  BY <1>2, <1>3, <1>5, <1>6, SumAdd
<1>8. SignedOf[d] = -request[t].amount /\ SignedOf[c] = request[t].amount
  BY <1>2, SignedType
<1>9. request[t].amount \in Int
  BY LedgerAssumption DEF PairsInv, TypeOK, Request
<1>10. QED
  BY <1>4, <1>7, <1>8, <1>9 DEF PairsInv, LogBalances

\* A commit adds the two legs of a transfer, which cancel; nothing else adds any.
LEMMA PairsNext == PairsInv /\ [Next]_vars => PairsInv'
<1> SUFFICES ASSUME PairsInv, [Next]_vars PROVE PairsInv'
  OBVIOUS
<1> USE DEF PairsInv
<1>1. TypeOK' /\ LogIsFinite'
  BY TypeNext, LogFiniteNext
<1>2. ASSUME domainEvents' = domainEvents, inserted' = inserted, request' = request,
             fromVersion' = fromVersion, toVersion' = toVersion, stage' = stage
      PROVE  PairsInv'
  BY <1>1, <1>2 DEF LegsAreCommitted, LegsArePaired, LegsOf, DebitOf, CreditOf, LogBalances
<1>3. ASSUME NEW t \in Transfers, TransferStep(t) PROVE PairsInv'
  <2>1. /\ request' = request
        /\ \A u \in Transfers \ {t} :
             /\ stage'[u] = stage[u] /\ inserted'[u] = inserted[u]
             /\ fromVersion'[u] = fromVersion[u] /\ toVersion'[u] = toVersion[u]
    BY <1>3 DEF TransferStep, ReadFrom, ReadTo, Reject, InsertDebit, InsertCredit,
       CommitTransfer, AbortTransfer, TypeOK
  <2>2. \A u \in Transfers \ {t} : LegsOf(u)'
    BY <2>1 DEF LegsArePaired, LegsOf, DebitOf, CreditOf
  <2>3. LegsOf(t)'
    <3>1. CASE InsertDebit(t)
      <4>1. inserted'[t] = {DebitOf(t, sequence')} /\ stage'[t] = "debitInserted"
        BY <3>1 DEF InsertDebit, TypeOK
      <4>2. fromVersion' = fromVersion /\ sequence' \in Nat
        BY <1>1, <3>1 DEF InsertDebit, TypeOK
      <4>3. QED
        BY <2>1, <4>1, <4>2 DEF LegsOf, DebitOf
    <3>2. CASE InsertCredit(t)
      <4>1. PICK m \in Nat : inserted[t] = {DebitOf(t, m)}
        BY <3>2 DEF InsertCredit, LegsArePaired, LegsOf
      <4>2. inserted'[t] = {DebitOf(t, m), CreditOf(t, sequence')} /\ stage'[t] = "creditInserted"
        BY <3>2, <4>1 DEF InsertCredit, TypeOK
      <4>3. fromVersion' = fromVersion /\ toVersion' = toVersion /\ sequence' \in Nat
        BY <1>1, <3>2 DEF InsertCredit, TypeOK
      <4>4. QED
        BY <2>1, <4>2, <4>3 DEF LegsOf, DebitOf, CreditOf
    <3>3. CASE ~InsertDebit(t) /\ ~InsertCredit(t)
      <4>1. stage'[t] \notin {"debitInserted", "creditInserted"}
        BY <1>3, <3>3 DEF TransferStep, ReadFrom, ReadTo, Reject, CommitTransfer,
           AbortTransfer, TypeOK
      <4>2. QED
        BY <4>1 DEF LegsOf
    <3>4. QED
      BY <3>1, <3>2, <3>3
  <2>4. CASE CommitTransfer(t)
    <3>1. /\ domainEvents' = domainEvents \cup inserted[t]
          /\ stage' = [stage EXCEPT ![t] = "committed"]
          /\ stage[t] = "creditInserted"
      BY <2>4 DEF CommitTransfer
    <3>2. \A e \in inserted[t] : e.transfer = t
      BY <3>1 DEF LegsArePaired, LegsOf, DebitOf, CreditOf
    <3>3. LegsAreCommitted'
      BY <3>1, <3>2 DEF LegsAreCommitted, TypeOK, Event
    <3>4. QED
      BY <1>1, <2>2, <2>3, <2>4, <3>3, LegsCancel DEF LegsArePaired
  <2>5. CASE ~CommitTransfer(t)
    <3>1. domainEvents' = domainEvents /\ stage[t] # "committed"
      BY <1>3, <2>5 DEF TransferStep, ReadFrom, ReadTo, Reject, InsertDebit,
         InsertCredit, AbortTransfer
    <3>2. LegsAreCommitted'
      BY <2>1, <3>1 DEF LegsAreCommitted, TypeOK, Event
    <3>3. QED
      BY <1>1, <2>2, <2>3, <3>1, <3>2 DEF LegsArePaired, LogBalances
  <2>6. QED
    BY <2>4, <2>5
<1>4. ASSUME NEW a \in Accounts, CreateAccount(a) PROVE PairsInv'
  BY <1>2, <1>4 DEF CreateAccount, transferVars
<1>5. ASSUME NEW p \in Pods, PodStep(p) PROVE PairsInv'
  BY <1>2, <1>5 DEF PodStep, FetchNext, LoadAccount, Post, Drop, Rollback, transferVars
<1>6. CASE UNCHANGED vars
  BY <1>2, <1>6 DEF vars, transferVars
<1>7. QED
  BY <1>3, <1>4, <1>5, <1>6 DEF Next

\* The total moves with the postings.
LEMMA TotalsNext ==
  ASSUME IsFiniteSet(Accounts), IInv, LogIsFinite, TotalsAgree, [Next]_vars
  PROVE  TotalsAgree'
<1>1. ASSUME NEW p \in Pods, Post(p) PROVE TotalsAgree'
  <2> DEFINE e == fetched[p]
             a == e.account
             rest == Accounts \ {a}
  <2>1. /\ e \in Event /\ e \notin posted /\ posted' = posted \cup {e}
        /\ balance' = [balance EXCEPT ![a] = @ + Signed(e)]
    BY <1>1, PostIsNew
  <2>2. /\ a \in Accounts /\ balance \in [Accounts -> Int]
        /\ Signed(e) \in Int /\ SignedOf[e] = Signed(e)
        /\ posted \in SUBSET domainEvents /\ posted \subseteq Event
    BY <2>1, SignedType DEF IInv, TypeOK, Event
  <2>3. IsFiniteSet(rest) /\ IsFiniteSet(posted)
    BY <2>2, FS_RemoveElement, FS_Subset DEF LogIsFinite
  <2>4. \A i \in posted \cup {e} : SignedOf[i] \in Int
    BY <2>1, <2>2, SignedType
  <2>5. SumOver(SignedOf, posted') = SumOver(SignedOf, posted) + Signed(e)
    BY <2>1, <2>2, <2>3, <2>4, SumAdd
  <2>6. /\ \A i \in Accounts : balance[i] \in Int
        /\ \A i \in Accounts : balance'[i] \in Int
        /\ \A i \in rest : balance[i] \in Int /\ balance[i] = balance'[i]
        /\ balance'[a] = balance[a] + Signed(e)
    BY <2>1, <2>2
  <2> HIDE DEF a, e, rest
  <2>7. /\ SumOver(balance, Accounts) = balance[a] + SumOver(balance, rest)
        /\ SumOver(balance', Accounts) = balance'[a] + SumOver(balance', rest)
    BY <2>2, <2>6, SumTakeOut DEF rest
  <2>8. SumOver(balance, rest) = SumOver(balance', rest) /\ SumOver(balance, rest) \in Int
    BY <2>3, <2>6, SumSame, SumType
  <2>9. SumOver(SignedOf, posted) \in Int /\ SumOver(OpeningOf, Accounts) \in Int
    <3>1. \A i \in Accounts : OpeningOf[i] \in Int
      BY LedgerAssumption DEF OpeningOf, OpeningBalance
    <3>2. QED
      BY <2>3, <2>4, <3>1, SumType
  <2>10. QED
    BY <2>2, <2>5, <2>6, <2>7, <2>8, <2>9 DEF TotalsAgree
<1>2. CASE \A p \in Pods : ~Post(p)
  BY <1>2, OnlyPostsPost DEF TotalsAgree
<1>3. QED
  BY <1>1, <1>2

\* Money leaves or enters the accounts only where two events were built on one
\* version of an account, or an event is never consumed.
THEOREM MoneyIsConservedUnlessRaced ==
  ASSUME IsFiniteSet(Accounts)
  PROVE  Spec => []ConservedUnlessRaced
<1>1. Init => TotalsAgree
  <2> SUFFICES ASSUME Init PROVE TotalsAgree
    OBVIOUS
  <2>1. balance = OpeningOf /\ posted = {}
    BY DEF Init, OpeningOf
  <2>2. \A i \in Accounts : OpeningOf[i] \in Int
    BY LedgerAssumption DEF OpeningOf, OpeningBalance
  <2>3. QED
    BY <2>1, <2>2, SumEmpty, SumType DEF TotalsAgree
<1>2. IInv /\ LogIsFinite /\ TotalsAgree /\ [Next]_vars => TotalsAgree'
  BY TotalsNext
<1>3. PairsInv /\ TotalsAgree /\ DroppedOnlyByCollision => ConservedUnlessRaced
  <2> SUFFICES ASSUME PairsInv, TotalsAgree, DroppedOnlyByCollision,
                      VersionsDistinct, handled = domainEvents
               PROVE  TotalBalance = TotalOpening
    BY DEF ConservedUnlessRaced
  <2>1. posted = domainEvents
    <3>1. posted \subseteq domainEvents
      BY DEF PairsInv, TypeOK
    <3>2. ASSUME NEW e \in domainEvents \ posted PROVE FALSE
      <4>1. PICK f \in posted : f # e /\ f.account = e.account /\ f.at = e.at
        BY <3>2 DEF DroppedOnlyByCollision
      <4>2. QED
        BY <3>1, <3>2, <4>1 DEF VersionsDistinct
    <3>3. QED
      BY <3>1, <3>2
  <2>2. TotalBalance = SumOver(balance, Accounts) /\ TotalOpening = SumOver(OpeningOf, Accounts)
    BY SumFunctionIsSum DEF TotalBalance, TotalOpening, OpeningOf, PairsInv, TypeOK
  <2>3. SumOver(OpeningOf, Accounts) \in Int
    <3>1. \A i \in Accounts : OpeningOf[i] \in Int
      BY LedgerAssumption DEF OpeningOf, OpeningBalance
    <3>2. QED
      BY <3>1, SumType
  <2>4. QED
    BY <2>1, <2>2, <2>3 DEF PairsInv, LogBalances, TotalsAgree
<1>4. PairsInv => LogIsFinite
  BY DEF PairsInv
<1>5. QED
  BY <1>1, <1>2, <1>3, <1>4, PairsInit, PairsNext, Inductive, DropsAreCollisions, PTL DEF Spec

-----------------------------------------------------------------------------
(***************************************************************************)
(* The account history.  ORDER BY returns the events in the order of their *)
(* versions (OrderedFacts), the queries fold them one by one (FoldBalance, *)
(* FoldReplay, FoldEntries), so that they compute sums over the events up  *)
(* to each (StatementIsSum, ReplayIsSum); and the events up to one are     *)
(* those below a version, where the balance was not negative               *)
(* (PastCovered, FirstIsPast).                                             *)
(***************************************************************************)

Sorts(s, T) ==
  /\ s \in Bijection(1 .. Cardinality(T), T)
  /\ \A i, j \in DOMAIN s : i < j => s[i].at <= s[j].at

\* A finite set of events has an oldest one.
LEMMA OldestEvent ==
  ASSUME NEW T, T \subseteq Event, T # {}
  PROVE  \E e \in T : \A f \in T : e.at <= f.at
<1> DEFINE Ats == {f.at : f \in T}
<1>1. Ats \subseteq Nat /\ Ats # {}
  BY DEF Event
<1>2. PICK n \in Ats : \A m \in Ats : n <= m
  <2> HIDE DEF Ats
  <2> QED
    BY <1>1, LeastNumber
<1>3. PICK e \in T : e.at = n
  BY <1>2
<1>4. QED
  BY <1>2, <1>3

\* An oldest event goes before the others.
LEMMA SortByPrepending ==
  ASSUME NEW T, T \subseteq Event, IsFiniteSet(T),
         NEW e \in T, \A f \in T : e.at <= f.at,
         NEW s, Sorts(s, T \ {e})
  PROVE  \E r : Sorts(r, T)
<1> DEFINE n == Cardinality(T)
           r == [i \in 1 .. n |-> IF i = 1 THEN e ELSE s[i - 1]]
<1>1. n \in Nat /\ n >= 1 /\ Cardinality(T \ {e}) = n - 1
  <2>1. n \in Nat /\ Cardinality(T \ {e}) = n - 1 /\ IsFiniteSet(T \ {e})
    BY FS_RemoveElement, FS_CardinalityType
  <2>2. Cardinality(T \ {e}) \in Nat
    BY <2>1, FS_CardinalityType
  <2>3. QED
    BY <2>1, <2>2
<1> HIDE DEF n
<1>2. /\ s \in [1 .. n - 1 -> T \ {e}]
      /\ \A i, j \in 1 .. n - 1 : s[i] = s[j] => i = j
      /\ \A f \in T \ {e} : \E i \in 1 .. n - 1 : s[i] = f
      /\ \A i, j \in 1 .. n - 1 : i < j => s[i].at <= s[j].at
  <2>1. DOMAIN s = 1 .. n - 1
    BY <1>1 DEF Sorts, Bijection, Injection
  <2>2. QED
    BY <1>1, <2>1 DEF Sorts, Bijection, Injection, Surjection, IsInjective
<1>3. \A i \in 1 .. n : i # 1 => i - 1 \in 1 .. n - 1
  BY <1>1
<1>4. r[1] = e /\ \A i \in 1 .. n : i # 1 => r[i] = s[i - 1] /\ r[i] \in T \ {e}
  BY <1>1, <1>2, <1>3
<1>5. r \in [1 .. n -> T]
  BY <1>2, <1>3
<1> HIDE DEF r
<1>6. ASSUME NEW i \in 1 .. n, NEW j \in 1 .. n, r[i] = r[j] PROVE i = j
  <2>1. CASE i = 1 \/ j = 1
    BY <1>4, <1>6, <2>1
  <2>2. CASE i # 1 /\ j # 1
    <3>1. i - 1 \in 1 .. n - 1 /\ j - 1 \in 1 .. n - 1 /\ s[i - 1] = s[j - 1]
      BY <1>3, <1>4, <1>6, <2>2
    <3>2. i - 1 = j - 1
      BY <1>2, <3>1
    <3>3. QED
      BY <3>2
  <2>3. QED
    BY <2>1, <2>2
<1>7. ASSUME NEW f \in T PROVE \E i \in 1 .. n : r[i] = f
  <2>1. CASE f = e
    BY <1>1, <1>4, <2>1
  <2>2. CASE f # e
    <3>1. PICK i \in 1 .. n - 1 : s[i] = f
      BY <1>2, <2>2
    <3>2. i + 1 \in 1 .. n /\ i + 1 # 1 /\ (i + 1) - 1 = i
      BY <1>1
    <3>3. r[i + 1] = f
      BY <1>4, <3>1, <3>2
    <3>4. QED
      BY <3>2, <3>3
  <2>3. QED
    BY <2>1, <2>2
<1>8. ASSUME NEW i \in 1 .. n, NEW j \in 1 .. n, i < j PROVE r[i].at <= r[j].at
  <2>1. j # 1
    BY <1>8
  <2>2. CASE i = 1
    BY <1>4, <2>1, <2>2
  <2>3. CASE i # 1
    <3>1. i - 1 \in 1 .. n - 1 /\ j - 1 \in 1 .. n - 1 /\ i - 1 < j - 1
      BY <1>3, <1>8, <2>1, <2>3
    <3>2. s[i - 1].at <= s[j - 1].at
      BY <1>2, <3>1
    <3>3. QED
      BY <1>4, <2>1, <2>3, <3>2
  <2>4. QED
    BY <2>2, <2>3
<1>9. r \in Bijection(1 .. n, T)
  <2>1. DOMAIN r = 1 .. n
    BY <1>5
  <2>2. IsInjective(r)
    BY <1>6, <2>1 DEF IsInjective
  <2>3. QED
    BY <1>5, <1>7, <2>2 DEF Bijection, Injection, Surjection
<1>10. DOMAIN r = 1 .. n
  BY <1>5
<1>11. Sorts(r, T)
  BY <1>8, <1>9, <1>10 DEF Sorts, n
<1>12. QED
  BY <1>11

\* Hence every finite set of events can be sorted.
LEMMA SortExists ==
  ASSUME NEW T, T \subseteq Event, IsFiniteSet(T)
  PROVE  \E s : Sorts(s, T)
<1> DEFINE Bad == {U \in SUBSET T : ~ \E s : Sorts(s, U)}
<1> SUFFICES ASSUME Bad # {} PROVE FALSE
  OBVIOUS
<1>1. PICK U \in Bad : \A V \in Bad : V \subseteq U => V = U
  <2>1. Bad \subseteq SUBSET T
    OBVIOUS
  <2> HIDE DEF Bad
  <2>2. QED
    BY <2>1, MinimalSubset
<1>2. U \in SUBSET T /\ IsFiniteSet(U) /\ U \subseteq Event
  BY <1>1, FS_Subset
<1>3. U # {}
  <2>1. SUFFICES ASSUME U = {} PROVE FALSE
    OBVIOUS
  <2>2. Cardinality(U) = 0
    BY <2>1, FS_EmptySet
  <2> DEFINE s == [i \in 1 .. 0 |-> i]
  <2>3. 1 .. 0 = {}
    OBVIOUS
  <2>4. s \in Bijection(1 .. 0, {}) /\ DOMAIN s = {}
    BY <2>3 DEF Bijection, Injection, Surjection, IsInjective
  <2> HIDE DEF s
  <2>5. Sorts(s, U)
    BY <2>1, <2>2, <2>4 DEF Sorts
  <2>6. QED
    BY <1>1, <2>5
<1>4. PICK e \in U : \A f \in U : e.at <= f.at
  BY <1>2, <1>3, OldestEvent
<1>5. U \ {e} \notin Bad /\ U \ {e} \in SUBSET T
  BY <1>1, <1>2, <1>4
<1>6. PICK s : Sorts(s, U \ {e})
  BY <1>5
<1>7. \E r : Sorts(r, U)
  BY <1>2, <1>4, <1>6, SortByPrepending
<1>8. QED
  BY <1>1, <1>7

\* What ORDER BY returns.
LEMMA OrderedSorts ==
  ASSUME NEW T, T \subseteq Event, IsFiniteSet(T)
  PROVE  Sorts(Ordered(T), T)
<1>1. \E s : Sorts(s, T)
  BY SortExists
<1>2. QED
  BY <1>1 DEF Sorts, Ordered

\* The same, spelt out.
LEMMA OrderedFacts ==
  ASSUME NEW T, T \subseteq Event, IsFiniteSet(T)
  PROVE  LET n == Cardinality(T)
             s == Ordered(T)
         IN  /\ n \in Nat
             /\ s \in [1 .. n -> T]
             /\ \A i, j \in 1 .. n : s[i] = s[j] => i = j
             /\ \A f \in T : \E i \in 1 .. n : s[i] = f
             /\ \A i, j \in 1 .. n : i < j => s[i].at <= s[j].at
<1> DEFINE n == Cardinality(T)
           s == Ordered(T)
<1>1. Sorts(s, T) /\ n \in Nat
  BY OrderedSorts, FS_CardinalityType
<1> HIDE DEF s
<1>2. s \in [1 .. n -> T]
  BY <1>1 DEF Sorts, Bijection, Injection
<1>3. DOMAIN s = 1 .. n
  BY <1>2
<1>4. QED
  BY <1>1, <1>2, <1>3 DEF Sorts, Bijection, Injection, Surjection, IsInjective, s

\* r adds up the events of s, beginning with b.
AddsUp(r, n, b, s) ==
  /\ r[0] = b
  /\ \A k \in 1 .. n : r[k] = r[k - 1] + Signed(s[k])

\* What getStatement's opening balance goes through.
LEMMA FoldBalance ==
  ASSUME NEW n \in Nat, NEW s \in [1 .. n -> Event], NEW b \in Int
  PROVE  \E r \in [0 .. n -> Int] :
           FoldLeft(ApplyToBalance, b, s) = r[n] /\ AddsUp(r, n, b, s)
<1> DEFINE G == [p \in Int \X (1 .. n) |-> p[1] + Signed(s[p[2]])]
           Folds(h) == h = [t \in SUBSET (1 .. n) |->
                              IF t = {} THEN b ELSE h[t \ {Max(t)}] + Signed(s[Max(t)])]
<1>1. \A x \in Int, i \in 1 .. n : G[<<x, i>>] = x + Signed(s[i])
  OBVIOUS
<1>2. Combines(G, Int, 1 .. n)
  <2>1. ASSUME NEW x \in Int, NEW i \in 1 .. n PROVE G[<<x, i>>] \in Int
    <3>1. Signed(s[i]) \in Int
      BY SignedType
    <3>2. G[<<x, i>>] = x + Signed(s[i])
      BY <1>1
    <3> HIDE DEF G
    <3>3. QED
      BY <3>1, <3>2
  <2> HIDE DEF G
  <2>2. QED
    BY <2>1 DEF Combines
<1> HIDE DEF G
<1>3. PICK h \in [SUBSET (1 .. n) -> Int] : FoldsBy(h, b, G, Greatest(n), 1 .. n)
  BY <1>2, FoldExists
<1>4. Folds(h)
  <2>1. h[{}] = b
    BY <1>3 DEF FoldsBy
  <2>2. ASSUME NEW t \in SUBSET (1 .. n), t # {}
        PROVE  h[t] = h[t \ {Max(t)}] + Signed(s[Max(t)])
    <3>1. Max(t) \in 1 .. n
      BY <2>2, MaxOfNumbers
    <3>2. h[t] = G[<<h[t \ {Max(t)}], Max(t)>>]
      BY <1>3, <2>2 DEF FoldsBy, Greatest
    <3>3. h[t \ {Max(t)}] \in Int
      OBVIOUS
    <3>4. QED
      BY <1>1, <3>1, <3>2, <3>3
  <2>3. QED
    BY <2>1, <2>2
<1>5. FoldLeft(ApplyToBalance, b, s) = (CHOOSE f : Folds(f))[1 .. n]
  BY DEF FoldLeft, MapThenFoldSet, ApplyToBalance
<1>6. PICK f : Folds(f) /\ FoldLeft(ApplyToBalance, b, s) = f[1 .. n]
  <2> HIDE DEF Folds
  <2> QED
    BY <1>4, <1>5
<1>7. Unfolds(f, b, G, Int, n)
  <2>1. f[{}] = b
    BY <1>6
  <2>2. ASSUME NEW k \in 1 .. n, f[1 .. k - 1] \in Int
        PROVE  f[1 .. k] = G[<<f[1 .. k - 1], k>>]
    <3>1. f[1 .. k] = f[(1 .. k) \ {Max(1 .. k)}] + Signed(s[Max(1 .. k)])
      BY <1>6, PrefixMax
    <3> HIDE DEF Folds
    <3>2. f[1 .. k] = f[1 .. k - 1] + Signed(s[k])
      BY <3>1, PrefixMax
    <3>3. QED
      BY <1>1, <2>2, <3>2
  <2>3. QED
    BY <2>1, <2>2 DEF Unfolds
<1>8. PICK r \in [0 .. n -> Int] : r[n] = f[1 .. n] /\ Steps(r, b, G, n)
  <2> HIDE DEF Folds
  <2> QED
    BY <1>2, <1>7, FoldSteps
<1>9. \A k \in 1 .. n : r[k] = r[k - 1] + Signed(s[k])
  <2>1. \A k \in 1 .. n : k - 1 \in 0 .. n
    OBVIOUS
  <2>2. QED
    BY <1>1, <1>8, <2>1 DEF Steps
<1>10. r[0] = b
  BY <1>8 DEF Steps
<1>11. QED
  BY <1>6, <1>8, <1>9, <1>10 DEF AddsUp

\* What getBalanceAsOf goes through.
LEMMA FoldReplay ==
  ASSUME NEW n \in Nat, NEW s \in [1 .. n -> Event], NEW b \in Row
  PROVE  \E r \in [0 .. n -> Row] :
           /\ FoldLeft(Replayed, b, s) = r[n]
           /\ r[0] = b
           /\ \A k \in 1 .. n : r[k] = Replayed(r[k - 1], s[k])
<1> DEFINE G == [p \in Row \X (1 .. n) |-> Replayed(p[1], s[p[2]])]
           Folds(h) == h = [t \in SUBSET (1 .. n) |->
                              IF t = {} THEN b ELSE Replayed(h[t \ {Max(t)}], s[Max(t)])]
<1>1. \A x \in Row, i \in 1 .. n : G[<<x, i>>] = Replayed(x, s[i])
  OBVIOUS
<1>2. Combines(G, Row, 1 .. n)
  <2>1. ASSUME NEW x \in Row, NEW i \in 1 .. n PROVE G[<<x, i>>] \in Row
    <3>1. Replayed(x, s[i]) \in Row
      BY FinalStateType DEF Replayed
    <3>2. G[<<x, i>>] = Replayed(x, s[i])
      BY <1>1
    <3> HIDE DEF G
    <3>3. QED
      BY <3>1, <3>2
  <2> HIDE DEF G
  <2>2. QED
    BY <2>1 DEF Combines
<1> HIDE DEF G
<1>3. PICK h \in [SUBSET (1 .. n) -> Row] : FoldsBy(h, b, G, Greatest(n), 1 .. n)
  BY <1>2, FoldExists
<1>4. Folds(h)
  <2>1. h[{}] = b
    BY <1>3 DEF FoldsBy
  <2>2. ASSUME NEW t \in SUBSET (1 .. n), t # {}
        PROVE  h[t] = Replayed(h[t \ {Max(t)}], s[Max(t)])
    <3>1. Max(t) \in 1 .. n
      BY <2>2, MaxOfNumbers
    <3>2. h[t] = G[<<h[t \ {Max(t)}], Max(t)>>]
      BY <1>3, <2>2 DEF FoldsBy, Greatest
    <3>3. h[t \ {Max(t)}] \in Row
      OBVIOUS
    <3>4. QED
      BY <1>1, <3>1, <3>2, <3>3
  <2>3. QED
    BY <2>1, <2>2
<1>5. FoldLeft(Replayed, b, s) = (CHOOSE f : Folds(f))[1 .. n]
  BY DEF FoldLeft, MapThenFoldSet
<1>6. PICK f : Folds(f) /\ FoldLeft(Replayed, b, s) = f[1 .. n]
  <2> HIDE DEF Folds
  <2> QED
    BY <1>4, <1>5
<1>7. Unfolds(f, b, G, Row, n)
  <2>1. f[{}] = b
    BY <1>6
  <2>2. ASSUME NEW k \in 1 .. n, f[1 .. k - 1] \in Row
        PROVE  f[1 .. k] = G[<<f[1 .. k - 1], k>>]
    <3>1. f[1 .. k] = Replayed(f[(1 .. k) \ {Max(1 .. k)}], s[Max(1 .. k)])
      BY <1>6, PrefixMax
    <3> HIDE DEF Folds
    <3>2. f[1 .. k] = Replayed(f[1 .. k - 1], s[k])
      BY <3>1, PrefixMax
    <3>3. QED
      BY <1>1, <2>2, <3>2
  <2>3. QED
    BY <2>1, <2>2 DEF Unfolds
<1>8. PICK r \in [0 .. n -> Row] : r[n] = f[1 .. n] /\ Steps(r, b, G, n)
  <2> HIDE DEF Folds
  <2> QED
    BY <1>2, <1>7, FoldSteps
<1>9. \A k \in 1 .. n : r[k] = Replayed(r[k - 1], s[k])
  <2>1. \A k \in 1 .. n : k - 1 \in 0 .. n
    OBVIOUS
  <2>2. QED
    BY <1>1, <1>8, <2>1 DEF Steps
<1>10. r[0] = b
  BY <1>8 DEF Steps
<1>11. QED
  BY <1>6, <1>8, <1>9, <1>10

\* One more entry of a statement.
Entered(b, entries, e) == Append(entries, ApplyToBalance(RunningBalance(b, entries), e))

EntersOne(b, entries, e) ==
  /\ RunningBalance(b, entries) \in Int
  /\ Entered(b, entries, e) \in Seq(Int)
  /\ Len(Entered(b, entries, e)) = Len(entries) + 1
  /\ \A i \in 1 .. Len(entries) : Entered(b, entries, e)[i] = entries[i]
  /\ Entered(b, entries, e)[Len(entries) + 1] = RunningBalance(b, entries) + Signed(e)
  /\ RunningBalance(b, Entered(b, entries, e)) = RunningBalance(b, entries) + Signed(e)

\* It keeps the entries there are and adds the event to the running balance.
LEMMA EnteredFacts ==
  ASSUME NEW b \in Int, NEW entries \in Seq(Int), NEW e \in Event
  PROVE  EntersOne(b, entries, e)
<1>1. RunningBalance(b, entries) \in Int
  <2>1. CASE entries = <<>>
    BY <2>1 DEF RunningBalance
  <2>2. CASE entries # <<>>
    <3>1. Len(entries) \in 1 .. Len(entries)
      BY <2>2
    <3>2. QED
      BY <2>2, <3>1 DEF RunningBalance, Last
  <2>3. QED
    BY <2>1, <2>2
<1>2. Signed(e) \in Int
  BY SignedType
<1> DEFINE x == RunningBalance(b, entries) + Signed(e)
<1>3. x \in Int
  BY <1>1, <1>2
<1>4. Entered(b, entries, e) = Append(entries, x)
  BY DEF Entered, ApplyToBalance
<1> HIDE DEF x
<1>5. /\ Append(entries, x) \in Seq(Int)
      /\ Len(Append(entries, x)) = Len(entries) + 1
      /\ Append(entries, x)[Len(entries) + 1] = x
      /\ \A i \in 1 .. Len(entries) : Append(entries, x)[i] = entries[i]
  BY <1>3
<1>6. Append(entries, x) # <<>>
  <2>1. Len(Append(entries, x)) # 0
    BY <1>5
  <2>2. Len(<<>>) = 0
    OBVIOUS
  <2>3. QED
    BY <2>1, <2>2
<1>7. RunningBalance(b, Append(entries, x)) = x
  BY <1>5, <1>6 DEF RunningBalance, Last
<1>8. QED
  BY <1>1, <1>4, <1>5, <1>7 DEF x, EntersOne

\* What getStatement goes through.
LEMMA FoldEntries ==
  ASSUME NEW n \in Nat, NEW s \in [1 .. n -> Event], NEW b \in Int
  PROVE  \E q \in [0 .. n -> Seq(Int)] :
           /\ FoldLeft(LAMBDA entries, e :
                         Append(entries, ApplyToBalance(RunningBalance(b, entries), e)),
                       <<>>, s) = q[n]
           /\ q[0] = <<>>
           /\ \A k \in 1 .. n : q[k] = Entered(b, q[k - 1], s[k])
<1> DEFINE A == Seq(Int)
           G == [p \in A \X (1 .. n) |-> Entered(b, p[1], s[p[2]])]
           Folds(h) == h = [t \in SUBSET (1 .. n) |->
                              IF t = {} THEN <<>> ELSE Entered(b, h[t \ {Max(t)}], s[Max(t)])]
<1>0. <<>> \in A
  OBVIOUS
<1>1. \A x \in A, i \in 1 .. n : G[<<x, i>>] = Entered(b, x, s[i])
  OBVIOUS
<1>2. Combines(G, A, 1 .. n)
  <2>1. ASSUME NEW x \in A, NEW i \in 1 .. n PROVE G[<<x, i>>] \in A
    <3>1. Entered(b, x, s[i]) \in A
      BY EnteredFacts DEF EntersOne
    <3>2. G[<<x, i>>] = Entered(b, x, s[i])
      BY <1>1
    <3> HIDE DEF G
    <3>3. QED
      BY <3>1, <3>2
  <2> HIDE DEF G, A
  <2>2. QED
    BY <2>1 DEF Combines
<1> HIDE DEF G, A
<1>3. PICK h \in [SUBSET (1 .. n) -> A] : FoldsBy(h, <<>>, G, Greatest(n), 1 .. n)
  BY <1>0, <1>2, FoldExists
<1>4. Folds(h)
  <2>1. h[{}] = <<>>
    BY <1>3 DEF FoldsBy
  <2>2. ASSUME NEW t \in SUBSET (1 .. n), t # {}
        PROVE  h[t] = Entered(b, h[t \ {Max(t)}], s[Max(t)])
    <3>1. Max(t) \in 1 .. n
      BY <2>2, MaxOfNumbers
    <3>2. h[t] = G[<<h[t \ {Max(t)}], Max(t)>>]
      BY <1>3, <2>2 DEF FoldsBy, Greatest
    <3>3. h[t \ {Max(t)}] \in A
      OBVIOUS
    <3>4. QED
      BY <1>1, <3>1, <3>2, <3>3
  <2>3. QED
    BY <2>1, <2>2
<1>5. FoldLeft(LAMBDA entries, e :
                 Append(entries, ApplyToBalance(RunningBalance(b, entries), e)),
               <<>>, s) = (CHOOSE f : Folds(f))[1 .. n]
  BY DEF FoldLeft, MapThenFoldSet, Entered
<1>6. PICK f : Folds(f) /\ f[1 .. n] =
        FoldLeft(LAMBDA entries, e :
                   Append(entries, ApplyToBalance(RunningBalance(b, entries), e)), <<>>, s)
  <2> HIDE DEF Folds
  <2>1. Folds(CHOOSE f : Folds(f))
    BY <1>4
  <2>2. QED
    BY <2>1, <1>5
<1>7. Unfolds(f, <<>>, G, A, n)
  <2>1. f[{}] = <<>>
    BY <1>6
  <2>2. ASSUME NEW k \in 1 .. n, f[1 .. k - 1] \in A
        PROVE  f[1 .. k] = G[<<f[1 .. k - 1], k>>]
    <3>1. f[1 .. k] = Entered(b, f[(1 .. k) \ {Max(1 .. k)}], s[Max(1 .. k)])
      BY <1>6, PrefixMax
    <3> HIDE DEF Folds
    <3>2. f[1 .. k] = Entered(b, f[1 .. k - 1], s[k])
      BY <3>1, PrefixMax
    <3>3. QED
      BY <1>1, <2>2, <3>2
  <2>3. QED
    BY <2>1, <2>2 DEF Unfolds
<1>8. PICK q \in [0 .. n -> A] : q[n] = f[1 .. n] /\ Steps(q, <<>>, G, n)
  <2> HIDE DEF Folds
  <2> QED
    BY <1>0, <1>2, <1>7, FoldSteps
<1>9. \A k \in 1 .. n : q[k] = Entered(b, q[k - 1], s[k])
  <2>1. \A k \in 1 .. n : k - 1 \in 0 .. n
    OBVIOUS
  <2>2. QED
    BY <1>1, <1>8, <2>1 DEF Steps
<1>10. q[0] = <<>>
  BY <1>8 DEF Steps
<1>11. QED
  BY <1>6, <1>8, <1>9, <1>10 DEF A

Distinct(s, n) == \A i, j \in 1 .. n : s[i] = s[j] => i = j

FirstFrom(s, k) == {s[i] : i \in 1 .. k}

\* The first k of distinct events add up to the first k - 1 and the k-th.
LEMMA SumFirst ==
  ASSUME NEW n \in Nat, NEW s \in [1 .. n -> Event], Distinct(s, n), NEW k \in 1 .. n
  PROVE  /\ SumOver(SignedOf, FirstFrom(s, k - 1)) \in Int
         /\ SumOver(SignedOf, FirstFrom(s, k)) =
              SumOver(SignedOf, FirstFrom(s, k - 1)) + Signed(s[k])
<1> DEFINE P == FirstFrom(s, k - 1)
           x == s[k]
<1>1. FirstFrom(s, k) = P \cup {x}
  <2>1. 1 .. k = (1 .. k - 1) \cup {k}
    OBVIOUS
  <2>2. QED
    BY <2>1 DEF FirstFrom
<1>2. x \notin P /\ P \subseteq Event /\ x \in Event
  <2>1. \A i \in 1 .. k - 1 : i \in 1 .. n /\ i # k
    OBVIOUS
  <2>2. QED
    BY <2>1 DEF Distinct, FirstFrom
<1>3. IsFiniteSet(P)
  <2> DEFINE I == 1 .. k - 1
             f == [i \in I |-> s[i]]
  <2>1. IsFiniteSet(I)
    BY FS_Interval
  <2>2. f \in Surjection(I, P)
    BY DEF Surjection, FirstFrom
  <2> HIDE DEF I, f, P
  <2>3. QED
    BY <2>1, <2>2, FS_Surjection
<1> HIDE DEF P, x
<1>4. \A e \in P \cup {x} : SignedOf[e] \in Int
  BY <1>2, SignedType
<1>5. SumOver(SignedOf, P \cup {x}) = SumOver(SignedOf, P) + SignedOf[x]
  BY <1>2, <1>3, <1>4, SumAdd
<1>6. SumOver(SignedOf, P) \in Int
  BY <1>3, <1>4, SumType
<1>7. SignedOf[x] = Signed(x)
  BY <1>2, SignedType
<1>8. QED
  BY <1>1, <1>5, <1>6, <1>7 DEF P, x

\* A running balance is what it began with and the sum of what it has gone through.
LEMMA SumAlong ==
  ASSUME NEW n \in Nat, NEW s \in [1 .. n -> Event], Distinct(s, n),
         NEW b \in Int, NEW r \in [0 .. n -> Int], AddsUp(r, n, b, s)
  PROVE  \A k \in 0 .. n : r[k] = b + SumOver(SignedOf, FirstFrom(s, k))
<1> DEFINE Good == {k \in 0 .. n : r[k] = b + SumOver(SignedOf, FirstFrom(s, k))}
<1>1. 0 \in Good
  <2>1. FirstFrom(s, 0) = {}
    BY DEF FirstFrom
  <2>2. SumOver(SignedOf, FirstFrom(s, 0)) = 0
    BY <2>1, SumEmpty
  <2>3. QED
    BY <2>2 DEF AddsUp
<1>2. ASSUME NEW k \in 1 .. n, k - 1 \in Good PROVE k \in Good
  <2>1. r[k] = r[k - 1] + Signed(s[k]) /\ Signed(s[k]) \in Int
    BY SignedType DEF AddsUp
  <2>2. r[k - 1] = b + SumOver(SignedOf, FirstFrom(s, k - 1))
    BY <1>2
  <2>3. /\ SumOver(SignedOf, FirstFrom(s, k - 1)) \in Int
        /\ SumOver(SignedOf, FirstFrom(s, k)) =
             SumOver(SignedOf, FirstFrom(s, k - 1)) + Signed(s[k])
    BY SumFirst
  <2>4. r[k] = b + SumOver(SignedOf, FirstFrom(s, k))
    BY <2>1, <2>2, <2>3
  <2>5. QED
    BY <2>4
<1> HIDE DEF Good
<1>3. \A k \in 0 .. n : k \in Good
  BY <1>1, <1>2, CountUp
<1>4. QED
  BY <1>3 DEF Good

\* The first k events of T in the order of their versions.
FirstOf(T, k) == FirstFrom(Ordered(T), k)

\* All of them are all of T.
LEMMA FirstIsAll ==
  ASSUME NEW T, T \subseteq Event, IsFiniteSet(T)
  PROVE  FirstOf(T, Cardinality(T)) = T
BY OrderedFacts DEF FirstOf, FirstFrom

\* The opening balance of a statement is the sum of the events before it.
LEMMA OpeningIsSum ==
  ASSUME NEW T, T \subseteq Event, IsFiniteSet(T)
  PROVE  FoldLeft(ApplyToBalance, 0, Ordered(T)) = SumOver(SignedOf, T)
<1> DEFINE n == Cardinality(T)
           s == Ordered(T)
<1>1. /\ n \in Nat
      /\ s \in [1 .. n -> T]
      /\ Distinct(s, n)
      /\ FirstOf(T, n) = T
  BY OrderedFacts, FirstIsAll DEF Distinct
<1>2. s \in [1 .. n -> Event]
  BY <1>1
<1> HIDE DEF n, s
<1>3. PICK r \in [0 .. n -> Int] :
        FoldLeft(ApplyToBalance, 0, s) = r[n] /\ AddsUp(r, n, 0, s)
  BY <1>1, <1>2, FoldBalance
<1>4. \A k \in 0 .. n : r[k] = 0 + SumOver(SignedOf, FirstFrom(s, k))
  BY <1>1, <1>2, <1>3, SumAlong
<1>5. r[n] = 0 + SumOver(SignedOf, T)
  BY <1>1, <1>4 DEF FirstOf, s
<1>6. SumOver(SignedOf, T) \in Int
  BY SumType, SignedType
<1>7. QED
  BY <1>3, <1>5, <1>6 DEF s

\* Entry k of a statement is its opening balance and the sum of the first k
\* events of its period.
LEMMA StatementIsSum ==
  ASSUME NEW before, before \subseteq Event, IsFiniteSet(before),
         NEW T, T \subseteq Event, IsFiniteSet(T)
  PROVE  LET n == Cardinality(T)
             st == Statement(before, T)
         IN  /\ st \in [1 .. n -> Int]
             /\ \A k \in 1 .. n :
                  st[k] = SumOver(SignedOf, before) + SumOver(SignedOf, FirstOf(T, k))
<1> DEFINE n == Cardinality(T)
           s == Ordered(T)
           b == FoldLeft(ApplyToBalance, 0, Ordered(before))
           st == Statement(before, T)
<1>1. /\ n \in Nat
      /\ s \in [1 .. n -> T]
      /\ Distinct(s, n)
  BY OrderedFacts DEF Distinct
<1>2. s \in [1 .. n -> Event]
  BY <1>1
<1>3. b \in Int /\ b = SumOver(SignedOf, before)
  BY SumType, SignedType, OpeningIsSum
<1>4. st = FoldLeft(LAMBDA entries, e :
                      Append(entries, ApplyToBalance(RunningBalance(b, entries), e)), <<>>, s)
  BY DEF Statement
<1> HIDE DEF n, s, b, st
<1>5. PICK q \in [0 .. n -> Seq(Int)] :
        /\ st = q[n]
        /\ q[0] = <<>>
        /\ \A k \in 1 .. n : q[k] = Entered(b, q[k - 1], s[k])
  BY <1>1, <1>2, <1>3, <1>4, FoldEntries
<1> DEFINE r == [k \in 0 .. n |-> RunningBalance(b, q[k])]
           Good == {k \in 0 .. n : Len(q[k]) = k /\ \A i \in 1 .. k : q[k][i] = r[i]}
<1>6. ASSUME NEW k \in 1 .. n
      PROVE  /\ k - 1 \in 0 .. n /\ k \in 0 .. n
             /\ RunningBalance(b, q[k - 1]) \in Int
             /\ Len(q[k]) = Len(q[k - 1]) + 1
             /\ \A i \in 1 .. Len(q[k - 1]) : q[k][i] = q[k - 1][i]
             /\ q[k][Len(q[k - 1]) + 1] = RunningBalance(b, q[k - 1]) + Signed(s[k])
             /\ RunningBalance(b, q[k]) = RunningBalance(b, q[k - 1]) + Signed(s[k])
  <2>1. k - 1 \in 0 .. n /\ k \in 0 .. n
    BY <1>1
  <2>2. q[k - 1] \in Seq(Int) /\ s[k] \in Event /\ q[k] = Entered(b, q[k - 1], s[k])
    BY <1>2, <1>5, <2>1
  <2>3. EntersOne(b, q[k - 1], s[k])
    BY <1>3, <2>2, EnteredFacts
  <2>4. QED
    BY <2>1, <2>2, <2>3 DEF EntersOne
<1>7. r \in [0 .. n -> Int] /\ r[0] = b
  <2>1. RunningBalance(b, q[0]) = b
    BY <1>5 DEF RunningBalance
  <2>2. ASSUME NEW k \in 1 .. n PROVE RunningBalance(b, q[k]) \in Int
    <3>1. Signed(s[k]) \in Int
      BY <1>2, SignedType
    <3>2. QED
      BY <1>6, <3>1
  <2>3. \A k \in 0 .. n : k = 0 \/ k \in 1 .. n
    OBVIOUS
  <2>4. \A k \in 0 .. n : RunningBalance(b, q[k]) \in Int
    BY <1>3, <2>1, <2>2, <2>3
  <2>5. QED
    BY <1>1, <2>1, <2>4
<1>8. AddsUp(r, n, b, s)
  BY <1>6, <1>7 DEF AddsUp
<1>9. 0 \in Good
  <2>1. Len(q[0]) = 0
    BY <1>5
  <2>2. QED
    BY <1>1, <2>1
<1>10. ASSUME NEW k \in 1 .. n, k - 1 \in Good PROVE k \in Good
  <2>1. /\ Len(q[k - 1]) = k - 1
        /\ \A i \in 1 .. k - 1 : q[k - 1][i] = r[i]
    BY <1>10
  <2>2. Len(q[k]) = k /\ \A i \in 1 .. k - 1 : q[k][i] = q[k - 1][i]
    BY <1>6, <2>1
  <2>3. q[k][k] = RunningBalance(b, q[k])
    BY <1>6, <2>1
  <2>4. RunningBalance(b, q[k]) = r[k]
    BY <1>6
  <2> HIDE DEF r
  <2>5. ASSUME NEW i \in 1 .. k PROVE q[k][i] = r[i]
    <3>1. CASE i = k
      BY <2>3, <2>4, <3>1
    <3>2. CASE i # k
      <4>1. i \in 1 .. k - 1
        BY <3>2
      <4>2. QED
        BY <2>1, <2>2, <4>1
    <3>3. QED
      BY <3>1, <3>2
  <2>6. QED
    BY <1>6, <2>2, <2>5
<1>11. \A k \in 0 .. n : k \in Good
  <2> HIDE DEF Good
  <2> QED
    BY <1>1, <1>9, <1>10, CountUp
<1> HIDE DEF r
<1>12. Len(st) = n /\ st \in Seq(Int) /\ \A i \in 1 .. n : st[i] = r[i]
  <2>1. n \in 0 .. n
    BY <1>1
  <2>2. QED
    BY <1>5, <1>11, <2>1
<1>13. st \in [1 .. n -> Int]
  BY <1>12
<1>14. \A k \in 0 .. n : r[k] = b + SumOver(SignedOf, FirstFrom(s, k))
  BY <1>1, <1>2, <1>3, <1>7, <1>8, SumAlong
<1>15. \A k \in 1 .. n : st[k] = b + SumOver(SignedOf, FirstOf(T, k))
  <2>1. \A k \in 1 .. n : k \in 0 .. n
    OBVIOUS
  <2>2. QED
    BY <1>12, <1>14, <2>1 DEF FirstOf, s
<1>16. QED
  BY <1>3, <1>13, <1>15 DEF n, st

-----------------------------------------------------------------------------
(* The log explains the row                                                 *)

\* What was posted to an account below a version.
PastOf(a, v) == {e \in PostedTo(a) : e.at < v}

\* At no version did an account that began with nothing hold less than what was
\* taken from it, and none held less than nothing after a debit.
PastCovered ==
  \A a \in Accounts \ Seeded :
    /\ \A v \in 0 .. version[a] : SumOver(SignedOf, PastOf(a, v)) >= Taken(a)
    /\ \A e \in PostedTo(a) :
         IsDebit(e) => SumOver(SignedOf, PastOf(a, e.at + 1)) >= 0

\* At version 0 nothing has been posted.
LEMMA PastInit == Init => PastCovered
<1> SUFFICES ASSUME Init, NEW a \in Accounts \ Seeded PROVE
    /\ \A v \in 0 .. version[a] : SumOver(SignedOf, PastOf(a, v)) >= Taken(a)
    /\ \A e \in PostedTo(a) :
         IsDebit(e) => SumOver(SignedOf, PastOf(a, e.at + 1)) >= 0
  BY DEF PastCovered
<1>1. PostedTo(a) = {} /\ NegativeCredits(a) = {} /\ \A v : PastOf(a, v) = {}
  BY DEF Init, PastOf, PostedTo, NegativeCredits
<1>2. QED
  BY <1>1, SumEmpty DEF Taken

\* A post begins the next version; the earlier ones stay what they were.
LEMMA PastNext ==
  ASSUME BooksInv, BooksInv', Covered', PastCovered, [Next]_vars
  PROVE  PastCovered'
<1>1. TypeOK /\ TypeOK' /\ ConsumedIsSettled /\ ConsumedIsSettled' /\ BooksAgree'
  BY DEF BooksInv, IInv
<1>2. ASSUME version' = version, posted' = posted PROVE PastCovered'
  BY <1>2 DEF PastCovered, PastOf, PostedTo, Taken, NegativeCredits
<1>3. ASSUME NEW p \in Pods, Post(p), NEW a \in Accounts \ Seeded
      PROVE  /\ \A v \in 0 .. version'[a] : SumOver(SignedOf, PastOf(a, v)') >= Taken(a)'
             /\ \A f \in PostedTo(a)' :
                  IsDebit(f) => SumOver(SignedOf, PastOf(a, f.at + 1)') >= 0
  <2> DEFINE e == fetched[p]
  <2>1. /\ e \in Event /\ e \notin posted /\ posted' = posted \cup {e}
        /\ version[e.account] = e.at
        /\ version' = [version EXCEPT ![e.account] = e.at + 1]
        /\ balance' = [balance EXCEPT ![e.account] = @ + Signed(e)]
        /\ IsDebit(e) => balance[e.account] >= e.amount
    BY <1>1, <1>3, PostIsNew, SaveIsFresh DEF Post, BooksInv, IInv, FinalState
  <2>2. \A f \in PostedTo(a)' : f.at < version'[a] /\ f.at \in Nat
    BY <1>1 DEF PostedTo, ConsumedIsSettled, TypeOK, Event
  <2>3. version[a] \in Nat /\ version'[a] \in Nat /\ balance[a] \in Int /\ balance'[a] \in Int
    BY <1>1 DEF TypeOK
  <2>4. e.at \in Nat /\ e.amount \in Int
        /\ Signed(e) = IF IsDebit(e) THEN -e.amount ELSE e.amount
    BY <2>1, LedgerAssumption DEF Event, Signed
  <2>5. ASSUME NEW v, v = version'[a]
        PROVE  SumOver(SignedOf, PastOf(a, v)') = balance'[a]
    <3>1. PastOf(a, v)' = PostedTo(a)'
      BY <2>2, <2>5 DEF PastOf
    <3>2. balance'[a] = OpeningBalance(a) + SumOver(SignedOf, PostedTo(a)')
      BY <1>1 DEF BooksAgree
    <3>3. OpeningBalance(a) = 0
      BY DEF OpeningBalance
    <3>4. PostedTo(a)' \subseteq Event /\ IsFiniteSet(PostedTo(a)')
      <4>1. PostedTo(a)' \subseteq domainEvents' /\ domainEvents' \subseteq Event
        BY <1>1 DEF PostedTo, TypeOK
      <4>2. IsFiniteSet(domainEvents')
        BY DEF BooksInv, LogIsFinite
      <4>3. QED
        BY <4>1, <4>2, FS_Subset
    <3>5. SumOver(SignedOf, PostedTo(a)') \in Int
      BY <3>4, SumType, SignedType
    <3>6. QED
      BY <3>1, <3>2, <3>3, <3>5
  <2>6. ASSUME NEW v \in 0 .. version[a] PROVE PastOf(a, v)' = PastOf(a, v)
    <3>1. e.account = a => ~ (e.at < v)
      BY <2>1, <2>3, <2>4
    <3>2. QED
      BY <2>1, <3>1 DEF PastOf, PostedTo
  <2>7. e.account = a => version'[a] = e.at + 1 /\ version[a] = e.at
    BY <1>1, <2>1 DEF TypeOK
  <2>8. e.account # a => version'[a] = version[a]
    BY <1>1, <2>1 DEF TypeOK
  <2>9. Taken(a) \in Int /\ Taken(a)' \in Int /\ Taken(a)' <= Taken(a)
    <3>1. Taken(a)' = IF e.account = a /\ ~IsDebit(e) /\ e.amount < 0
                      THEN Taken(a) + Signed(e) ELSE Taken(a)
      BY <1>3, TakenNext
    <3>2. Taken(a) \in Int
      BY NegativeCreditsType
    <3>3. QED
      BY <2>4, <3>1, <3>2
  <2>10. \A v \in 0 .. version[a] : SumOver(SignedOf, PastOf(a, v)) \in Int
    <3> SUFFICES ASSUME NEW v PROVE SumOver(SignedOf, PastOf(a, v)) \in Int
      OBVIOUS
    <3>1. PastOf(a, v) \subseteq domainEvents /\ domainEvents \subseteq Event
      BY <1>1 DEF PastOf, PostedTo, TypeOK
    <3>2. IsFiniteSet(PastOf(a, v))
      BY <3>1, FS_Subset DEF BooksInv, LogIsFinite
    <3>3. QED
      BY <3>1, <3>2, SumType, SignedType
  <2> HIDE DEF e
  <2>11. ASSUME NEW v \in 0 .. version'[a]
         PROVE  SumOver(SignedOf, PastOf(a, v)') >= Taken(a)'
    <3>1. CASE v = version'[a]
      <4>1. balance'[a] >= Taken(a)'
        BY DEF Covered
      <4>2. QED
        BY <2>5, <3>1, <4>1
    <3>2. CASE v # version'[a]
      <4>1. v \in 0 .. version[a]
        BY <2>3, <2>4, <2>7, <2>8, <3>2
      <4>2. SumOver(SignedOf, PastOf(a, v)) >= Taken(a)
        BY <4>1 DEF PastCovered
      <4>3. QED
        BY <2>6, <2>9, <2>10, <4>1, <4>2
    <3>3. QED
      BY <3>1, <3>2
  <2>12. ASSUME NEW f \in PostedTo(a)', IsDebit(f)
         PROVE  SumOver(SignedOf, PastOf(a, f.at + 1)') >= 0
    <3>1. CASE f = e
      <4>1. e.account = a /\ IsDebit(e)
        BY <2>12, <3>1 DEF PostedTo
      <4>2. balance'[a] = balance[a] + Signed(e)
        BY <1>1, <2>1, <4>1 DEF TypeOK
      <4>3. balance[a] >= e.amount
        BY <2>1, <4>1
      <4>4. balance'[a] >= 0
        BY <2>3, <2>4, <4>1, <4>2, <4>3
      <4>5. f.at + 1 = version'[a]
        BY <2>7, <3>1, <4>1
      <4>6. QED
        BY <2>5, <4>4, <4>5
    <3>2. CASE f # e
      <4>1. f \in PostedTo(a)
        BY <2>1, <3>2 DEF PostedTo
      <4>2. f.at < version[a] /\ f.at \in Nat
        BY <1>1, <4>1 DEF PostedTo, ConsumedIsSettled, TypeOK, Event
      <4>3. PastOf(a, f.at + 1)' = PastOf(a, f.at + 1)
        BY <2>3, <2>6, <4>2
      <4>4. QED
        BY <2>12, <4>1, <4>3 DEF PastCovered
    <3>3. QED
      BY <3>1, <3>2
  <2>13. QED
    BY <2>11, <2>12
<1>4. ASSUME NEW p \in Pods, Post(p) PROVE PastCovered'
  BY <1>3, <1>4 DEF PastCovered
<1>5. ASSUME \A p \in Pods : ~Post(p) PROVE version' = version /\ posted' = posted
  BY <1>5 DEF Next, TransferStep, ReadFrom, ReadTo, Reject, InsertDebit, InsertCredit,
     CommitTransfer, AbortTransfer, CreateAccount, PodStep, FetchNext, LoadAccount,
     Drop, Rollback, vars, tableVars, historyVars
<1>6. QED
  BY <1>2, <1>4, <1>5

\* The events of a reconcilable account are what was posted to it, and their
\* versions lead up to that of the row.
LEMMA ReconcilableLog ==
  ASSUME BooksInv, DroppedOnlyByCollision, NEW a \in accounts, Reconcilable(a)
  PROVE  /\ EventsOf(a) = PostedTo(a)
         /\ EventsOf(a) \subseteq Event
         /\ IsFiniteSet(EventsOf(a))
         /\ \A e \in EventsOf(a) : e.at < version[a]
         /\ balance[a] = OpeningBalance(a) + SumOver(SignedOf, EventsOf(a))
         /\ a \in Accounts /\ version[a] \in Nat /\ OpeningBalance(a) \in Int
<1>1. TypeOK /\ ConsumedIsSettled /\ BooksAgree /\ IsFiniteSet(domainEvents)
  BY DEF BooksInv, IInv, LogIsFinite
<1>2. a \in Accounts /\ version[a] \in Nat
  BY <1>1 DEF TypeOK
<1>3. ASSUME NEW e \in EventsOf(a) PROVE e \in PostedTo(a)
  <2>1. e \in handled /\ e.account = a
    BY DEF Reconcilable, EventsOf
  <2>2. SUFFICES ASSUME e \notin posted PROVE FALSE
    BY <2>1 DEF PostedTo
  <2>3. PICK f \in posted : f # e /\ f.account = e.account /\ f.at = e.at
    BY <2>1, <2>2 DEF DroppedOnlyByCollision
  <2>4. f \in EventsOf(a)
    BY <1>1, <2>1, <2>3 DEF EventsOf, TypeOK
  <2>5. QED
    BY <2>3, <2>4 DEF Reconcilable
<1>4. EventsOf(a) = PostedTo(a)
  BY <1>1, <1>3 DEF EventsOf, PostedTo, TypeOK
<1>5. EventsOf(a) \subseteq Event /\ EventsOf(a) \in SUBSET domainEvents
  BY <1>1 DEF EventsOf, TypeOK
<1>6. IsFiniteSet(EventsOf(a))
  BY <1>1, <1>5, FS_Subset
<1>7. \A e \in EventsOf(a) : e.at < version[a]
  BY <1>1, <1>2, <1>5 DEF Reconcilable, EventsOf, ConsumedIsSettled, Event
<1>8. balance[a] = OpeningBalance(a) + SumOver(SignedOf, EventsOf(a))
  BY <1>1, <1>2, <1>4 DEF BooksAgree
<1>9. OpeningBalance(a) \in Int
  BY LedgerAssumption DEF OpeningBalance
<1>10. QED
  BY <1>2, <1>4, <1>5, <1>6, <1>7, <1>8, <1>9

\* Wherever the statement begins, it ends with the sum of all events.
LEMMA StatementEnds ==
  ASSUME NEW E, E \subseteq Event, IsFiniteSet(E), NEW before \in SUBSET E, before # E
  PROVE  Last(Statement(before, E \ before)) = SumOver(SignedOf, E)
<1> DEFINE T == E \ before
           n == Cardinality(T)
           st == Statement(before, T)
<1>1. /\ before \subseteq Event /\ IsFiniteSet(before)
      /\ T \subseteq Event /\ IsFiniteSet(T) /\ T # {}
  BY FS_Subset
<1>2. n \in Nat /\ n # 0
  BY <1>1, FS_CardinalityType, FS_EmptySet
<1>3. SumOver(SignedOf, E) = SumOver(SignedOf, before) + SumOver(SignedOf, T)
  <2>1. \A e \in E : SignedOf[e] \in Int
    BY SignedType
  <2>2. QED
    BY <2>1, SumSplit
<1> HIDE DEF T
<1>4. /\ st \in [1 .. n -> Int]
      /\ \A k \in 1 .. n :
           st[k] = SumOver(SignedOf, before) + SumOver(SignedOf, FirstOf(T, k))
  BY <1>1, StatementIsSum
<1>5. FirstOf(T, n) = T
  BY <1>1, FirstIsAll
<1> HIDE DEF n, st
<1>6. Len(st) = n
  BY <1>2, <1>4
<1>7. n \in 1 .. n
  BY <1>2
<1>8. Last(st) = SumOver(SignedOf, before) + SumOver(SignedOf, FirstOf(T, n))
  BY <1>4, <1>6, <1>7 DEF Last
<1>9. QED
  BY <1>3, <1>5, <1>8 DEF st, T

\* Of events with different versions, the first k are those below a version.
LEMMA FirstIsPast ==
  ASSUME NEW E, E \subseteq Event, IsFiniteSet(E),
         \A e, f \in E : e.at = f.at => e = f,
         NEW k \in 1 .. Cardinality(E)
  PROVE  FirstOf(E, k) = {e \in E : e.at < Ordered(E)[k].at + 1}
<1> DEFINE n == Cardinality(E)
           s == Ordered(E)
<1>1. /\ n \in Nat
      /\ s \in [1 .. n -> E]
      /\ \A i, j \in 1 .. n : s[i] = s[j] => i = j
      /\ \A f \in E : \E i \in 1 .. n : s[i] = f
      /\ \A i, j \in 1 .. n : i < j => s[i].at <= s[j].at
  BY OrderedFacts
<1>2. k \in 1 .. n
  OBVIOUS
<1> HIDE DEF n, s
<1>3. \A i \in 1 .. n : s[i] \in E /\ s[i].at \in Nat
  BY <1>1 DEF Event
<1>4. ASSUME NEW i \in 1 .. k PROVE s[i] \in E /\ s[i].at < s[k].at + 1
  <2>1. i \in 1 .. n /\ (i < k \/ i = k)
    BY <1>1, <1>2
  <2>2. s[i].at <= s[k].at
    BY <1>1, <1>2, <1>3, <2>1
  <2>3. QED
    BY <1>2, <1>3, <2>1, <2>2
<1>5. ASSUME NEW e \in E, e.at < s[k].at + 1 PROVE \E i \in 1 .. k : s[i] = e
  <2>1. PICK i \in 1 .. n : s[i] = e
    BY <1>1
  <2>2. SUFFICES ASSUME ~ (i <= k) PROVE FALSE
    BY <1>1, <1>2, <2>1
  <2>3. k < i
    BY <1>1, <1>2, <2>2
  <2>4. s[k].at <= s[i].at
    BY <1>1, <1>2, <2>3
  <2>5. s[k].at = s[i].at
    BY <1>2, <1>3, <1>5, <2>1, <2>4
  <2>6. s[k] = s[i]
    BY <1>2, <1>3, <2>5
  <2>7. k = i
    BY <1>1, <1>2, <2>6
  <2>8. QED
    BY <2>3, <2>7
<1>6. FirstFrom(s, k) = {e \in E : e.at < s[k].at + 1}
  BY <1>4, <1>5 DEF FirstFrom
<1>7. QED
  BY <1>6 DEF FirstOf, s

\* Along its log, an account that began with nothing held no less than what was
\* taken from it, and no less than nothing after a debit.
LEMMA FirstIsCovered ==
  ASSUME BooksInv, DroppedOnlyByCollision, PastCovered,
         NEW a \in accounts, Reconcilable(a), a \notin Seeded,
         NEW k \in 1 .. Cardinality(EventsOf(a))
  PROVE  /\ SumOver(SignedOf, FirstOf(EventsOf(a), k)) >= Taken(a)
         /\ IsDebit(Ordered(EventsOf(a))[k])
              => SumOver(SignedOf, FirstOf(EventsOf(a), k)) >= 0
<1> DEFINE E == EventsOf(a)
           e == Ordered(E)[k]
<1>1. /\ E = PostedTo(a) /\ E \subseteq Event /\ IsFiniteSet(E)
      /\ \A f \in E : f.at < version[a]
      /\ a \in Accounts \ Seeded /\ version[a] \in Nat
  BY ReconcilableLog
<1>2. \A f, g \in E : f.at = g.at => f = g
  BY DEF Reconcilable
<1>3. e \in E
  BY <1>1, OrderedFacts
<1>4. FirstOf(E, k) = {f \in E : f.at < e.at + 1}
  BY <1>1, <1>2, FirstIsPast
<1> HIDE DEF E, e
<1>5. FirstOf(E, k) = PastOf(a, e.at + 1)
  BY <1>1, <1>4 DEF PastOf
<1>6. e.at + 1 \in 0 .. version[a]
  BY <1>1, <1>3 DEF Event
<1>7. /\ SumOver(SignedOf, PastOf(a, e.at + 1)) >= Taken(a)
      /\ IsDebit(e) => SumOver(SignedOf, PastOf(a, e.at + 1)) >= 0
  BY <1>1, <1>3, <1>6 DEF PastCovered
<1>8. QED
  BY <1>5, <1>7 DEF E, e

\* Replaying a log whose debits leave no less than nothing refuses none of them.
LEMMA ReplayIsSum ==
  ASSUME NEW E, E \subseteq Event, IsFiniteSet(E), E # {},
         \A k \in 1 .. Cardinality(E) :
           IsDebit(Ordered(E)[k]) => SumOver(SignedOf, FirstOf(E, k)) >= 0
  PROVE  LET n == Cardinality(E)
         IN  BalanceAsOf(E) = [balance |-> SumOver(SignedOf, E),
                               version |-> Ordered(E)[n].at + 1]
<1> DEFINE n == Cardinality(E)
           s == Ordered(E)
           zero == [balance |-> 0, version |-> 0]
           S(k) == SumOver(SignedOf, FirstFrom(s, k))
<1>1. n \in Nat /\ n # 0
  BY FS_CardinalityType, FS_EmptySet
<1>2. /\ s \in [1 .. n -> E]
      /\ Distinct(s, n)
      /\ S(n) = SumOver(SignedOf, E)
  BY OrderedFacts, FirstIsAll DEF Distinct, FirstOf
<1>3. s \in [1 .. n -> Event]
  BY <1>2
<1>4. \A k \in 1 .. n : IsDebit(s[k]) => S(k) >= 0
  BY DEF FirstOf
<1>5. zero \in Row
  BY DEF Row
<1>6. BalanceAsOf(E) = FoldLeft(Replayed, zero, s)
  BY DEF BalanceAsOf
<1>7. S(0) = 0
  <2>1. FirstFrom(s, 0) = {}
    BY DEF FirstFrom
  <2>2. QED
    BY <2>1, SumEmpty
<1> HIDE DEF n, s, zero
<1>8. PICK r \in [0 .. n -> Row] :
        /\ FoldLeft(Replayed, zero, s) = r[n]
        /\ r[0] = zero
        /\ \A k \in 1 .. n : r[k] = Replayed(r[k - 1], s[k])
  BY <1>1, <1>3, <1>5, FoldReplay
<1> DEFINE Good == {k \in 0 .. n : /\ r[k].balance = S(k)
                                   /\ k # 0 => r[k].version = s[k].at + 1}
<1>9. 0 \in Good
  BY <1>1, <1>7, <1>8 DEF zero
<1>10. ASSUME NEW k \in 1 .. n, k - 1 \in Good PROVE k \in Good
  <2>1. /\ S(k - 1) \in Int
        /\ S(k) = S(k - 1) + Signed(s[k])
    BY <1>1, <1>2, <1>3, SumFirst
  <2>2. s[k] \in Event /\ s[k].amount \in Int /\ Signed(s[k]) \in Int
    BY <1>3, LedgerAssumption, SignedType DEF Event
  <2>3. r[k - 1].balance = S(k - 1) /\ (IsDebit(s[k]) => S(k) >= 0)
    BY <1>4, <1>10
  <2> HIDE DEF S, Good
  <2>4. Succeeds(r[k - 1], s[k])
    BY <2>1, <2>2, <2>3 DEF Succeeds, Signed
  <2>5. r[k] = FinalState(r[k - 1], s[k])
    BY <1>8, <2>4 DEF Replayed
  <2>6. r[k].balance = S(k) /\ r[k].version = s[k].at + 1
    BY <2>1, <2>3, <2>5 DEF FinalState
  <2>7. k \in 0 .. n
    BY <1>1
  <2>8. QED
    BY <2>6, <2>7 DEF Good
<1>11. n \in Good
  <2> HIDE DEF Good
  <2>1. \A k \in 0 .. n : k \in Good
    BY <1>1, <1>9, <1>10, CountUp
  <2>2. QED
    BY <1>1, <2>1
<1>12. r[n] \in Row /\ r[n].balance = SumOver(SignedOf, E) /\ r[n].version = s[n].at + 1
  BY <1>1, <1>2, <1>11
<1>13. r[n] = [balance |-> SumOver(SignedOf, E), version |-> s[n].at + 1]
  BY <1>12 DEF Row
<1>14. QED
  BY <1>6, <1>8, <1>13 DEF n, s

\* The newest event of a reconcilable account is the one its row was left by.
LEMMA NewestEvent ==
  ASSUME BooksInv, DroppedOnlyByCollision, NEW a \in accounts, Reconcilable(a),
         EventsOf(a) # {}
  PROVE  Ordered(EventsOf(a))[Cardinality(EventsOf(a))].at + 1 = version[a]
<1> DEFINE E == EventsOf(a)
           n == Cardinality(E)
           s == Ordered(E)
<1>1. /\ E = PostedTo(a) /\ E \subseteq Event /\ IsFiniteSet(E) /\ E # {}
      /\ \A e \in E : e.at < version[a]
      /\ a \in Accounts /\ version[a] \in Nat
  BY ReconcilableLog
<1>2. /\ n \in Nat
      /\ s \in [1 .. n -> E]
      /\ \A f \in E : \E i \in 1 .. n : s[i] = f
      /\ \A i, j \in 1 .. n : i < j => s[i].at <= s[j].at
  BY <1>1, OrderedFacts
<1> HIDE DEF E, n, s
<1>3. version[a] - 1 \in 0 .. version[a] - 1
  BY <1>1 DEF Event
<1>4. PICK f \in posted : f.account = a /\ f.at = version[a] - 1
  BY <1>1, <1>3 DEF BooksInv, IInv, VersionsAreTaken
<1>5. f \in E
  BY <1>1, <1>4 DEF PostedTo
<1>6. PICK i \in 1 .. n : s[i] = f
  BY <1>2, <1>5
<1>7. n \in 1 .. n /\ (i < n \/ i = n)
  BY <1>2
<1>8. s[n] \in E /\ s[n].at \in Nat /\ f.at \in Nat
  BY <1>1, <1>2, <1>5, <1>7 DEF Event
<1>9. f.at <= s[n].at
  BY <1>2, <1>6, <1>7, <1>8
<1>10. s[n].at < version[a]
  BY <1>1, <1>8
<1>11. s[n].at + 1 = version[a]
  BY <1>1, <1>4, <1>8, <1>9, <1>10
<1>12. QED
  BY <1>11 DEF E, n, s

\* What the queries compute from the log is what the projection arrived at.
LEMMA HistoryFollows ==
  ASSUME BooksInv, DroppedOnlyByCollision, PastCovered
  PROVE  HistoryExplainsBalance
<1> SUFFICES ASSUME NEW a \in accounts, Reconcilable(a), EventsOf(a) # {}
    PROVE
    /\ \A before \in (SUBSET EventsOf(a)) \ {EventsOf(a)} :
         Last(Statement(before, EventsOf(a) \ before)) = balance[a] - OpeningBalance(a)
    /\ a \notin Seeded =>
         /\ \A n \in 1 .. Cardinality(EventsOf(a)) :
              Statement({}, EventsOf(a))[n] >= MapThenSumSet(Signed, NegativeCredits(a))
         /\ BalanceAsOf(EventsOf(a)) = [balance |-> balance[a], version |-> version[a]]
  BY DEF HistoryExplainsBalance
<1> DEFINE E == EventsOf(a)
<1>1. /\ E \subseteq Event /\ IsFiniteSet(E)
      /\ balance[a] = OpeningBalance(a) + SumOver(SignedOf, E)
      /\ OpeningBalance(a) \in Int
  BY ReconcilableLog
<1>2. SumOver(SignedOf, E) \in Int
  BY <1>1, SumType, SignedType
<1>3. ASSUME NEW before \in (SUBSET E) \ {E}
      PROVE  Last(Statement(before, E \ before)) = balance[a] - OpeningBalance(a)
  <2>1. Last(Statement(before, E \ before)) = SumOver(SignedOf, E)
    BY <1>1, StatementEnds
  <2>2. QED
    BY <1>1, <1>2, <2>1
<1>4. ASSUME a \notin Seeded
      PROVE  /\ \A n \in 1 .. Cardinality(E) :
                  Statement({}, E)[n] >= MapThenSumSet(Signed, NegativeCredits(a))
             /\ BalanceAsOf(E) = [balance |-> balance[a], version |-> version[a]]
  <2>1. \A k \in 1 .. Cardinality(E) :
          /\ SumOver(SignedOf, FirstOf(E, k)) >= Taken(a)
          /\ IsDebit(Ordered(E)[k]) => SumOver(SignedOf, FirstOf(E, k)) >= 0
    BY <1>4, FirstIsCovered
  <2>2. \A k \in 1 .. Cardinality(E) :
          Statement({}, E)[k] = SumOver(SignedOf, {}) + SumOver(SignedOf, FirstOf(E, k))
    BY <1>1, FS_EmptySet, StatementIsSum
  <2>3. ASSUME NEW k \in 1 .. Cardinality(E)
        PROVE  Statement({}, E)[k] >= MapThenSumSet(Signed, NegativeCredits(a))
    <3>1. SumOver(SignedOf, FirstOf(E, k)) \in Int
      <4>1. FirstOf(E, k) \subseteq E
        <5>1. Ordered(E) \in [1 .. Cardinality(E) -> E] /\ Cardinality(E) \in Nat
          BY <1>1, OrderedFacts
        <5>2. \A i \in 1 .. k : i \in 1 .. Cardinality(E)
          BY <5>1
        <5>3. QED
          BY <5>1, <5>2 DEF FirstOf, FirstFrom
      <4>2. IsFiniteSet(FirstOf(E, k)) /\ FirstOf(E, k) \subseteq Event
        BY <1>1, <4>1, FS_Subset
      <4>3. QED
        BY <4>2, SumType, SignedType
    <3>2. SumOver(SignedOf, {}) = 0
      BY SumEmpty
    <3>3. MapThenSumSet(Signed, NegativeCredits(a)) = Taken(a)
      BY NegativeCreditsType, SignedSumIsSum DEF Taken
    <3>4. QED
      BY <2>1, <2>2, <3>1, <3>2, <3>3
  <2>4. BalanceAsOf(E) = [balance |-> SumOver(SignedOf, E),
                          version |-> Ordered(E)[Cardinality(E)].at + 1]
    BY <1>1, <2>1, ReplayIsSum
  <2>5. Ordered(E)[Cardinality(E)].at + 1 = version[a]
    BY NewestEvent
  <2>6. balance[a] = SumOver(SignedOf, E)
    BY <1>1, <1>2, <1>4 DEF OpeningBalance
  <2>7. QED
    BY <2>3, <2>4, <2>5, <2>6
<1>5. QED
  BY <1>3, <1>4

\* Whenever all events of an account are projected and none took another's
\* version, its row is what AccountController computes from the log: a statement
\* ends with the account's gain wherever it begins, and an account that began
\* with nothing is replayed to its row, with no entry further below zero than
\* credits of negative amounts took it.
THEOREM HistoryExplainsRow == Spec => []HistoryExplainsBalance
<1>1. BooksInv /\ BooksInv' /\ Covered' /\ PastCovered /\ [Next]_vars => PastCovered'
  BY PastNext
<1>2. BooksInv /\ Covered /\ [Next]_vars => Covered'
  BY CoveredNext
<1>3. Init => BooksInv /\ Covered /\ PastCovered
  BY BooksInit, CoveredInit, PastInit
<1>4. BooksInv /\ [Next]_vars => BooksInv'
  BY BooksNext
<1>5. Spec => []DroppedOnlyByCollision
  BY DropsAreCollisions
<1>6. BooksInv /\ DroppedOnlyByCollision /\ PastCovered => HistoryExplainsBalance
  BY HistoryFollows
<1>7. QED
  BY <1>1, <1>2, <1>3, <1>4, <1>5, <1>6, PTL DEF Spec

=============================================================================
