------------------------------- MODULE Ledger -------------------------------
(***************************************************************************)
(* hesab-ketab: the event-sourced ledger.  A transfer request appends two  *)
(* events to the table domain_events in one database transaction; pods     *)
(* project the events, one transaction per event, onto the table accounts. *)
(* Every statement runs under PostgreSQL's default READ COMMITTED, so each *)
(* statement that reads or inserts is a step of its own and a transaction  *)
(* takes effect for the others when it commits.                            *)
(***************************************************************************)
EXTENDS LedgerEvents, FiniteSetsExt

CONSTANTS
  Pods,           \* running instances of the service
  ConsumerOf,     \* the consumer name of each pod: "account-projector-" + POD_ID
  NoEvent         \* what a pod holds before its first fetch

ASSUME PodAssumption == NoEvent \notin Event

VARIABLES
  accounts,       \* ids with a row in the table accounts
  balance,        \* column balance
  version,        \* column version
  domainEvents,   \* committed rows of domain_events
  sequence,       \* last value the BIGSERIAL sequence_number handed out
  offset,         \* event_consumer_offsets.last_sequence by consumer name
  request,        \* the body of each transfer request
  stage,          \* how far TransactionController.transfer got
  fromVersion,    \* version of `from` as that call read it
  toVersion,      \* version of `to` as that call read it
  inserted,       \* rows the call has inserted and not committed
  podStage,       \* how far a pod's catchUp transaction got
  fetched,        \* the event that transaction loaded
  loaded,         \* the account row that transaction loaded
  handled,        \* history: events some pod's transaction has consumed
  posted          \* history: events that changed an account

tableVars    == <<accounts, balance, version>>
transferVars == <<request, stage, fromVersion, toVersion, inserted>>
podVars      == <<podStage, fetched, loaded>>
historyVars  == <<handled, posted>>
vars == <<tableVars, domainEvents, sequence, offset, transferVars, podVars,
          historyVars>>

Consumers == {ConsumerOf[p] : p \in Pods}

Request == [from : Accounts, to : Accounts, amount : Amounts]

Row == [balance : Int, version : Nat]

-----------------------------------------------------------------------------
(* TransactionController.transfer and EventStore.append                     *)

Init ==
  /\ accounts = Seeded
  /\ balance = [a \in Accounts |-> OpeningBalance(a)]
  /\ version = [a \in Accounts |-> 0]
  /\ domainEvents = {}
  /\ sequence = 0
  /\ offset = [c \in Consumers |-> 0]
  /\ request \in [Transfers -> Request]
  /\ stage = [t \in Transfers |-> "received"]
  /\ fromVersion = [t \in Transfers |-> 0]
  /\ toVersion = [t \in Transfers |-> 0]
  /\ inserted = [t \in Transfers |-> {}]
  /\ podStage = [p \in Pods |-> "idle"]
  /\ fetched = [p \in Pods |-> NoEvent]
  /\ loaded = [p \in Pods |-> [balance |-> 0, version |-> 0]]
  /\ handled = {}
  /\ posted = {}

\* Mutant of ReadFrom: "not enough money" is not checked.
UncheckedReadFrom(t) ==
  LET from == request[t].from IN
  /\ stage[t] = "received"
  /\ from \in accounts
  /\ fromVersion' = [fromVersion EXCEPT ![t] = version[from]]
  /\ stage' = [stage EXCEPT ![t] = "fromRead"]
  /\ UNCHANGED <<tableVars, domainEvents, sequence, offset, request, toVersion,
                 inserted, podVars, historyVars>>

\* findById(from) succeeds and the balance covers the amount.
ReadFrom(t) ==
  LET from == request[t].from IN
  /\ stage[t] = "received"
  /\ from \in accounts
  /\ balance[from] >= request[t].amount
  /\ fromVersion' = [fromVersion EXCEPT ![t] = version[from]]
  /\ stage' = [stage EXCEPT ![t] = "fromRead"]
  /\ UNCHANGED <<tableVars, domainEvents, sequence, offset, request, toVersion,
                 inserted, podVars, historyVars>>

ReadTo(t) ==
  LET to == request[t].to IN
  /\ stage[t] = "fromRead"
  /\ to \in accounts
  /\ toVersion' = [toVersion EXCEPT ![t] = version[to]]
  /\ stage' = [stage EXCEPT ![t] = "toRead"]
  /\ UNCHANGED <<tableVars, domainEvents, sequence, offset, request,
                 fromVersion, inserted, podVars, historyVars>>

\* orElseThrow on either account, or "not enough money".
Reject(t) ==
  /\ \/ /\ stage[t] = "received"
        /\ request[t].from \in accounts => balance[request[t].from] < request[t].amount
     \/ /\ stage[t] = "fromRead"
        /\ request[t].to \notin accounts
  /\ stage' = [stage EXCEPT ![t] = "failed"]
  /\ UNCHANGED <<tableVars, domainEvents, sequence, offset, request,
                 fromVersion, toVersion, inserted, podVars, historyVars>>

DebitOf(t, n) ==
  [seq |-> n, account |-> request[t].from, kind |-> "MoneyDebited",
   amount |-> request[t].amount, at |-> fromVersion[t], transfer |-> t]

\* Mutant of CreditOf: the credit carries the version of the debited account.
CreditOfAtFromVersion(t, n) ==
  [seq |-> n, account |-> request[t].to, kind |-> "MoneyCredited",
   amount |-> request[t].amount, at |-> fromVersion[t], transfer |-> t]

CreditOf(t, n) ==
  [seq |-> n, account |-> request[t].to, kind |-> "MoneyCredited",
   amount |-> request[t].amount, at |-> toVersion[t], transfer |-> t]

\* append sorts by occurredAt: both events carry the same instant and the sort
\* is stable, so the debit is inserted first.  The sequence value is taken now,
\* the row becomes visible to others at the commit.
InsertDebit(t) ==
  /\ stage[t] = "toRead"
  /\ sequence' = sequence + 1
  /\ inserted' = [inserted EXCEPT ![t] = {DebitOf(t, sequence')}]
  /\ stage' = [stage EXCEPT ![t] = "debitInserted"]
  /\ UNCHANGED <<tableVars, domainEvents, offset, request, fromVersion,
                 toVersion, podVars, historyVars>>

InsertCredit(t) ==
  /\ stage[t] = "debitInserted"
  /\ sequence' = sequence + 1
  /\ inserted' = [inserted EXCEPT ![t] = @ \cup {CreditOf(t, sequence')}]
  /\ stage' = [stage EXCEPT ![t] = "creditInserted"]
  /\ UNCHANGED <<tableVars, domainEvents, offset, request, fromVersion,
                 toVersion, podVars, historyVars>>

CommitTransfer(t) ==
  /\ stage[t] = "creditInserted"
  /\ domainEvents' = domainEvents \cup inserted[t]
  /\ inserted' = [inserted EXCEPT ![t] = {}]
  /\ stage' = [stage EXCEPT ![t] = "committed"]
  /\ UNCHANGED <<tableVars, sequence, offset, request, fromVersion, toVersion,
                 podVars, historyVars>>

\* The instance or the connection dies before the commit: the rows are gone,
\* the sequence values stay used.
AbortTransfer(t) ==
  /\ stage[t] \in {"debitInserted", "creditInserted"}
  /\ inserted' = [inserted EXCEPT ![t] = {}]
  /\ stage' = [stage EXCEPT ![t] = "failed"]
  /\ UNCHANGED <<tableVars, domainEvents, sequence, offset, request,
                 fromVersion, toVersion, podVars, historyVars>>

-----------------------------------------------------------------------------
(* AccountController.create                                                *)

CreateAccount(a) ==
  /\ a \notin accounts
  /\ accounts' = accounts \cup {a}
  /\ UNCHANGED <<balance, version, domainEvents, sequence, offset,
                 transferVars, podVars, historyVars>>

-----------------------------------------------------------------------------
(* EventConsumer.catchUp: one transaction per event                        *)

\* Mutants of Unprocessed: uncommitted rows are seen; the offset is not used.
DirtyUnprocessed(c) ==
  {e \in domainEvents \cup UNION {inserted[t] : t \in Transfers} : e.seq > offset[c]}
EveryEvent(c) == domainEvents

Unprocessed(c) == {e \in domainEvents : e.seq > offset[c]}

\* loadNextUnprocessedEvent
FetchNext(p) ==
  /\ podStage[p] = "idle"
  /\ \E e \in Unprocessed(ConsumerOf[p]) :
       /\ \A f \in Unprocessed(ConsumerOf[p]) : e.seq <= f.seq
       /\ fetched' = [fetched EXCEPT ![p] = e]
  /\ podStage' = [podStage EXCEPT ![p] = "fetched"]
  /\ UNCHANGED <<tableVars, domainEvents, sequence, offset, transferVars,
                 loaded, historyVars>>

LoadAccount(p) ==
  LET a == fetched[p].account IN
  /\ podStage[p] = "fetched"
  /\ a \in accounts
  /\ loaded' = [loaded EXCEPT ![p] = [balance |-> balance[a], version |-> version[a]]]
  /\ podStage' = [podStage EXCEPT ![p] = "loaded"]
  /\ UNCHANGED <<tableVars, domainEvents, sequence, offset, transferVars,
                 fetched, historyVars>>

\* Mutants of Saves: the upsert without its version guard; the final state saved
\* without a look at the guard or at what apply said.
SavesAnyVersion(p) == Succeeds(loaded[p], fetched[p])
SavesAnything(p) == TRUE

\* AccountRepository.save updates only WHERE accounts.version = :version - 1.
Saves(p) ==
  LET e == fetched[p]
      final == FinalState(loaded[p], e)
  IN  /\ Succeeds(loaded[p], e)
      /\ version[e.account] = final.version - 1

UpdateOffset(p) == offset' = [offset EXCEPT ![ConsumerOf[p]] = fetched[p].seq]

\* apply succeeds, save matches the row, the offset moves: one commit.
Post(p) ==
  LET e == fetched[p]
      final == FinalState(loaded[p], e)
  IN  /\ podStage[p] = "loaded"
      /\ Saves(p)
      /\ balance' = [balance EXCEPT ![e.account] = final.balance]
      /\ version' = [version EXCEPT ![e.account] = final.version]
      /\ UpdateOffset(p)
      /\ handled' = handled \cup {e}
      /\ posted' = posted \cup {e}
      /\ podStage' = [podStage EXCEPT ![p] = "idle"]
      /\ UNCHANGED <<accounts, domainEvents, sequence, transferVars, fetched, loaded>>

\* apply refuses, or save matches no row (its update count is not looked at):
\* the offset moves all the same.
Drop(p) ==
  /\ podStage[p] = "loaded"
  /\ ~Saves(p)
  /\ UpdateOffset(p)
  /\ handled' = handled \cup {fetched[p]}
  /\ podStage' = [podStage EXCEPT ![p] = "idle"]
  /\ UNCHANGED <<tableVars, domainEvents, sequence, transferVars, fetched,
                 loaded, posted>>

\* Mutant of Rollback: save commits on its own, so a crash before the offset moves
\* leaves the account updated.
RollbackAfterSave(p) ==
  LET e == fetched[p]
      final == FinalState(loaded[p], e)
  IN  /\ podStage[p] = "loaded"
      /\ Saves(p)
      /\ balance' = [balance EXCEPT ![e.account] = final.balance]
      /\ version' = [version EXCEPT ![e.account] = final.version]
      /\ podStage' = [podStage EXCEPT ![p] = "idle"]
      /\ UNCHANGED <<accounts, domainEvents, sequence, offset, transferVars,
                     fetched, loaded, historyVars>>

\* The pod or its connection dies before the commit; a later catchUp starts over.
Rollback(p) ==
  /\ podStage[p] \in {"fetched", "loaded"}
  /\ podStage' = [podStage EXCEPT ![p] = "idle"]
  /\ UNCHANGED <<tableVars, domainEvents, sequence, offset, transferVars,
                 fetched, loaded, historyVars>>

-----------------------------------------------------------------------------

TransferStep(t) ==
  \/ ReadFrom(t)
  \/ ReadTo(t)
  \/ Reject(t)
  \/ InsertDebit(t)
  \/ InsertCredit(t)
  \/ CommitTransfer(t)
  \/ AbortTransfer(t)

PodStep(p) ==
  \/ FetchNext(p)
  \/ LoadAccount(p)
  \/ Post(p)
  \/ Drop(p)
  \/ Rollback(p)

Next ==
  \/ \E t \in Transfers : TransferStep(t)
  \/ \E a \in Accounts : CreateAccount(a)
  \/ \E p \in Pods : PodStep(p)

Spec == Init /\ [][Next]_vars

-----------------------------------------------------------------------------
(* Correctness *)

TypeOK ==
  /\ accounts \subseteq Accounts
  /\ balance \in [Accounts -> Int]
  /\ version \in [Accounts -> Nat]
  /\ domainEvents \subseteq Event
  /\ sequence \in Nat
  /\ offset \in [Consumers -> Nat]
  /\ request \in [Transfers -> Request]
  /\ stage \in [Transfers -> {"received", "fromRead", "toRead", "debitInserted",
                             "creditInserted", "committed", "failed"}]
  /\ fromVersion \in [Transfers -> Nat]
  /\ toVersion \in [Transfers -> Nat]
  /\ inserted \in [Transfers -> SUBSET Event]
  /\ podStage \in [Pods -> {"idle", "fetched", "loaded"}]
  /\ fetched \in [Pods -> {NoEvent} \cup Event]
  /\ \A p \in Pods : podStage[p] # "idle" => fetched[p] \in domainEvents
  /\ loaded \in [Pods -> Row]
  /\ handled \subseteq domainEvents
  /\ posted \subseteq handled

\* A save that passes the version guard was computed from the row as it still
\* is: the guard compares the event's version, not the version of the row that
\* catchUp loaded a statement earlier, yet no other pod's update is overwritten.
NoLostUpdate ==
  \A p \in Pods :
    podStage[p] = "loaded" /\ Saves(p) =>
      LET a == fetched[p].account
      IN  loaded[p] = [balance |-> balance[a], version |-> version[a]]

\* Applying an event twice is harmless: once any pod has consumed an event, the
\* version guard of save rejects it for ever, on whichever pod it comes again.
ConsumedIsSettled == \A e \in handled : version[e.account] > e.at

\* The guard of save is an optimistic lock: of the events built on one version of
\* an account, however many there are and whichever pods project them, exactly one
\* is posted when the account leaves that version, and none while it has it.
OneWinnerPerVersion ==
  /\ \A e, f \in posted : e.account = f.account /\ e.at = f.at => e = f
  /\ \A a \in Accounts :
       {e.at : e \in {f \in posted : f.account = a}} = 0 .. version[a] - 1

\* A consumed event that changed no account lost its version to another event
\* of that account; "not enough money" alone never costs a posting, because the
\* transfer checked the balance at the version it wrote into the event.
DroppedOnlyByCollision ==
  \A e \in handled \ posted :
    \E f \in posted : f # e /\ f.account = e.account /\ f.at = e.at

\* A transfer of a negative amount passes the check of the balance, and its credit
\* none at all.
NegativeCredits(a) == {e \in posted : e.account = a /\ ~IsDebit(e) /\ e.amount < 0}

\* No debit takes a balance below zero, although the transfer, the load and the
\* save look at the row at three different moments: what an account is short of
\* zero, credits of negative amounts have taken from it.
DebitsStayCovered ==
  \A a \in Accounts : balance[a] >= MapThenSumSet(Signed, NegativeCredits(a))

\* Every projected balance is the opening balance plus the posted events.
BalanceReconciles ==
  \A a \in Accounts :
    balance[a] = OpeningBalance(a)
                 + MapThenSumSet(Signed, {e \in posted : e.account = a})

Settled ==
  /\ \A t \in Transfers : stage[t] \in {"committed", "failed"}
  /\ \A c \in Consumers : Unprocessed(c) = {}

TotalBalance == SumFunction(balance)
TotalOpening == SumFunction([a \in Accounts |-> OpeningBalance(a)])

\* "Both enforce conservation - yours through the Account.apply() method": when
\* every transfer, each between two different accounts, has ended and every
\* event is behind the offsets, the accounts hold what they held at the start.
MoneyConserved ==
  Settled /\ (\A t \in Transfers : request[t].from # request[t].to)
    => TotalBalance = TotalOpening

VersionsDistinct ==
  \A e, f \in domainEvents : e.account = f.account /\ e.at = f.at => e = f

\* Money is conserved by every run in which no two events were built on the
\* same account version and no event was left behind a consumer's offset.
ConservedUnlessRaced ==
  Settled /\ VersionsDistinct /\ handled = domainEvents => TotalBalance = TotalOpening

\* catchUp "fetch[es] all unprocessed events from the offset": an event behind
\* the offset of every consumer has been consumed by one of them.
NoEventLeftBehind ==
  \A e \in domainEvents : (\A c \in Consumers : e.seq <= offset[c]) => e \in handled

\* With a consumer name per pod, an offset only moves forward.
OffsetNeverRetreats == [][\A c \in Consumers : offset'[c] >= offset[c]]_offset

Serial == INSTANCE SerialProjection WITH accounts <- accounts,
                                         balance <- balance,
                                         version <- version,
                                         domainEvents <- domainEvents,
                                         handled <- handled,
                                         posted <- posted

\* However many pods race and crash, the projection behaves like one consumer
\* that projects each event once, atomically, on the current row.
ImplementsSerialProjection == Serial!Spec

=============================================================================
