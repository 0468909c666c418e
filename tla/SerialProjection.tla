-------------------------- MODULE SerialProjection --------------------------
(***************************************************************************)
(* What the projection of hesab-ketab promises, whatever the number of     *)
(* pods, their crashes and their interleaving: each event of the log is    *)
(* projected once, in one atomic step that reads and writes the current    *)
(* row of its account.  The event posts if the row still has the version   *)
(* the event was built on, and then a debit is covered by the balance; it  *)
(* is skipped if another event has taken that version.                     *)
(***************************************************************************)
EXTENDS LedgerEvents

VARIABLES
  accounts,       \* ids of the rows
  balance,
  version,
  domainEvents,   \* the log
  handled,        \* events projected so far
  posted          \* those of them that changed a row

serialVars == <<accounts, balance, version, domainEvents, handled, posted>>

Init ==
  /\ accounts = Seeded
  /\ balance = [a \in Accounts |-> OpeningBalance(a)]
  /\ version = [a \in Accounts |-> 0]
  /\ domainEvents = {}
  /\ handled = {}
  /\ posted = {}

Open(a) ==
  /\ a \notin accounts
  /\ accounts' = accounts \cup {a}
  /\ UNCHANGED <<balance, version, domainEvents, handled, posted>>

\* Events enter the log for existing rows, at versions those rows have had.
Append ==
  /\ domainEvents \subseteq domainEvents'
  /\ domainEvents' \subseteq Event
  /\ \A e \in domainEvents' \ domainEvents :
       e.account \in accounts /\ e.at <= version[e.account]
  /\ UNCHANGED <<accounts, balance, version, handled, posted>>

PostEvent(e) ==
  /\ version[e.account] = e.at
  /\ Succeeds([balance |-> balance[e.account], version |-> e.at], e)
  /\ balance' = [balance EXCEPT ![e.account] = @ + Signed(e)]
  /\ version' = [version EXCEPT ![e.account] = @ + 1]
  /\ handled' = handled \cup {e}
  /\ posted' = posted \cup {e}
  /\ UNCHANGED <<accounts, domainEvents>>

SkipEvent(e) ==
  /\ version[e.account] > e.at
  /\ handled' = handled \cup {e}
  /\ UNCHANGED <<accounts, balance, version, domainEvents, posted>>

Next ==
  \/ \E a \in Accounts : Open(a)
  \/ Append
  \/ \E e \in domainEvents \ handled : PostEvent(e) \/ SkipEvent(e)

Spec == Init /\ [][Next]_serialVars

=============================================================================
