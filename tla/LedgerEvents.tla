---------------------------- MODULE LedgerEvents ----------------------------
(***************************************************************************)
(* hesab-ketab: the accounts, the events of the ledger and what applying   *)
(* one event to one account row computes.  Shared by the abstract          *)
(* projection (SerialProjection) and by the program (Ledger).              *)
(***************************************************************************)
EXTENDS Integers, FiniteSets

CONSTANTS
  Accounts,       \* account ids, the seeded ones and those still to be created
  Seeded,         \* the accounts of the seed migration V005
  SeedBalance,    \* their opening balances
  Transfers,      \* transfer requests; their number bounds the model
  Amounts         \* amounts a request may carry: the code takes any number, also
                  \* one below zero

ASSUME LedgerAssumption ==
  /\ Seeded \subseteq Accounts
  /\ SeedBalance \in [Seeded -> Nat]
  /\ Amounts \subseteq Int

Event ==
  [seq : Nat, account : Accounts, kind : {"MoneyDebited", "MoneyCredited"},
   amount : Amounts, at : Nat, transfer : Transfers]

OpeningBalance(a) == IF a \in Seeded THEN SeedBalance[a] ELSE 0

IsDebit(e) == e.kind = "MoneyDebited"

\* What the event adds to the balance of its account.
Signed(e) == IF IsDebit(e) THEN -e.amount ELSE e.amount

\* Account.apply: a debit needs a covering balance, a credit nothing; neither
\* looks at the version of the row it is applied to.
Succeeds(row, e) == IsDebit(e) => row.balance >= e.amount
\* Mutant of FinalState: the event keeps the version it was built on.
StaleFinalState(row, e) ==
  [balance |-> row.balance + Signed(e), version |-> e.at]

FinalState(row, e) ==
  [balance |-> row.balance + Signed(e), version |-> e.at + 1]

=============================================================================
