--------------------------- MODULE AccountHistory ---------------------------
(***************************************************************************)
(* hesab-ketab: what AccountController computes from an account's events,  *)
(* a balance and a statement, while transfers and pods are at work.        *)
(*                                                                         *)
(* A query divides the events by created_at, the start of the transaction  *)
(* that inserted them.  Transactions read versions in any order after they *)
(* have started, so an instant may divide the events in any way: it stands *)
(* for the set of events up to it.  Events of one version come in any      *)
(* order; nothing is said of accounts that have such events.               *)
(***************************************************************************)
EXTENDS Ledger, SequencesExt

EventsOf(a) == {e \in domainEvents : e.account = a}

\* ORDER BY at_aggregate_version
Ordered(events) ==
  CHOOSE s \in Bijection(1 .. Cardinality(events), events) :
    \A i, j \in DOMAIN s : i < j => s[i].at <= s[j].at

\* finalState of Account.apply, which is the row itself if it refuses.
Replayed(row, e) == IF Succeeds(row, e) THEN FinalState(row, e) ELSE row

\* getBalanceAsOf, with the events that loadEventsUpTo returns.
BalanceAsOf(events) == FoldLeft(Replayed, [balance |-> 0, version |-> 0], Ordered(events))

ApplyToBalance(amount, e) == amount + Signed(e)

\* Mutant of RunningBalance: the opening balance is forgotten.
RunningBalanceOf(opening, entries) == IF entries = <<>> THEN 0 ELSE Last(entries)

RunningBalance(opening, entries) == IF entries = <<>> THEN opening ELSE Last(entries)

\* getStatement: the running balance of each entry.
Statement(before, between) ==
  LET opening == FoldLeft(ApplyToBalance, 0, Ordered(before))
  IN  FoldLeft(LAMBDA entries, e :
                 Append(entries, ApplyToBalance(RunningBalance(opening, entries), e)),
               <<>>, Ordered(between))

-----------------------------------------------------------------------------

\* All events of the account are projected, and none took another's version.
Reconcilable(a) ==
  /\ EventsOf(a) \subseteq handled
  /\ \A e, f \in EventsOf(a) : e.at = f.at => e = f

\* The log explains the row: wherever a statement begins, it ends with what the
\* account has gained since it was opened.  For an account that began with nothing,
\* no entry is further below zero than the credits of negative amounts took it, and
\* the replayed row is the projected one, version included.  (The replay of a seeded
\* account begins with zero too and refuses debits that the opening balance covered.)
HistoryExplainsBalance ==
  \A a \in accounts : Reconcilable(a) /\ EventsOf(a) # {} =>
    /\ \A before \in (SUBSET EventsOf(a)) \ {EventsOf(a)} :
         Last(Statement(before, EventsOf(a) \ before)) = balance[a] - OpeningBalance(a)
    /\ a \notin Seeded =>
         /\ \A n \in 1 .. Cardinality(EventsOf(a)) :
              Statement({}, EventsOf(a))[n] >= MapThenSumSet(Signed, NegativeCredits(a))
         /\ BalanceAsOf(EventsOf(a)) = [balance |-> balance[a], version |-> version[a]]
=============================================================================
