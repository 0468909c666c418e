------------------------------ MODULE MCLedger ------------------------------
(***************************************************************************)
(* Instance of Ledger for TLC: two seeded accounts, so that two transfers  *)
(* meet on one account in every way (same direction, opposite, to itself), *)
(* a third account that a request may create, and two racing pods.         *)
(***************************************************************************)
EXTENDS AccountHistory, TLC

CONSTANTS alice, bob, carol, t1, t2, t3, pod1, pod2

MCSeedBalance == [a \in Seeded |-> IF a = alice THEN 2 ELSE 1]
MCAmounts == {-1, 1, 2}
\* Every pod has a POD_ID of its own; the pod stands for its consumer name.
MCConsumerOf == [p \in Pods |-> p]

MCSymmetry == Permutations(Transfers) \cup Permutations(Pods)
=============================================================================
