---------------------------- MODULE AtLeastOnce ----------------------------
(***************************************************************************)
(* What the publishers with an outbox promise their callers: an event      *)
(* whose transaction has committed is delivered, possibly more than once,  *)
(* and no other event is.                                                  *)
(***************************************************************************)
CONSTANT Events

VARIABLES
  committed,      \* events persisted in a committed transaction
  delivered       \* events the topic has received

promiseVars == <<committed, delivered>>

Init == committed = {} /\ delivered = {}

Accept(S) ==
  /\ committed' = committed \cup S
  /\ UNCHANGED delivered

Deliver(S) ==
  /\ S \subseteq committed
  /\ delivered' = delivered \cup S
  /\ UNCHANGED committed

Next == \E S \in SUBSET Events : Accept(S) \/ Deliver(S)

GuaranteedDelivery == \A e \in Events : e \in committed ~> e \in delivered

SafeSpec == Init /\ [][Next]_promiseVars

Spec == SafeSpec /\ GuaranteedDelivery
=============================================================================
