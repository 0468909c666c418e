------------------------------ MODULE MCOutbox ------------------------------
(***************************************************************************)
(* Instance of Outbox for TLC.  Two threads share an instance, and with it *)
(* the batch of acknowledgements and the drainer.                          *)
(***************************************************************************)
EXTENDS Outbox

CONSTANTS created, renamed, retired, t1, t2, pod

MCInstanceOf == [t \in Threads |-> pod]
=============================================================================
