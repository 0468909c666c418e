--------------------------- MODULE MCMatchmaking ---------------------------
(***************************************************************************)
(* Instance of Matchmaking for TLC.  Two partitions, so that two threads   *)
(* commit and crash independently; carol shares alice's partition, so that *)
(* a thread also joins likes of its own partition.                         *)
(***************************************************************************)
EXTENDS Matchmaking

CONSTANTS alice, bob, carol, p1, p2

MCPartitionOf == [d \in Dancers |-> IF d = bob THEN p2 ELSE p1]

\* alice and bob like each other across the partitions, alice and carol within;
\* carol likes herself.
MCLikes == {<<alice, bob>>, <<bob, alice>>, <<alice, carol>>, <<carol, alice>>,
            <<carol, carol>>}
\* carol's like of herself against the mutual likes of the other two.
MCSelfLikes == {<<alice, bob>>, <<bob, alice>>, <<carol, carol>>}
=============================================================================
