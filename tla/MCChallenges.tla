---------------------------- MODULE MCChallenges ----------------------------
(***************************************************************************)
(* Instance of Challenges for TLC: two challenges, so that one may stop    *)
(* the stream of the other, and two instances, so that events of a         *)
(* challenge may overtake each other.                                      *)
(***************************************************************************)
EXTENDS Challenges

CONSTANTS c1, c2, i1, i2
=============================================================================
