---------------------------- MODULE MCStateDump ----------------------------
(***************************************************************************)
(* Instance of StateDump for TLC.  Two dumps, so that one may overtake the *)
(* other; two events, so that one comes before a snapshot or a read and    *)
(* the other after it, and so that a batch may be full or not.             *)
(***************************************************************************)
EXTENDS StateDump

CONSTANTS e1, e2, c1

MCDumps == 1 .. 2
=============================================================================
