--------------------------- MODULE MCServiceWorker ---------------------------
(***************************************************************************)
(* Instance of ServiceWorker for TLC: three builds.  The program changes   *)
(* with the second and stays with the third, so that it is once thrown     *)
(* away and once kept; the image is gone from the third.                   *)
(***************************************************************************)
EXTENDS ServiceWorker

CONSTANTS main, image, root, a, b, p1

MCBuild == <<
  [f \in Files |-> a],
  [f \in Files |-> IF f = image THEN a ELSE b],
  [f \in Files |-> IF f = image THEN Absent ELSE b] >>

MCWorkers == 1 .. 3
=============================================================================
