---------------------- MODULE MCUtilsConcurrentQueue ----------------------
(* Instances of UtilsConcurrentQueue for TLC: two producers and two consumers, *)
(* or one and two, and a thread that shuts down.                               *)
EXTENDS UtilsConcurrentQueue

CONSTANTS p1, p2, c1, c2, s1
=============================================================================
