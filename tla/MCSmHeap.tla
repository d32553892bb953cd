------------------------------ MODULE MCSmHeap ------------------------------
(* Instances of SmHeap for TLC. *)
EXTENDS SmHeapRefinement
=============================================================================
