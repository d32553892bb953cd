---------------------------- MODULE MCInterpHeap ----------------------------
EXTENDS InterpHeap
=============================================================================
