------------------------------- MODULE MCHeap -------------------------------
(***************************************************************************)
(* An arena small enough that requests fail and blocks are split, joined   *)
(* and carved in every order.                                              *)
(***************************************************************************)
EXTENDS HeapProps

MCSizes == {0, 1, 2, 3}
MCAligns == {1, 3, 4}
=============================================================================
