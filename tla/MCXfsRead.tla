------------------------------ MODULE MCXfsRead ------------------------------
(***************************************************************************)
(* Files with adjacent and scattered extents, holes at the start, in the   *)
(* middle and at the end, an extent longer than one transfer, a partial    *)
(* last block and nothing at all.                                          *)
(***************************************************************************)
EXTENDS XfsReadProps

Ext(o, s, n) == [off |-> o, start |-> s, len |-> n]

MCFiles ==
  { [ext |-> <<Ext(0, 2, 3), Ext(3, 7, 1)>>, size |-> 15],
    [ext |-> <<Ext(0, 5, 1), Ext(2, 1, 2)>>, size |-> 14],
    [ext |-> <<Ext(1, 3, 1)>>, size |-> 11],
    [ext |-> <<Ext(0, 2, 1), Ext(3, 8, 1)>>, size |-> 16],
    [ext |-> <<>>, size |-> 0] }
MCLens == {0, 1, 3, 4, 6, 9, 20}
MCPositions == 0 .. 16
MCStack == {-1, 0, 1, 2, 9}
=============================================================================
