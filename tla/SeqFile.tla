------------------------------- MODULE SeqFile -------------------------------
(***************************************************************************)
(* What an open file promises a program: a position, and reads that        *)
(* deliver the bytes that follow it, all of them up to the end of the      *)
(* file, and move the position past them; a read that fails delivers       *)
(* nothing and leaves the position alone.                                  *)
(***************************************************************************)
EXTENDS Integers

CONSTANTS
  Lens,      (* the lengths that are asked for                             *)
  Positions  (* the positions that are sought                              *)

VARIABLES
  bytes,     (* the contents of the file: 0 .. size - 1 -> byte            *)
  size,      (* how long it is                                             *)
  position,  (* where the next read starts                                 *)
  result     (* how the last call ended and what it delivered              *)

vars == <<bytes, size, position, result>>

Least(a, b) == IF a <= b THEN a ELSE b
Left == IF position >= size THEN 0 ELSE size - position

None == [how |-> "none", got |-> [k \in {} |-> 0]]
Eio  == [how |-> "EIO", got |-> [k \in {} |-> 0]]

Init ==
  /\ DOMAIN bytes = 0 .. size - 1
  /\ position = 0 /\ result = None

Read(len) ==
  LET n == Least(len, Left) IN
  /\ result' = [how |-> "ESUCCESS", got |-> [k \in 0 .. n - 1 |-> bytes[position + k]]]
  /\ position' = position + n
  /\ UNCHANGED <<bytes, size>>

ReadFails ==
  /\ result' = Eio
  /\ UNCHANGED <<bytes, size, position>>

Seek(p) ==
  /\ position' = p /\ result' = None
  /\ UNCHANGED <<bytes, size>>

(* A call is made: what the one before it delivered is the program's own.  *)
Begin ==
  /\ result' = None
  /\ UNCHANGED <<bytes, size, position>>

Next ==
  \/ \E len \in Lens : Read(len)
  \/ ReadFails \/ Begin
  \/ \E p \in Positions : Seek(p)

Spec == Init /\ [][Next]_vars
=============================================================================
