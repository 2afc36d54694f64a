------------------------------ MODULE Allocator ------------------------------
(***************************************************************************)
(* What a storage allocator promises its callers: the regions they hold    *)
(* lie inside the arena, never overlap, and change only when a region is   *)
(* handed out or given back.                                               *)
(***************************************************************************)
EXTENDS Integers

CONSTANTS
  Space,     (* the addresses of the arena                                 *)
  Sizes      (* the sizes callers ask for                                  *)

VARIABLE live     (* what the callers hold: address -> size                *)

Region(p, n) == p .. (p + n - 1)

Init == live = [p \in {} |-> 0]

Alloc(p, n) ==
  /\ p \in Space \ DOMAIN live
  /\ Region(p, n) \subseteq Space
  /\ \A q \in DOMAIN live : Region(q, live[q]) \cap Region(p, n) = {}
  /\ live' = [q \in DOMAIN live \cup {p} |-> IF q = p THEN n ELSE live[q]]

Release(p) ==
  /\ p \in DOMAIN live
  /\ live' = [q \in DOMAIN live \ {p} |-> live[q]]

Next ==
  \/ \E p \in Space, n \in Sizes : Alloc(p, n)
  \/ \E p \in DOMAIN live : Release(p)

Spec == Init /\ [][Next]_live
=============================================================================
