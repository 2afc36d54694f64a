------------------------------ MODULE HeapProps ------------------------------
(***************************************************************************)
(* What malloc.c must guarantee, stated over Heap.                         *)
(***************************************************************************)
EXTENDS Heap

Calls ==
  [op : {"none", "malloc", "align", "realloc", "free"}, n : Sizes \cup {0},
   align : Aligns \cup {1}, mem : Addr \cup {NULL}, keep : Nat]

(* Every variable has its type; the structural part of the invariant below *)
(* is what the proofs rest on.                                             *)
HeapTypeOK ==
  /\ nxt \in [Blocks -> Addr] /\ stat \in [Blocks -> Status]
  /\ Blocks \subseteq Addr
  /\ bblk \in {NULL, Base}
  /\ {eblk, cblk, mptr, b1, ret} \subseteq Addr \cup {NULL}
  /\ pc \in {"idle", "search", "grow", "got", "failed", "carve", "join"}
  /\ call \in Calls
  /\ scanned \in BOOLEAN
  /\ laid \subseteq Addr
  /\ DOMAIN live \subseteq Addr /\ live \in [DOMAIN live -> Sizes \cup {0}]

(* The blocks tile the arena from bblk to mptr in address order: nothing   *)
(* is lost between two headers and no header lies inside a block (what     *)
(* link_check() looks for in a debugging build), at every step of a call.  *)
Tiled ==
  IF bblk = NULL THEN Blocks = {}
  ELSE /\ {bblk, eblk} \subseteq Blocks
       /\ \A b \in Blocks : bblk <= b /\ b <= eblk
       /\ nxt[eblk] = bblk
       /\ \A b \in Blocks \ {eblk} :
            /\ nxt[b] \in Blocks /\ nxt[b] > b
            /\ \A h \in Blocks : ~(b < h /\ h < nxt[b])
       /\ mptr = eblk + 1 /\ mptr < Limit

(* Only the place holders carry the place holders' status words, so a join *)
(* never swallows one of them and no search runs past the list's end.      *)
PlaceHolders ==
  bblk # NULL => \A b \in Blocks : /\ stat[b] = "BEG" <=> b = bblk
                                   /\ stat[b] = "END" <=> b = eblk

(* The rover and the traversal pointer are always on the list, whatever    *)
(* joins and carvings happened: a rover that was joined away would make    *)
(* the next search walk stale headers.                                     *)
OnList ==
  /\ bblk # NULL => cblk \in Blocks
  /\ pc \notin {"idle", "failed"} => b1 \in Blocks

(* The list is well formed: what every walk of malloc() and free() relies  *)
(* on, at every step of a call and not only between calls.                 *)
ListInv == Tiled /\ PlaceHolders /\ OnList

(* Whatever a caller holds is the payload of one malloced block that is    *)
(* large enough for what it asked for.                                     *)
LiveBacked ==
  \A p \in DOMAIN live :
    /\ p - 1 \in Blocks
    /\ stat[p - 1] = "MALLOCED"
    /\ nxt[p - 1] >= p + live[p]

(* Between calls every malloced block is held by somebody: none of the     *)
(* paths through the three entry points strands a block.                   *)
NoLeak ==
  pc = "idle" => {b + 1 : b \in {x \in Blocks : stat[x] = "MALLOCED"}} = DOMAIN live

(* malloc() gives up only when no stretch of adjacent free blocks, taken   *)
(* as a whole, could hold the request: the search that starts in the       *)
(* middle of the list and stops when it absorbs its own start still sees   *)
(* every stretch in full.                                                  *)
FailureIsGenuine ==
  pc = "failed" =>
    \A b \in Blocks, e \in Blocks :
      (b < e /\ \A h \in Blocks : b <= h /\ h < e => stat[h] = "FREE")
        => e - b - 1 < Want

(* A call hands out what was asked for: a block of its own, on the         *)
(* boundary the caller named and large enough.                             *)
AnswerHonoured ==
  [][\A p \in DOMAIN live' \ DOMAIN live :
       /\ p % call.align = 0
       /\ live'[p] = call.n
       /\ nxt'[p - 1] - p >= call.n]_vars

(* No call of the allocator runs for ever, although every join moves the   *)
(* marks by which the search knows it is back at its start.                *)
CallReturns == pc # "idle" ~> pc = "idle"

(* The allocator implements the abstract one.                              *)
Abstract ==
  INSTANCE Allocator WITH Space <- Base .. (Limit - 1), Sizes <- Sizes \cup {0}
ImplementsAllocator == Abstract!Spec

(* "Reallocate a block returned from malloc with new size.  Copy contents  *)
(* to the new block.": when the search for the new block is over, no word  *)
(* that is still to be copied has been overwritten by a header.            *)
ContentsKept ==
  pc = "got" /\ call.op = "realloc"
    => laid \cap (call.mem .. (call.mem + call.keep - 1)) = {}
=============================================================================
