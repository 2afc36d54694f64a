-------------------------------- MODULE Heap --------------------------------
(***************************************************************************)
(* The PROM's storage allocator, libsc/lib/malloc.c.                       *)
(*                                                                         *)
(* The arena malbuf is cut into blocks, each a header (struct block: next, *)
(* stat) followed by its payload.  The headers form one circular,          *)
(* single-linked list in address order, from bblk to eblk and back.  A     *)
(* search starts at the rover cblk, takes the first free block that fits   *)
(* and joins the free blocks it passes; free() joins those that follow the *)
(* freed block.                                                            *)
(*                                                                         *)
(* Addresses and sizes are counted in units of BLOCKSZ, the size of a      *)
(* header and the granularity of ROUNDUP: a request of nbytes is           *)
(* ROUNDUP(nbytes) / BLOCKSZ units.  Each loop iteration of the code is    *)
(* one step; the firmware has one thread and calls do not nest.            *)
(***************************************************************************)
EXTENDS Integers, FiniteSets

CONSTANTS
  Base,      (* unit address of ROUNDUP(malbuf)                            *)
  Limit,     (* unit address of &malbuf[_max_malloc]                       *)
  Sizes,     (* request sizes the callers use, in units, 0 included        *)
  Aligns     (* alignments the callers use, in units                       *)

ASSUME ArenaAssumption ==
  /\ Base \in Nat \ {0}
  /\ Limit \in Nat
  /\ Base + 2 < Limit
ASSUME RequestAssumption ==
  /\ Sizes \subseteq Nat
  /\ Aligns \subseteq Nat \ {0}

NULL == 0

VARIABLES
  nxt,       (* next: the headers on the list, each with its successor     *)
  stat,      (* stat: the status word of each header on the list           *)
  bblk,      (* first block, NULL until the first malloc()                 *)
  eblk,      (* last block                                                 *)
  cblk,      (* the rover: where the next search starts                    *)
  mptr,      (* next unused address of malbuf                              *)
  pc,        (* the step the call in progress is at                        *)
  call,      (* the call in progress and its arguments                     *)
  b1,        (* the traversal pointer of malloc() and free()               *)
  scanned,   (* list_scanned: the search has met its own start             *)
  ret,       (* the value malloc() returns                                 *)
  laid,      (* headers this call's search has laid over former payload    *)
  live       (* what the callers hold: pointer -> size they asked for      *)

listVars == <<nxt, stat, bblk, eblk, cblk, mptr>>
vars == <<nxt, stat, bblk, eblk, cblk, mptr, pc, call, b1, scanned, ret, laid, live>>

Status == {"FREE", "MALLOCED", "BEG", "END"}
Blocks == DOMAIN nxt
Addr == Base .. Limit

Idle == [op |-> "none", n |-> 0, align |-> 1, mem |-> NULL, keep |-> 0]

\* Mutant: align_malloc() asks for no slack.
WantNoSlack == call.n

(* How many units malloc() itself is asked for: align_malloc() asks for    *)
(* nbytes + align.                                                         *)
Want == call.n + IF call.op = "align" THEN call.align ELSE 0

Init ==
  /\ nxt = [b \in {} |-> b] /\ stat = [b \in {} |-> "FREE"]
  /\ bblk = NULL /\ eblk = NULL /\ cblk = NULL /\ mptr = NULL
  /\ pc = "idle" /\ call = Idle /\ b1 = NULL /\ scanned = FALSE
  /\ ret = NULL /\ laid = {} /\ live = [p \in {} |-> 0]

-----------------------------------------------------------------------------
(* The three edits of the list.                                            *)

(* Drop the successor of b: two adjacent blocks become one.                *)
Unlink(b) ==
  [x \in Blocks \ {nxt[b]} |-> IF x = b THEN nxt[nxt[b]] ELSE nxt[x]]

(* Cut block b at h, inside it.                                            *)
Link(b, h) ==
  [x \in Blocks \cup {h} |->
     IF x = h THEN nxt[b] ELSE IF x = b THEN h ELSE nxt[x]]

(* Make h the new end block and the old one an ordinary block.             *)
Extend(h) ==
  [x \in Blocks \cup {h} |->
     IF x = h THEN bblk ELSE IF x = eblk THEN h ELSE nxt[x]]

Mark(S, b, s) == [x \in S |-> IF x = b THEN s ELSE stat[x]]

-----------------------------------------------------------------------------
(* malloc(): the first call makes the list of the two place holders, every *)
(* call starts its search at the rover.                                    *)
Enter ==
  /\ IF bblk = NULL
     THEN /\ nxt' = [b \in {Base, Base + 1} |-> IF b = Base THEN Base + 1 ELSE Base]
          /\ stat' = [b \in {Base, Base + 1} |-> IF b = Base THEN "BEG" ELSE "END"]
          /\ bblk' = Base /\ eblk' = Base + 1 /\ cblk' = Base /\ mptr' = Base + 2
     ELSE UNCHANGED listVars
  /\ b1' = cblk'
  /\ scanned' = FALSE
  /\ pc' = "search"

(* The early returns: the caller gets NULL, or nothing, and no state       *)
(* changes.                                                                *)
Refused == UNCHANGED vars

Malloc(n) ==
  /\ pc = "idle"
  /\ IF n = 0
     THEN Refused
     ELSE /\ Enter
          /\ call' = [Idle EXCEPT !.op = "malloc", !.n = n]
          /\ UNCHANGED <<ret, laid, live>>

PowerOf2(a) == \E k \in 0 .. a : a = 2^k

(* align_malloc(), and dmabuf_malloc() with the cache line as alignment.   *)
AlignMalloc(n, a) ==
  /\ pc = "idle"
  /\ IF ~PowerOf2(a) \/ (a = 1 /\ n = 0)
     THEN Refused
     ELSE /\ Enter
          /\ call' = IF a = 1 THEN [Idle EXCEPT !.op = "malloc", !.n = n]
                     ELSE [Idle EXCEPT !.op = "align", !.n = n, !.align = a]
          /\ UNCHANGED <<ret, laid, live>>

\* Mutant: the search stops at the end of the list instead of going round.
SearchOverAtEnd == nxt[b1] = bblk \/ scanned

(* The list is circular: the search ends when it is back at the rover or   *)
(* has absorbed it.                                                        *)
SearchOver == nxt[b1] = cblk \/ scanned

\* Mutant: the rover follows the traversal pointer.
AdvanceRover ==
  /\ b1' = nxt[b1] /\ cblk' = b1
  /\ pc' = IF SearchOver THEN "grow" ELSE "search"
  /\ UNCHANGED <<nxt, stat, bblk, eblk, mptr, call, scanned, ret, laid, live>>

Advance ==
  /\ b1' = nxt[b1]
  /\ pc' = IF SearchOver THEN "grow" ELSE "search"
  /\ UNCHANGED <<nxt, stat, bblk, eblk, cblk, mptr, call, scanned, ret, laid, live>>

SkipUsed == pc = "search" /\ stat[b1] # "FREE" /\ Advance

\* Mutant: every successor but the end block is taken for free.
NextNotEnd == stat[nxt[b1]] # "END"

NextFree == stat[nxt[b1]] = "FREE"

\* Mutant: the rover is left on the block that was joined away.
LeaveRover == UNCHANGED <<cblk, scanned>>

(* A rover that is joined away moves to the block it became part of.       *)
MoveRover ==
  IF cblk = nxt[b1]
  THEN cblk' = b1 /\ scanned' = TRUE
  ELSE UNCHANGED <<cblk, scanned>>

(* Join the free block that follows.                                       *)
JoinNext ==
  /\ pc = "search"
  /\ stat[b1] = "FREE" /\ NextFree
  /\ nxt' = Unlink(b1)
  /\ stat' = [x \in Blocks \ {nxt[b1]} |-> stat[x]]
  /\ MoveRover
  /\ UNCHANGED <<bblk, eblk, mptr, pc, call, b1, ret, laid, live>>

Joined == pc = "search" /\ stat[b1] = "FREE" /\ ~NextFree

\* Mutant: the header is not counted.
TmpNoHeader == b1 + Want

(* Where the block would end.                                              *)
Tmp == b1 + 1 + Want

SkipSmall == Joined /\ Tmp > nxt[b1] /\ Advance

(* Take the block; what is left over becomes a free block and the rover.   *)
Take ==
  /\ Joined /\ Tmp <= nxt[b1]
  /\ IF Tmp = nxt[b1]
     THEN /\ cblk' = nxt[b1]
          /\ stat' = Mark(Blocks, b1, "MALLOCED")
          /\ UNCHANGED <<nxt, laid>>
     ELSE /\ cblk' = Tmp
          /\ nxt' = Link(b1, Tmp)
          /\ stat' = [x \in Blocks \cup {Tmp} |->
                        IF x = Tmp THEN "FREE"
                        ELSE IF x = b1 THEN "MALLOCED" ELSE stat[x]]
          /\ laid' = laid \cup {Tmp}
  /\ ret' = b1 + 1
  /\ pc' = "got"
  /\ UNCHANGED <<bblk, eblk, mptr, call, b1, scanned, live>>

(* getblock(): the arena ends strictly below &malbuf[_max_malloc].         *)
CanGrow == mptr + Want + 1 < Limit

(* Nothing on the list fits: the end block becomes the new block.          *)
Grow ==
  /\ pc = "grow" /\ CanGrow
  /\ LET e == eblk + 1 + Want IN
       /\ nxt' = Extend(e)
       /\ stat' = [x \in Blocks \cup {e} |->
                     IF x = e THEN "END"
                     ELSE IF x = eblk THEN "MALLOCED" ELSE stat[x]]
       /\ eblk' = e
  /\ mptr' = mptr + Want + 1
  /\ b1' = eblk
  /\ ret' = eblk + 1
  /\ pc' = "got"
  /\ UNCHANGED <<bblk, cblk, call, scanned, laid, live>>

GrowFails ==
  /\ pc = "grow" /\ ~CanGrow
  /\ ret' = NULL
  /\ pc' = "failed"
  /\ UNCHANGED <<nxt, stat, bblk, eblk, cblk, mptr, call, b1, scanned, laid, live>>

-----------------------------------------------------------------------------
(* What the caller of malloc() does with its result.                       *)

Over ==
  /\ pc' = "idle" /\ call' = Idle
  /\ b1' = NULL /\ scanned' = FALSE /\ ret' = NULL /\ laid' = {}

Answer ==
  /\ live' = [q \in DOMAIN live \cup {ret} |-> IF q = ret THEN call.n ELSE live[q]]
  /\ Over

ReturnMalloc == pc = "got" /\ call.op = "malloc" /\ Answer /\ UNCHANGED listVars

(* NULL goes to the caller.  A realloc() that fails here has already freed *)
(* the old block.                                                          *)
ReturnNull ==
  /\ pc = "failed"
  /\ Over
  /\ UNCHANGED <<nxt, stat, bblk, eblk, cblk, mptr, live>>

AlignUp(x, a) == (x + (a - 1)) - ((x + (a - 1)) % a)

\* Mutant: the space in front stays allocated.
FrontKept(h) ==
  [x \in Blocks \cup {h} |-> IF x = h THEN "MALLOCED" ELSE stat[x]]

FrontFreed(h) ==
  [x \in Blocks \cup {h} |->
     IF x = b1 THEN "FREE" ELSE IF x = h THEN "MALLOCED" ELSE stat[x]]

(* align_malloc(): give back the space in front of the aligned address ... *)
CarveFront ==
  /\ pc = "got" /\ call.op = "align"
  /\ LET usr == AlignUp(ret, call.align) IN
       /\ IF usr # ret
          THEN /\ nxt' = Link(b1, usr - 1)
               /\ stat' = FrontFreed(usr - 1)
          ELSE UNCHANGED <<nxt, stat>>
       /\ b1' = usr - 1
       /\ ret' = usr
  /\ pc' = "carve"
  /\ UNCHANGED <<bblk, eblk, cblk, mptr, call, scanned, laid, live>>

(* ... and the space behind the request.                                   *)
CarveBack ==
  /\ pc = "carve"
  /\ LET end == ret + call.n IN
       IF nxt[b1] > end
       THEN /\ nxt' = Link(b1, end)
            /\ stat' = Mark(Blocks \cup {end}, end, "FREE")
       ELSE UNCHANGED <<nxt, stat>>
  /\ Answer
  /\ UNCHANGED <<bblk, eblk, cblk, mptr>>

(* realloc(): move what is kept of the old block, unless it stayed.        *)
ReturnRealloc == pc = "got" /\ call.op = "realloc" /\ Answer /\ UNCHANGED listVars

-----------------------------------------------------------------------------
(* free() of the block whose payload is at p, for a call c.                *)
StartFree(p, c) ==
  /\ stat' = Mark(Blocks, p - 1, "FREE")
  /\ cblk' = p - 1
  /\ b1' = p - 1
  /\ live' = [q \in DOMAIN live \ {p} |-> live[q]]
  /\ call' = c
  /\ pc' = "join"
  /\ UNCHANGED <<nxt, bblk, eblk, mptr, scanned, ret, laid>>

(* A pointer is freed by whoever holds it, or again while its header is    *)
(* still on the list; the status word tells the two apart.                 *)
Pointers == {b + 1 : b \in {x \in Blocks : stat[x] \in {"FREE", "MALLOCED"}}}

Free(p) ==
  /\ pc = "idle"
  /\ IF stat[p - 1] # "MALLOCED"
     THEN Refused
     ELSE StartFree(p, [Idle EXCEPT !.op = "free", !.mem = p])

(* realloc(NULL, n) is malloc(n) and realloc(p, 0) is free(p).             *)
Realloc(p, n) ==
  /\ pc = "idle" /\ n > 0
  /\ IF stat[p - 1] # "MALLOCED"
     THEN Refused
     ELSE LET pbytes == nxt[p - 1] - p IN
          StartFree(p, [op |-> "realloc", n |-> n, align |-> 1, mem |-> p,
                        keep |-> IF n < pbytes THEN n ELSE pbytes])

FreeJoin ==
  /\ pc = "join" /\ NextFree
  /\ nxt' = Unlink(b1)
  /\ stat' = [x \in Blocks \ {nxt[b1]} |-> stat[x]]
  /\ UNCHANGED <<bblk, eblk, cblk, mptr, pc, call, b1, scanned, ret, laid, live>>

FreeDone ==
  /\ pc = "join" /\ ~NextFree
  /\ IF call.op = "realloc"
     THEN Enter /\ UNCHANGED <<call, ret, laid>>
     ELSE Over /\ UNCHANGED listVars
  /\ UNCHANGED live

-----------------------------------------------------------------------------
Call ==
  \/ \E n \in Sizes : Malloc(n)
  \/ \E n \in Sizes, a \in Aligns : AlignMalloc(n, a)
  \/ \E p \in Pointers : Free(p)
  \/ \E p \in Pointers, n \in Sizes : Realloc(p, n)

Step ==
  \/ SkipUsed \/ JoinNext \/ SkipSmall \/ Take \/ Grow \/ GrowFails
  \/ ReturnMalloc \/ ReturnNull \/ CarveFront \/ CarveBack \/ ReturnRealloc
  \/ FreeJoin \/ FreeDone

Next == Call \/ Step

(* The allocator runs to completion once called; nobody has to call it.    *)
Spec == Init /\ [][Next]_vars /\ WF_vars(Step)
=============================================================================
