------------------------------ MODULE HeapProofs ------------------------------
(***************************************************************************)
(* Proofs about the storage allocator for every arena, every set of        *)
(* request sizes and every set of alignments: first that the list and the  *)
(* live blocks stay in order, then that a failure means that no stretch of *)
(* free blocks was large enough and that what is handed out is what was    *)
(* asked for.                                                              *)
(***************************************************************************)
EXTENDS HeapProps, TLAPS

LEMMA Products == \A x, y \in Nat : x * y \in Nat
BY SMT

LEMMA Grows == ASSUME NEW c \in Nat, NEW x \in Int, NEW y \in Int, x <= y PROVE c * x <= c * y
<1>1. y - x \in Nat
  OBVIOUS
<1>2. c * (y - x) \in Nat
  BY <1>1, Products
<1>3. c * (y - x) = c * y - c * x
  BY SMT
<1>. QED BY <1>2, <1>3

(* Division by a block or sector size.                                     *)
LEMMA Divide ==
  ASSUME NEW B \in Nat \ {0}, NEW x \in Nat
  PROVE  /\ x \div B \in Nat /\ (x % B) \in 0 .. B - 1
         /\ x = B * (x \div B) + (x % B)
         /\ B * (x \div B) <= x
<1>1. B \in Nat /\ B > 0
  OBVIOUS
<1>2. x = B * (x \div B) + (x % B)
  BY <1>1, SMT
<1>3. x \div B \in Nat /\ (x % B) \in 0 .. B - 1
  BY <1>1, SMT
<1>4. B * (x \div B) \in Nat
  BY <1>3, Products
<1>. QED BY <1>2, <1>3, <1>4, SMT

LEMMA Quotient ==
  ASSUME NEW B \in Nat \ {0}, NEW x \in Nat, NEW q \in Int, NEW r \in 0 .. B - 1,
         x = B * q + r
  PROVE  x \div B = q
<1>1. B \in Nat /\ B > 0
  OBVIOUS
<1>2. q \in Nat
  <2>1. SUFFICES ASSUME q <= 0 - 1 PROVE FALSE
    BY SMT
  <2>2. B * q <= B * (0 - 1)
    BY <2>1, Grows, SMT
  <2>. QED BY <2>2, SMT
<1>. QED BY <1>1, <1>2, SMT

-----------------------------------------------------------------------------

(* What a call in progress knows about the block it works on.              *)
CallInv ==
  /\ bblk = NULL => pc = "idle"
  /\ pc \in {"got", "carve"} =>
       /\ stat[b1] = "MALLOCED"
       /\ ret = b1 + 1 /\ ret \notin DOMAIN live
       /\ nxt[b1] >= ret + IF pc = "got" THEN Want ELSE call.n
  /\ pc = "join" => stat[b1] = "FREE" /\ cblk = b1

IInv == HeapTypeOK /\ ListInv /\ LiveBacked /\ CallInv

-----------------------------------------------------------------------------
(* The list edits.                                                         *)

(* Cutting a block at an address inside it keeps the tiling.               *)
LEMMA LinkTiles ==
  ASSUME HeapTypeOK, Tiled, bblk # NULL, NEW b \in Blocks \ {eblk},
         NEW h \in Int, b < h, h < nxt[b],
         nxt' = Link(b, h), UNCHANGED <<bblk, eblk, mptr>>
  PROVE  /\ Tiled'
         /\ Blocks' = Blocks \cup {h} /\ h \in Addr /\ h \notin Blocks
         /\ nxt' \in [Blocks' -> Addr]
         /\ nxt'[h] = nxt[b] /\ nxt'[b] = h
         /\ \A x \in Blocks \ {b} : nxt'[x] = nxt[x]
<1> USE ArenaAssumption DEF Addr, NULL, Blocks
<1>1. nxt[b] \in Blocks /\ b \in Int /\ nxt[b] \in Int /\ Blocks \subseteq Int
  BY DEF Tiled, HeapTypeOK
<1>2. h \notin Blocks /\ h \in Addr
  BY <1>1 DEF Tiled, HeapTypeOK
<1>3. Blocks' = Blocks \cup {h}
  BY DEF Link
<1>4. /\ nxt'[h] = nxt[b] /\ nxt'[b] = h
      /\ \A x \in Blocks \ {b} : nxt'[x] = nxt[x]
  BY <1>2, <1>3 DEF Link
<1>5. nxt' \in [Blocks' -> Addr]
  BY <1>2, <1>3, <1>4 DEF HeapTypeOK, Link
<1>6. Tiled'
  BY <1>1, <1>2, <1>3, <1>4 DEF Tiled
<1> QED BY <1>2, <1>3, <1>4, <1>5, <1>6

(* Joining a block with a successor that is not the end keeps the tiling.  *)
LEMMA UnlinkTiles ==
  ASSUME HeapTypeOK, Tiled, bblk # NULL, NEW b \in Blocks \ {eblk},
         nxt[b] # eblk,
         nxt' = Unlink(b), UNCHANGED <<bblk, eblk, mptr>>
  PROVE  /\ Tiled'
         /\ Blocks' = Blocks \ {nxt[b]}
         /\ nxt[b] \in Blocks \ {b, bblk}
         /\ nxt' \in [Blocks' -> Addr]
         /\ nxt'[b] = nxt[nxt[b]] /\ nxt'[b] > nxt[b]
         /\ \A x \in Blocks' \ {b} : nxt'[x] = nxt[x]
<1> USE ArenaAssumption DEF Addr, NULL, Blocks
<1>1. nxt[b] \in Blocks \ {b, bblk} /\ b \in Int /\ nxt[b] \in Int /\ Blocks \subseteq Int
  BY DEF Tiled, HeapTypeOK
<1>2. Blocks' = Blocks \ {nxt[b]}
  BY DEF Unlink
<1>3. /\ nxt'[b] = nxt[nxt[b]] /\ nxt'[b] > nxt[b] /\ nxt'[b] \in Blocks'
      /\ \A x \in Blocks' \ {b} : nxt'[x] = nxt[x]
  BY <1>1, <1>2 DEF Unlink, Tiled
<1>4. nxt' \in [Blocks' -> Addr]
  BY <1>1, <1>2, <1>3 DEF HeapTypeOK, Unlink
<1>5. \A x \in Blocks' \ {eblk} : nxt'[x] \in Blocks' /\ nxt'[x] > x
  BY <1>1, <1>2, <1>3 DEF Tiled
<1>6. ASSUME NEW x \in Blocks' \ {eblk}, NEW h \in Blocks', x < h, h < nxt'[x]
      PROVE  FALSE
  BY <1>1, <1>2, <1>3, <1>6 DEF Tiled
<1>7. Tiled'
  BY <1>1, <1>2, <1>3, <1>5, <1>6 DEF Tiled
<1> QED BY <1>1, <1>2, <1>3, <1>4, <1>7

(* Growing the arena at its end keeps the tiling.                          *)
LEMMA ExtendTiles ==
  ASSUME HeapTypeOK, Tiled, bblk # NULL, NEW e \in Int, e > eblk, e + 1 < Limit,
         nxt' = Extend(e), eblk' = e, mptr' = e + 1, bblk' = bblk
  PROVE  /\ Tiled'
         /\ Blocks' = Blocks \cup {e} /\ e \in Addr /\ e \notin Blocks
         /\ nxt' \in [Blocks' -> Addr]
         /\ nxt'[e] = bblk /\ nxt'[eblk] = e
         /\ \A x \in Blocks \ {eblk} : nxt'[x] = nxt[x]
<1> USE ArenaAssumption DEF Addr, NULL, Blocks
<1>1. Blocks \subseteq Int /\ eblk \in Blocks /\ bblk \in Blocks
  BY DEF Tiled, HeapTypeOK
<1>2. e \notin Blocks /\ e \in Addr
  BY <1>1 DEF Tiled, HeapTypeOK
<1>3. Blocks' = Blocks \cup {e}
  BY DEF Extend
<1>4. /\ nxt'[e] = bblk /\ nxt'[eblk] = e
      /\ \A x \in Blocks \ {eblk} : nxt'[x] = nxt[x]
  BY <1>1, <1>2, <1>3 DEF Extend
<1>5. nxt' \in [Blocks' -> Addr]
  BY <1>1, <1>2, <1>3, <1>4 DEF HeapTypeOK, Extend
<1>6. \A b \in Blocks' : bblk <= b /\ b <= e
  BY <1>1, <1>3 DEF Tiled
<1>7. \A b \in Blocks' \ {e} : nxt'[b] \in Blocks' /\ nxt'[b] > b
  BY <1>1, <1>3, <1>4 DEF Tiled
<1>8. ASSUME NEW b \in Blocks' \ {e}, NEW h \in Blocks', b < h, h < nxt'[b]
      PROVE  FALSE
  <2>1. CASE b = eblk
    BY <1>1, <1>3, <1>4, <1>8, <2>1 DEF Tiled
  <2>2. CASE b # eblk
    BY <1>1, <1>3, <1>4, <1>8, <2>2 DEF Tiled
  <2> QED BY <2>1, <2>2
<1>9. Tiled'
  BY <1>1, <1>3, <1>4, <1>6, <1>7, <1>8 DEF Tiled
<1> QED BY <1>2, <1>3, <1>4, <1>5, <1>9
-----------------------------------------------------------------------------
(* Facts every step of a call starts from.                                 *)
LEMMA Facts ==
  ASSUME IInv
  PROVE  /\ NULL \notin Addr /\ Base \in Addr /\ Base + 1 \in Addr
         /\ Sizes \subseteq Int /\ Aligns \subseteq Int
         /\ call.n \in Sizes \cup {0} /\ call.n \in Int /\ call.n >= 0
         /\ call.align \in Aligns \cup {1} /\ call.align \in Int /\ call.align >= 1
         /\ Want \in Int /\ Want >= 0
         /\ Blocks \subseteq Addr /\ Blocks \subseteq Int
         /\ bblk # NULL => /\ bblk = Base /\ eblk \in Blocks /\ cblk \in Blocks
                           /\ bblk \in Blocks /\ eblk \in Int /\ mptr = eblk + 1
                           /\ \A b \in Blocks \ {eblk} : nxt[b] \in Blocks /\ nxt[b] > b
         /\ bblk = NULL => Blocks = {} /\ DOMAIN live = {} /\ pc = "idle"
<1> USE ArenaAssumption, RequestAssumption DEF Addr, NULL, IInv
<1>a. call.n \in Sizes \cup {0} /\ call.align \in Aligns \cup {1}
  BY DEF HeapTypeOK, Calls
<1>b. /\ \A n \in Sizes \cup {0} : n \in Int /\ n >= 0
      /\ \A a \in Aligns \cup {1} : a \in Int /\ a >= 1
  OBVIOUS
<1>1. /\ call.n \in Sizes \cup {0} /\ call.align \in Aligns \cup {1}
      /\ call.n \in Int /\ call.align \in Int
      /\ Sizes \subseteq Int /\ Aligns \subseteq Int /\ call.n >= 0 /\ call.align >= 1
  BY <1>a, <1>b
<1>2. Want \in Int /\ Want >= 0
  BY <1>1 DEF Want
<1>3. Blocks \subseteq Addr /\ Blocks \subseteq Int
  BY DEF HeapTypeOK
<1>4. bblk # NULL => /\ bblk = Base /\ eblk \in Blocks /\ cblk \in Blocks
                     /\ bblk \in Blocks /\ eblk \in Int /\ mptr = eblk + 1
                     /\ \A b \in Blocks \ {eblk} : nxt[b] \in Blocks /\ nxt[b] > b
  BY <1>3 DEF HeapTypeOK, ListInv, Tiled, OnList
<1>5. bblk = NULL => Blocks = {} /\ DOMAIN live = {} /\ pc = "idle"
  BY DEF ListInv, Tiled, LiveBacked, CallInv
<1>6. NULL \notin Addr /\ Base \in Addr /\ Base + 1 \in Addr
  OBVIOUS
<1> QED BY <1>1, <1>2, <1>3, <1>4, <1>5, <1>6

-----------------------------------------------------------------------------
(* One lemma per step.                                                     *)

LEMMA EnterInv ==
  ASSUME IInv, Enter, call' \in Calls, UNCHANGED <<ret, laid, live>>
  PROVE  IInv'
<1> USE Facts
<1>1. CASE bblk = NULL
  <2>1. /\ Blocks' = {Base, Base + 1} /\ nxt'[Base] = Base + 1 /\ nxt'[Base + 1] = Base
        /\ stat'[Base] = "BEG" /\ stat'[Base + 1] = "END"
        /\ bblk' = Base /\ eblk' = Base + 1 /\ cblk' = Base /\ mptr' = Base + 2
        /\ nxt' \in [Blocks' -> Addr] /\ stat' \in [Blocks' -> Status]
    BY <1>1, ArenaAssumption DEF Enter, Blocks, Addr, Status
  <2>2. b1' = Base /\ scanned' = FALSE /\ pc' = "search"
    BY <2>1 DEF Enter
  <2>a. {eblk', cblk', mptr', b1', ret'} \subseteq Addr \cup {NULL} /\ Blocks' \subseteq Addr
    BY <2>1, <2>2, ArenaAssumption DEF HeapTypeOK, IInv, Addr
  <2>3. HeapTypeOK'
    BY <2>a, <2>1, <2>2 DEF HeapTypeOK, IInv
  <2>4. Tiled'
    BY <1>1, <2>1, ArenaAssumption DEF Tiled, NULL
  <2>5. (PlaceHolders /\ OnList /\ LiveBacked /\ CallInv)'
    BY <1>1, <2>1, <2>2, ArenaAssumption
       DEF PlaceHolders, OnList, LiveBacked, CallInv, NULL
  <2> QED BY <2>3, <2>4, <2>5 DEF IInv, ListInv
<1>2. CASE bblk # NULL
  <2>1. UNCHANGED listVars /\ b1' = cblk /\ scanned' = FALSE /\ pc' = "search"
    BY <1>2 DEF Enter, listVars
  <2>2. HeapTypeOK'
    BY <1>2, <2>1 DEF HeapTypeOK, IInv, listVars, Blocks
  <2>3. (ListInv /\ LiveBacked /\ CallInv)'
    BY <1>2, <2>1 DEF IInv, ListInv, Tiled, PlaceHolders, OnList, LiveBacked, CallInv,
                      listVars, Blocks
  <2> QED BY <2>2, <2>3 DEF IInv
<1> QED BY <1>1, <1>2

LEMMA StartInv ==
  ASSUME IInv,
         \/ \E n \in Sizes : Malloc(n)
         \/ \E n \in Sizes, a \in Aligns : AlignMalloc(n, a)
  PROVE  IInv' \/ UNCHANGED vars
<1>1. ASSUME NEW n \in Sizes, Malloc(n)
      PROVE  IInv' \/ UNCHANGED vars
  <2>1. CASE n = 0
    BY <1>1, <2>1 DEF Malloc, Refused
  <2>2. CASE n # 0
    <3>1. Enter /\ call' = [Idle EXCEPT !.op = "malloc", !.n = n]
          /\ UNCHANGED <<ret, laid, live>>
      BY <1>1, <2>2 DEF Malloc
    <3>2. call' \in Calls
      BY <3>1 DEF Calls, Idle
    <3> QED BY <3>1, <3>2, EnterInv
  <2> QED BY <2>1, <2>2
<1>2. ASSUME NEW n \in Sizes, NEW a \in Aligns, AlignMalloc(n, a)
      PROVE  IInv' \/ UNCHANGED vars
  <2>1. CASE ~PowerOf2(a) \/ (a = 1 /\ n = 0)
    BY <1>2, <2>1 DEF AlignMalloc, Refused
  <2>2. CASE ~(~PowerOf2(a) \/ (a = 1 /\ n = 0))
    <3>1. /\ Enter /\ UNCHANGED <<ret, laid, live>>
          /\ \/ call' = [Idle EXCEPT !.op = "malloc", !.n = n]
             \/ call' = [Idle EXCEPT !.op = "align", !.n = n, !.align = a]
      BY <1>2, <2>2 DEF AlignMalloc
    <3>2. CASE call' = [Idle EXCEPT !.op = "malloc", !.n = n]
      BY <3>1, <3>2, EnterInv DEF Calls, Idle
    <3>3. CASE call' = [Idle EXCEPT !.op = "align", !.n = n, !.align = a]
      BY <3>1, <3>3, EnterInv DEF Calls, Idle
    <3> QED BY <3>1, <3>2, <3>3
  <2> QED BY <2>1, <2>2
<1> QED BY <1>1, <1>2

LEMMA AdvanceInv ==
  ASSUME IInv, pc = "search", Advance
  PROVE  IInv'
<1> USE Facts
<1>1. b1 \in Blocks /\ bblk # NULL
  BY DEF IInv, ListInv, OnList, CallInv
<1>2. nxt[b1] \in Blocks
  BY <1>1 DEF IInv, ListInv, Tiled
<1>3. /\ b1' = nxt[b1] /\ pc' \in {"search", "grow"}
      /\ UNCHANGED <<nxt, stat, bblk, eblk, cblk, mptr, call, scanned, ret, laid, live>>
  BY DEF Advance
<1>4. HeapTypeOK'
  BY <1>1, <1>2, <1>3 DEF HeapTypeOK, IInv, Blocks
<1>5. (ListInv /\ LiveBacked /\ CallInv)'
  BY <1>1, <1>2, <1>3 DEF IInv, ListInv, Tiled, PlaceHolders, OnList, LiveBacked, CallInv, Blocks
<1> QED BY <1>4, <1>5 DEF IInv

(* Joining the block after b1, in malloc() or in free().                   *)
LEMMA UnlinkInv ==
  ASSUME IInv, pc \in {"search", "join"},
         stat[b1] = "FREE", stat[nxt[b1]] = "FREE",
         nxt' = Unlink(b1), stat' = [x \in Blocks \ {nxt[b1]} |-> stat[x]],
         cblk' = (IF cblk = nxt[b1] THEN b1 ELSE cblk), scanned' \in BOOLEAN,
         UNCHANGED <<bblk, eblk, mptr, pc, call, b1, ret, laid, live>>
  PROVE  IInv'
<1> USE Facts
<1>1. b1 \in Blocks \ {eblk} /\ bblk # NULL
  BY DEF IInv, ListInv, OnList, CallInv, PlaceHolders
<1>2. nxt[b1] \in Blocks \ {eblk}
  BY <1>1 DEF IInv, ListInv, Tiled, PlaceHolders
<1>3. /\ Tiled'
      /\ Blocks' = Blocks \ {nxt[b1]}
      /\ nxt[b1] \in Blocks \ {b1, bblk}
      /\ nxt' \in [Blocks' -> Addr]
      /\ nxt'[b1] > nxt[b1]
      /\ \A x \in Blocks' \ {b1} : nxt'[x] = nxt[x]
  BY <1>1, <1>2, UnlinkTiles DEF IInv, ListInv
<1>4. stat' \in [Blocks' -> Status] /\ \A x \in Blocks' : stat'[x] = stat[x]
  BY <1>3 DEF IInv, HeapTypeOK
<1>5. {b1, cblk'} \subseteq Blocks' /\ b1 \in Addr /\ cblk' \in Addr
  BY <1>1, <1>3
<1>6. HeapTypeOK'
  BY <1>3, <1>4, <1>5 DEF IInv, HeapTypeOK
<1>7. (PlaceHolders /\ OnList)'
  BY <1>1, <1>2, <1>3, <1>4, <1>5 DEF IInv, ListInv, PlaceHolders, OnList
<1>8. LiveBacked'
  <2> SUFFICES ASSUME NEW p \in DOMAIN live
               PROVE  p - 1 \in Blocks' /\ stat'[p - 1] = "MALLOCED" /\ nxt'[p - 1] >= p + live[p]
    BY DEF LiveBacked
  <2>1. p - 1 \in Blocks /\ stat[p - 1] = "MALLOCED" /\ nxt[p - 1] >= p + live[p]
    BY DEF IInv, LiveBacked
  <2> QED BY <2>1, <1>3, <1>4
<1>9. CallInv'
  BY <1>1, <1>3, <1>4, <1>5 DEF IInv, CallInv
<1> QED BY <1>3, <1>6, <1>7, <1>8, <1>9 DEF IInv, ListInv

LEMMA JoinInv ==
  ASSUME IInv, JoinNext \/ FreeJoin
  PROVE  IInv'
<1>1. /\ pc \in {"search", "join"}
      /\ stat[b1] = "FREE" /\ stat[nxt[b1]] = "FREE"
      /\ nxt' = Unlink(b1) /\ stat' = [x \in Blocks \ {nxt[b1]} |-> stat[x]]
      /\ UNCHANGED <<bblk, eblk, mptr, pc, call, b1, ret, laid, live>>
  BY DEF JoinNext, FreeJoin, NextFree, IInv, CallInv
<1>2. CASE JoinNext
  BY <1>1, <1>2, UnlinkInv DEF JoinNext, MoveRover, IInv, HeapTypeOK
<1>3. CASE FreeJoin
  <2>1. cblk = b1 /\ b1 \in Blocks \ {eblk} /\ bblk # NULL
    BY <1>3 DEF FreeJoin, IInv, ListInv, OnList, CallInv, PlaceHolders
  <2>2. cblk # nxt[b1]
    BY <2>1, Facts
  <2> QED BY <1>1, <1>3, <2>2, UnlinkInv DEF FreeJoin, IInv, HeapTypeOK
<1> QED BY <1>2, <1>3
LEMMA TakeInv ==
  ASSUME IInv, Take
  PROVE  IInv'
<1> USE Facts
<1>1. b1 \in Blocks \ {eblk} /\ bblk # NULL /\ stat[b1] = "FREE" /\ pc = "search"
  BY DEF IInv, ListInv, OnList, CallInv, PlaceHolders, Take, Joined
<1>2. /\ nxt[b1] \in Blocks /\ nxt[b1] > b1 /\ Tmp \in Int /\ b1 < Tmp /\ Tmp <= nxt[b1]
      /\ Tmp = b1 + 1 + Want
  BY <1>1 DEF Tmp, Take
<1>3. /\ ret' = b1 + 1 /\ pc' = "got"
      /\ UNCHANGED <<bblk, eblk, mptr, call, b1, scanned, live>>
  BY DEF Take
<1>4. b1 + 1 \notin DOMAIN live /\ b1 + 1 \in Addr
  <2>1. \A p \in DOMAIN live : p \in Int /\ stat[p - 1] = "MALLOCED"
    BY DEF IInv, LiveBacked, HeapTypeOK, Addr
  <2>2. b1 \in Int /\ b1 + 1 <= nxt[b1] /\ b1 \in Addr /\ nxt[b1] \in Addr
    BY <1>1, <1>2
  <2>3. b1 + 1 \in Addr
    BY <2>2, ArenaAssumption DEF Addr
  <2>4. (b1 + 1) - 1 = b1
    BY <2>2
  <2> QED BY <1>1, <2>1, <2>3, <2>4
<1>5. /\ Tiled' /\ nxt' \in [Blocks' -> Addr] /\ Blocks \subseteq Blocks' /\ Blocks' \subseteq Addr
      /\ Blocks' \ Blocks \subseteq {Tmp}
      /\ cblk' \in Blocks' /\ nxt'[b1] = Tmp
      /\ \A x \in Blocks \ {b1} : nxt'[x] = nxt[x]
      /\ stat' \in [Blocks' -> Status]
      /\ stat'[b1] = "MALLOCED" /\ \A x \in Blocks \ {b1} : stat'[x] = stat[x]
      /\ \A x \in Blocks' \ Blocks : stat'[x] = "FREE"
      /\ laid' \subseteq Addr
  <2>1. CASE Tmp = nxt[b1]
    <3>1. /\ UNCHANGED <<nxt, laid>> /\ cblk' = nxt[b1]
          /\ stat' = Mark(Blocks, b1, "MALLOCED")
      BY <2>1 DEF Take
    <3>2. Tiled' /\ Blocks' = Blocks /\ nxt' \in [Blocks' -> Addr]
      BY <1>3, <3>1 DEF Tiled, IInv, ListInv, Blocks, HeapTypeOK
    <3>3. /\ stat' \in [Blocks' -> Status] /\ stat'[b1] = "MALLOCED"
          /\ \A x \in Blocks \ {b1} : stat'[x] = stat[x]
      BY <1>1, <3>1, <3>2 DEF Mark, IInv, HeapTypeOK, Status
    <3> QED BY <1>2, <2>1, <3>1, <3>2, <3>3 DEF IInv, HeapTypeOK
  <2>2. CASE Tmp # nxt[b1]
    <3>1. /\ cblk' = Tmp /\ nxt' = Link(b1, Tmp) /\ laid' = laid \cup {Tmp}
          /\ stat' = [x \in Blocks \cup {Tmp} |->
                        IF x = Tmp THEN "FREE"
                        ELSE IF x = b1 THEN "MALLOCED" ELSE stat[x]]
      BY <2>2 DEF Take
    <3>2. /\ Tiled' /\ Blocks' = Blocks \cup {Tmp} /\ Tmp \in Addr /\ Tmp \notin Blocks
          /\ nxt' \in [Blocks' -> Addr] /\ nxt'[b1] = Tmp
          /\ \A x \in Blocks \ {b1} : nxt'[x] = nxt[x]
      BY <1>1, <1>2, <1>3, <2>2, <3>1, LinkTiles DEF IInv, ListInv
    <3>3. /\ stat' \in [Blocks' -> Status] /\ stat'[b1] = "MALLOCED" /\ stat'[Tmp] = "FREE"
          /\ \A x \in Blocks \ {b1} : stat'[x] = stat[x]
      BY <1>1, <3>1, <3>2 DEF IInv, HeapTypeOK, Status
    <3> QED BY <3>1, <3>2, <3>3 DEF IInv, HeapTypeOK
  <2> QED BY <2>1, <2>2
<1>6. HeapTypeOK'
  BY <1>1, <1>3, <1>4, <1>5 DEF IInv, HeapTypeOK
<1>7. (PlaceHolders /\ OnList)'
  BY <1>1, <1>3, <1>5 DEF IInv, ListInv, PlaceHolders, OnList
<1>8. LiveBacked'
  <2> SUFFICES ASSUME NEW p \in DOMAIN live
               PROVE  p - 1 \in Blocks' /\ stat'[p - 1] = "MALLOCED" /\ nxt'[p - 1] >= p + live[p]
    BY <1>3 DEF LiveBacked
  <2>1. p - 1 \in Blocks /\ stat[p - 1] = "MALLOCED" /\ nxt[p - 1] >= p + live[p]
    BY DEF IInv, LiveBacked
  <2> QED BY <2>1, <1>1, <1>5
<1>9. CallInv'
  BY <1>1, <1>2, <1>3, <1>4, <1>5 DEF IInv, CallInv, Want
<1> QED BY <1>5, <1>6, <1>7, <1>8, <1>9 DEF IInv, ListInv

LEMMA GrowInv ==
  ASSUME IInv, Grow
  PROVE  IInv'
<1> USE Facts
<1> DEFINE e == eblk + 1 + Want
<1>1. bblk # NULL /\ pc = "grow"
  BY DEF IInv, CallInv, Grow
<1>2. /\ e \in Int /\ e > eblk /\ e + 1 < Limit
      /\ nxt' = Extend(e) /\ eblk' = e /\ mptr' = e + 1 /\ bblk' = bblk
      /\ stat' = [x \in Blocks \cup {e} |->
                    IF x = e THEN "END"
                    ELSE IF x = eblk THEN "MALLOCED" ELSE stat[x]]
      /\ b1' = eblk /\ ret' = eblk + 1 /\ pc' = "got"
      /\ UNCHANGED <<cblk, call, scanned, laid, live>>
  BY <1>1, ArenaAssumption DEF Grow, CanGrow
<1>3. /\ Tiled' /\ Blocks' = Blocks \cup {e} /\ e \in Addr /\ e \notin Blocks
      /\ nxt' \in [Blocks' -> Addr] /\ nxt'[eblk] = e
      /\ \A x \in Blocks \ {eblk} : nxt'[x] = nxt[x]
  <2> HIDE DEF e
  <2> QED BY <1>1, <1>2, ExtendTiles DEF IInv, ListInv
<1>4. /\ stat' \in [Blocks' -> Status] /\ stat'[e] = "END" /\ stat'[eblk] = "MALLOCED"
      /\ \A x \in Blocks \ {eblk} : stat'[x] = stat[x]
  <2> HIDE DEF e
  <2> QED BY <1>1, <1>2, <1>3 DEF IInv, HeapTypeOK, Status
<1>5. eblk + 1 \in Addr /\ e + 1 \in Addr /\ eblk + 1 \notin DOMAIN live
  <2>1. \A p \in DOMAIN live : p \in Int /\ stat[p - 1] = "MALLOCED"
    BY DEF IInv, LiveBacked, HeapTypeOK, Addr
  <2>2. stat[eblk] = "END"
    BY <1>1 DEF IInv, ListInv, PlaceHolders
  <2>3. eblk \in Addr
    BY <1>1
  <2>4. eblk + 1 \notin DOMAIN live
    BY <1>1, <2>1, <2>2
  <2> QED BY <1>1, <1>2, <2>3, <2>4, ArenaAssumption DEF Addr
<1> HIDE DEF e
<1>6. HeapTypeOK'
  BY <1>1, <1>2, <1>3, <1>4, <1>5 DEF IInv, HeapTypeOK
<1>7. (PlaceHolders /\ OnList)'
  BY <1>1, <1>2, <1>3, <1>4 DEF IInv, ListInv, PlaceHolders, OnList
<1>8. LiveBacked'
  <2> SUFFICES ASSUME NEW p \in DOMAIN live
               PROVE  p - 1 \in Blocks' /\ stat'[p - 1] = "MALLOCED" /\ nxt'[p - 1] >= p + live[p]
    BY <1>2 DEF LiveBacked
  <2>1. p - 1 \in Blocks /\ stat[p - 1] = "MALLOCED" /\ nxt[p - 1] >= p + live[p]
    BY DEF IInv, LiveBacked
  <2>2. p - 1 # eblk
    BY <1>1, <2>1 DEF IInv, ListInv, PlaceHolders
  <2> QED BY <2>1, <2>2, <1>3, <1>4
<1>9. CallInv'
  BY <1>1, <1>2, <1>3, <1>4, <1>5 DEF IInv, CallInv, Want, e
<1> QED BY <1>3, <1>6, <1>7, <1>8, <1>9 DEF IInv, ListInv
(* The answer's alignment is reached inside the block.                     *)
LEMMA AlignUpFits ==
  ASSUME NEW x \in Int, NEW a \in Int, a >= 1
  PROVE  AlignUp(x, a) \in Int /\ x <= AlignUp(x, a) /\ AlignUp(x, a) <= x + a - 1
<1> DEFINE m == x + (a - 1)
<1>1. m \in Int /\ m % a \in 0 .. (a - 1)
  OBVIOUS
<1>2. AlignUp(x, a) = m - (m % a)
  BY DEF AlignUp
<1> HIDE DEF m
<1>3. AlignUp(x, a) \in Int /\ m - (a - 1) <= AlignUp(x, a) /\ AlignUp(x, a) <= m
  BY <1>1, <1>2
<1> QED BY <1>1, <1>3 DEF m

LEMMA CarveFrontInv ==
  ASSUME IInv, CarveFront
  PROVE  IInv'
<1> USE Facts
<1> DEFINE usr == AlignUp(ret, call.align)
<1>1. /\ bblk # NULL /\ b1 \in Blocks /\ stat[b1] = "MALLOCED" /\ pc = "got"
      /\ ret = b1 + 1 /\ ret \notin DOMAIN live /\ nxt[b1] >= ret + call.n + call.align
      /\ call.op = "align"
  BY DEF IInv, ListInv, OnList, CallInv, CarveFront, Want
<1>2. b1 # eblk /\ b1 \in Int /\ nxt[b1] \in Blocks /\ nxt[b1] \in Int
  BY <1>1 DEF IInv, ListInv, PlaceHolders
<1>3. usr \in Int /\ ret <= usr /\ usr <= ret + call.align - 1
  <2>1. ret \in Int /\ call.align \in Int /\ call.align >= 1
    BY <1>1, <1>2
  <2> HIDE Facts
  <2> QED BY <2>1, AlignUpFits
<1>4. /\ b1' = usr - 1 /\ ret' = usr /\ pc' = "carve"
      /\ UNCHANGED <<bblk, eblk, cblk, mptr, call, scanned, laid, live>>
      /\ usr = ret => UNCHANGED <<nxt, stat>>
      /\ usr # ret => /\ nxt' = Link(b1, usr - 1)
                      /\ stat' = [x \in Blocks \cup {usr - 1} |->
                                    IF x = b1 THEN "FREE"
                                    ELSE IF x = usr - 1 THEN "MALLOCED" ELSE stat[x]]
  BY DEF CarveFront, FrontFreed
<1> HIDE DEF usr
<1>5. CASE usr = ret
  <2>1. b1' = b1 /\ ret' = ret /\ UNCHANGED <<nxt, stat>>
    BY <1>1, <1>2, <1>4, <1>5
  <2>2. HeapTypeOK'
    BY <1>4, <2>1 DEF IInv, HeapTypeOK, Blocks
  <2>3. (ListInv /\ LiveBacked /\ CallInv)'
    BY <1>1, <1>2, <1>4, <2>1
       DEF IInv, ListInv, Tiled, PlaceHolders, OnList, LiveBacked, CallInv, Blocks, NULL
  <2> QED BY <2>2, <2>3 DEF IInv
<1>6. CASE usr # ret
  <2> DEFINE h == usr - 1
  <2>1. h \in Int /\ b1 < h /\ h < nxt[b1] /\ nxt[b1] >= usr + call.n
    BY <1>1, <1>2, <1>3, <1>6
  <2>2. /\ nxt' = Link(b1, h) /\ b1' = h /\ usr = h + 1 /\ usr - 1 = h
        /\ stat' = [x \in Blocks \cup {h} |->
                      IF x = b1 THEN "FREE"
                      ELSE IF x = h THEN "MALLOCED" ELSE stat[x]]
    BY <1>3, <1>4, <1>6
  <2> HIDE DEF h
  <2>3. /\ Tiled' /\ Blocks' = Blocks \cup {h} /\ h \in Addr /\ h \notin Blocks
        /\ nxt' \in [Blocks' -> Addr] /\ nxt'[b1] = h /\ nxt'[h] = nxt[b1]
        /\ \A x \in Blocks \ {b1} : nxt'[x] = nxt[x]
    BY <1>1, <1>2, <1>4, <2>1, <2>2, LinkTiles DEF IInv, ListInv
  <2>4. /\ stat' \in [Blocks' -> Status] /\ stat'[b1] = "FREE" /\ stat'[h] = "MALLOCED"
        /\ \A x \in Blocks \ {b1} : stat'[x] = stat[x]
    BY <1>1, <2>2, <2>3 DEF IInv, HeapTypeOK, Status
  <2>5. usr \in Addr /\ usr \notin DOMAIN live
    <3>1. \A p \in DOMAIN live : p - 1 \in Blocks
      BY DEF IInv, LiveBacked
    <3>2. usr \notin DOMAIN live
      BY <2>2, <2>3, <3>1
    <3> QED BY <1>1, <1>2, <2>1, <2>2, <2>3, <3>2, ArenaAssumption DEF Addr
  <2>6. HeapTypeOK'
    BY <1>4, <2>2, <2>3, <2>4, <2>5 DEF IInv, HeapTypeOK
  <2>7. (PlaceHolders /\ OnList)'
    BY <1>1, <1>2, <1>4, <2>1, <2>2, <2>3, <2>4 DEF IInv, ListInv, PlaceHolders, OnList
  <2>8. LiveBacked'
    <3> SUFFICES ASSUME NEW p \in DOMAIN live
                 PROVE  p - 1 \in Blocks' /\ stat'[p - 1] = "MALLOCED" /\ nxt'[p - 1] >= p + live[p]
      BY <1>4 DEF LiveBacked
    <3>1. p - 1 \in Blocks /\ stat[p - 1] = "MALLOCED" /\ nxt[p - 1] >= p + live[p] /\ p \in Int
      BY DEF IInv, LiveBacked, HeapTypeOK, Addr
    <3>2. p - 1 # b1
      BY <1>1, <1>2, <3>1
    <3> QED BY <3>1, <3>2, <2>3, <2>4
  <2>9. CallInv'
    BY <1>1, <1>4, <2>1, <2>2, <2>3, <2>4, <2>5 DEF IInv, CallInv, NULL
  <2> QED BY <2>3, <2>6, <2>7, <2>8, <2>9 DEF IInv, ListInv
<1> QED BY <1>5, <1>6

(* Handing the block at b1 to the caller.                                  *)
LEMMA AnswerInv ==
  ASSUME HeapTypeOK, ListInv, LiveBacked, bblk # NULL,
         pc \in {"got", "carve"}, Answer, UNCHANGED <<bblk, eblk, cblk, mptr>>,
         ListInv', Blocks \subseteq Blocks', nxt' \in [Blocks' -> Addr],
         stat' \in [Blocks' -> Status], Blocks' \subseteq Addr,
         \A x \in Blocks \ {b1} : nxt'[x] = nxt[x] /\ stat'[x] = stat[x],
         ret = b1 + 1, ret \notin DOMAIN live, stat'[b1] = "MALLOCED",
         nxt'[b1] >= ret + call.n, b1 \in Blocks
  PROVE  IInv'
<1>1. /\ live' = [q \in DOMAIN live \cup {ret} |-> IF q = ret THEN call.n ELSE live[q]]
      /\ pc' = "idle" /\ call' = Idle /\ b1' = NULL /\ scanned' = FALSE /\ ret' = NULL
      /\ laid' = {}
  BY DEF Answer, Over
<1>2. call.n \in Sizes \cup {0} /\ ret \in Addr /\ b1 \in Int /\ b1 # NULL
  BY ArenaAssumption DEF HeapTypeOK, Calls, Addr, NULL
<1>3. call' \in Calls
  BY <1>1 DEF Calls, Idle
<1>4. HeapTypeOK'
  BY <1>1, <1>2, <1>3 DEF HeapTypeOK
<1>5. LiveBacked'
  <2> SUFFICES ASSUME NEW p \in DOMAIN live'
               PROVE  p - 1 \in Blocks' /\ stat'[p - 1] = "MALLOCED" /\ nxt'[p - 1] >= p + live'[p]
    BY DEF LiveBacked
  <2>1. CASE p = ret
    BY <1>1, <1>2, <2>1
  <2>2. CASE p # ret
    <3>1. p \in DOMAIN live /\ p \in Int /\ live'[p] = live[p]
      BY <1>1, <2>2 DEF HeapTypeOK, Addr
    <3>2. p - 1 \in Blocks /\ stat[p - 1] = "MALLOCED" /\ nxt[p - 1] >= p + live[p] /\ p - 1 # b1
      BY <1>2, <2>2, <3>1 DEF LiveBacked
    <3> QED BY <3>1, <3>2
  <2> QED BY <2>1, <2>2
<1>6. CallInv'
  BY <1>1 DEF CallInv
<1> QED BY <1>4, <1>5, <1>6 DEF IInv

LEMMA ReturnInv ==
  ASSUME IInv, ReturnMalloc \/ ReturnRealloc
  PROVE  IInv'
<1> USE Facts
<1>1. /\ pc = "got" /\ Answer /\ UNCHANGED listVars /\ call.op # "align"
      /\ bblk # NULL /\ b1 \in Blocks /\ stat[b1] = "MALLOCED"
      /\ ret = b1 + 1 /\ ret \notin DOMAIN live /\ nxt[b1] >= ret + call.n
  BY DEF IInv, ListInv, OnList, CallInv, ReturnMalloc, ReturnRealloc, Want
<1>2. ListInv'
  BY <1>1 DEF IInv, ListInv, Tiled, PlaceHolders, OnList, listVars, Blocks, Answer, Over
<1>3. UNCHANGED <<bblk, eblk, cblk, mptr, nxt, stat>> /\ Blocks' = Blocks
  BY <1>1 DEF listVars, Blocks
<1>4. nxt' \in [Blocks' -> Addr] /\ stat' \in [Blocks' -> Status] /\ Blocks' \subseteq Addr
  BY <1>3 DEF IInv, HeapTypeOK
<1> QED BY <1>1, <1>2, <1>3, <1>4, AnswerInv DEF IInv

LEMMA CarveBackInv ==
  ASSUME IInv, CarveBack
  PROVE  IInv'
<1> USE Facts
<1> DEFINE end == ret + call.n
<1>1. /\ bblk # NULL /\ b1 \in Blocks /\ stat[b1] = "MALLOCED" /\ pc = "carve"
      /\ ret = b1 + 1 /\ ret \notin DOMAIN live /\ nxt[b1] >= end /\ Answer
      /\ UNCHANGED <<bblk, eblk, cblk, mptr>>
  BY DEF IInv, ListInv, OnList, CallInv, CarveBack
<1>2. b1 # eblk /\ b1 \in Int /\ nxt[b1] \in Blocks /\ nxt[b1] \in Int /\ end \in Int /\ b1 < end
  BY <1>1 DEF IInv, ListInv, PlaceHolders
<1>3. /\ nxt[b1] > end => nxt' = Link(b1, end) /\ stat' = Mark(Blocks \cup {end}, end, "FREE")
      /\ ~(nxt[b1] > end) => UNCHANGED <<nxt, stat>>
  BY DEF CarveBack
<1>4. pc' = "idle"
  BY <1>1 DEF Answer, Over
<1> HIDE DEF end
<1>5. CASE nxt[b1] > end
  <2>1. /\ Tiled' /\ Blocks' = Blocks \cup {end} /\ end \in Addr /\ end \notin Blocks
        /\ nxt' \in [Blocks' -> Addr] /\ nxt'[b1] = end
        /\ \A x \in Blocks \ {b1} : nxt'[x] = nxt[x]
    BY <1>1, <1>2, <1>3, <1>5, LinkTiles DEF IInv, ListInv
  <2>2. /\ stat' \in [Blocks' -> Status] /\ stat'[end] = "FREE"
        /\ \A x \in Blocks : stat'[x] = stat[x]
    BY <1>3, <1>5, <2>1 DEF IInv, HeapTypeOK, Status, Mark
  <2>3. (PlaceHolders /\ OnList)'
    BY <1>1, <1>4, <2>1, <2>2 DEF IInv, ListInv, PlaceHolders, OnList
  <2>4. nxt'[b1] >= ret + call.n
    BY <1>2, <2>1 DEF end
  <2>5. Blocks \subseteq Blocks' /\ Blocks' \subseteq Addr /\ ListInv' /\ stat'[b1] = "MALLOCED"
    BY <1>1, <2>1, <2>2, <2>3 DEF ListInv
  <2> QED BY <1>1, <2>1, <2>2, <2>4, <2>5, AnswerInv DEF IInv
<1>6. CASE ~(nxt[b1] > end)
  <2>1. UNCHANGED <<nxt, stat>> /\ Blocks' = Blocks
    BY <1>3, <1>6 DEF Blocks
  <2>2. nxt' \in [Blocks' -> Addr] /\ stat' \in [Blocks' -> Status] /\ Blocks' \subseteq Addr
    BY <2>1 DEF IInv, HeapTypeOK
  <2>3. ListInv'
    BY <1>1, <1>4, <2>1 DEF IInv, ListInv, Tiled, PlaceHolders, OnList
  <2>4. nxt'[b1] >= ret + call.n
    BY <1>1, <2>1 DEF end
  <2> QED BY <1>1, <2>1, <2>2, <2>3, <2>4, AnswerInv DEF IInv
<1> QED BY <1>5, <1>6
LEMMA GiveUpInv ==
  ASSUME IInv, GrowFails \/ ReturnNull
  PROVE  IInv'
<1> USE Facts
<1>1. CASE GrowFails
  <2>1. /\ ret' = NULL /\ pc' = "failed" /\ pc = "grow"
        /\ UNCHANGED <<nxt, stat, bblk, eblk, cblk, mptr, call, b1, scanned, laid, live>>
    BY <1>1 DEF GrowFails
  <2>2. HeapTypeOK'
    BY <2>1 DEF IInv, HeapTypeOK, Blocks
  <2>3. (ListInv /\ LiveBacked /\ CallInv)'
    BY <2>1 DEF IInv, ListInv, Tiled, PlaceHolders, OnList, LiveBacked, CallInv, Blocks
  <2> QED BY <2>2, <2>3 DEF IInv
<1>2. CASE ReturnNull
  <2>1. /\ ret' = NULL /\ pc' = "idle" /\ call' = Idle /\ b1' = NULL /\ scanned' = FALSE
        /\ laid' = {}
        /\ UNCHANGED <<nxt, stat, bblk, eblk, cblk, mptr, live>>
    BY <1>2 DEF ReturnNull, Over
  <2>2. call' \in Calls
    BY <2>1 DEF Calls, Idle
  <2>3. HeapTypeOK'
    BY <2>1, <2>2 DEF IInv, HeapTypeOK, Blocks
  <2>4. (ListInv /\ LiveBacked /\ CallInv)'
    BY <2>1 DEF IInv, ListInv, Tiled, PlaceHolders, OnList, LiveBacked, CallInv, Blocks
  <2> QED BY <2>3, <2>4 DEF IInv
<1> QED BY <1>1, <1>2

(* free() marks the block and starts to join at it.                        *)
LEMMA StartFreeInv ==
  ASSUME IInv, pc = "idle", NEW b \in Blocks, stat[b] = "MALLOCED",
         NEW c \in Calls, StartFree(b + 1, c)
  PROVE  IInv'
<1> USE Facts
<1>1. bblk # NULL /\ b \in Int /\ b \in Addr /\ (b + 1) - 1 = b
  OBVIOUS
<1>2. /\ stat' = Mark(Blocks, b, "FREE") /\ cblk' = b /\ b1' = b
      /\ live' = [q \in DOMAIN live \ {b + 1} |-> live[q]]
      /\ call' = c /\ pc' = "join"
      /\ UNCHANGED <<nxt, bblk, eblk, mptr, scanned, ret, laid>>
  BY <1>1 DEF StartFree
<1>3. Blocks' = Blocks /\ stat' \in [Blocks -> Status] /\ stat'[b] = "FREE"
      /\ \A x \in Blocks \ {b} : stat'[x] = stat[x]
  BY <1>2 DEF IInv, HeapTypeOK, Mark, Blocks, Status
<1>4. HeapTypeOK'
  BY <1>1, <1>2, <1>3 DEF IInv, HeapTypeOK
<1>5. ListInv'
  BY <1>1, <1>2, <1>3 DEF IInv, ListInv, Tiled, PlaceHolders, OnList
<1>6. LiveBacked'
  <2> SUFFICES ASSUME NEW p \in DOMAIN live'
               PROVE  p - 1 \in Blocks' /\ stat'[p - 1] = "MALLOCED" /\ nxt'[p - 1] >= p + live'[p]
    BY DEF LiveBacked
  <2>1. p \in DOMAIN live /\ p # b + 1 /\ p \in Int /\ live'[p] = live[p]
    BY <1>2 DEF IInv, HeapTypeOK, Addr
  <2>2. p - 1 \in Blocks /\ stat[p - 1] = "MALLOCED" /\ nxt[p - 1] >= p + live[p] /\ p - 1 # b
    BY <1>1, <2>1 DEF IInv, LiveBacked
  <2> QED BY <1>2, <1>3, <2>1, <2>2
<1>7. CallInv'
  BY <1>1, <1>2, <1>3 DEF CallInv
<1> QED BY <1>4, <1>5, <1>6, <1>7 DEF IInv

LEMMA FreeInv ==
  ASSUME IInv,
         \/ \E p \in Pointers : Free(p)
         \/ \E p \in Pointers, n \in Sizes : Realloc(p, n)
  PROVE  IInv' \/ UNCHANGED vars
<1> USE Facts
<1>1. \A p \in Pointers : p - 1 \in Blocks /\ p = (p - 1) + 1 /\ p \in Int
  BY DEF Pointers
<1>2. ASSUME NEW p \in Pointers, Free(p)
      PROVE  IInv' \/ UNCHANGED vars
  <2> DEFINE c == [Idle EXCEPT !.op = "free", !.mem = p]
  <2>1. CASE stat[p - 1] # "MALLOCED"
    BY <1>2, <2>1 DEF Free, Refused
  <2>2. CASE stat[p - 1] = "MALLOCED"
    <3>1. pc = "idle" /\ StartFree((p - 1) + 1, c)
      BY <1>1, <1>2, <2>2 DEF Free
    <3>2. p \in Addr
      <4>1. /\ bblk # NULL /\ p - 1 \in Blocks \ {eblk} /\ nxt[p - 1] \in Addr
            /\ nxt[p - 1] > p - 1 /\ p - 1 \in Addr
        BY <1>1, <2>2 DEF IInv, ListInv, PlaceHolders
      <4> QED BY <1>1, <4>1, ArenaAssumption DEF Addr
    <3>3. c \in Calls
      BY <3>2 DEF Calls, Idle
    <3> QED BY <1>1, <2>2, <3>1, <3>3, StartFreeInv
  <2> QED BY <2>1, <2>2
<1>3. ASSUME NEW p \in Pointers, NEW n \in Sizes, Realloc(p, n)
      PROVE  IInv' \/ UNCHANGED vars
  <2> DEFINE k == IF n < nxt[p - 1] - p THEN n ELSE nxt[p - 1] - p
             c == [op |-> "realloc", n |-> n, align |-> 1, mem |-> p, keep |-> k]
  <2>1. CASE stat[p - 1] # "MALLOCED"
    BY <1>3, <2>1 DEF Realloc, Refused
  <2>2. CASE stat[p - 1] = "MALLOCED"
    <3>1. pc = "idle" /\ StartFree((p - 1) + 1, c)
      BY <1>1, <1>3, <2>2 DEF Realloc
    <3>2. /\ bblk # NULL /\ p - 1 \in Blocks \ {eblk} /\ nxt[p - 1] \in Addr
          /\ nxt[p - 1] > p - 1 /\ p - 1 \in Addr /\ nxt[p - 1] \in Int
      BY <1>1, <2>2 DEF IInv, ListInv, PlaceHolders
    <3>3. p \in Addr /\ k \in Nat
      <4>1. p \in Int /\ nxt[p - 1] \in Int /\ nxt[p - 1] - p >= 0 /\ n \in Nat
        BY <1>1, <3>2, RequestAssumption
      <4>2. p \in Addr
        BY <4>1, <3>2, ArenaAssumption DEF Addr
      <4>3. k \in Nat
        BY <4>1
      <4> QED BY <4>2, <4>3
    <3> HIDE DEF k
    <3>4. c \in Calls
      BY <3>3 DEF Calls
    <3> QED BY <1>1, <2>2, <3>1, <3>4, StartFreeInv
  <2> QED BY <2>1, <2>2
<1> QED BY <1>2, <1>3

LEMMA FreeDoneInv ==
  ASSUME IInv, FreeDone
  PROVE  IInv'
<1> USE Facts
<1>1. CASE call.op = "realloc"
  <2>1. Enter /\ UNCHANGED <<call, ret, laid, live>>
    BY <1>1 DEF FreeDone
  <2>2. call' \in Calls
    BY <2>1 DEF IInv, HeapTypeOK
  <2> QED BY <2>1, <2>2, EnterInv
<1>2. CASE call.op # "realloc"
  <2>1. Over /\ UNCHANGED listVars /\ UNCHANGED live
    BY <1>2 DEF FreeDone
  <2>2. /\ ret' = NULL /\ pc' = "idle" /\ call' = Idle /\ b1' = NULL /\ scanned' = FALSE
        /\ laid' = {}
        /\ UNCHANGED <<nxt, stat, bblk, eblk, cblk, mptr, live>>
    BY <2>1 DEF Over, listVars
  <2>3. call' \in Calls
    BY <2>2 DEF Calls, Idle
  <2>4. HeapTypeOK'
    BY <2>2, <2>3 DEF IInv, HeapTypeOK, Blocks
  <2>5. (ListInv /\ LiveBacked /\ CallInv)'
    BY <2>2 DEF IInv, ListInv, Tiled, PlaceHolders, OnList, LiveBacked, CallInv, Blocks
  <2> QED BY <2>4, <2>5 DEF IInv
<1> QED BY <1>1, <1>2

LEMMA StutterInv == IInv /\ UNCHANGED vars => IInv'
BY DEF vars, IInv, HeapTypeOK, ListInv, Tiled, PlaceHolders, OnList, LiveBacked, CallInv, Blocks, Want

LEMMA InitInv == Init => IInv
<1> SUFFICES ASSUME Init PROVE IInv
  OBVIOUS
<1>1. Blocks = {} /\ DOMAIN live = {} /\ call = Idle /\ pc = "idle" /\ bblk = NULL
  BY DEF Init, Blocks
<1>2. call \in Calls
  BY <1>1 DEF Calls, Idle
<1>3. HeapTypeOK
  BY <1>1, <1>2 DEF Init, HeapTypeOK
<1>4. ListInv /\ LiveBacked /\ CallInv
  BY <1>1 DEF ListInv, Tiled, PlaceHolders, OnList, LiveBacked, CallInv
<1> QED BY <1>3, <1>4 DEF IInv

LEMMA NextInv == IInv /\ [Next]_vars => IInv'
<1> SUFFICES ASSUME IInv, [Next]_vars PROVE IInv'
  OBVIOUS
<1>1. CASE Call
  BY <1>1, StartInv, FreeInv, StutterInv DEF Call
<1>2. CASE SkipUsed \/ SkipSmall
  BY <1>2, AdvanceInv DEF SkipUsed, SkipSmall, Joined
<1>3. CASE JoinNext \/ FreeJoin
  BY <1>3, JoinInv
<1>4. CASE Take
  BY <1>4, TakeInv
<1>5. CASE Grow
  BY <1>5, GrowInv
<1>6. CASE GrowFails \/ ReturnNull
  BY <1>6, GiveUpInv
<1>7. CASE ReturnMalloc \/ ReturnRealloc
  BY <1>7, ReturnInv
<1>8. CASE CarveFront
  BY <1>8, CarveFrontInv
<1>9. CASE CarveBack
  BY <1>9, CarveBackInv
<1>10. CASE FreeDone
  BY <1>10, FreeDoneInv
<1>11. CASE UNCHANGED vars
  BY <1>11, StutterInv
<1> QED BY <1>1, <1>2, <1>3, <1>4, <1>5, <1>6, <1>7, <1>8, <1>9, <1>10, <1>11
        DEF Next, Step

-----------------------------------------------------------------------------
(* The invariant holds of every state of every call.                       *)
THEOREM Invariance == Spec => []IInv
BY InitInv, NextInv, PTL DEF Spec

(* Every variable keeps its type.                                          *)
THEOREM TypeCorrect == Spec => []HeapTypeOK
<1>1. IInv => HeapTypeOK
  BY DEF IInv
<1> QED BY <1>1, Invariance, PTL

(* The list always tiles the arena between its place holders, with the     *)
(* rover and the traversal pointer on it.                                  *)
THEOREM ListCorrect == Spec => []ListInv
<1>1. IInv => ListInv
  BY DEF IInv
<1> QED BY <1>1, Invariance, PTL

(* Whatever a caller holds is backed by a malloced block of its own.       *)
THEOREM CallersAreBacked == Spec => []LiveBacked
<1>1. IInv => LiveBacked
  BY DEF IInv
<1> QED BY <1>1, Invariance, PTL
-----------------------------------------------------------------------------
(* Refinement: the callers' regions evolve as the abstract allocator says. *)

LEMMA AnswerRefines ==
  ASSUME IInv, pc \in {"got", "carve"}, Answer, nxt[b1] >= ret + call.n
  PROVE  Abstract!Alloc(ret, call.n)
<1> USE Facts
<1>1. /\ bblk # NULL /\ b1 \in Blocks /\ b1 # eblk /\ ret = b1 + 1 /\ ret \notin DOMAIN live
      /\ stat[b1] = "MALLOCED" /\ b1 \in Int /\ nxt[b1] \in Blocks /\ nxt[b1] \in Int
  BY DEF IInv, ListInv, OnList, CallInv, PlaceHolders
<1>2. Base <= b1 /\ nxt[b1] <= eblk /\ eblk + 1 < Limit /\ Limit \in Int /\ Base \in Int
  BY <1>1, ArenaAssumption DEF IInv, ListInv, Tiled
<1>0. call.n \in Nat /\ ret \in Int
  BY <1>1, RequestAssumption DEF IInv, HeapTypeOK, Calls
<1>3. ret \in Base .. (Limit - 1) /\ ret .. (ret + call.n - 1) \subseteq Base .. (Limit - 1)
  BY <1>1, <1>2
<1>4. ASSUME NEW q \in DOMAIN live
      PROVE  (q .. (q + live[q] - 1)) \cap (ret .. (ret + call.n - 1)) = {}
  <2>1. /\ q \in Int /\ live[q] \in Int /\ q - 1 \in Blocks /\ nxt[q - 1] >= q + live[q]
        /\ q - 1 # b1 /\ stat[q - 1] = "MALLOCED"
    <3>1. q \in Int /\ live[q] \in Int
      BY RequestAssumption DEF IInv, HeapTypeOK, Addr
    <3>2. q - 1 \in Blocks /\ nxt[q - 1] >= q + live[q] /\ stat[q - 1] = "MALLOCED"
      BY DEF IInv, LiveBacked
    <3> QED BY <1>1, <3>1, <3>2
  <2>2. q - 1 # eblk /\ nxt[q - 1] \in Int
    BY <1>1, <2>1 DEF IInv, ListInv, PlaceHolders
  <2>3. nxt[q - 1] <= b1 \/ nxt[b1] <= q - 1
    BY <1>1, <2>1, <2>2 DEF IInv, ListInv, Tiled
  <2>4. CASE nxt[q - 1] <= b1
    <3>1. q + live[q] <= b1
      BY <1>1, <2>1, <2>2, <2>4
    <3> QED BY <1>1, <2>1, <3>1
  <2>5. CASE nxt[b1] <= q - 1
    <3>1. ret + call.n <= q - 1 /\ ret + call.n \in Int
      BY <1>0, <1>1, <2>1, <2>5
    <3> QED BY <1>0, <2>1, <3>1
  <2> QED BY <2>3, <2>4, <2>5
<1>5. live' = [q \in DOMAIN live \cup {ret} |-> IF q = ret THEN call.n ELSE live[q]]
  BY DEF Answer
<1> QED BY <1>1, <1>3, <1>4, <1>5 DEF Abstract!Alloc, Abstract!Region

LEMMA FreeRefines ==
  ASSUME IInv, NEW p \in Pointers, NEW c, StartFree(p, c)
  PROVE  UNCHANGED live \/ Abstract!Release(p)
<1>1. live' = [q \in DOMAIN live \ {p} |-> live[q]]
  BY DEF StartFree
<1>2. CASE p \in DOMAIN live
  BY <1>1, <1>2 DEF Abstract!Release
<1>3. CASE p \notin DOMAIN live
  <2>1. DOMAIN live \ {p} = DOMAIN live /\ live \in [DOMAIN live -> Sizes \cup {0}]
    BY <1>3 DEF IInv, HeapTypeOK
  <2> QED BY <1>1, <2>1
<1> QED BY <1>2, <1>3

LEMMA StepRefines == IInv /\ [Next]_vars => [Abstract!Next]_live
<1> SUFFICES ASSUME IInv, [Next]_vars PROVE Abstract!Next \/ UNCHANGED live
  OBVIOUS
<1>1. CASE ReturnMalloc \/ ReturnRealloc \/ CarveBack
  <2>1. /\ pc \in {"got", "carve"} /\ Answer /\ nxt[b1] >= ret + call.n
    BY <1>1, Facts DEF ReturnMalloc, ReturnRealloc, CarveBack, IInv, CallInv, Want
  <2>2. Abstract!Alloc(ret, call.n)
    BY <2>1, AnswerRefines
  <2>3. ret \in Base .. (Limit - 1)
    BY <2>2 DEF Abstract!Alloc
  <2> QED BY <2>2, <2>3, Facts DEF Abstract!Next
<1>2. CASE \E p \in Pointers : Free(p)
  <2>1. PICK p \in Pointers : Free(p)
    BY <1>2
  <2>2. UNCHANGED vars \/ \E c : StartFree(p, c)
    BY <2>1 DEF Free, Refused
  <2>3. UNCHANGED live \/ Abstract!Release(p)
    BY <2>2, FreeRefines DEF vars
  <2> QED BY <2>3 DEF Abstract!Next, Abstract!Release
<1>3. CASE \E p \in Pointers, n \in Sizes : Realloc(p, n)
  <2>1. PICK p \in Pointers, n \in Sizes : Realloc(p, n)
    BY <1>3
  <2>2. UNCHANGED vars \/ \E c : StartFree(p, c)
    BY <2>1 DEF Realloc, Refused
  <2>3. UNCHANGED live \/ Abstract!Release(p)
    BY <2>2, FreeRefines DEF vars
  <2> QED BY <2>3 DEF Abstract!Next, Abstract!Release
<1>4. CASE \/ \E n \in Sizes : Malloc(n)
           \/ \E n \in Sizes, a \in Aligns : AlignMalloc(n, a)
  BY <1>4 DEF Malloc, AlignMalloc, Refused, vars
<1>5. CASE \/ SkipUsed \/ JoinNext \/ SkipSmall \/ Take \/ Grow \/ GrowFails
           \/ ReturnNull \/ CarveFront \/ FreeJoin \/ FreeDone
  BY <1>5 DEF SkipUsed, JoinNext, SkipSmall, Advance, Take, Grow, GrowFails, ReturnNull,
              CarveFront, FreeJoin, FreeDone
<1>6. CASE UNCHANGED vars
  BY <1>6 DEF vars
<1> QED BY <1>1, <1>2, <1>3, <1>4, <1>5, <1>6 DEF Next, Call, Step

(* The allocator of malloc.c implements the abstract allocator: regions    *)
(* handed out never overlap and stay inside the arena.                     *)
THEOREM Refinement == Spec => ImplementsAllocator
<1>1. Init => Abstract!Init
  BY DEF Init, Abstract!Init
<1> QED BY <1>1, Invariance, StepRefines, PTL DEF Spec, ImplementsAllocator, Abstract!Spec
-----------------------------------------------------------------------------
(* Every malloced block is held by a caller or about to be.                *)
Held ==
  \A b \in Blocks : stat[b] = "MALLOCED" =>
    b + 1 \in DOMAIN live \/ (pc \in {"got", "carve"} /\ b = b1)

LEMMA AnswerHolds ==
  ASSUME IInv, Held, pc \in {"got", "carve"}, Answer, Blocks \subseteq Blocks',
         \A x \in Blocks : stat'[x] = stat[x],
         \A x \in Blocks' \ Blocks : stat'[x] = "FREE"
  PROVE  Held'
<1>1. DOMAIN live' = DOMAIN live \cup {ret} /\ ret = b1 + 1
  BY DEF Answer, IInv, CallInv
<1> QED BY <1>1 DEF Held

LEMMA HeldStep == IInv /\ Held /\ [Next]_vars => Held'
<1> SUFFICES ASSUME IInv, Held, [Next]_vars PROVE Held'
  OBVIOUS
<1> USE Facts
<1>0. CASE UNCHANGED vars
  BY <1>0 DEF vars, Held, Blocks
<1>1. ASSUME Enter, UNCHANGED live, pc \in {"idle", "join"} PROVE Held'
  <2>1. CASE bblk = NULL
    BY <1>1, <2>1, ArenaAssumption DEF Enter, Held, Blocks
  <2>2. CASE bblk # NULL
    BY <1>1, <2>2 DEF Enter, Held, Blocks, listVars
  <2> QED BY <2>1, <2>2
<1>2. CASE \/ \E n \in Sizes : Malloc(n)
           \/ \E n \in Sizes, a \in Aligns : AlignMalloc(n, a)
  BY <1>0, <1>1, <1>2 DEF Malloc, AlignMalloc, Refused
<1>3. ASSUME NEW p \in Pointers, NEW c, StartFree(p, c), pc = "idle" PROVE Held'
  <2>1. /\ Blocks' = Blocks /\ DOMAIN live' = DOMAIN live \ {p} /\ p - 1 \in Blocks
        /\ stat' = [x \in Blocks |-> IF x = p - 1 THEN "FREE" ELSE stat[x]]
    BY <1>3 DEF StartFree, Mark, Blocks, Pointers
  <2> SUFFICES ASSUME NEW b \in Blocks, stat'[b] = "MALLOCED"
               PROVE  b + 1 \in DOMAIN live'
    BY <2>1 DEF Held
  <2>2. b # p - 1 /\ stat[b] = "MALLOCED" /\ b \in Int /\ p \in Int
    BY <2>1 DEF Pointers
  <2>3. b + 1 # p /\ b + 1 \in DOMAIN live
    BY <1>3, <2>2 DEF Held
  <2> QED BY <2>1, <2>3
<1>4. CASE \/ \E p \in Pointers : Free(p)
           \/ \E p \in Pointers, n \in Sizes : Realloc(p, n)
  BY <1>0, <1>3, <1>4 DEF Free, Realloc, Refused
<1>5. CASE SkipUsed \/ SkipSmall \/ GrowFails \/ ReturnNull
  BY <1>5 DEF SkipUsed, SkipSmall, Advance, GrowFails, ReturnNull, Over, Held, Joined, Blocks
<1>6. CASE JoinNext \/ FreeJoin
  <2>1. /\ nxt' = Unlink(b1) /\ stat' = [x \in Blocks \ {nxt[b1]} |-> stat[x]]
        /\ UNCHANGED <<pc, live>> /\ pc \in {"search", "join"}
    BY <1>6 DEF JoinNext, FreeJoin, NextFree
  <2>2. Blocks' = Blocks \ {nxt[b1]}
    BY <2>1 DEF Blocks, Unlink
  <2> QED BY <2>1, <2>2 DEF Held
<1>7. CASE Take
  <2>1. /\ pc = "search" /\ pc' = "got" /\ UNCHANGED <<live, b1>>
        /\ b1 \in Blocks
    BY <1>7 DEF Take, Joined, IInv, ListInv, OnList
  <2>2. ASSUME NEW x \in Blocks', x # b1, stat'[x] = "MALLOCED"
        PROVE  x \in Blocks /\ stat[x] = "MALLOCED"
    BY <1>7, <2>2 DEF Take, Link, Mark, Blocks
  <2> QED BY <2>1, <2>2 DEF Held
<1>8. CASE Grow
  <2>1. pc = "grow" /\ pc' = "got" /\ UNCHANGED live /\ b1' = eblk
    BY <1>8 DEF Grow
  <2>2. ASSUME NEW x \in Blocks', x # eblk, stat'[x] = "MALLOCED"
        PROVE  x \in Blocks /\ stat[x] = "MALLOCED"
    BY <1>8, <2>2 DEF Grow, Extend, Blocks
  <2> QED BY <2>1, <2>2 DEF Held
<1>9. CASE CarveFront
  <2>1. pc = "got" /\ pc' = "carve" /\ UNCHANGED live /\ b1' = AlignUp(ret, call.align) - 1
    BY <1>9 DEF CarveFront
  <2>2. ASSUME NEW x \in Blocks', x # b1', stat'[x] = "MALLOCED"
        PROVE  x \in Blocks /\ stat[x] = "MALLOCED" /\ x # b1
    <3>1. ret = b1 + 1 /\ b1 \in Int
      BY <2>1 DEF IInv, CallInv, ListInv, OnList
    <3>2. CASE AlignUp(ret, call.align) = ret
      BY <1>9, <2>1, <2>2, <3>1, <3>2 DEF CarveFront, Blocks
    <3>3. CASE AlignUp(ret, call.align) # ret
      BY <1>9, <2>1, <2>2, <3>1, <3>3 DEF CarveFront, FrontFreed, Link, Blocks
    <3> QED BY <3>2, <3>3
  <2> QED BY <2>1, <2>2 DEF Held
<1>10. CASE CarveBack
  <2>1. /\ pc = "carve" /\ Answer /\ ret = b1 + 1 /\ b1 \in Blocks /\ b1 # eblk /\ bblk # NULL
    BY <1>10 DEF CarveBack, IInv, CallInv, ListInv, OnList, PlaceHolders
  <2>2. nxt[b1] \in Int /\ (nxt[b1] > ret + call.n => ret + call.n \notin Blocks)
    BY <2>1 DEF IInv, ListInv, Tiled
  <2>3. /\ Blocks \subseteq Blocks'
        /\ \A x \in Blocks : stat'[x] = stat[x]
        /\ \A x \in Blocks' \ Blocks : stat'[x] = "FREE"
    BY <1>10, <2>1, <2>2 DEF CarveBack, Link, Mark, Blocks
  <2> QED BY <2>1, <2>3, AnswerHolds
<1>11. CASE ReturnMalloc \/ ReturnRealloc
  <2>1. pc = "got" /\ Answer /\ UNCHANGED <<nxt, stat>>
    BY <1>11 DEF ReturnMalloc, ReturnRealloc, listVars
  <2> QED BY <2>1, AnswerHolds DEF Blocks
<1>12. CASE FreeDone
  <2>1. CASE call.op = "realloc"
    BY <1>1, <1>12, <2>1 DEF FreeDone
  <2>2. CASE call.op # "realloc"
    BY <1>12, <2>2 DEF FreeDone, Held, listVars, Blocks
  <2> QED BY <2>1, <2>2
<1> QED BY <1>0, <1>2, <1>4, <1>5, <1>6, <1>7, <1>8, <1>9, <1>10, <1>11, <1>12
        DEF Next, Call, Step

(* Between calls the malloced blocks are exactly those the callers hold.   *)
THEOREM NothingLeaks == Spec => []NoLeak
<1>1. Init => Held
  BY DEF Init, Held, Blocks
<1>2. IInv /\ Held => NoLeak
  <2> SUFFICES ASSUME IInv, Held, pc = "idle"
               PROVE  {b + 1 : b \in {x \in Blocks : stat[x] = "MALLOCED"}} = DOMAIN live
    BY DEF NoLeak
  <2>1. \A p \in DOMAIN live : /\ p - 1 \in Blocks /\ stat[p - 1] = "MALLOCED"
                               /\ p = (p - 1) + 1
    BY Facts DEF IInv, LiveBacked, HeapTypeOK, Addr
  <2>2. \A b \in Blocks : stat[b] = "MALLOCED" => b + 1 \in DOMAIN live
    BY DEF Held
  <2> QED BY <2>1, <2>2
<1> QED BY <1>1, <1>2, Invariance, HeldStep, PTL DEF Spec

-----------------------------------------------------------------------------
(* The search.                                                             *)

(* Block x does not fit, however much of what follows is joined to it.     *)
Unfit(x) == stat[x] = "FREE" => stat[nxt[x]] # "FREE" /\ nxt[x] - x - 1 < Want

(* The blocks the search has left behind: it goes round from the rover,    *)
(* and once it has absorbed the rover only its own block is left.          *)
Behind(x) ==
  IF scanned THEN x # b1
  ELSE IF cblk <= b1 THEN cblk <= x /\ x < b1
  ELSE cblk <= x \/ x < b1

SearchInv ==
  /\ pc = "search" => \A x \in Blocks : Behind(x) => Unfit(x)
  /\ pc \in {"grow", "failed"} => \A x \in Blocks : Unfit(x)

LEMMA ListFacts ==
  ASSUME IInv, bblk # NULL
  PROVE  /\ Blocks \subseteq Int /\ {bblk, eblk} \subseteq Blocks
         /\ \A b \in Blocks : bblk <= b /\ b <= eblk
         /\ nxt[eblk] = bblk /\ bblk \in Int /\ eblk \in Int
         /\ \A b \in Blocks \ {eblk} :
              /\ nxt[b] \in Blocks /\ nxt[b] > b
              /\ \A h \in Blocks : h <= b \/ nxt[b] <= h
         /\ stat[bblk] = "BEG" /\ stat[eblk] = "END" /\ cblk \in Blocks
<1>1. Blocks \subseteq Int /\ bblk \in Blocks /\ eblk \in Blocks /\ cblk \in Blocks
  BY Facts
<1>2. /\ \A b \in Blocks : bblk <= b /\ b <= eblk
      /\ nxt[eblk] = bblk
      /\ \A b \in Blocks \ {eblk} : nxt[b] \in Blocks /\ nxt[b] > b
      /\ \A b \in Blocks \ {eblk} : \A h \in Blocks : ~(b < h /\ h < nxt[b])
  BY DEF IInv, ListInv, Tiled
<1>3. ASSUME NEW b \in Blocks \ {eblk}, NEW h \in Blocks PROVE h <= b \/ nxt[b] <= h
  <2>1. b \in Int /\ h \in Int /\ nxt[b] \in Int /\ ~(b < h /\ h < nxt[b])
    BY <1>1, <1>2
  <2>. QED BY <2>1, SMT
<1>4. stat[bblk] = "BEG" /\ stat[eblk] = "END"
  BY <1>1 DEF IInv, ListInv, PlaceHolders
<1>. QED BY <1>1, <1>2, <1>3, <1>4

LEMMA Searching ==
  ASSUME IInv, pc = "search"
  PROVE  bblk # NULL /\ b1 \in Blocks /\ b1 \in Int /\ cblk \in Int /\ scanned \in BOOLEAN
<1>1. bblk # NULL /\ b1 \in Blocks
  BY DEF IInv, CallInv, ListInv, OnList
<1>2. scanned \in BOOLEAN
  BY DEF IInv, HeapTypeOK
<1>. QED BY <1>1, <1>2, ListFacts

(* The block the search leaves joins those behind; when it is the last,    *)
(* none is left.                                                           *)
LEMMA AdvanceKeeps ==
  ASSUME IInv, SearchInv, pc = "search", Unfit(b1), Advance
  PROVE  SearchInv'
<1>1. /\ bblk # NULL /\ b1 \in Blocks /\ b1 \in Int /\ cblk \in Int /\ scanned \in BOOLEAN
  BY Searching
<1>2. /\ Blocks \subseteq Int /\ {bblk, eblk, cblk} \subseteq Blocks
      /\ \A b \in Blocks : bblk <= b /\ b <= eblk
      /\ nxt[eblk] = bblk /\ bblk \in Int /\ eblk \in Int
      /\ \A b \in Blocks \ {eblk} :
           nxt[b] \in Blocks /\ nxt[b] > b /\ \A h \in Blocks : h <= b \/ nxt[b] <= h
  BY <1>1, ListFacts
<1>3. /\ b1' = nxt[b1] /\ pc' = IF SearchOver THEN "grow" ELSE "search"
      /\ UNCHANGED <<nxt, stat, cblk, call, scanned>>
  BY DEF Advance
<1>4. Blocks' = Blocks /\ \A x \in Blocks : Unfit(x)' <=> Unfit(x)
  BY <1>3 DEF Unfit, Want, Blocks
<1>5. \A x \in Blocks : Behind(x) \/ x = b1 => Unfit(x)
  BY DEF SearchInv
<1>6. CASE SearchOver
  <2>1. ASSUME NEW x \in Blocks PROVE Behind(x) \/ x = b1
    <3>1. CASE scanned
      BY <3>1 DEF Behind
    <3>2. CASE ~scanned
      <4>1. nxt[b1] = cblk
        BY <1>6, <3>2 DEF SearchOver
      <4>2. CASE b1 = eblk
        BY <1>1, <1>2, <3>2, <4>1, <4>2, SMT DEF Behind
      <4>3. CASE b1 # eblk
        BY <1>1, <1>2, <3>2, <4>1, <4>3, SMT DEF Behind
      <4>. QED BY <4>2, <4>3
    <3>. QED BY <3>1, <3>2
  <2>. QED BY <1>3, <1>4, <1>5, <1>6, <2>1 DEF SearchInv
<1>7. CASE ~SearchOver
  <2>1. ~scanned /\ nxt[b1] # cblk /\ ~scanned'
    BY <1>3, <1>7 DEF SearchOver
  <2>2. ASSUME NEW x \in Blocks, Behind(x)' PROVE Behind(x) \/ x = b1
    <3>1. IF cblk <= nxt[b1] THEN cblk <= x /\ x < nxt[b1] ELSE cblk <= x \/ x < nxt[b1]
      BY <1>3, <2>1, <2>2 DEF Behind
    <3>2. x \in Int
      BY <1>2
    <3>3. CASE b1 = eblk
      <4>1. /\ nxt[b1] = bblk /\ bblk <= cblk /\ bblk <= x /\ x <= b1 /\ cblk <= b1
            /\ bblk # cblk /\ bblk \in Int
        BY <1>2, <2>1, <3>3
      <4>2. cblk <= x
        BY <1>1, <3>1, <3>2, <4>1, SMT
      <4>. QED BY <1>1, <2>1, <3>2, <4>1, <4>2, SMT DEF Behind
    <3>4. CASE b1 # eblk
      <4>. DEFINE z == nxt[b1]
      <4>1. z \in Int /\ z > b1 /\ (x <= b1 \/ z <= x) /\ (cblk <= b1 \/ z <= cblk)
        BY <1>1, <1>2, <3>4
      <4>2. IF cblk <= z THEN cblk <= x /\ x < z ELSE cblk <= x \/ x < z
        BY <3>1
      <4>3. z # cblk
        BY <2>1
      <4>. HIDE DEF z
      <4>. QED BY <1>1, <2>1, <3>2, <4>1, <4>2, <4>3, SMT DEF Behind
    <3>. QED BY <3>3, <3>4
  <2>3. pc' = "search"
    BY <1>3, <1>7
  <2>. QED BY <1>4, <1>5, <2>2, <2>3 DEF SearchInv
<1>. QED BY <1>6, <1>7

(* Joining the next block leaves the blocks behind as they are, also when  *)
(* the rover goes with it.                                                 *)
LEMMA JoinKeeps ==
  ASSUME IInv, SearchInv, JoinNext
  PROVE  SearchInv'
<1>. DEFINE y == nxt[b1]
<1>1. /\ pc = "search" /\ stat[b1] = "FREE" /\ stat[y] = "FREE"
      /\ nxt' = Unlink(b1) /\ stat' = [x \in Blocks \ {y} |-> stat[x]]
      /\ MoveRover /\ UNCHANGED <<pc, call, b1>>
  BY DEF JoinNext, NextFree
<1>2. /\ bblk # NULL /\ b1 \in Blocks /\ b1 \in Int /\ cblk \in Int /\ scanned \in BOOLEAN
  BY <1>1, Searching
<1>3. /\ Blocks \subseteq Int /\ {bblk, eblk, cblk} \subseteq Blocks
      /\ \A b \in Blocks \ {eblk} :
           nxt[b] \in Blocks /\ nxt[b] > b /\ \A h \in Blocks : h <= b \/ nxt[b] <= h
      /\ nxt[eblk] = bblk
      /\ stat[bblk] = "BEG" /\ stat[eblk] = "END"
  BY <1>2, ListFacts
<1>4. b1 # eblk /\ y \in Blocks /\ y > b1 /\ y # eblk /\ y # bblk
      /\ \A h \in Blocks : h <= b1 \/ y <= h
  BY <1>1, <1>2, <1>3
<1>5. Blocks' = Blocks \ {y}
  BY <1>1 DEF Unlink, Blocks
<1>6. ASSUME NEW x \in Blocks', x # b1
      PROVE  nxt'[x] = nxt[x] /\ stat'[x] = stat[x] /\ nxt[x] \in Blocks'
  <2>1. nxt'[x] = nxt[x] /\ stat'[x] = stat[x] /\ x \in Blocks /\ x # y
    BY <1>1, <1>5, <1>6 DEF Unlink, Blocks
  <2>2. nxt[x] # y
    <3>1. CASE x = eblk
      BY <1>3, <1>4, <3>1
    <3>2. CASE x # eblk
      <4>1. SUFFICES ASSUME nxt[x] = y PROVE FALSE
        OBVIOUS
      <4>2. x < y /\ (b1 <= x \/ y <= b1) /\ (x <= b1 \/ y <= x) /\ x \in Int /\ y \in Int
        BY <1>2, <1>3, <1>4, <2>1, <3>2, <4>1
      <4>. HIDE DEF y
      <4>3. x = b1
        BY <1>2, <1>4, <4>2, SMT
      <4>. QED BY <4>3, <1>6
    <3>. QED BY <3>1, <3>2
  <2>3. nxt[x] \in Blocks
    BY <1>3, <2>1
  <2>. QED BY <1>5, <2>1, <2>2, <2>3
<1>7. ASSUME NEW x \in Blocks', x # b1, Unfit(x) PROVE Unfit(x)'
  <2>1. nxt'[x] = nxt[x] /\ stat'[x] = stat[x] /\ stat'[nxt[x]] = stat[nxt[x]]
    BY <1>1, <1>5, <1>6, <1>7
  <2>2. Want' = Want
    BY <1>1 DEF Want
  <2>. QED BY <1>7, <2>1, <2>2 DEF Unfit
<1>8. ASSUME NEW x \in Blocks', Behind(x)' PROVE Behind(x) /\ x # b1
  <2>1. CASE cblk = y
    <3>1. scanned' = TRUE
      BY <1>1, <2>1 DEF MoveRover
    <3>2. x # b1 /\ x \in Blocks
      BY <1>1, <1>5, <1>8, <3>1 DEF Behind
    <3>3. cblk > b1 /\ (x <= b1 \/ cblk <= x) /\ x \in Int
      BY <1>3, <1>4, <2>1, <3>2
    <3>. QED BY <1>2, <3>2, <3>3, SMT DEF Behind
  <2>2. CASE cblk # y
    <3>1. cblk' = cblk /\ scanned' = scanned /\ b1' = b1
      BY <1>1, <2>2 DEF MoveRover
    <3>2. Behind(x)
      BY <1>8, <3>1 DEF Behind
    <3>3. x \in Int
      BY <1>3, <1>5
    <3>. QED BY <1>2, <3>2, <3>3, SMT DEF Behind
  <2>. QED BY <2>1, <2>2
<1>9. pc' = "search"
  BY <1>1
<1>. QED BY <1>1, <1>5, <1>7, <1>8, <1>9 DEF SearchInv

LEMMA SearchStep == IInv /\ SearchInv /\ [Next]_vars => SearchInv'
<1>. SUFFICES ASSUME IInv, SearchInv, [Next]_vars PROVE SearchInv'
  OBVIOUS
<1>0. ASSUME UNCHANGED vars PROVE SearchInv'
  BY <1>0 DEF vars, SearchInv, Behind, Unfit, Want, Blocks
<1>1. ASSUME pc' \notin {"search", "grow", "failed"} PROVE SearchInv'
  BY <1>1 DEF SearchInv
<1>2. ASSUME Enter, IInv' PROVE SearchInv'
  <2>1. b1' = cblk' /\ scanned' = FALSE /\ pc' = "search"
    BY <1>2 DEF Enter
  <2>2. bblk' # NULL /\ cblk' \in Int
    <3>1. bblk' # NULL
      BY <1>2, <2>1 DEF IInv, CallInv
    <3>2. cblk' \in Blocks' /\ Blocks' \subseteq Addr
      BY <1>2, <3>1 DEF IInv, ListInv, OnList, HeapTypeOK
    <3>. QED BY <3>1, <3>2, ArenaAssumption DEF Addr
  <2>3. ASSUME NEW x \in Blocks' PROVE ~Behind(x)'
    <3>1. x \in Int
      BY <1>2, <2>3, ArenaAssumption DEF IInv, HeapTypeOK, Addr
    <3>2. ~(cblk' <= x /\ x < cblk') /\ cblk' <= cblk'
      BY <2>2, <3>1, SMT
    <3>. QED BY <2>1, <3>2 DEF Behind
  <2>. QED BY <2>1, <2>3 DEF SearchInv
<1>3. IInv'
  BY NextInv
<1>4. CASE \/ \E n \in Sizes : Malloc(n)
           \/ \E n \in Sizes, a \in Aligns : AlignMalloc(n, a)
  BY <1>0, <1>2, <1>3, <1>4 DEF Malloc, AlignMalloc, Refused
<1>5. CASE \/ \E p \in Pointers : Free(p)
           \/ \E p \in Pointers, n \in Sizes : Realloc(p, n)
  BY <1>0, <1>1, <1>5 DEF Free, Realloc, Refused, StartFree
<1>6. CASE SkipUsed
  <2>1. Unfit(b1)
    BY <1>6 DEF SkipUsed, Unfit
  <2>. QED BY <1>6, <2>1, AdvanceKeeps DEF SkipUsed
<1>7. CASE SkipSmall
  <2>1. pc = "search" /\ stat[b1] = "FREE" /\ ~NextFree /\ Tmp > nxt[b1] /\ Advance
    BY <1>7 DEF SkipSmall, Joined
  <2>2. /\ bblk # NULL /\ b1 \in Blocks /\ b1 \in Int /\ Want \in Int
    BY <2>1, Searching, Facts
  <2>3. nxt[b1] \in Int
    BY <2>1, <2>2, ListFacts
  <2>4. nxt[b1] - b1 - 1 < Want
    BY <2>1, <2>2, <2>3, SMT DEF Tmp
  <2>5. Unfit(b1)
    BY <2>1, <2>4 DEF Unfit, NextFree
  <2>. QED BY <2>1, <2>5, AdvanceKeeps
<1>8. CASE JoinNext
  BY <1>8, JoinKeeps
<1>9. CASE GrowFails
  <2>1. pc = "grow" /\ pc' = "failed" /\ UNCHANGED <<nxt, stat, call>>
    BY <1>9 DEF GrowFails
  <2>. QED BY <2>1 DEF SearchInv, Unfit, Want, Blocks
<1>10. CASE Take \/ Grow \/ ReturnMalloc \/ ReturnNull \/ CarveFront \/ CarveBack \/ ReturnRealloc
            \/ FreeJoin
  BY <1>1, <1>10 DEF Take, Grow, ReturnMalloc, ReturnNull, CarveFront, CarveBack, ReturnRealloc,
                     FreeJoin, Answer, Over
<1>11. CASE FreeDone
  <2>1. CASE call.op = "realloc"
    BY <1>2, <1>3, <1>11, <2>1 DEF FreeDone
  <2>2. CASE call.op # "realloc"
    BY <1>1, <1>11, <2>2 DEF FreeDone, Over
  <2>. QED BY <2>1, <2>2
<1>. QED BY <1>0, <1>4, <1>5, <1>6, <1>7, <1>8, <1>9, <1>10, <1>11 DEF Next, Call, Step

(* malloc() gives up only when no stretch of adjacent free blocks could    *)
(* hold the request, wherever the rover was and whatever the search joined *)
(* on its way, its own start included.                                     *)
THEOREM FailureAlwaysGenuine == Spec => []FailureIsGenuine
<1>1. Init => SearchInv
  BY DEF Init, SearchInv
<1>2. IInv /\ SearchInv => FailureIsGenuine
  <2>. SUFFICES ASSUME IInv, SearchInv, pc = "failed", NEW b \in Blocks, NEW e \in Blocks,
                       b < e, \A h \in Blocks : b <= h /\ h < e => stat[h] = "FREE"
                PROVE  e - b - 1 < Want
    BY DEF FailureIsGenuine
  <2>1. bblk # NULL
    BY DEF IInv, CallInv
  <2>2. b \in Int /\ e \in Int /\ stat[b] = "FREE"
    BY <2>1, ListFacts
  <2>3. b # eblk
    BY <2>1, <2>2, ListFacts
  <2>8. nxt[b] \in Blocks /\ nxt[b] > b /\ (e <= b \/ nxt[b] <= e) /\ nxt[b] \in Int
    BY <2>1, <2>3, ListFacts
  <2>4. nxt[b] \in Blocks /\ nxt[b] > b /\ nxt[b] <= e /\ nxt[b] \in Int
    BY <2>2, <2>8, SMT
  <2>5. stat[nxt[b]] # "FREE" /\ nxt[b] - b - 1 < Want
    BY <2>2 DEF SearchInv, Unfit
  <2>6. ~(b <= nxt[b] /\ nxt[b] < e)
    BY <2>4, <2>5
  <2>7. nxt[b] = e
    BY <2>2, <2>4, <2>6, SMT
  <2>. QED BY <2>5, <2>7
<1>. QED BY <1>1, <1>2, SearchStep, Invariance, PTL DEF Spec
-----------------------------------------------------------------------------
(* The answer.                                                             *)

(* Only align_malloc() asks for a boundary, and by the time it gives back  *)
(* what lies behind the request the pointer is on it.                      *)
AlignInv ==
  /\ call.op # "align" => call.align = 1
  /\ pc = "carve" => ret % call.align = 0

LEMMA AlignUpAligned ==
  ASSUME NEW x \in Nat, NEW a \in Nat \ {0}
  PROVE  AlignUp(x, a) % a = 0
<1>. DEFINE y == x + (a - 1)
            q == y \div a
            r == y % a
            z == a * q
<1>1. y \in Nat
  BY SMT
<1>2. q \in Nat /\ r \in 0 .. a - 1 /\ y = z + r
  <2>. HIDE DEF y
  <2>. QED BY <1>1, Divide
<1>3. z \in Nat
  BY <1>2, Products
<1>4. AlignUp(x, a) = y - r
  BY DEF AlignUp
<1>5. y - r = z
  <2>. HIDE DEF y, z, r
  <2>. QED BY <1>1, <1>2, <1>3, SMT
<1>6. z \div a = q
  <2>1. z = a * q + 0 /\ 0 \in 0 .. a - 1 /\ q \in Int
    <3>. HIDE DEF q
    <3>. QED BY <1>2, <1>3, SMT
  <2>. HIDE DEF z, q
  <2>. QED BY <1>3, <2>1, Quotient
<1>7. z % a = 0
  <2>. DEFINE s == z % a
  <2>1. z = a * (z \div a) + s /\ s \in 0 .. a - 1
    <3>. HIDE DEF z
    <3>. QED BY <1>3, Divide
  <2>2. z = z + s
    BY <1>6, <2>1
  <2>. HIDE DEF z, s
  <2>3. s = 0
    BY <1>3, <2>1, <2>2, SMT
  <2>. QED BY <2>3 DEF s
<1>. QED BY <1>4, <1>5, <1>7

LEMMA AlignStep == IInv /\ AlignInv /\ [Next]_vars => AlignInv'
<1>. SUFFICES ASSUME IInv, AlignInv, [Next]_vars PROVE AlignInv'
  OBVIOUS
<1>0. CASE UNCHANGED vars
  BY <1>0 DEF vars, AlignInv
<1>1. ASSUME pc' # "carve", UNCHANGED call PROVE AlignInv'
  BY <1>1 DEF AlignInv
<1>2. ASSUME pc' # "carve", call'.op # "align" => call'.align = 1 PROVE AlignInv'
  BY <1>2 DEF AlignInv
<1>3. ASSUME Over PROVE AlignInv'
  BY <1>2, <1>3 DEF Over, Idle
<1>4. ASSUME NEW n \in Sizes, Malloc(n) PROVE AlignInv'
  BY <1>0, <1>2, <1>4 DEF Malloc, Refused, Enter, Idle
<1>5. ASSUME NEW n \in Sizes, NEW a \in Aligns, AlignMalloc(n, a) PROVE AlignInv'
  BY <1>0, <1>2, <1>5 DEF AlignMalloc, Refused, Enter, Idle
<1>6. ASSUME NEW p \in Pointers, Free(p) PROVE AlignInv'
  BY <1>0, <1>2, <1>6 DEF Free, Refused, StartFree, Idle
<1>7. ASSUME NEW p \in Pointers, NEW n \in Sizes, Realloc(p, n) PROVE AlignInv'
  BY <1>0, <1>2, <1>7 DEF Realloc, Refused, StartFree, Idle
<1>8. CASE SkipUsed \/ SkipSmall \/ JoinNext \/ Take \/ Grow \/ GrowFails \/ FreeJoin
  BY <1>1, <1>8 DEF SkipUsed, SkipSmall, Joined, Advance, JoinNext, Take, Grow, GrowFails, FreeJoin
<1>9. CASE ReturnMalloc \/ ReturnNull \/ ReturnRealloc \/ CarveBack
  BY <1>3, <1>9 DEF ReturnMalloc, ReturnNull, ReturnRealloc, CarveBack, Answer
<1>10. CASE CarveFront
  <2>1. pc = "got" /\ pc' = "carve" /\ ret' = AlignUp(ret, call.align) /\ UNCHANGED call
    BY <1>10 DEF CarveFront
  <2>2. ret \in Nat /\ call.align \in Nat \ {0}
    <3>1. b1 \in Addr /\ ret = b1 + 1
      BY <2>1 DEF IInv, CallInv, ListInv, OnList, HeapTypeOK
    <3>2. ret \in Nat
      BY <3>1, ArenaAssumption, SMT DEF Addr
    <3>3. call.align \in Nat \ {0}
      BY Facts, SMT
    <3>. QED BY <3>2, <3>3
  <2>3. AlignUp(ret, call.align) % call.align = 0
    BY <2>2, AlignUpAligned
  <2>. QED BY <2>1, <2>3 DEF AlignInv
<1>11. CASE FreeDone
  BY <1>1, <1>3, <1>11 DEF FreeDone, Enter
<1>. QED BY <1>0, <1>4, <1>5, <1>6, <1>7, <1>8, <1>9, <1>10, <1>11 DEF Next, Call, Step

(* What an answer adds to what the callers hold.                           *)
Honoured ==
  \A p \in DOMAIN live' \ DOMAIN live :
    /\ p % call.align = 0
    /\ live'[p] = call.n
    /\ nxt'[p - 1] - p >= call.n

LEMMA AnswerGives ==
  ASSUME IInv, pc \in {"got", "carve"}, Answer, ret % call.align = 0,
         nxt'[b1] - ret >= call.n
  PROVE  Honoured
<1>1. ret = b1 + 1 /\ b1 \in Int
  BY DEF IInv, CallInv, ListInv, OnList, HeapTypeOK, Addr
<1>2. ret - 1 = b1
  BY <1>1, SMT
<1>3. live' = [q \in DOMAIN live \cup {ret} |-> IF q = ret THEN call.n ELSE live[q]]
  BY DEF Answer
<1>. QED BY <1>2, <1>3 DEF Honoured

LEMMA HonouredStep == IInv /\ AlignInv /\ [Next]_vars => Honoured
<1>. SUFFICES ASSUME IInv, AlignInv, [Next]_vars PROVE Honoured
  OBVIOUS
<1>1. ASSUME DOMAIN live' \subseteq DOMAIN live PROVE Honoured
  BY <1>1 DEF Honoured
<1>2. ASSUME UNCHANGED live PROVE Honoured
  BY <1>1, <1>2
<1>3. CASE UNCHANGED vars
  BY <1>2, <1>3 DEF vars
<1>4. CASE Call
  <2>1. ASSUME NEW p, NEW c, StartFree(p, c) PROVE Honoured
    BY <1>1, <2>1 DEF StartFree
  <2>. QED BY <1>2, <1>4, <2>1
         DEF Call, Malloc, AlignMalloc, Free, Realloc, Refused, vars
<1>5. CASE \/ SkipUsed \/ SkipSmall \/ JoinNext \/ Take \/ Grow \/ GrowFails
           \/ ReturnNull \/ CarveFront \/ FreeJoin \/ FreeDone
  BY <1>2, <1>5 DEF SkipUsed, SkipSmall, Joined, Advance, JoinNext, Take, Grow, GrowFails,
                    ReturnNull, CarveFront, FreeJoin, FreeDone
<1>6. CASE ReturnMalloc \/ ReturnRealloc
  <2>1. pc = "got" /\ call.op # "align" /\ Answer /\ nxt' = nxt
    BY <1>6 DEF ReturnMalloc, ReturnRealloc, listVars
  <2>6. Want = call.n
    BY <2>1, Facts, SMT DEF Want
  <2>2. nxt[b1] >= ret + call.n /\ ret = b1 + 1 /\ bblk # NULL /\ b1 \in Blocks
    BY <2>1, <2>6 DEF IInv, CallInv, ListInv, OnList
  <2>3. /\ ret \in Int /\ nxt[b1] \in Int /\ call.n \in Int
    <3>1. b1 \in Int /\ nxt[b1] \in Int
      BY <2>2, ListFacts
    <3>. QED BY <2>2, <3>1, Facts, SMT
  <2>4. nxt'[b1] - ret >= call.n
    BY <2>1, <2>2, <2>3, SMT
  <2>5. ret % call.align = 0
    <3>1. call.align = 1
      BY <2>1 DEF AlignInv
    <3>2. ret % 1 = 0
      BY <2>3, SMT
    <3>. QED BY <3>1, <3>2
  <2>. QED BY <2>1, <2>4, <2>5, AnswerGives
<1>7. CASE CarveBack
  <2>1. pc = "carve" /\ Answer /\ ret % call.align = 0
    BY <1>7 DEF CarveBack, AlignInv
  <2>2. nxt[b1] >= ret + call.n /\ ret = b1 + 1 /\ bblk # NULL /\ b1 \in Blocks
    BY <2>1 DEF IInv, CallInv, ListInv, OnList
  <2>3. ret \in Int /\ nxt[b1] \in Int /\ call.n \in Int /\ call.n >= 0 /\ b1 \in Int
    <3>1. b1 \in Int /\ nxt[b1] \in Int
      BY <2>2, ListFacts
    <3>. QED BY <2>2, <3>1, Facts, SMT
  <2>4. nxt'[b1] - ret >= call.n
    <3>. DEFINE end == ret + call.n
    <3>1. CASE nxt[b1] > end
      <4>1. nxt' = Link(b1, end)
        BY <1>7, <3>1 DEF CarveBack
      <4>2. b1 # end
        BY <2>2, <2>3, SMT
      <4>3. nxt'[b1] = end
        BY <2>2, <4>1, <4>2 DEF Link, Blocks
      <4>. QED BY <2>3, <4>3, SMT
    <3>2. CASE ~(nxt[b1] > end)
      <4>1. nxt' = nxt
        BY <1>7, <3>2 DEF CarveBack
      <4>. QED BY <2>2, <2>3, <4>1, SMT
    <3>. QED BY <3>1, <3>2
  <2>. QED BY <2>1, <2>4, AnswerGives
<1>. QED BY <1>3, <1>4, <1>5, <1>6, <1>7 DEF Next, Step

(* Every answer is on the boundary the caller named, recorded with the     *)
(* size it asked for and large enough, whichever of the ways through the   *)
(* three entry points it came.                                             *)
THEOREM AnswersHonoured == Spec => AnswerHonoured
<1>1. Init => AlignInv
  BY DEF Init, AlignInv, Idle
<1>2. IInv /\ AlignInv /\ [Next]_vars =>
        [\A p \in DOMAIN live' \ DOMAIN live :
           /\ p % call.align = 0
           /\ live'[p] = call.n
           /\ nxt'[p - 1] - p >= call.n]_vars
  BY HonouredStep DEF Honoured
<1>. QED BY <1>1, <1>2, AlignStep, Invariance, PTL DEF Spec, AnswerHonoured
=============================================================================
