--------------------------- MODULE XfsReadProofs ----------------------------
(***************************************************************************)
(* Proofs about XfsRead, for every geometry, file and request that         *)
(* satisfies its assumptions: the types, that a transfer stays within the  *)
(* program's buffer and delivers the file's bytes, and that the descriptor *)
(* is an ordinary file.                                                    *)
(*                                                                         *)
(* First what one transfer brings in (Transfer), then XInv: one lemma per  *)
(* step, two of which are instances of Deliver, and the theorems.          *)
(***************************************************************************)
EXTENDS XfsReadProps, TLAPS

LEMMA Products == \A x, y \in Nat : x * y \in Nat
BY SMT

LEMMA Grows == ASSUME NEW c \in Nat, NEW x \in Int, NEW y \in Int, x <= y PROVE c * x <= c * y
<1>1. y - x \in Nat
  OBVIOUS
<1>2. c * (y - x) \in Nat
  BY <1>1, Products
<1>3. c * (y - x) = c * y - c * x
  BY SMT
<1>. QED BY <1>2, <1>3

(* Division by a block or sector size.                                     *)
LEMMA Divide ==
  ASSUME NEW B \in Nat \ {0}, NEW x \in Nat
  PROVE  /\ x \div B \in Nat /\ (x % B) \in 0 .. B - 1
         /\ x = B * (x \div B) + (x % B)
         /\ B * (x \div B) <= x
<1>1. B \in Nat /\ B > 0
  OBVIOUS
<1>2. x = B * (x \div B) + (x % B)
  BY <1>1, SMT
<1>3. x \div B \in Nat /\ (x % B) \in 0 .. B - 1
  BY <1>1, SMT
<1>4. B * (x \div B) \in Nat
  BY <1>3, Products
<1>. QED BY <1>2, <1>3, <1>4, SMT

LEMMA Quotient ==
  ASSUME NEW B \in Nat \ {0}, NEW x \in Nat, NEW q \in Int, NEW r \in 0 .. B - 1,
         x = B * q + r
  PROVE  x \div B = q
<1>1. B \in Nat /\ B > 0
  OBVIOUS
<1>2. q \in Nat
  <2>1. SUFFICES ASSUME q <= 0 - 1 PROVE FALSE
    BY SMT
  <2>2. B * q <= B * (0 - 1)
    BY <2>1, Grows, SMT
  <2>. QED BY <2>2, SMT
<1>. QED BY <1>1, <1>2, SMT

-----------------------------------------------------------------------------
(* The extents of a file, and the one a block lies in.                     *)
LEMMA Elements == ASSUME NEW S, NEW s \in Seq(S) PROVE \A k \in DOMAIN s : s[k] \in S
OBVIOUS

LEMMA ExtentTypes ==
  ASSUME file \in Files
  PROVE  /\ file.size \in Nat
         /\ DOMAIN file.ext \subseteq Nat \ {0}
         /\ \A k \in DOMAIN file.ext :
              /\ file.ext[k].off \in Nat /\ file.ext[k].start \in Nat \ {0}
              /\ file.ext[k].len \in Nat \ {0}
              /\ \A j \in 1 .. k : j \in DOMAIN file.ext
<1>1. file.size \in Nat /\ file.ext \in Seq([off : Nat, start : Nat \ {0}, len : Nat \ {0}])
  BY FileAssumption
<1>2. DOMAIN file.ext = 1 .. Len(file.ext) /\ Len(file.ext) \in Nat
  BY <1>1, SMT
<1>3. \A k \in DOMAIN file.ext : file.ext[k] \in [off : Nat, start : Nat \ {0}, len : Nat \ {0}]
  <2>. DEFINE Record == [off : Nat, start : Nat \ {0}, len : Nat \ {0}]
  <2>1. file.ext \in Seq(Record)
    BY <1>1
  <2>. HIDE DEF Record
  <2>2. \A k \in DOMAIN file.ext : file.ext[k] \in Record
    BY <2>1, Elements, Zenon
  <2>. QED BY <2>2 DEF Record
<1>4. DOMAIN file.ext \subseteq Nat \ {0}
  BY <1>2
<1>5. ASSUME NEW k \in DOMAIN file.ext PROVE \A j \in 1 .. k : j \in DOMAIN file.ext
  BY <1>2
<1>6. ASSUME NEW k \in DOMAIN file.ext
      PROVE  /\ file.ext[k].off \in Nat /\ file.ext[k].start \in Nat \ {0}
             /\ file.ext[k].len \in Nat \ {0}
  BY <1>3
<1>. QED BY <1>1, <1>4, <1>5, <1>6, Zenon

LEMMA HeldWithin ==
  ASSUME file \in Files, NEW b \in Nat, NEW k \in DOMAIN file.ext
  PROVE  k \in Within(b) <=> file.ext[k].off <= b /\ b < file.ext[k].off + file.ext[k].len
<1>1. ASSUME file.ext[k].off <= b, b < file.ext[k].off + file.ext[k].len,
             NEW j \in 1 .. k
      PROVE  file.ext[j].off <= b
  <2>1. j \in DOMAIN file.ext /\ j \in Nat /\ k \in Nat
    BY ExtentTypes, SMT
  <2>2. CASE j = k
    BY <1>1, <2>2
  <2>3. CASE j < k
    <3>1. file.ext[j].off + file.ext[j].len <= file.ext[k].off
      BY <2>1, <2>3, FileAssumption
    <3>. QED BY <1>1, <2>1, <3>1, ExtentTypes, SMT
  <2>. QED BY <2>1, <2>2, <2>3, SMT
<1>2. k \in 1 .. k
  BY ExtentTypes, SMT
<1>. QED BY <1>1, <1>2 DEF Within, Passed

LEMMA OneExtent ==
  ASSUME file \in Files, NEW b \in Nat, NEW k \in Within(b)
  PROVE  Within(b) = {k} /\ ExtentOf(b) = k
<1>. k \in DOMAIN file.ext
  BY DEF Within, Passed
<1>1. ASSUME NEW j \in Within(b) PROVE j = k
  <2>1. j \in DOMAIN file.ext /\ j \in Nat /\ k \in Nat
    BY ExtentTypes, SMT DEF Within, Passed
  <2>2. /\ file.ext[k].off <= b /\ b < file.ext[k].off + file.ext[k].len
        /\ file.ext[j].off <= b /\ b < file.ext[j].off + file.ext[j].len
    BY <2>1, HeldWithin
  <2>3. /\ j < k => file.ext[j].off + file.ext[j].len <= file.ext[k].off
        /\ k < j => file.ext[k].off + file.ext[k].len <= file.ext[j].off
    BY <2>1, FileAssumption
  <2>. QED BY <2>1, <2>2, <2>3, ExtentTypes, SMT
<1>2. k \in Nat /\ k <= k
  BY ExtentTypes, SMT
<1>3. Within(b) = {k}
  BY <1>1
<1>. QED BY <1>2, <1>3 DEF ExtentOf

LEMMA MappedBlock ==
  ASSUME file \in Files, NEW b \in Nat, NEW k \in Within(b)
  PROVE  /\ k \in DOMAIN file.ext
         /\ file.ext[k].off <= b /\ b < file.ext[k].off + file.ext[k].len
         /\ BlockNo(b) = file.ext[k].start + (b - file.ext[k].off)
         /\ BlockNo(b) \in Nat /\ BlockNo(b) # HOLE
         /\ Remaining(b) = file.ext[k].off + file.ext[k].len - b
         /\ Remaining(b) \in Nat \ {0}
<1>1. k \in DOMAIN file.ext
  BY DEF Within, Passed
<1>2. file.ext[k].off <= b /\ b < file.ext[k].off + file.ext[k].len
  BY <1>1, HeldWithin
<1>3. ExtentOf(b) = k /\ Within(b) # {}
  BY OneExtent
<1>4. /\ BlockNo(b) = file.ext[k].start + (b - file.ext[k].off)
      /\ Remaining(b) = file.ext[k].off + file.ext[k].len - b
  BY <1>3 DEF BlockNo, Remaining
<1>. QED BY <1>1, <1>2, <1>4, ExtentTypes, SMT DEF HOLE

LEMMA Hole ==
  ASSUME file \in Files, NEW b \in Nat
  PROVE  BlockNo(b) = HOLE <=> Within(b) = {}
BY MappedBlock DEF BlockNo

LEMMA HoleByte ==
  ASSUME file \in Files, NEW o \in Nat, Within(o \div BSIZE) = {}
  PROVE  FileByte(file, o) = ZERO
<1>1. o \div BSIZE \in Nat
  BY Divide, GeometryAssumption
<1>2. ASSUME NEW k \in DOMAIN file.ext
      PROVE  o \div BSIZE \notin file.ext[k].off .. file.ext[k].off + file.ext[k].len - 1
  <2>1. ~(file.ext[k].off <= o \div BSIZE /\ o \div BSIZE < file.ext[k].off + file.ext[k].len)
    BY <1>1, HeldWithin
  <2>. DEFINE q == o \div BSIZE
  <2>2. q \in Nat /\ ~(file.ext[k].off <= q /\ q < file.ext[k].off + file.ext[k].len)
    BY <1>1, <2>1
  <2>. HIDE DEF q
  <2>3. q \notin file.ext[k].off .. file.ext[k].off + file.ext[k].len - 1
    BY <2>2, ExtentTypes, SMT
  <2>. QED BY <2>3 DEF q
<1>. QED BY <1>2 DEF FileByte

LEMMA HeldByte ==
  ASSUME file \in Files, NEW o \in Nat, NEW k \in Within(o \div BSIZE)
  PROVE  FileByte(file, o) = (file.ext[k].start - file.ext[k].off) * BSIZE + o
<1>. DEFINE q == o \div BSIZE
            held == {j \in DOMAIN file.ext :
                       q \in file.ext[j].off .. file.ext[j].off + file.ext[j].len - 1}
<1>1. q \in Nat
  BY Divide, GeometryAssumption
<1>2. k \in Within(q)
  OBVIOUS
<1>. HIDE DEF q
<1>3. held = {k}
  <2>1. k \in DOMAIN file.ext
    BY <1>2 DEF Within, Passed
  <2>2. ASSUME NEW j \in DOMAIN file.ext
        PROVE  j \in held <=> j \in Within(q)
    <3>1. j \in Within(q) <=> file.ext[j].off <= q /\ q < file.ext[j].off + file.ext[j].len
      BY <1>1, HeldWithin
    <3>2. q \in file.ext[j].off .. file.ext[j].off + file.ext[j].len - 1
            <=> file.ext[j].off <= q /\ q < file.ext[j].off + file.ext[j].len
      BY <1>1, ExtentTypes, SMT
    <3>. QED BY <3>1, <3>2
  <2>3. Within(q) = {k}
    BY <1>1, <1>2, OneExtent
  <2>. QED BY <2>1, <2>2, <2>3
<1>4. FileByte(file, o) = LET e == file.ext[CHOOSE j \in held : TRUE]
                          IN (e.start - e.off) * BSIZE + o
  BY <1>3 DEF FileByte, q
<1>5. (CHOOSE j \in held : TRUE) = k
  BY <1>3
<1>. HIDE DEF held
<1>. QED BY <1>4, <1>5
-----------------------------------------------------------------------------
(* One transfer: how long it is and what it brings in.                     *)
LEMMA LongestTransfer == MAX_DMA >= BSIZE
<1>1. BSIZE \in Nat \ {0} /\ MAX_DMA \in Nat \ {0} /\ MAX_DMA % BSIZE = 0
  BY GeometryAssumption
<1>. DEFINE q == MAX_DMA \div BSIZE
<1>2. q \in Nat /\ MAX_DMA = BSIZE * q + 0
  BY <1>1, Divide
<1>. HIDE DEF q
<1>3. BSIZE * 0 = 0 /\ BSIZE * 1 = BSIZE
  BY <1>1, SMT
<1>4. q # 0
  BY <1>1, <1>2, <1>3, SMT
<1>5. BSIZE * 1 <= BSIZE * q
  BY <1>1, <1>2, <1>4, Grows, SMT
<1>6. BSIZE * q \in Nat
  BY <1>1, <1>2, Products
<1>. QED BY <1>1, <1>2, <1>3, <1>5, <1>6, SMT

LEMMA TransferLength ==
  ASSUME file \in Files, NEW b \in Nat, NEW m \in Nat \ {0}
  PROVE  /\ Length(b, m) \in Nat \ {0} /\ Length(b, m) <= BSIZE * m
         /\ BSIZE * m \in Nat
         /\ BlockNo(b) = HOLE => Length(b, m) = BSIZE
         /\ BlockNo(b) # HOLE =>
              /\ BSIZE * Remaining(b) \in Nat
              /\ Length(b, m) <= BSIZE * Remaining(b)
         /\ m = 1 => Length(b, m) = BSIZE
<1>1. BSIZE \in Nat \ {0} /\ MAX_DMA \in Nat /\ MAX_DMA >= BSIZE
  BY GeometryAssumption, LongestTransfer
<1>2. BSIZE * 1 <= BSIZE * m /\ BSIZE * 1 = BSIZE /\ BSIZE * m \in Nat
  <2>1. BSIZE * 1 <= BSIZE * m
    BY <1>1, Grows, SMT
  <2>. QED BY <1>1, <2>1, Products, SMT
<1>3. CASE BlockNo(b) = HOLE
  BY <1>1, <1>2, <1>3, SMT DEF Length
<1>4. CASE BlockNo(b) # HOLE
  <2>1. PICK k \in Within(b) : TRUE
    BY <1>4, Hole
  <2>. DEFINE r == Remaining(b)
              w == Least(r, m)
  <2>2. r \in Nat \ {0}
    BY <2>1, MappedBlock
  <2>. HIDE DEF r
  <2>3. w \in Nat \ {0} /\ w <= m /\ w <= r /\ (m = 1 => w = 1)
    BY <2>2, SMT DEF Least
  <2>. HIDE DEF w
  <2>4. BSIZE * w <= BSIZE * m /\ BSIZE * w <= BSIZE * r /\ BSIZE * 1 <= BSIZE * w
    BY <2>2, <2>3, <1>1, Grows, SMT
  <2>5. BSIZE * w \in Nat /\ BSIZE * r \in Nat
    BY <2>2, <2>3, <1>1, Products
  <2>6. Length(b, m) = Least(BSIZE * w, MAX_DMA)
    BY <1>4 DEF Length, w, r
  <2>7. BSIZE * w >= BSIZE /\ (m = 1 => BSIZE * w = BSIZE)
    BY <1>2, <2>3, <2>4, <2>5, <1>1, SMT
  <2>. DEFINE n == BSIZE * w
              t == BSIZE * r
              u == BSIZE * m
  <2>8. /\ n \in Nat /\ t \in Nat /\ u \in Nat /\ n <= u /\ n <= t /\ n >= BSIZE
        /\ (m = 1 => n = BSIZE) /\ Length(b, m) = Least(n, MAX_DMA)
    BY <1>2, <2>4, <2>5, <2>6, <2>7
  <2>. HIDE DEF n, t, u
  <2>9. /\ Length(b, m) \in Nat \ {0} /\ Length(b, m) <= u /\ Length(b, m) <= t
        /\ m = 1 => Length(b, m) = BSIZE
    BY <1>1, <2>8, SMT DEF Least
  <2>. QED BY <1>2, <1>4, <2>5, <2>9 DEF t, u, r
<1>. QED BY <1>3, <1>4

LEMMA InExtent ==
  ASSUME file \in Files, NEW b \in Nat, NEW e \in Within(b),
         NEW k \in Nat, BSIZE * Remaining(b) \in Nat, k < BSIZE * Remaining(b)
  PROVE  e \in Within((BSIZE * b + k) \div BSIZE) /\ BSIZE * b + k \in Nat
<1>1. BSIZE \in Nat \ {0}
  BY GeometryAssumption
<1>. DEFINE q == k \div BSIZE
            r == k % BSIZE
            o == BSIZE * b + k
            R == Remaining(b)
<1>2. q \in Nat /\ r \in 0 .. BSIZE - 1 /\ k = BSIZE * q + r /\ BSIZE * q <= k
  BY <1>1, Divide
<1>. HIDE DEF q, r
<1>3. R \in Nat /\ BSIZE * R \in Nat /\ k < BSIZE * R
  BY MappedBlock
<1>4. q < R
  <2>. HIDE DEF R
  <2>1. BSIZE * R <= BSIZE * q \/ q < R
    BY <1>1, <1>2, <1>3, Grows, SMT
  <2>2. BSIZE * q \in Nat
    BY <1>1, <1>2, Products
  <2>. QED BY <1>2, <1>3, <2>1, <2>2, SMT
<1>5. o \in Nat
  BY <1>1, Products, SMT
<1>6. o \div BSIZE = b + q
  <2>1. o = BSIZE * (b + q) + r
    BY <1>1, <1>2, SMT
  <2>2. b + q \in Int
    BY <1>2, SMT
  <2>. HIDE DEF o
  <2>. QED BY <1>1, <1>2, <1>5, <2>1, <2>2, Quotient
<1>7. /\ e \in DOMAIN file.ext
      /\ file.ext[e].off <= b /\ R = file.ext[e].off + file.ext[e].len - b
  BY MappedBlock
<1>8. /\ b + q \in Nat
      /\ file.ext[e].off <= b + q /\ b + q < file.ext[e].off + file.ext[e].len
  <2>. HIDE DEF R
  <2>. QED BY <1>2, <1>3, <1>4, <1>7, ExtentTypes, SMT
<1>9. e \in Within(b + q)
  BY <1>7, <1>8, HeldWithin
<1>. QED BY <1>5, <1>6, <1>9

LEMMA Transfer ==
  ASSUME file \in Files, NEW b \in Nat, NEW m \in Nat \ {0},
         NEW k \in Nat, k < Length(b, m)
  PROVE  Transferred(b, k) \in Nat /\ Transferred(b, k) = FileByte(file, BSIZE * b + k)
<1>1. BSIZE \in Nat \ {0}
  BY GeometryAssumption
<1>. DEFINE o == BSIZE * b + k
<1>2. CASE BlockNo(b) = HOLE
  <2>1. k \in 0 .. BSIZE - 1
    BY <1>1, <1>2, TransferLength, SMT
  <2>2. o \in Nat /\ o \div BSIZE = b
    <3>1. o \in Nat
      BY <1>1, Products, SMT
    <3>2. o = BSIZE * b + k
      OBVIOUS
    <3>. HIDE DEF o
    <3>. QED BY <1>1, <2>1, <3>1, <3>2, Quotient
  <2>3. Within(o \div BSIZE) = {}
    BY <1>2, <2>2, Hole
  <2>. HIDE DEF o
  <2>4. FileByte(file, o) = ZERO
    BY <2>2, <2>3, HoleByte
  <2>. QED BY <1>2, <2>4 DEF Transferred, ZERO, o
<1>3. CASE BlockNo(b) # HOLE
  <2>1. PICK e \in Within(b) : TRUE
    BY <1>3, Hole
  <2>2. BSIZE * Remaining(b) \in Nat /\ k < BSIZE * Remaining(b)
    BY <1>3, TransferLength, SMT
  <2>3. e \in Within(o \div BSIZE) /\ o \in Nat
    BY <2>2, InExtent
  <2>4. FileByte(file, o) = (file.ext[e].start - file.ext[e].off) * BSIZE + o
    <3>. HIDE DEF o
    <3>. QED BY <2>3, HeldByte
  <2>5. /\ BlockNo(b) = file.ext[e].start + (b - file.ext[e].off)
        /\ BlockNo(b) \in Nat /\ e \in DOMAIN file.ext
    BY MappedBlock
  <2>6. Transferred(b, k) = BlockNo(b) * BSIZE + k
    BY <1>3 DEF Transferred
  <2>7. file.ext[e].start \in Nat /\ file.ext[e].off \in Nat
    BY <2>5, ExtentTypes
  <2>8. (file.ext[e].start + (b - file.ext[e].off)) * BSIZE + k
          = (file.ext[e].start - file.ext[e].off) * BSIZE + (BSIZE * b + k)
    BY <1>1, <2>7, SMT
  <2>9. BlockNo(b) * BSIZE \in Nat
    BY <1>1, <2>5, Products
  <2>10. BlockNo(b) * BSIZE + k \in Nat
    BY <2>9, SMT
  <2>. QED BY <2>4, <2>5, <2>6, <2>8, <2>10
<1>. QED BY <1>2, <1>3
-----------------------------------------------------------------------------
(* What holds at every step of a read: what is left and what is delivered  *)
(* make up the cut length, and the buffer holds what was delivered, and    *)
(* nothing else until a transfer fails.                                    *)
LoopInv ==
  /\ len \in Lens
  /\ done \in Nat /\ count \in Nat /\ count = Cut(len) - done
  /\ \A k \in 0 .. done - 1 : k \in DOMAIN buf /\ buf[k] = FileByte(file, position + k)
  /\ IF failed THEN count > 0 ELSE DOMAIN buf = 0 .. done - 1

IdleInv == offset = position /\ len = 0 /\ count = 0 /\ buf = Empty /\ ~failed

XInv ==
  /\ XfsTypeOK /\ InBounds
  /\ pc = "idle" => IdleInv
  /\ pc = "loop" => LoopInv

LEMMA EmptyFacts == DOMAIN Empty = {} /\ Empty \in [DOMAIN Empty -> Bytes]
BY DEF Empty

LEMMA XInitInv == Init => XInv
<1>. SUFFICES ASSUME Init PROVE XInv
  OBVIOUS
<1>. USE DEF Init
<1>1. XfsTypeOK
  <2>1. 0 \in 0 .. ALIGN - 1
    BY GeometryAssumption, SMT
  <2>2. result.how = "none"
    BY DEF None
  <2>3. DOMAIN buf \subseteq Nat /\ buf \in [DOMAIN buf -> Bytes]
    BY EmptyFacts
  <2>4. 0 \in Nat /\ 0 >= 0 /\ 0 \in 0 .. 0 /\ 0 \in Int
    BY SMT
  <2>. QED BY <2>1, <2>2, <2>3, <2>4 DEF XfsTypeOK
<1>2. InBounds
  BY EmptyFacts DEF InBounds
<1>. QED BY <1>1, <1>2 DEF XInv, IdleInv

LEMMA CutBounds ==
  ASSUME file \in Files, position \in Nat, NEW n \in Nat
  PROVE  Cut(n) \in Int /\ Cut(n) <= n /\ position + Cut(n) <= file.size
BY ExtentTypes, SMT DEF Cut, Least

(* A call that is over leaves nothing behind.                              *)
LEMMA ReturnInv ==
  ASSUME XInv, NEW how \in {"ESUCCESS", "EIO"}, NEW got, NEW pos \in Nat,
         Return(how, got, pos), UNCHANGED file
  PROVE  XInv'
<1>. USE DEF Return
<1>1. XfsTypeOK'
  <2>1. 0 \in 0 .. ALIGN - 1
    BY GeometryAssumption, SMT
  <2>2. result'.how = how
    BY Zenon
  <2>3. buf' = Empty
    OBVIOUS
  <2>4. DOMAIN buf' \subseteq Nat /\ buf' \in [DOMAIN buf' -> Bytes]
    BY <2>3, EmptyFacts
  <2>5. file \in Files
    BY DEF XInv, XfsTypeOK
  <2>6. result'.how \in {"none", "ESUCCESS", "EIO"}
    BY <2>2
  <2>7. pos >= pos /\ 0 \in 0 .. 0 /\ 0 \in Int
    BY SMT
  <2>. HIDE DEF Return
  <2>8. /\ position' = pos /\ offset' = pos /\ pc' = "idle" /\ len' = 0 /\ base' = 0
        /\ count' = 0 /\ exoff' = 0 /\ failed' = FALSE
    BY DEF Return
  <2>. QED BY <2>1, <2>4, <2>5, <2>6, <2>7, <2>8 DEF XfsTypeOK
<1>2. InBounds'
  BY EmptyFacts DEF InBounds
<1>. QED BY <1>1, <1>2 DEF XInv, IdleInv

LEMMA StartReadInv ==
  ASSUME XInv, NEW n \in Lens, NEW b \in 0 .. ALIGN - 1, StartRead(n, b)
  PROVE  XInv'
<1>. USE DEF StartRead
<1>1. /\ file \in Files /\ position \in Nat /\ file' = file /\ position' = position
      /\ offset' = position /\ count' = Cut(n) /\ len' = n /\ base' = b
      /\ pc' = "loop" /\ buf' = Empty /\ failed' = FALSE
  BY DEF XInv, XfsTypeOK
<1>2. n \in Nat
  BY RequestAssumption
<1>3. Cut(n) \in 0 .. n
  BY <1>1, <1>2, CutBounds, SMT
<1>4. exoff' \in Int
  BY RequestAssumption
<1>5. DOMAIN buf' = {} /\ buf' \in [DOMAIN buf' -> Bytes]
  BY <1>1, EmptyFacts
<1>6. XfsTypeOK'
  <2>1. result'.how = "none"
    BY Zenon DEF None
  <2>2. position >= position
    BY <1>1, SMT
  <2>. QED BY <1>1, <1>3, <1>4, <1>5, <2>1, <2>2 DEF XfsTypeOK
<1>7. InBounds'
  BY <1>5 DEF InBounds
<1>8. LoopInv'
  <2>1. done' = 0
    BY <1>1, SMT DEF done
  <2>2. Cut(len)' = Cut(n)
    BY <1>1 DEF Cut
  <2>3. 0 .. 0 - 1 = {}
    BY SMT
  <2>4. count' \in Nat /\ count' = Cut(n) - 0
    BY <1>1, <1>3, SMT
  <2>. QED BY <1>1, <1>5, <2>1, <2>2, <2>3, <2>4 DEF LoopInv
<1>. QED BY <1>1, <1>6, <1>7, <1>8 DEF XInv

LEMMA SeekInv ==
  ASSUME XInv, NEW p \in Positions, Seek(p)
  PROVE  XInv'
<1>. USE DEF Seek
<1>1. p \in Nat
  BY RequestAssumption
<1>2. pc = "idle" /\ IdleInv /\ XfsTypeOK /\ InBounds
  BY DEF XInv
<1>3. /\ position' = p /\ offset' = p /\ pc' = pc /\ file' = file /\ len' = len
      /\ base' = base /\ count' = count /\ exoff' = exoff /\ buf' = buf /\ failed' = failed
  OBVIOUS
<1>4. result'.how = "none"
  BY Zenon DEF None
<1>5. p >= p
  BY <1>1, SMT
<1>. HIDE DEF Seek
<1>6. XfsTypeOK'
  BY <1>1, <1>2, <1>3, <1>4, <1>5 DEF XfsTypeOK
<1>7. InBounds'
  BY <1>2, <1>3 DEF InBounds
<1>8. IdleInv'
  BY <1>2, <1>3 DEF IdleInv
<1>. QED BY <1>2, <1>3, <1>6, <1>7, <1>8 DEF XInv

-----------------------------------------------------------------------------
(* What a transfer to index k on leaves in the buffer.                     *)
LEMMA PutFacts ==
  ASSUME NEW k \in Nat, NEW n \in Nat, NEW b
  PROVE  /\ DOMAIN Put(k, n, b) = DOMAIN buf \cup k .. k + n - 1
         /\ \A j \in k .. k + n - 1 : Put(k, n, b)[j] = b[j - k]
         /\ \A j \in DOMAIN buf : j \notin k .. k + n - 1 => Put(k, n, b)[j] = buf[j]
         /\ Put(k, n, b) = [j \in DOMAIN Put(k, n, b) |-> Put(k, n, b)[j]]
BY DEF Put

LEMMA LoopFacts ==
  ASSUME XInv, pc = "loop"
  PROVE  /\ LoopInv /\ file \in Files /\ position \in Nat /\ offset \in Nat
         /\ len \in Nat /\ done \in Nat /\ offset = position + done
         /\ count + done <= len /\ count \in Nat
         /\ base \in 0 .. ALIGN - 1
<1>1. LoopInv /\ XfsTypeOK
  BY DEF XInv
<1>2. file \in Files /\ position \in Nat /\ offset \in Nat /\ base \in 0 .. ALIGN - 1
  BY <1>1 DEF XfsTypeOK
<1>3. len \in Nat /\ done \in Nat /\ count \in Nat /\ count = Cut(len) - done
  BY <1>1, RequestAssumption DEF LoopInv
<1>4. Cut(len) \in Int /\ Cut(len) <= len
  BY <1>2, <1>3, CutBounds
<1>5. count + done <= len
  BY <1>3, <1>4, SMT
<1>6. offset = position + done
  BY <1>2, SMT DEF done
<1>. QED BY <1>1, <1>2, <1>3, <1>5, <1>6

(* An iteration that delivers the next n bytes of the file.                *)
LEMMA Deliver ==
  ASSUME XInv, pc = "loop", ~failed,
         NEW n \in Nat, n <= count, NEW b,
         \A k \in 0 .. n - 1 : b[k] \in Nat /\ b[k] = FileByte(file, offset + k),
         buf' = Put(done, n, b), Advance(n), exoff' \in Int
  PROVE  XInv'
<1>1. /\ LoopInv /\ file \in Files /\ position \in Nat /\ offset \in Nat
      /\ len \in Nat /\ done \in Nat /\ offset = position + done
      /\ count + done <= len /\ count \in Nat /\ base \in 0 .. ALIGN - 1
  BY LoopFacts
<1>2. /\ offset' = offset + n /\ count' = count - n /\ file' = file /\ position' = position
      /\ pc' = pc /\ len' = len /\ base' = base /\ result' = result /\ failed' = failed
  BY DEF Advance
<1>3. done' = done + n
  BY <1>1, <1>2, SMT DEF done
<1>. DEFINE put == Put(done, n, b)
<1>11. /\ DOMAIN put = DOMAIN buf \cup done .. done + n - 1
       /\ \A j \in done .. done + n - 1 : put[j] = b[j - done]
       /\ \A j \in DOMAIN buf : j \notin done .. done + n - 1 => put[j] = buf[j]
       /\ put = [j \in DOMAIN put |-> put[j]]
  BY DEF Put
<1>12. buf' = put
  OBVIOUS
<1>. HIDE DEF put
<1>4. DOMAIN buf = 0 .. done - 1
  BY <1>1 DEF LoopInv
<1>5. DOMAIN buf' = 0 .. done + n - 1
  <2>1. DOMAIN buf' = 0 .. done - 1 \cup done .. done + n - 1
    BY <1>4, <1>11, <1>12
  <2>2. 0 .. done - 1 \cup done .. done + n - 1 = 0 .. done + n - 1
    BY <1>1, SMT
  <2>. QED BY <2>1, <2>2
<1>6. ASSUME NEW k \in 0 .. done + n - 1
      PROVE  buf'[k] \in Nat /\ buf'[k] = FileByte(file, position + k)
  <2>1. CASE k \in 0 .. done - 1
    <3>1. k \in DOMAIN buf /\ k \notin done .. done + n - 1
      BY <1>1, <1>4, <2>1, SMT
    <3>2. buf'[k] = buf[k]
      BY <3>1, <1>11, <1>12
    <3>3. buf[k] = FileByte(file, position + k)
      BY <1>1, <2>1 DEF LoopInv
    <3>4. buf[k] \in Nat
      BY <3>1 DEF XInv, XfsTypeOK, Bytes
    <3>. QED BY <3>2, <3>3, <3>4
  <2>2. CASE k \in done .. done + n - 1
    <3>1. buf'[k] = b[k - done]
      BY <2>2, <1>11, <1>12
    <3>2. k - done \in 0 .. n - 1 /\ offset + (k - done) = position + k
      BY <1>1, <2>2, SMT
    <3>3. b[k - done] \in Nat /\ b[k - done] = FileByte(file, offset + (k - done))
      BY <3>2
    <3>. QED BY <3>1, <3>2, <3>3
  <2>. QED BY <1>1, <2>1, <2>2, SMT
<1>7. buf' \in [DOMAIN buf' -> Bytes]
  <2>1. buf' = [j \in DOMAIN buf' |-> buf'[j]]
    BY <1>11, <1>12
  <2>. QED BY <1>5, <1>6, <2>1 DEF Bytes
<1>8. XfsTypeOK'
  <2>1. DOMAIN buf' \subseteq Nat
    BY <1>1, <1>5, SMT
  <2>2. offset' \in Nat /\ offset' >= position' /\ count' \in 0 .. len'
    BY <1>1, <1>2, SMT
  <2>3. /\ len \in Lens \cup {0} /\ pc \in {"idle", "loop"} /\ failed \in BOOLEAN
        /\ result.how \in {"none", "ESUCCESS", "EIO"}
    BY DEF XInv, XfsTypeOK
  <2>. QED BY <1>1, <1>2, <1>7, <2>1, <2>2, <2>3 DEF XfsTypeOK
<1>9. InBounds'
  <2>1. \A k \in 0 .. done + n - 1 : 0 <= k /\ k < len
    BY <1>1, SMT
  <2>. QED BY <1>2, <1>5, <2>1 DEF InBounds
<1>10. LoopInv'
  <2>1. Cut(len)' = Cut(len)
    BY <1>2 DEF Cut
  <2>2. count = Cut(len) - done /\ len \in Lens
    BY <1>1 DEF LoopInv
  <2>3. Cut(len) \in Int
    BY <1>1, CutBounds
  <2>4. count' \in Nat /\ count' = Cut(len) - (done + n) /\ done + n \in Nat
    BY <1>1, <1>2, <2>2, <2>3, SMT
  <2>8. 0 .. done' - 1 = 0 .. done + n - 1
    BY <1>1, <1>3, SMT
  <2>5. \A k \in 0 .. done' - 1 : k \in DOMAIN buf' /\ buf'[k] = FileByte(file', position' + k)
    <3>1. ASSUME NEW k \in 0 .. done' - 1
          PROVE  k \in DOMAIN buf' /\ buf'[k] = FileByte(file', position' + k)
      <4>1. k \in 0 .. done + n - 1
        BY <2>8
      <4>2. buf'[k] = FileByte(file, position + k)
        BY <4>1, <1>6
      <4>. QED BY <4>1, <4>2, <1>2, <1>5
    <3>. QED BY <3>1
  <2>6. ~failed' /\ DOMAIN buf' = 0 .. done' - 1
    <3>1. failed' = failed
      BY <1>2
    <3>2. ~failed'
      BY <3>1, Zenon
    <3>. QED BY <3>2, <2>8, <1>5
  <2>7. done' \in Nat /\ count' \in Nat /\ count' = Cut(len)' - done' /\ len' \in Lens
    BY <1>2, <1>3, <2>1, <2>2, <2>4
  <2>. QED BY <2>5, <2>6, <2>7 DEF LoopInv
<1>. QED BY <1>2, <1>8, <1>9, <1>10 DEF XInv
LEMMA BlockOfOffset ==
  ASSUME XInv, pc = "loop"
  PROVE  /\ Fsb(offset) \in Nat /\ (offset % BSIZE) \in 0 .. BSIZE - 1
         /\ offset = BSIZE * Fsb(offset) + (offset % BSIZE)
         /\ WholeBlocks \in Nat /\ BSIZE * WholeBlocks \in Nat /\ BSIZE * WholeBlocks <= count
         /\ BSIZE \in Nat \ {0}
<1>1. BSIZE \in Nat \ {0} /\ offset \in Nat /\ count \in Nat
  BY LoopFacts, GeometryAssumption
<1>2. offset \div BSIZE \in Nat /\ (offset % BSIZE) \in 0 .. BSIZE - 1
      /\ offset = BSIZE * (offset \div BSIZE) + (offset % BSIZE)
  BY <1>1, Divide
<1>3. count \div BSIZE \in Nat /\ BSIZE * (count \div BSIZE) <= count
  BY <1>1, Divide
<1>4. BSIZE * (count \div BSIZE) \in Nat
  BY <1>1, <1>3, Products
<1>. QED BY <1>1, <1>2, <1>3, <1>4 DEF Fsb, WholeBlocks

LEMMA ExOffsetType == ASSUME XInv, NEW b \in Nat PROVE ExOffset(b) \in Int
BY DEF ExOffset, XInv, XfsTypeOK

(* Both ways to deliver.  In a hole a part is copied only if ex_offset     *)
(* happens to be the hole's block.                                         *)
LEMMA ReadDirectInv == ASSUME XInv, ReadDirect PROVE XInv'
<1>. DEFINE o == Fsb(offset)
            n == Length(o, WholeBlocks)
            b == [k \in 0 .. n - 1 |-> Transferred(o, k)]
<1>1. /\ pc = "loop" /\ ~failed /\ Direct
      /\ buf' = Put(done, n, b) /\ exoff' = ExOffset(o) /\ Advance(n)
  BY DEF ReadDirect
<1>2. /\ o \in Nat /\ offset = BSIZE * o + (offset % BSIZE)
      /\ WholeBlocks \in Nat /\ BSIZE * WholeBlocks \in Nat /\ BSIZE * WholeBlocks <= count
      /\ BSIZE \in Nat \ {0}
  BY <1>1, BlockOfOffset
<1>3. offset % BSIZE = 0 /\ WholeBlocks \in Nat \ {0}
  BY <1>1, <1>2, SMT DEF Direct
<1>4. file \in Files /\ count \in Nat
  BY <1>1, LoopFacts
<1>5. n \in Nat /\ n <= BSIZE * WholeBlocks
  BY <1>2, <1>3, <1>4, TransferLength
<1>6. n <= count
  BY <1>2, <1>4, <1>5, SMT
<1>7. offset = BSIZE * o
  BY <1>2, <1>3, Products, SMT
<1>8. exoff' \in Int
  BY <1>1, <1>2, ExOffsetType
<1>. HIDE DEF o
<1>9. \A k \in 0 .. n - 1 : b[k] \in Nat /\ b[k] = FileByte(file, offset + k)
  <2>1. ASSUME NEW k \in 0 .. n - 1
        PROVE  b[k] \in Nat /\ b[k] = FileByte(file, offset + k)
    <3>1. k \in Nat /\ k < n
      BY <1>5, SMT
    <3>2. Transferred(o, k) \in Nat /\ Transferred(o, k) = FileByte(file, BSIZE * o + k)
      BY <1>2, <1>3, <1>4, <3>1, Transfer
    <3>3. b[k] = Transferred(o, k)
      OBVIOUS
    <3>. QED BY <1>7, <3>2, <3>3
  <2>. QED BY <2>1
<1>. HIDE DEF n, b
<1>. QED BY <1>1, <1>5, <1>6, <1>8, <1>9, Deliver

LEMMA ReadPartInv == ASSUME XInv, ReadPart PROVE XInv'
<1>. DEFINE o == Fsb(offset)
            s == Skipped(o)
            n == Least(Length(o, 1) - s, count)
            b == [k \in 0 .. n - 1 |-> Transferred(o, s + k)]
<1>1. /\ pc = "loop" /\ ~failed /\ ~Misplaced(o)
      /\ buf' = Put(done, n, b) /\ exoff' = ExOffset(o) /\ Advance(n)
  BY DEF ReadPart
<1>2. /\ o \in Nat /\ offset = BSIZE * o + (offset % BSIZE)
      /\ (offset % BSIZE) \in 0 .. BSIZE - 1 /\ BSIZE \in Nat \ {0}
  BY <1>1, BlockOfOffset
<1>3. file \in Files /\ count \in Nat /\ offset \in Nat
  BY <1>1, LoopFacts
<1>4. Length(o, 1) = BSIZE
  BY <1>2, <1>3, TransferLength
<1>5. ExOffset(o) \in Int
  BY <1>2, ExOffsetType
<1>. HIDE DEF o
<1>6. s = offset - ExOffset(o) * BSIZE
  BY DEF Skipped
<1>7. ExOffset(o) * BSIZE \in Int
  BY <1>2, <1>5, SMT
<1>8. s \in Int
  <2>. DEFINE p == ExOffset(o) * BSIZE
  <2>1. p \in Int /\ s = offset - p
    BY <1>6, <1>7
  <2>. HIDE DEF p, s
  <2>. QED BY <1>3, <2>1, SMT
<1>9. ~(s < 0) /\ ~(n <= 0)
  BY <1>1 DEF Misplaced
<1>. HIDE DEF s
<1>10. s \in 0 .. BSIZE - 1 /\ n \in Nat /\ n <= count /\ n <= BSIZE - s
  BY <1>2, <1>3, <1>4, <1>8, <1>9, SMT DEF Least
<1>11. ExOffset(o) = o
  <2>1. offset = BSIZE * ExOffset(o) + s
    BY <1>2, <1>3, <1>5, <1>6, <1>8, SMT
  <2>2. offset \div BSIZE = ExOffset(o)
    BY <1>2, <1>3, <1>5, <1>10, <2>1, Quotient
  <2>. QED BY <2>2 DEF o, Fsb
<1>12. offset = BSIZE * o + s
  BY <1>2, <1>3, <1>6, <1>8, <1>11, SMT
<1>. HIDE DEF n
<1>13. \A k \in 0 .. n - 1 : b[k] \in Nat /\ b[k] = FileByte(file, offset + k)
  <2>1. ASSUME NEW k \in 0 .. n - 1
        PROVE  b[k] \in Nat /\ b[k] = FileByte(file, offset + k)
    <3>1. s + k \in Nat /\ s + k < Length(o, 1)
      BY <1>2, <1>4, <1>10, SMT
    <3>2. /\ Transferred(o, s + k) \in Nat
          /\ Transferred(o, s + k) = FileByte(file, BSIZE * o + (s + k))
      BY <1>2, <1>3, <3>1, Transfer
    <3>3. b[k] = Transferred(o, s + k)
      OBVIOUS
    <3>4. BSIZE * o + (s + k) = offset + k
      <4>1. BSIZE * o \in Nat
        BY <1>2, Products
      <4>. QED BY <1>12, <1>10, <4>1, SMT
    <3>. QED BY <3>2, <3>3, <3>4
  <2>. QED BY <2>1
<1>14. exoff' \in Int
  BY <1>1, <1>5
<1>. HIDE DEF b
<1>. QED BY <1>1, <1>10, <1>13, <1>14, Deliver

LEMMA SectorsFit ==
  ASSUME NEW n \in Nat, NEW s \in 0 .. n \div SECTOR - 1
  PROVE  s * SECTOR \in Nat /\ s * SECTOR <= n
<1>1. SECTOR \in Nat \ {0}
  BY GeometryAssumption
<1>. DEFINE q == n \div SECTOR
<1>2. q \in Nat /\ SECTOR * q <= n
  BY <1>1, Divide
<1>3. s \in 0 .. q - 1
  OBVIOUS
<1>. HIDE DEF q
<1>4. s \in Nat /\ s <= q
  BY <1>2, <1>3, SMT
<1>5. SECTOR * s <= SECTOR * q
  BY <1>1, <1>2, <1>4, Grows, SMT
<1>6. SECTOR * s \in Nat /\ SECTOR * q \in Nat
  BY <1>1, <1>2, <1>4, Products
<1>7. s * SECTOR = SECTOR * s
  BY <1>1, <1>4, SMT
<1>. QED BY <1>2, <1>5, <1>6, <1>7, SMT

(* A transfer that fails leaves what was delivered as it is, and stays     *)
(* within the length.                                                      *)
LEMMA DeviceFailsInv == ASSUME XInv, DeviceFails PROVE XInv'
<1>. DEFINE o == Fsb(offset)
            n == Length(o, IF Direct THEN WholeBlocks ELSE 1)
            b == [k \in 0 .. n - 1 |-> Transferred(o, k)]
<1>1. /\ pc = "loop" /\ count > 0 /\ ~failed /\ failed' = TRUE
      /\ UNCHANGED <<file, position, pc, len, base, offset, count, exoff, result>>
      /\ \E s \in 0 .. n \div SECTOR - 1 :
           buf' = IF Direct THEN Put(done, s * SECTOR, b) ELSE buf
  BY DEF DeviceFails
<1>2. /\ LoopInv /\ file \in Files /\ position \in Nat /\ offset \in Nat
      /\ len \in Nat /\ done \in Nat /\ count + done <= len /\ count \in Nat
  BY <1>1, LoopFacts
<1>3. DOMAIN buf = 0 .. done - 1
  BY <1>1, <1>2 DEF LoopInv
<1>. DEFINE Kept(f) == /\ DOMAIN f \subseteq 0 .. len - 1 /\ f \in [DOMAIN f -> Bytes]
                       /\ \A k \in 0 .. done - 1 : k \in DOMAIN f /\ f[k] = buf[k]
<1>4. Kept(buf)
  <2>1. 0 .. done - 1 \subseteq 0 .. len - 1
    BY <1>2, SMT
  <2>2. buf \in [DOMAIN buf -> Bytes]
    BY DEF XInv, XfsTypeOK
  <2>. QED BY <1>3, <2>1, <2>2
<1>5. Kept(buf')
  <2>1. CASE ~Direct
    BY <1>1, <1>4, <2>1
  <2>2. CASE Direct
    <3>1. PICK s \in 0 .. n \div SECTOR - 1 : buf' = Put(done, s * SECTOR, b)
      BY <1>1, <2>2
    <3>. DEFINE t == s * SECTOR
                put == Put(done, t, b)
    <3>2. /\ o \in Nat /\ WholeBlocks \in Nat /\ BSIZE * WholeBlocks \in Nat
          /\ BSIZE * WholeBlocks <= count
      BY <1>1, BlockOfOffset
    <3>3. WholeBlocks \in Nat \ {0} /\ n = Length(o, WholeBlocks)
      BY <2>2, <3>2, SMT DEF Direct
    <3>4. n \in Nat /\ n <= BSIZE * WholeBlocks
      BY <1>2, <3>2, <3>3, TransferLength
    <3>5. n <= count
      BY <1>2, <3>2, <3>4, SMT
    <3>6. \A k \in 0 .. n - 1 : b[k] \in Nat
      <4>1. ASSUME NEW k \in 0 .. n - 1 PROVE b[k] \in Nat
        <5>1. k \in Nat /\ k < Length(o, WholeBlocks)
          BY <3>3, <3>4, SMT
        <5>2. Transferred(o, k) \in Nat
          BY <1>2, <3>2, <3>3, <5>1, Transfer
        <5>3. b[k] = Transferred(o, k)
          OBVIOUS
        <5>. QED BY <5>2, <5>3
      <4>. QED BY <4>1
    <3>. HIDE DEF n, b
    <3>7. t \in Nat /\ t <= n
      BY <3>4, SectorsFit
    <3>. HIDE DEF t
    <3>8. /\ DOMAIN put = DOMAIN buf \cup done .. done + t - 1
          /\ \A j \in done .. done + t - 1 : put[j] = b[j - done]
          /\ \A j \in DOMAIN buf : j \notin done .. done + t - 1 => put[j] = buf[j]
          /\ put = [j \in DOMAIN put |-> put[j]]
      BY <1>2, <3>7, PutFacts, Zenon
    <3>9. buf' = put
      BY <3>1 DEF t
    <3>. HIDE DEF put
    <3>10. DOMAIN put = 0 .. done + t - 1
      <4>1. 0 .. done - 1 \cup done .. done + t - 1 = 0 .. done + t - 1
        BY <1>2, <3>7, SMT
      <4>. QED BY <1>3, <3>8, <4>1
    <3>11. 0 .. done + t - 1 \subseteq 0 .. len - 1
      BY <1>2, <3>4, <3>5, <3>7, SMT
    <3>12. \A k \in 0 .. done - 1 : k \in DOMAIN put /\ put[k] = buf[k]
      <4>1. ASSUME NEW k \in 0 .. done - 1 PROVE k \in DOMAIN put /\ put[k] = buf[k]
        <5>1. k \notin done .. done + t - 1 /\ k \in 0 .. done + t - 1
          BY <1>2, <3>7, SMT
        <5>. QED BY <1>3, <3>8, <3>10, <5>1
      <4>. QED BY <4>1
    <3>13. \A k \in 0 .. done + t - 1 : put[k] \in Nat
      <4>1. ASSUME NEW k \in 0 .. done + t - 1 PROVE put[k] \in Nat
        <5>1. CASE k \in 0 .. done - 1
          <6>1. buf[k] \in Nat
            BY <1>3, <1>4, <5>1 DEF Bytes
          <6>. QED BY <5>1, <6>1, <3>12
        <5>2. CASE k \in done .. done + t - 1
          <6>1. k - done \in 0 .. n - 1
            BY <1>2, <3>4, <3>7, <5>2, SMT
          <6>. QED BY <3>6, <3>8, <5>2, <6>1
        <5>. QED BY <1>2, <3>7, <5>1, <5>2, SMT
      <4>. QED BY <4>1
    <3>14. put \in [DOMAIN put -> Bytes]
      BY <3>8, <3>10, <3>13 DEF Bytes
    <3>. QED BY <3>9, <3>10, <3>11, <3>12, <3>14
  <2>. QED BY <2>1, <2>2
<1>. HIDE DEF n, b, o
<1>6. XfsTypeOK'
  <2>1. DOMAIN buf' \subseteq Nat
    BY <1>2, <1>5, SMT
  <2>2. XfsTypeOK
    BY DEF XInv
  <2>. QED BY <1>1, <1>5, <2>1, <2>2 DEF XfsTypeOK
<1>7. InBounds'
  <2>1. \A k \in 0 .. len - 1 : 0 <= k /\ k < len
    BY <1>2, SMT
  <2>. QED BY <1>1, <1>5, <2>1 DEF InBounds
<1>8. LoopInv'
  <2>1. /\ len \in Lens /\ count = Cut(len) - done
        /\ \A k \in 0 .. done - 1 : k \in DOMAIN buf /\ buf[k] = FileByte(file, position + k)
    BY <1>2 DEF LoopInv
  <2>2. done' = done /\ Cut(len)' = Cut(len)
    BY <1>1 DEF done, Cut
  <2>3. \A k \in 0 .. done' - 1 : k \in DOMAIN buf' /\ buf'[k] = FileByte(file', position' + k)
    BY <1>1, <1>5, <2>1, <2>2
  <2>. QED BY <1>1, <1>2, <2>1, <2>2, <2>3 DEF LoopInv
<1>. QED BY <1>1, <1>6, <1>7, <1>8 DEF XInv
LEMMA XNextInv == XInv /\ [Next]_vars => XInv'
<1>. SUFFICES ASSUME XInv, [Next]_vars PROVE XInv'
  OBVIOUS
<1>1. CASE UNCHANGED vars
  BY <1>1 DEF vars, XInv, XfsTypeOK, InBounds, IdleInv, LoopInv, done, Cut
<1>2. ASSUME NEW n \in Lens, ReadNothing(n) PROVE XInv'
  <2>1. position \in Nat
    BY DEF XInv, XfsTypeOK
  <2>. QED BY <1>2, <2>1, ReturnInv DEF ReadNothing
<1>3. ASSUME NEW n \in Lens, NEW b \in 0 .. ALIGN - 1, StartRead(n, b) PROVE XInv'
  BY <1>3, StartReadInv
<1>4. ASSUME NEW p \in Positions, Seek(p) PROVE XInv'
  BY <1>4, SeekInv
<1>5. CASE ReadDirect
  BY <1>5, ReadDirectInv
<1>6. CASE ReadPart
  BY <1>6, ReadPartInv
<1>7. CASE DeviceFails
  BY <1>7, DeviceFailsInv
<1>8. CASE ReadFails
  <2>1. position \in Nat
    BY DEF XInv, XfsTypeOK
  <2>. QED BY <1>8, <2>1, ReturnInv DEF ReadFails
<1>9. CASE ReadDone
  <2>1. offset \in Nat
    BY DEF XInv, XfsTypeOK
  <2>. QED BY <1>9, <2>1, ReturnInv DEF ReadDone
<1>. QED BY <1>1, <1>2, <1>3, <1>4, <1>5, <1>6, <1>7, <1>8, <1>9 DEF Next, Call, Loop

(* The variables of a read keep their types for every geometry of the file *)
(* system, every file and every request: what is left never goes below     *)
(* zero or above what was asked.                                           *)
THEOREM XfsTypeCorrect == Spec => []XfsTypeOK
<1>1. XInv => XfsTypeOK
  BY DEF XInv
<1>. QED BY XInitInv, XNextInv, <1>1, PTL DEF Spec

(* Whatever the block size, the longest transfer, the alignment and the    *)
(* extents, no transfer of _xfs_read(), also one that fails half way,      *)
(* writes behind the length the program gave.                              *)
THEOREM AlwaysInBounds == Spec => []InBounds
<1>1. XInv => InBounds
  BY DEF XInv
<1>. QED BY XInitInv, XNextInv, <1>1, PTL DEF Spec

(* Direct transfers, parts of blocks and holes deliver the file's own      *)
(* bytes in order, whatever ex_offset held.                                *)
THEOREM SliceAlwaysRight == Spec => []SliceRight
<1>1. XInv => SliceRight
  BY DEF XInv, LoopInv, SliceRight, done
<1>. QED BY XInitInv, XNextInv, <1>1, PTL DEF Spec

-----------------------------------------------------------------------------
(* The file the program sees.                                              *)
Contents == [o \in 0 .. file.size - 1 |-> FileByte(file, o)]

LEMMA StartsAsFile == Init => Abstract!Init
BY DEF Init, Abstract!Init, None, Abstract!None, Empty, ZERO

LEMMA NothingToRead ==
  ASSUME XInv, NEW n \in Lens, ReadNothing(n)
  PROVE  Abstract!Read(n)
<1>1. file \in Files /\ position \in Nat /\ file.size \in Nat /\ n \in Nat
  BY RequestAssumption, ExtentTypes DEF XInv, XfsTypeOK
<1>2. /\ result' = [how |-> "ESUCCESS", got |-> Empty] /\ position' = position
      /\ UNCHANGED file /\ Cut(n) <= 0
  BY DEF ReadNothing, Return
<1>3. Abstract!Least(n, Abstract!Left) = 0
  BY <1>1, <1>2, SMT DEF Abstract!Least, Abstract!Left, Cut, Least
<1>4. [k \in 0 .. 0 - 1 |-> Contents[position + k]] = Empty
  <2>1. 0 .. 0 - 1 = {}
    BY SMT
  <2>. QED BY <2>1 DEF Empty
<1>5. position' = position + 0
  BY <1>1, <1>2, SMT
<1>. QED BY <1>2, <1>3, <1>4, <1>5 DEF Abstract!Read, Contents

LEMMA ReadDelivers ==
  ASSUME XInv, ReadDone
  PROVE  Abstract!Read(len)
<1>1. pc = "loop" /\ count <= 0 /\ UNCHANGED file
      /\ result' = [how |-> "ESUCCESS", got |-> buf] /\ position' = offset
  BY DEF ReadDone, Return
<1>2. /\ LoopInv /\ file \in Files /\ position \in Nat /\ offset = position + done
      /\ len \in Nat /\ done \in Nat /\ count \in Nat /\ file.size \in Nat
  BY <1>1, LoopFacts, ExtentTypes
<1>3. count = 0 /\ count = Cut(len) - done /\ ~failed
  BY <1>1, <1>2, SMT DEF LoopInv
<1>4. done = Cut(len)
  BY <1>2, <1>3, CutBounds, SMT
<1>5. Abstract!Least(len, Abstract!Left) = done
  BY <1>2, <1>4, SMT DEF Abstract!Least, Abstract!Left, Cut, Least
<1>6. position + done <= file.size
  BY <1>2, <1>4, CutBounds
<1>7. buf = [k \in 0 .. done - 1 |-> Contents[position + k]]
  <2>1. DOMAIN buf = 0 .. done - 1 /\ buf \in [DOMAIN buf -> Bytes]
    BY <1>2, <1>3 DEF LoopInv, XInv, XfsTypeOK
  <2>2. ASSUME NEW k \in 0 .. done - 1 PROVE buf[k] = Contents[position + k]
    <3>1. position + k \in 0 .. file.size - 1
      BY <1>2, <1>6, SMT
    <3>2. buf[k] = FileByte(file, position + k)
      BY <1>2 DEF LoopInv
    <3>. QED BY <3>1, <3>2 DEF Contents
  <2>3. buf = [k \in DOMAIN buf |-> buf[k]]
    BY <2>1
  <2>. QED BY <2>1, <2>2, <2>3
<1>. QED BY <1>1, <1>2, <1>5, <1>7 DEF Abstract!Read, Contents

LEMMA StepOfFile == XInv /\ [Next]_vars => [Abstract!Next]_(Abstract!vars)
<1>. SUFFICES ASSUME XInv, [Next]_vars PROVE [Abstract!Next]_(Abstract!vars)
  OBVIOUS
<1>0. ASSUME UNCHANGED <<file, position, result>> PROVE UNCHANGED Abstract!vars
  BY <1>0 DEF Abstract!vars
<1>1. CASE UNCHANGED vars
  BY <1>0, <1>1 DEF vars
<1>2. ASSUME NEW n \in Lens, ReadNothing(n) PROVE Abstract!Next
  BY <1>2, NothingToRead DEF Abstract!Next
<1>3. ASSUME NEW n \in Lens, NEW b \in 0 .. ALIGN - 1, StartRead(n, b) PROVE Abstract!Next
  <2>1. Abstract!Begin
    BY <1>3 DEF StartRead, Abstract!Begin, None, Abstract!None, Empty, ZERO
  <2>. QED BY <2>1 DEF Abstract!Next
<1>4. ASSUME NEW p \in Positions, Seek(p) PROVE Abstract!Next
  <2>1. Abstract!Seek(p)
    BY <1>4 DEF Seek, Abstract!Seek, None, Abstract!None, Empty, ZERO
  <2>. QED BY <2>1 DEF Abstract!Next
<1>5. CASE ReadDirect \/ ReadPart
  BY <1>0, <1>5 DEF ReadDirect, ReadPart, Advance
<1>6. CASE DeviceFails
  BY <1>0, <1>6 DEF DeviceFails
<1>7. CASE ReadFails
  <2>1. Abstract!ReadFails
    BY <1>7 DEF ReadFails, Return, Abstract!ReadFails, Abstract!Eio, Empty, ZERO
  <2>. QED BY <2>1 DEF Abstract!Next
<1>8. CASE ReadDone
  <2>1. len \in Lens
    BY <1>8 DEF ReadDone, XInv, LoopInv
  <2>. QED BY <1>8, <2>1, ReadDelivers DEF Abstract!Next
<1>. QED BY <1>1, <1>2, <1>3, <1>4, <1>5, <1>6, <1>7, <1>8 DEF Next, Call, Loop

(* The descriptor is an ordinary sequential file with these contents: a    *)
(* read that succeeds delivers everything up to the length or the end and  *)
(* moves past it, one that fails, at any iteration, moves nothing.         *)
THEOREM ReadsAsFile == Spec => ImplementsFile
<1>. QED BY XInitInv, XNextInv, StartsAsFile, StepOfFile, PTL
     DEF Spec, ImplementsFile, Abstract!Spec
=============================================================================
