--------------------------- MODULE EfsReadProofs ----------------------------
(***************************************************************************)
(* Proofs about EfsOpen and EfsRead, for every file, directory, request    *)
(* and number of partitions: a transfer stays within the program's buffer, *)
(* the list of extents that is kept is what it is taken for, what is read  *)
(* through the file's own list is the file's own, an open that fails gives *)
(* back what it took, and a path leads where its names do.                 *)
(***************************************************************************)
EXTENDS EfsReadProps, WellFoundedInduction, TLAPS

(* A set of natural numbers that is not empty has a least one.             *)
LEMMA LeastNatural ==
  ASSUME NEW S, S \subseteq Nat, S # {}
  PROVE  \E i \in S : \A j \in S : i <= j
<1>. DEFINE Less == OpToRel(<, Nat)
<1>1. IsWellFoundedOn(Less, Nat)
  BY NatLessThanWellFounded
<1>2. PICK i \in S : \A j \in S : ~(<<j, i>> \in Less)
  <2>. HIDE DEF Less
  <2>. QED BY <1>1, WFMin
<1>3. \A j \in S : ~(j < i)
  BY <1>2 DEF OpToRel
<1>. QED BY <1>3

(* What holds of 0 and passes from each number to the next holds up to n.  *)
LEMMA CountUp ==
  ASSUME NEW n \in Nat, NEW S, 0 \in S, \A k \in 1 .. n : k - 1 \in S => k \in S
  PROVE  \A k \in 0 .. n : k \in S
<1>1. SUFFICES ASSUME NEW k \in 0 .. n, k \notin S PROVE FALSE
  OBVIOUS
<1>. DEFINE Missing == {m \in 0 .. n : m \notin S}
<1>2. PICK m \in Missing : \A j \in Missing : m <= j
  <2>1. Missing \subseteq Nat /\ Missing # {}
    BY <1>1
  <2>. QED BY <2>1, LeastNatural
<1>3. m \in 1 .. n /\ m - 1 \in 0 .. n /\ ~(m <= m - 1)
  OBVIOUS
<1>4. m - 1 \in S
  BY <1>2, <1>3
<1>. QED BY <1>3, <1>4

(* A function on 0 .. n given by its first value and by what each turn     *)
(* makes of the value before.                                              *)
Computes(h, n, V, b, turn) ==
  /\ h \in [0 .. n -> V] /\ h[0] = b
  /\ \A k \in 1 .. n : h[k] = turn[k][h[k - 1]]

LEMMA RecursionExists ==
  ASSUME NEW n \in Nat, NEW V, NEW b \in V, NEW turn \in [1 .. n -> [V -> V]]
  PROVE  \E h : Computes(h, n, V, b, turn)
<1>. DEFINE Upto(m, h) == h[0] = b /\ \A k \in 1 .. m : h[k] = turn[k][h[k - 1]]
            S == {m \in 0 .. n : \E h \in [0 .. m -> V] : Upto(m, h)}
<1>1. 0 \in S
  <2>1. Upto(0, [k \in 0 .. 0 |-> b]) /\ [k \in 0 .. 0 |-> b] \in [0 .. 0 -> V]
    OBVIOUS
  <2>. HIDE DEF Upto
  <2>. QED BY <2>1
<1>2. ASSUME NEW m \in 1 .. n, m - 1 \in S PROVE m \in S
  <2>1. PICK h \in [0 .. m - 1 -> V] : Upto(m - 1, h)
    BY <1>2
  <2>. DEFINE g == [k \in 0 .. m |-> IF k = m THEN turn[m][h[m - 1]] ELSE h[k]]
  <2>2. h[m - 1] \in V /\ turn[m] \in [V -> V]
    OBVIOUS
  <2>3. g \in [0 .. m -> V]
    <3>1. ASSUME NEW k \in 0 .. m PROVE g[k] \in V
      BY <2>2
    <3>. QED BY <3>1
  <2>4. Upto(m, g)
    <3>1. g[0] = b
      BY <2>1
    <3>2. ASSUME NEW k \in 1 .. m PROVE g[k] = turn[k][g[k - 1]]
      <4>1. k - 1 \in 0 .. m /\ k - 1 # m /\ g[k - 1] = h[k - 1]
        OBVIOUS
      <4>2. CASE k = m
        BY <4>1, <4>2
      <4>3. CASE k # m
        <5>1. k \in 1 .. m - 1 /\ g[k] = h[k]
          BY <4>3
        <5>2. h[k] = turn[k][h[k - 1]]
          BY <2>1, <5>1
        <5>. QED BY <4>1, <5>1, <5>2
      <4>. QED BY <4>2, <4>3
    <3>. QED BY <3>1, <3>2
  <2>. HIDE DEF Upto
  <2>. QED BY <2>3, <2>4
<1>. HIDE DEF S
<1>3. \A m \in 1 .. n : m - 1 \in S => m \in S
  BY <1>2
<1>4. \A m \in 0 .. n : m \in S
  BY <1>1, <1>3, CountUp
<1>5. n \in S
  BY <1>4
<1>. QED BY <1>5 DEF S, Computes

LEMMA Products == \A x, y \in Nat : x * y \in Nat
BY SMT

LEMMA Grows == ASSUME NEW c \in Nat, NEW x \in Int, NEW y \in Int, x <= y PROVE c * x <= c * y
<1>1. y - x \in Nat
  OBVIOUS
<1>2. c * (y - x) \in Nat
  BY <1>1, Products
<1>3. c * (y - x) = c * y - c * x
  BY SMT
<1>. QED BY <1>2, <1>3

(* Division by a block or sector size.                                     *)
LEMMA Divide ==
  ASSUME NEW B \in Nat \ {0}, NEW x \in Nat
  PROVE  /\ x \div B \in Nat /\ (x % B) \in 0 .. B - 1
         /\ x = B * (x \div B) + (x % B)
         /\ B * (x \div B) <= x
<1>1. B \in Nat /\ B > 0
  OBVIOUS
<1>2. x = B * (x \div B) + (x % B)
  BY <1>1, SMT
<1>3. x \div B \in Nat /\ (x % B) \in 0 .. B - 1
  BY <1>1, SMT
<1>4. B * (x \div B) \in Nat
  BY <1>3, Products
<1>. QED BY <1>2, <1>3, <1>4, SMT

LEMMA Quotient ==
  ASSUME NEW B \in Nat \ {0}, NEW x \in Nat, NEW q \in Int, NEW r \in 0 .. B - 1,
         x = B * q + r
  PROVE  x \div B = q
<1>1. B \in Nat /\ B > 0
  OBVIOUS
<1>2. q \in Nat
  <2>1. SUFFICES ASSUME q <= 0 - 1 PROVE FALSE
    BY SMT
  <2>2. B * q <= B * (0 - 1)
    BY <2>1, Grows, SMT
  <2>. QED BY <2>2, SMT
<1>. QED BY <1>1, <1>2, SMT

-----------------------------------------------------------------------------
(* Types, and what the cached list is: the owner's, under its number,      *)
(* unless a later one came in only in part.                                *)
Types ==
  /\ file \in Files /\ owner \in Files
  /\ position \in Nat /\ offset \in Nat
  /\ len \in Nat /\ base \in 0 .. ALIGN - 1 /\ count \in Nat
  /\ DOMAIN buf \subseteq Nat /\ buf \in [DOMAIN buf -> Nat]
  /\ cache \in [CacheSlots -> Extents]
  /\ valid \in BOOLEAN /\ torn \in BOOLEAN /\ astray \in BOOLEAN

ListInv ==
  valid =>
    /\ vino = owner.ino
    /\ owner.num <= MAXEXTENTS
    /\ ~torn => \A k \in 1 .. owner.num : cache[k] = owner.slots[k]

(* What is left and what was delivered make up the cut length, and nothing *)
(* lies behind what was delivered.                                         *)
LoopInv ==
  /\ done \in Nat /\ count = Cut(len) - done
  /\ DOMAIN buf \subseteq 0 .. done - 1
  /\ ~astray => \A k \in 0 .. done - 1 :
                  k \in DOMAIN buf /\ buf[k] = EfsByte(file, position + k)

NoReadInv == len = 0 /\ count = 0 /\ buf = Empty /\ ~astray

EInv ==
  /\ Types /\ ListInv
  /\ pc # "loop" => NoReadInv
  /\ pc = "loop" => LoopInv

-----------------------------------------------------------------------------
(* The slots of a file, and those that are searched.                       *)
LEMMA FileTypes ==
  ASSUME NEW f \in Files
  PROVE  /\ f.base \in Nat /\ f.size \in Nat /\ f.num \in Nat
         /\ f.indir.len \in Nat
         /\ DOMAIN f.slots = 1 .. Len(f.slots) /\ Len(f.slots) \in Nat
         /\ 1 .. f.num \subseteq DOMAIN f.slots
         /\ \A k \in DOMAIN f.slots : f.slots[k] \in Extents
<1>1. /\ f.base \in Nat /\ f.size \in Nat /\ f.num \in Nat
      /\ f.slots \in Seq(Extents) /\ f.indir \in [n : Nat, len : Nat]
      /\ f.num <= DIRECT => Len(f.slots) = DIRECT
      /\ f.num > DIRECT => f.num <= Len(f.slots)
  BY FileAssumption
<1>2. /\ DOMAIN f.slots = 1 .. Len(f.slots) /\ Len(f.slots) \in Nat
      /\ \A k \in DOMAIN f.slots : f.slots[k] \in Extents
  BY <1>1, SMT
<1>3. DIRECT \in Nat
  BY GeometryAssumption
<1>4. 1 .. f.num \subseteq 1 .. Len(f.slots)
  BY <1>1, <1>2, <1>3, SMT
<1>. QED BY <1>1, <1>2, <1>4

LEMMA ExtentParts ==
  ASSUME NEW e \in Extents
  PROVE  e.off \in Nat /\ e.bn \in Nat /\ e.len \in Nat
BY DEF Extents

LEMMA SlotTypes ==
  ASSUME Types
  PROVE  DOMAIN Slots \subseteq Nat /\ \A k \in DOMAIN Slots : Slots[k] \in Extents
<1>1. /\ file \in Files /\ cache \in [CacheSlots -> Extents] /\ MAXEXTENTS \in Nat
  BY GeometryAssumption DEF Types
<1>2. CASE Indirect(file)
  <2>1. DOMAIN cache = 1 .. MAXEXTENTS /\ \A k \in DOMAIN cache : cache[k] \in Extents
    BY <1>1 DEF CacheSlots
  <2>2. 1 .. MAXEXTENTS \subseteq Nat
    BY <1>1, SMT
  <2>. QED BY <1>2, <2>1, <2>2 DEF Slots
<1>3. CASE ~Indirect(file)
  <2>1. /\ DOMAIN file.slots = 1 .. Len(file.slots) /\ Len(file.slots) \in Nat
        /\ \A k \in DOMAIN file.slots : file.slots[k] \in Extents
    BY <1>1, FileTypes
  <2>2. 1 .. Len(file.slots) \subseteq Nat
    BY <2>1, SMT
  <2>. QED BY <1>3, <2>1, <2>2 DEF Slots
<1>. QED BY <1>2, <1>3

LEMMA HitFacts ==
  ASSUME Types, NEW o \in Nat, Hits(o) # {}
  PROVE  /\ \E k \in Hits(o) : Hit(o) = Slots[k] /\ \A j \in Hits(o) : k <= j
         /\ Hit(o).off \in Nat /\ Hit(o).bn \in Nat /\ Hit(o).len \in Nat
         /\ Hit(o).off <= o /\ o < Hit(o).off + Hit(o).len
         /\ Block(o) \in Nat
<1>1. Hits(o) \subseteq Nat
  BY SlotTypes DEF Hits
<1>2. \E k \in Hits(o) : \A j \in Hits(o) : k <= j
  BY <1>1, LeastNatural
<1>. DEFINE k == CHOOSE k \in Hits(o) : \A j \in Hits(o) : k <= j
<1>3. k \in Hits(o) /\ \A j \in Hits(o) : k <= j
  BY <1>2
<1>4. Hit(o) = Slots[k]
  BY DEF Hit
<1>. HIDE DEF k
<1>5. k \in DOMAIN Slots /\ Slots[k].off <= o /\ o < Slots[k].off + Slots[k].len
  BY <1>3 DEF Hits
<1>6. Hit(o) \in Extents
  BY <1>4, <1>5, SlotTypes
<1>7. Hit(o).off \in Nat /\ Hit(o).bn \in Nat /\ Hit(o).len \in Nat
  BY <1>6, ExtentParts
<1>8. Block(o) \in Nat
  BY <1>4, <1>5, <1>7, SMT DEF Block
<1>. QED BY <1>3, <1>4, <1>5, <1>7, <1>8

LEMMA TransferLength ==
  ASSUME Types, NEW o \in Nat, Hits(o) # {}, NEW m \in Nat \ {0}
  PROVE  /\ Blocks(o, m) \in Nat \ {0} /\ Blocks(o, m) <= m
         /\ o + Blocks(o, m) <= Hit(o).off + Hit(o).len
         /\ BB \in Nat \ {0} /\ Blocks(o, m) * BB \in Nat /\ Blocks(o, m) * BB <= BB * m
         /\ BB * m \in Nat
         /\ m = 1 => Blocks(o, m) * BB = BB
<1>1. /\ Hit(o).off \in Nat /\ Hit(o).len \in Nat
      /\ Hit(o).off <= o /\ o < Hit(o).off + Hit(o).len
  BY HitFacts
<1>. DEFINE w == Blocks(o, m)
<1>2. w \in Nat \ {0} /\ w <= m /\ o + w <= Hit(o).off + Hit(o).len
  BY <1>1, SMT DEF Blocks, Least
<1>. HIDE DEF w
<1>3. BB \in Nat \ {0}
  BY GeometryAssumption
<1>4. BB * w <= BB * m /\ BB * w \in Nat /\ BB * m \in Nat /\ w * BB = BB * w
  <2>1. BB * w <= BB * m
    BY <1>2, <1>3, Grows, SMT
  <2>. QED BY <1>2, <1>3, <2>1, Products, SMT
<1>5. m = 1 => w * BB = BB
  <2>1. m = 1 => w = 1
    BY <1>2, SMT
  <2>2. 1 * BB = BB
    BY <1>3, SMT
  <2>. QED BY <2>1, <2>2
<1>. QED BY <1>2, <1>3, <1>4, <1>5 DEF w

(* The file's own extent that holds a block is the only one.               *)
LEMMA OwnExtent ==
  ASSUME NEW f \in Files, NEW b \in Nat, NEW k \in 1 .. f.num, NEW j \in 1 .. f.num,
         f.slots[k].off <= b, b < f.slots[k].off + f.slots[k].len,
         f.slots[j].off <= b, b < f.slots[j].off + f.slots[j].len
  PROVE  k = j
<1>1. /\ k \in Nat /\ j \in Nat /\ f.slots[k] \in Extents /\ f.slots[j] \in Extents
  BY FileTypes, SMT
<1>2. /\ j < k => f.slots[j].off + f.slots[j].len <= f.slots[k].off
      /\ k < j => f.slots[k].off + f.slots[k].len <= f.slots[j].off
  BY FileAssumption
<1>3. /\ f.slots[k].off \in Nat /\ f.slots[k].len \in Nat
      /\ f.slots[j].off \in Nat /\ f.slots[j].len \in Nat
  BY <1>1, ExtentParts
<1>. QED BY <1>1, <1>2, <1>3, SMT

LEMMA BlockOfExtent ==
  ASSUME NEW f \in Files, NEW b \in Nat, NEW k \in 1 .. f.num,
         f.slots[k].off <= b, b < f.slots[k].off + f.slots[k].len
  PROVE  OwnBlock(f, b) = f.slots[k].bn + (b - f.slots[k].off)
<1>. DEFINE Holds(j) == b \in f.slots[j].off .. f.slots[j].off + f.slots[j].len - 1
            j0 == CHOOSE j \in 1 .. f.num : Holds(j)
<1>1. OwnBlock(f, b) = f.slots[j0].bn + (b - f.slots[j0].off)
  BY DEF OwnBlock
<1>2. ASSUME NEW j \in 1 .. f.num
      PROVE  Holds(j) <=> f.slots[j].off <= b /\ b < f.slots[j].off + f.slots[j].len
  <2>1. f.slots[j].off \in Nat /\ f.slots[j].len \in Nat
    BY FileTypes, ExtentParts
  <2>. QED BY <2>1, SMT
<1>3. Holds(k)
  BY <1>2
<1>. HIDE DEF Holds
<1>4. j0 \in 1 .. f.num /\ Holds(j0)
  BY <1>3
<1>. HIDE DEF j0
<1>5. j0 = k
  BY <1>2, <1>4, OwnExtent
<1>. QED BY <1>1, <1>5

LEMMA ByteOfExtent ==
  ASSUME NEW f \in Files, NEW x \in Nat, NEW k \in 1 .. f.num,
         f.slots[k].off <= x \div BB, x \div BB < f.slots[k].off + f.slots[k].len
  PROVE  EfsByte(f, x) = (f.base + f.slots[k].bn + ((x \div BB) - f.slots[k].off)) * BB + (x % BB)
<1>. DEFINE q == x \div BB
            block == f.slots[k].bn + (q - f.slots[k].off)
<1>1. q \in Nat
  BY Divide, GeometryAssumption
<1>2. EfsByte(f, x) = (f.base + OwnBlock(f, q)) * BB + (x % BB)
  BY DEF EfsByte
<1>3. f.slots[k].off <= q /\ q < f.slots[k].off + f.slots[k].len
  OBVIOUS
<1>. HIDE DEF q
<1>4. OwnBlock(f, q) = block
  BY <1>1, <1>3, BlockOfExtent
<1>5. f.base + block = f.base + f.slots[k].bn + (q - f.slots[k].off)
  <2>1. f.base \in Nat /\ f.slots[k].off \in Nat /\ f.slots[k].bn \in Nat
    BY FileTypes, ExtentParts
  <2>. QED BY <1>1, <2>1, SMT
<1>. QED BY <1>2, <1>4, <1>5 DEF q
-----------------------------------------------------------------------------
(* Unless the list is foreign, the slots that are searched begin with the  *)
(* file's own.                                                             *)
LEMMA OwnList ==
  ASSUME Types, ListInv, ~MustFill, ~ForeignList, NEW k \in 1 .. file.num
  PROVE  k \in DOMAIN Slots /\ Slots[k] = file.slots[k]
<1>1. file \in Files /\ cache \in [CacheSlots -> Extents]
  BY DEF Types
<1>2. CASE ~Indirect(file)
  BY <1>1, <1>2, FileTypes DEF Slots
<1>3. CASE Indirect(file)
  <2>1. valid /\ vino = file.ino /\ ~torn /\ ~(owner # file /\ owner.ino = file.ino)
    BY <1>3 DEF MustFill, Vouched, ForeignList
  <2>2. vino = owner.ino /\ owner.num <= MAXEXTENTS
        /\ \A j \in 1 .. owner.num : cache[j] = owner.slots[j]
    BY <2>1 DEF ListInv
  <2>3. owner = file
    BY <2>1, <2>2
  <2>4. file.num \in Nat /\ MAXEXTENTS \in Nat /\ file.num <= MAXEXTENTS
    BY <1>1, <2>2, <2>3, FileTypes, GeometryAssumption
  <2>5. k \in 1 .. MAXEXTENTS
    BY <2>4, SMT
  <2>6. k \in DOMAIN cache
    BY <1>1, <2>5 DEF CacheSlots
  <2>. QED BY <1>3, <2>2, <2>3, <2>6 DEF Slots
<1>. QED BY <1>2, <1>3

(* The slot that is hit is then the extent that holds the block.           *)
LEMMA OwnHit ==
  ASSUME Types, ListInv, ~MustFill, ~ForeignList,
         NEW x \in 0 .. file.size - 1
  PROVE  \E k \in 1 .. file.num : Hit(x \div BB) = file.slots[k]
<1>. DEFINE b == x \div BB
<1>1. file \in Files /\ file.size \in Nat
  BY FileTypes DEF Types
<1>2. b \in Nat
  <2>1. x \in Nat /\ BB \in Nat \ {0}
    BY <1>1, GeometryAssumption, SMT
  <2>. QED BY <2>1, Divide
<1>3. PICK k \in 1 .. file.num : file.slots[k].off <= b /\ b < file.slots[k].off + file.slots[k].len
  BY <1>1, FileAssumption
<1>. HIDE DEF b
<1>4. k \in Hits(b)
  BY <1>3, OwnList DEF Hits
<1>5. PICK j \in Hits(b) : Hit(b) = Slots[j] /\ \A i \in Hits(b) : j <= i
  BY <1>2, <1>4, HitFacts
<1>6. j \in DOMAIN Slots /\ Slots[j].off <= b /\ b < Slots[j].off + Slots[j].len
  BY DEF Hits
<1>7. DOMAIN Slots \subseteq 1 .. Len(file.slots) \cup CacheSlots
  BY <1>1, FileTypes DEF Slots, Types
<1>8. j \in 1 .. file.num
  <2>1. j <= k /\ j \in DOMAIN Slots
    BY <1>4, <1>5, <1>6
  <2>2. file.num \in Nat /\ Len(file.slots) \in Nat /\ MAXEXTENTS \in Nat
    BY <1>1, FileTypes, GeometryAssumption
  <2>. QED BY <1>7, <2>1, <2>2, SMT DEF CacheSlots
<1>9. Slots[j] = file.slots[j]
  BY <1>8, OwnList
<1>10. Hit(b) = file.slots[j]
  BY <1>5, <1>9
<1>. QED BY <1>8, <1>10 DEF b

LEMMA Transfer ==
  ASSUME Types, ListInv, ~MustFill,
         NEW o \in Nat, Hits(o) # {}, NEW m \in Nat \ {0},
         NEW k \in Nat, k < Blocks(o, m) * BB
  PROVE  /\ Transferred(o, k) \in Nat
         /\ ~ForeignList /\ Start(o) + k < REACH /\ BB * o \in 0 .. file.size - 1
              => Transferred(o, k) = EfsByte(file, BB * o + k)
         /\ Start(o) \in Nat
<1>1. file \in Files /\ file.base \in Nat /\ file.size \in Nat /\ BB \in Nat \ {0}
  BY FileTypes, GeometryAssumption DEF Types
<1>2. Block(o) \in Nat
  BY HitFacts
<1>3. (file.base + Block(o)) * BB \in Nat
  <2>1. file.base + Block(o) \in Nat
    BY <1>1, <1>2, SMT
  <2>. QED BY <1>1, <2>1, Products
<1>5. /\ Transferred(o, k) \in Nat
      /\ Start(o) + k < REACH => Transferred(o, k) = Start(o) + k
  <2>. DEFINE x == Start(o) + k
  <2>1. x \in Nat /\ REACH \in Nat \ {0}
    BY <1>3, GeometryAssumption, SMT DEF Start
  <2>2. Transferred(o, k) = x % REACH
    BY DEF Transferred
  <2>. HIDE DEF x
  <2>3. (x % REACH) \in Nat
    BY <2>1, Divide
  <2>4. x < REACH => x % REACH = x
    BY <2>1, SMT
  <2>. QED BY <2>2, <2>3, <2>4 DEF x
<1>6. ASSUME ~ForeignList, Start(o) + k < REACH, BB * o \in 0 .. file.size - 1
      PROVE  Transferred(o, k) = EfsByte(file, BB * o + k)
  <2>. DEFINE w == Blocks(o, m)
              q == k \div BB
              r == k % BB
              x == BB * o + k
  <2>1. q \in Nat /\ r \in 0 .. BB - 1 /\ k = BB * q + r /\ BB * q <= k
    BY <1>1, Divide
  <2>. HIDE DEF q, r
  <2>2. w \in Nat /\ o + w <= Hit(o).off + Hit(o).len /\ w * BB \in Nat /\ k < w * BB
    BY TransferLength
  <2>3. q < w
    <3>. HIDE DEF w
    <3>1. BB * w <= BB * q \/ q < w
      BY <1>1, <2>1, <2>2, Grows, SMT
    <3>2. BB * q \in Nat /\ w * BB = BB * w
      BY <1>1, <2>1, <2>2, Products, SMT
    <3>. QED BY <2>1, <2>2, <3>1, <3>2, SMT
  <2>4. x \in Nat /\ BB * o \in Nat
    BY <1>1, Products, SMT
  <2>5. x = BB * (o + q) + r
    BY <1>1, <2>1, SMT
  <2>6. x \div BB = o + q
    <3>1. o + q \in Int
      BY <2>1, SMT
    <3>. HIDE DEF x
    <3>. QED BY <1>1, <2>1, <2>4, <2>5, <3>1, Quotient
  <2>7. x % BB = r
    <3>1. (x % BB) \in 0 .. BB - 1 /\ x = BB * (x \div BB) + (x % BB)
      BY <1>1, <2>4, Divide
    <3>. DEFINE y == x % BB
                z == BB * (o + q)
    <3>2. y \in 0 .. BB - 1 /\ x = z + y /\ x = z + r
      BY <2>5, <2>6, <3>1
    <3>3. z \in Nat
      <4>1. o + q \in Nat
        BY <2>1, SMT
      <4>. QED BY <1>1, <4>1, Products
    <3>. HIDE DEF x, y, z
    <3>4. y = r
      BY <1>1, <2>1, <3>2, <3>3, SMT
    <3>. QED BY <3>4 DEF y
  <2>8. (BB * o) \div BB = o
    <3>1. BB * o = BB * o + 0 /\ 0 \in 0 .. BB - 1 /\ o \in Int
      BY <1>1, <2>4, SMT
    <3>. QED BY <1>1, <2>4, <3>1, Quotient
  <2>9. PICK e \in 1 .. file.num : Hit(o) = file.slots[e]
    BY <1>6, <2>8, OwnHit
  <2>10. /\ Hit(o).off \in Nat /\ Hit(o).bn \in Nat /\ Hit(o).len \in Nat
         /\ Hit(o).off <= o
    BY HitFacts
  <2>11. Hit(o).off <= o + q /\ o + q < Hit(o).off + Hit(o).len
    <3>. HIDE DEF w
    <3>. QED BY <2>1, <2>2, <2>3, <2>10, SMT
  <2>12. EfsByte(file, x) = (file.base + Hit(o).bn + ((x \div BB) - Hit(o).off)) * BB + (x % BB)
    <3>. HIDE DEF x
    <3>. QED BY <1>1, <2>4, <2>6, <2>9, <2>11, ByteOfExtent
  <2>13. EfsByte(file, x) = (file.base + Hit(o).bn + ((o + q) - Hit(o).off)) * BB + r
    BY <2>6, <2>7, <2>12
  <2>14. Block(o) = Hit(o).bn + (o - Hit(o).off)
    BY DEF Block
  <2>15. (file.base + (Hit(o).bn + (o - Hit(o).off))) * BB + (BB * q + r)
           = (file.base + Hit(o).bn + ((o + q) - Hit(o).off)) * BB + r
    BY <1>1, <2>1, <2>10, SMT
  <2>. HIDE DEF x
  <2>16. EfsByte(file, x) = (file.base + Block(o)) * BB + k
    BY <2>1, <2>13, <2>14, <2>15
  <2>17. Transferred(o, k) = (file.base + Block(o)) * BB + k
    BY <1>5, <1>6 DEF Start
  <2>. QED BY <2>16, <2>17 DEF x
<1>7. Start(o) \in Nat
  BY <1>3 DEF Start
<1>. QED BY <1>5, <1>6, <1>7

(* A transfer that ends within the reach has all its bytes there.          *)
LEMMA Reached ==
  ASSUME NEW o, NEW n \in Nat, NEW k \in Nat, k < n, Start(o) \in Nat, ~Beyond(o, n)
  PROVE  Start(o) + k < REACH
<1>. DEFINE x == Start(o)
<1>1. x \in Nat /\ ~(x + n > REACH) /\ REACH \in Nat
  BY GeometryAssumption DEF Beyond
<1>. HIDE DEF x
<1>2. x + k < REACH
  BY <1>1, SMT
<1>. QED BY <1>2 DEF x

-----------------------------------------------------------------------------
LEMMA EInitInv == Init => EInv
<1>. SUFFICES ASSUME Init PROVE EInv
  OBVIOUS
<1>1. DOMAIN buf = {} /\ buf \in [DOMAIN buf -> Nat] /\ buf = Empty
  BY DEF Init, Install, Empty
<1>2. 0 \in 0 .. ALIGN - 1 /\ 0 \in Nat
  BY GeometryAssumption, SMT
<1>3. cache \in [CacheSlots -> Extents]
  <2>1. PICK e \in Junk : cache = [k \in CacheSlots |-> e]
    BY DEF Init, Install
  <2>2. e \in Extents
    BY RequestAssumption
  <2>. QED BY <2>1, <2>2
<1>4. Types
  BY <1>1, <1>2, <1>3 DEF Init, Install, Types
<1>. QED BY <1>1, <1>4 DEF Init, Install, EInv, NoReadInv, ListInv

(* What the loop knows.                                                    *)
LEMMA LoopFacts ==
  ASSUME EInv, pc = "loop"
  PROVE  /\ LoopInv /\ Types /\ ListInv /\ file \in Files /\ file.size \in Nat
         /\ position \in Nat /\ offset \in Nat /\ len \in Nat /\ done \in Nat
         /\ offset = position + done /\ count \in Nat
         /\ count + done <= len /\ offset + count <= file.size
<1>1. LoopInv /\ Types /\ ListInv
  BY DEF EInv
<1>2. /\ file \in Files /\ file.size \in Nat /\ position \in Nat /\ offset \in Nat
      /\ len \in Nat /\ done \in Nat /\ count \in Nat /\ count = Cut(len) - done
  BY <1>1, FileTypes DEF Types, LoopInv
<1>3. Cut(len) \in Int /\ Cut(len) <= len /\ position + Cut(len) <= file.size
  BY <1>2, SMT DEF Cut, Least
<1>4. offset = position + done
  BY <1>2, SMT DEF done
<1>5. count + done <= len
  BY <1>2, <1>3, SMT
<1>6. offset + count <= file.size
  BY <1>2, <1>3, <1>4, SMT
<1>. QED BY <1>1, <1>2, <1>4, <1>5, <1>6

(* A call that is over: the cached list may have changed on the way.       *)
LEMMA ReturnInv ==
  ASSUME EInv, NEW how, NEW got, NEW pos \in Nat, Return(how, got, pos), UNCHANGED file,
         cache' \in [CacheSlots -> Extents], torn' \in BOOLEAN,
         UNCHANGED <<valid, vino, owner>>, ListInv'
  PROVE  EInv'
<1>1. /\ position' = pos /\ offset' = pos /\ pc' = "idle" /\ len' = 0 /\ base' = 0
      /\ count' = 0 /\ buf' = Empty /\ astray' = FALSE
  BY DEF Return
<1>2. DOMAIN buf' = {} /\ buf' \in [DOMAIN buf' -> Nat]
  BY <1>1 DEF Empty
<1>3. 0 \in 0 .. ALIGN - 1 /\ 0 \in Nat
  BY GeometryAssumption, SMT
<1>4. Types'
  BY <1>1, <1>2, <1>3 DEF EInv, Types
<1>. QED BY <1>1, <1>4 DEF EInv, NoReadInv

LEMMA ReturnKeeps ==
  ASSUME EInv, NEW how, NEW got, NEW pos \in Nat, Return(how, got, pos), UNCHANGED file,
         UNCHANGED cacheVars
  PROVE  EInv'
<1>1. cache' \in [CacheSlots -> Extents] /\ torn' \in BOOLEAN /\ UNCHANGED <<valid, vino, owner>>
  BY DEF EInv, Types, cacheVars
<1>2. ListInv'
  BY DEF EInv, ListInv, cacheVars
<1>. QED BY <1>1, <1>2, ReturnInv

LEMMA StartReadInv ==
  ASSUME EInv, NEW n \in Lens, NEW b \in 0 .. ALIGN - 1, StartRead(n, b)
  PROVE  EInv'
<1>1. /\ pc' = "loop" /\ len' = n /\ base' = b /\ offset' = position /\ count' = Cut(n)
      /\ buf' = Empty /\ astray' = FALSE /\ file' = file /\ position' = position
      /\ UNCHANGED <<valid, vino, cache, owner, torn>> /\ Cut(n) > 0
  BY DEF StartRead, cacheVars
<1>2. n \in Nat /\ file \in Files /\ position \in Nat /\ file.size \in Nat
  BY RequestAssumption, FileTypes DEF EInv, Types
<1>3. Cut(n) \in Nat /\ Cut(n) = Cut(n) - 0 /\ 0 .. 0 - 1 = {}
  BY <1>1, <1>2, SMT DEF Cut, Least
<1>4. DOMAIN buf' = {} /\ buf' \in [DOMAIN buf' -> Nat]
  BY <1>1 DEF Empty
<1>5. Types'
  BY <1>1, <1>2, <1>3, <1>4 DEF EInv, Types
<1>6. ListInv'
  BY <1>1 DEF EInv, ListInv
<1>7. LoopInv'
  <2>1. done' = 0
    BY <1>1, <1>2, SMT DEF done
  <2>2. Cut(len)' = Cut(n)
    BY <1>1 DEF Cut
  <2>. QED BY <1>1, <1>3, <1>4, <2>1, <2>2 DEF LoopInv
<1>. QED BY <1>1, <1>5, <1>6, <1>7 DEF EInv
-----------------------------------------------------------------------------
(* An iteration that counts n bytes as delivered and writes at most those. *)
LEMMA Deliver ==
  ASSUME EInv, pc = "loop", NEW n \in Nat, n <= count, Advance(n),
         DOMAIN buf' \subseteq 0 .. done + n - 1, buf' \in [DOMAIN buf' -> Nat],
         astray' \in BOOLEAN,
         ~astray' => \A k \in 0 .. done + n - 1 :
                       k \in DOMAIN buf' /\ buf'[k] = EfsByte(file, position + k)
  PROVE  EInv'
<1>1. /\ LoopInv /\ file \in Files /\ position \in Nat /\ offset \in Nat
      /\ len \in Nat /\ done \in Nat /\ offset = position + done /\ count \in Nat
      /\ count + done <= len
  BY LoopFacts
<1>2. /\ offset' = offset + n /\ count' = count - n /\ file' = file /\ position' = position
      /\ pc' = pc /\ len' = len /\ base' = base
      /\ UNCHANGED <<valid, vino, cache, owner, torn>>
  BY DEF Advance, cacheVars
<1>3. done' = done + n /\ done + n \in Nat /\ 0 .. done' - 1 = 0 .. done + n - 1
  <2>1. done' = done + n
    BY <1>1, <1>2, SMT DEF done
  <2>. QED BY <1>1, <2>1, SMT
<1>4. Types'
  <2>1. /\ offset + n \in Nat /\ count - n \in Nat
        /\ 0 .. done + n - 1 \subseteq Nat
    BY <1>1, SMT
  <2>2. DOMAIN buf' \subseteq Nat
    BY <2>1
  <2>3. Types
    BY DEF EInv
  <2>. QED BY <1>2, <2>1, <2>2, <2>3 DEF Types
<1>5. ListInv'
  BY <1>2 DEF EInv, ListInv
<1>6. LoopInv'
  <2>1. Cut(len)' = Cut(len) /\ Cut(len) \in Int /\ count = Cut(len) - done
    <3>1. file.size \in Nat
      BY <1>1, FileTypes
    <3>2. Cut(len)' = Cut(len)
      BY <1>2 DEF Cut
    <3>3. Cut(len) \in Int
      BY <1>1, <3>1, SMT DEF Cut, Least
    <3>. QED BY <1>1, <3>2, <3>3 DEF LoopInv
  <2>2. count' = Cut(len)' - done'
    BY <1>1, <1>2, <1>3, <2>1, SMT
  <2>3. done' \in Nat /\ DOMAIN buf' \subseteq 0 .. done' - 1
    BY <1>3
  <2>4. ASSUME ~astray', NEW k \in 0 .. done' - 1
        PROVE  k \in DOMAIN buf' /\ buf'[k] = EfsByte(file', position' + k)
    <3>1. k \in 0 .. done + n - 1
      BY <1>3
    <3>2. k \in DOMAIN buf' /\ buf'[k] = EfsByte(file, position + k)
      BY <2>4, <3>1
    <3>. QED BY <3>2, <1>2
  <2>. QED BY <2>2, <2>3, <2>4 DEF LoopInv
<1>. QED BY <1>2, <1>4, <1>5, <1>6 DEF EInv

(* A transfer that brings in the next n bytes.                             *)
LEMMA DeliverPut ==
  ASSUME EInv, pc = "loop", NEW n \in Nat, n <= count, Advance(n), NEW b,
         buf' = Put(done, n, b), astray' \in BOOLEAN,
         \A k \in 0 .. n - 1 : b[k] \in Nat,
         ~astray' => ~astray /\ \A k \in 0 .. n - 1 : b[k] = EfsByte(file, offset + k)
  PROVE  EInv'
<1>1. /\ LoopInv /\ position \in Nat /\ done \in Nat /\ offset = position + done
  BY LoopFacts
<1>. DEFINE put == Put(done, n, b)
<1>2. /\ DOMAIN put = DOMAIN buf \cup done .. done + n - 1
      /\ \A j \in done .. done + n - 1 : put[j] = b[j - done]
      /\ \A j \in DOMAIN buf : j \notin done .. done + n - 1 => put[j] = buf[j]
      /\ put = [j \in DOMAIN put |-> put[j]]
  BY DEF Put
<1>3. buf' = put
  OBVIOUS
<1>. HIDE DEF put
<1>4. DOMAIN buf \subseteq 0 .. done - 1
  BY <1>1 DEF LoopInv
<1>5. DOMAIN put \subseteq 0 .. done + n - 1
  <2>1. 0 .. done - 1 \cup done .. done + n - 1 = 0 .. done + n - 1
    BY <1>1, SMT
  <2>. QED BY <1>2, <1>4, <2>1
<1>6. ASSUME NEW k \in DOMAIN put PROVE put[k] \in Nat
  <2>1. CASE k \in done .. done + n - 1
    <3>1. k - done \in 0 .. n - 1
      BY <1>1, <2>1, SMT
    <3>. QED BY <1>2, <2>1, <3>1
  <2>2. CASE k \notin done .. done + n - 1
    <3>1. k \in DOMAIN buf
      BY <1>2, <2>2
    <3>2. buf[k] \in Nat
      BY <3>1 DEF EInv, Types
    <3>. QED BY <1>2, <2>2, <3>1, <3>2
  <2>. QED BY <2>1, <2>2
<1>7. put \in [DOMAIN put -> Nat]
  BY <1>2, <1>6
<1>8. ASSUME ~astray', NEW k \in 0 .. done + n - 1
      PROVE  k \in DOMAIN put /\ put[k] = EfsByte(file, position + k)
  <2>1. CASE k \in 0 .. done - 1
    <3>1. k \notin done .. done + n - 1
      BY <1>1, <2>1, SMT
    <3>2. k \in DOMAIN buf /\ buf[k] = EfsByte(file, position + k)
      BY <1>1, <1>8, <2>1 DEF LoopInv
    <3>. QED BY <1>2, <3>1, <3>2
  <2>2. CASE k \in done .. done + n - 1
    <3>1. k - done \in 0 .. n - 1 /\ offset + (k - done) = position + k
      BY <1>1, <2>2, SMT
    <3>2. b[k - done] = EfsByte(file, offset + (k - done))
      BY <1>8, <3>1
    <3>. QED BY <1>2, <2>2, <3>1, <3>2
  <2>. QED BY <1>1, <2>1, <2>2, SMT
<1>9. /\ DOMAIN buf' \subseteq 0 .. done + n - 1 /\ buf' \in [DOMAIN buf' -> Nat]
  BY <1>3, <1>5, <1>7
<1>10. ~astray' => \A k \in 0 .. done + n - 1 :
                     k \in DOMAIN buf' /\ buf'[k] = EfsByte(file, position + k)
  BY <1>3, <1>8
<1>. QED BY <1>9, <1>10, Deliver

LEMMA BlockOfOffset ==
  ASSUME EInv, Mapping
  PROVE  /\ pc = "loop" /\ count > 0 /\ ~MustFill
         /\ offset \div BB \in Nat /\ (offset % BB) \in 0 .. BB - 1
         /\ offset = BB * (offset \div BB) + (offset % BB)
         /\ BB * (offset \div BB) \in 0 .. file.size - 1
         /\ WholeBlocks \in Nat /\ BB * WholeBlocks \in Nat /\ BB * WholeBlocks <= count
         /\ BB \in Nat \ {0}
<1>1. pc = "loop" /\ count > 0 /\ ~MustFill
  BY DEF Mapping, Looping
<1>2. /\ BB \in Nat \ {0} /\ offset \in Nat /\ count \in Nat /\ file.size \in Nat
      /\ offset + count <= file.size
  BY <1>1, LoopFacts, GeometryAssumption
<1>. DEFINE o == offset \div BB
            w == count \div BB
<1>3. o \in Nat /\ (offset % BB) \in 0 .. BB - 1
      /\ offset = BB * o + (offset % BB) /\ BB * o <= offset
  BY <1>2, Divide
<1>4. w \in Nat /\ BB * w <= count
  BY <1>2, Divide
<1>5. BB * o \in Nat /\ BB * w \in Nat
  BY <1>2, <1>3, <1>4, Products
<1>. HIDE DEF o, w
<1>6. BB * o \in 0 .. file.size - 1
  <2>. DEFINE p == BB * o
  <2>1. p \in Nat /\ p <= offset
    BY <1>3, <1>5
  <2>. HIDE DEF p
  <2>2. p \in 0 .. file.size - 1
    BY <1>1, <1>2, <2>1, SMT
  <2>. QED BY <2>2 DEF p
<1>. QED BY <1>1, <1>2, <1>3, <1>4, <1>5, <1>6 DEF o, w, WholeBlocks

LEMMA ReadDirectInv == ASSUME EInv, ReadDirect PROVE EInv'
<1>. DEFINE o == offset \div BB
            n == Blocks(o, WholeBlocks) * BB
            b == [k \in 0 .. n - 1 |-> Transferred(o, k)]
<1>1. /\ Mapping /\ Direct /\ Hits(o) # {} /\ buf' = Put(done, n, b)
      /\ astray' = (astray \/ ForeignList \/ Beyond(o, n)) /\ Advance(n)
  BY DEF ReadDirect
<1>2. /\ pc = "loop" /\ ~MustFill /\ o \in Nat /\ offset = BB * o + (offset % BB)
      /\ BB * o \in 0 .. file.size - 1 /\ BB \in Nat \ {0}
      /\ WholeBlocks \in Nat /\ BB * WholeBlocks \in Nat /\ BB * WholeBlocks <= count
  BY <1>1, BlockOfOffset
<1>3. offset % BB = 0 /\ WholeBlocks \in Nat \ {0}
  BY <1>1, <1>2, SMT DEF Direct
<1>4. Types /\ ListInv /\ count \in Nat
  BY <1>2, LoopFacts
<1>5. n \in Nat /\ n <= BB * WholeBlocks
  BY <1>1, <1>2, <1>3, <1>4, TransferLength
<1>6. n <= count
  BY <1>2, <1>4, <1>5, SMT
<1>7. offset = BB * o
  BY <1>2, <1>3, Products, SMT
<1>. HIDE DEF o
<1>8. ASSUME NEW k \in 0 .. n - 1
      PROVE  b[k] \in Nat /\ (~ForeignList /\ ~Beyond(o, n) => b[k] = EfsByte(file, offset + k))
  <2>1. k \in Nat /\ k < Blocks(o, WholeBlocks) * BB
    BY <1>5, SMT
  <2>2. /\ Transferred(o, k) \in Nat
        /\ ~ForeignList /\ Start(o) + k < REACH => Transferred(o, k) = EfsByte(file, BB * o + k)
        /\ Start(o) \in Nat
    BY <1>1, <1>2, <1>3, <1>4, <2>1, Transfer
  <2>3. b[k] = Transferred(o, k)
    OBVIOUS
  <2>4. ~Beyond(o, n) => Start(o) + k < REACH
    BY <1>5, <2>1, <2>2, Reached
  <2>. QED BY <1>7, <2>2, <2>3, <2>4
<1>. HIDE DEF n, b
<1>9. astray' \in BOOLEAN
  BY <1>1
<1>10. ~astray' => ~astray /\ ~ForeignList /\ ~Beyond(o, n)
  BY <1>1, Zenon
<1>. QED BY <1>1, <1>2, <1>5, <1>6, <1>8, <1>9, <1>10, DeliverPut

LEMMA ReadPartInv == ASSUME EInv, ReadPart PROVE EInv'
<1>. DEFINE o == offset \div BB
            s == offset % BB
            n == Least(Blocks(o, 1) * BB - s, count)
            b == [k \in 0 .. n - 1 |-> Transferred(o, s + k)]
<1>1. /\ Mapping /\ Hits(o) # {} /\ buf' = Put(done, n, b)
      /\ astray' = (astray \/ ForeignList \/ Beyond(o, BB)) /\ Advance(n)
  BY DEF ReadPart
<1>2. /\ pc = "loop" /\ ~MustFill /\ o \in Nat /\ s \in 0 .. BB - 1 /\ offset = BB * o + s
      /\ BB * o \in 0 .. file.size - 1 /\ BB \in Nat \ {0} /\ count > 0
  BY <1>1, BlockOfOffset
<1>3. Types /\ ListInv /\ count \in Nat
  BY <1>2, LoopFacts
<1>9. 1 \in Nat \ {0}
  BY SMT
<1>4. Blocks(o, 1) * BB = BB
  BY <1>1, <1>2, <1>3, <1>9, TransferLength
<1>. HIDE DEF o, s
<1>5. n \in Nat /\ n <= count /\ n <= BB - s
  BY <1>2, <1>3, <1>4, SMT DEF Least
<1>. HIDE DEF n
<1>6. ASSUME NEW k \in 0 .. n - 1
      PROVE  b[k] \in Nat /\ (~ForeignList /\ ~Beyond(o, BB) => b[k] = EfsByte(file, offset + k))
  <2>1. s + k \in Nat /\ s + k < Blocks(o, 1) * BB
    BY <1>2, <1>4, <1>5, SMT
  <2>2. /\ Transferred(o, s + k) \in Nat
        /\ ~ForeignList /\ Start(o) + (s + k) < REACH
             => Transferred(o, s + k) = EfsByte(file, BB * o + (s + k))
        /\ Start(o) \in Nat
    BY <1>1, <1>2, <1>3, <1>9, <2>1, Transfer
  <2>3. b[k] = Transferred(o, s + k)
    OBVIOUS
  <2>4. BB * o + (s + k) = offset + k
    <3>1. BB * o \in Nat
      BY <1>2, Products
    <3>. QED BY <1>2, <1>5, <3>1, SMT
  <2>5. ~Beyond(o, BB) => Start(o) + (s + k) < REACH
    <3>1. BB \in Nat /\ s + k < BB
      BY <1>2, <1>4, <2>1
    <3>. QED BY <2>1, <2>2, <3>1, Reached
  <2>. QED BY <2>2, <2>3, <2>4, <2>5
<1>. HIDE DEF b
<1>7. astray' \in BOOLEAN
  BY <1>1
<1>8. ~astray' => ~astray /\ ~ForeignList /\ ~Beyond(o, BB)
  BY <1>1, Zenon
<1>. QED BY <1>1, <1>2, <1>5, <1>6, <1>7, <1>8, DeliverPut

(* A block that is passed over is still within what is left: it takes BB   *)
(* whole blocks to be passed over.                                         *)
LEMMA PassOverInv == ASSUME EInv, PassOver PROVE EInv'
<1>1. /\ Mapping /\ WholeBlocks = BB /\ astray' = TRUE /\ buf' = buf /\ Advance(BB)
  BY DEF PassOver, Bypass
<1>2. /\ pc = "loop" /\ BB \in Nat \ {0} /\ BB * WholeBlocks \in Nat
      /\ BB * WholeBlocks <= count
  BY <1>1, BlockOfOffset
<1>3. LoopInv /\ Types /\ done \in Nat /\ count \in Nat
  BY <1>2, LoopFacts
<1>4. BB <= count
  <2>1. BB * 1 <= BB * BB /\ BB * 1 = BB /\ BB * BB \in Nat
    BY <1>2, Grows, Products, SMT
  <2>. QED BY <1>1, <1>2, <1>3, <2>1, SMT
<1>5. DOMAIN buf' \subseteq 0 .. done + BB - 1
  <2>1. 0 .. done - 1 \subseteq 0 .. done + BB - 1
    BY <1>2, <1>3, SMT
  <2>. QED BY <1>1, <1>3, <2>1 DEF LoopInv
<1>6. buf' \in [DOMAIN buf' -> Nat]
  BY <1>1, <1>3 DEF Types
<1>. QED BY <1>1, <1>2, <1>4, <1>5, <1>6, Deliver
-----------------------------------------------------------------------------
(* Reading the list in, whole or in part.                                  *)
LEMMA FilledFacts ==
  ASSUME Types, NEW n \in Nat
  PROVE  /\ Filled(file, n) \in [CacheSlots -> Extents]
         /\ \A k \in CacheSlots :
              k <= n /\ k <= Len(file.slots) => Filled(file, n)[k] = file.slots[k]
<1>1. file \in Files /\ cache \in [CacheSlots -> Extents]
  BY DEF Types
<1>2. ASSUME NEW k \in CacheSlots, k <= Len(file.slots) PROVE file.slots[k] \in Extents
  <2>1. Len(file.slots) \in Nat /\ DOMAIN file.slots = 1 .. Len(file.slots)
    BY <1>1, FileTypes
  <2>2. k \in 1 .. Len(file.slots)
    BY <1>2, <2>1, GeometryAssumption, SMT DEF CacheSlots
  <2>. QED BY <1>1, <2>1, <2>2, FileTypes
<1>. QED BY <1>1, <1>2 DEF Filled

(* The list is the file's own then, and complete.                          *)
LEMMA FillListInv ==
  ASSUME Types, FillList
  PROVE  /\ cache' \in [CacheSlots -> Extents] /\ valid' \in BOOLEAN /\ torn' \in BOOLEAN
         /\ owner' \in Files /\ ListInv'
<1>1. /\ MustFill /\ ~TooFragmented(file)
      /\ cache' = Filled(file, MAXEXTENTS)
      /\ valid' = TRUE /\ vino' = file.ino /\ owner' = file /\ torn' = FALSE
  BY DEF FillList
<1>2. file \in Files
  BY DEF Types
<1>3. MAXEXTENTS \in Nat /\ file.num \in Nat /\ file.num <= MAXEXTENTS
  BY <1>1, <1>2, FileTypes, GeometryAssumption, SMT DEF TooFragmented
<1>4. file.num <= Len(file.slots)
  BY <1>1, <1>2, FileAssumption DEF MustFill, Indirect
<1>5. Len(file.slots) \in Nat
  BY <1>2, FileTypes
<1>6. ASSUME NEW k \in 1 .. file.num PROVE cache'[k] = file.slots[k]
  <2>1. k \in CacheSlots /\ k <= MAXEXTENTS /\ k <= Len(file.slots)
    BY <1>3, <1>4, <1>5, SMT DEF CacheSlots
  <2>. QED BY <1>1, <1>3, <2>1, FilledFacts
<1>7. cache' \in [CacheSlots -> Extents]
  BY <1>1, <1>3, FilledFacts
<1>8. ListInv'
  BY <1>1, <1>3, <1>6 DEF ListInv
<1>. QED BY <1>1, <1>2, <1>7, <1>8

LEMMA PartOfListInv ==
  ASSUME Types, ListInv, PartOfList
  PROVE  /\ cache' \in [CacheSlots -> Extents] /\ torn' \in BOOLEAN
         /\ UNCHANGED <<valid, vino, owner>> /\ ListInv'
<1>1. /\ \E s \in 0 .. file.indir.len - 1 : cache' = Filled(file, s * PERBB)
      /\ torn' = TRUE /\ UNCHANGED <<valid, vino, owner>>
  BY DEF PartOfList
<1>2. file \in Files
  BY DEF Types
<1>3. PICK s \in 0 .. file.indir.len - 1 : cache' = Filled(file, s * PERBB)
  BY <1>1
<1>4. s * PERBB \in Nat
  <2>1. file.indir.len \in Nat /\ PERBB \in Nat
    BY <1>2, FileTypes, GeometryAssumption
  <2>2. s \in Nat
    BY <2>1, SMT
  <2>. QED BY <2>1, <2>2, Products
<1>5. cache' \in [CacheSlots -> Extents]
  <2>. DEFINE n == s * PERBB
  <2>1. n \in Nat /\ cache' = Filled(file, n)
    BY <1>3, <1>4
  <2>. HIDE DEF n
  <2>. QED BY <2>1, FilledFacts
<1>6. ListInv'
  BY <1>1 DEF ListInv
<1>. QED BY <1>1, <1>5, <1>6

LEMMA FillInv == ASSUME EInv, Fill PROVE EInv'
<1>1. /\ FillList /\ UNCHANGED <<file, position, pc, result>>
      /\ UNCHANGED <<len, base, offset, count, buf, astray>>
  BY DEF Fill, callVars
<1>2. Types /\ LoopInv /\ pc = "loop"
  BY LoopFacts DEF Fill, Looping
<1>3. /\ cache' \in [CacheSlots -> Extents] /\ valid' \in BOOLEAN /\ torn' \in BOOLEAN
      /\ owner' \in Files /\ ListInv'
  BY <1>1, <1>2, FillListInv
<1>4. Types'
  BY <1>1, <1>2, <1>3 DEF Types
<1>5. LoopInv'
  BY <1>1, <1>2 DEF LoopInv, done, Cut
<1>. QED BY <1>1, <1>2, <1>3, <1>4, <1>5 DEF EInv

LEMMA FillFailsInv == ASSUME EInv, FillFails PROVE EInv'
<1>1. PartOfList /\ Return("EIO", Empty, position) /\ UNCHANGED file
  BY DEF FillFails
<1>2. Types /\ ListInv /\ position \in Nat
  BY DEF EInv, Types
<1>3. /\ cache' \in [CacheSlots -> Extents] /\ torn' \in BOOLEAN
      /\ UNCHANGED <<valid, vino, owner>> /\ ListInv'
  BY <1>1, <1>2, PartOfListInv
<1>. QED BY <1>1, <1>2, <1>3, ReturnInv

-----------------------------------------------------------------------------
(* Steps of an open, of Close() and of Seek(), which have no buffer of a   *)
(* program's in hand.                                                      *)
LEMMA NoReadKeeps ==
  ASSUME EInv, pc # "loop", pc' # "loop", UNCHANGED <<len, base, count, buf, astray>>,
         file' \in Files, position' \in Nat, offset' \in Nat,
         cache' \in [CacheSlots -> Extents], valid' \in BOOLEAN, torn' \in BOOLEAN,
         owner' \in Files, ListInv'
  PROVE  EInv'
<1>1. Types'
  BY DEF EInv, Types
<1>. QED BY <1>1 DEF EInv, NoReadInv

LEMMA ListKept ==
  ASSUME EInv, UNCHANGED cacheVars
  PROVE  /\ cache' \in [CacheSlots -> Extents] /\ valid' \in BOOLEAN /\ torn' \in BOOLEAN
         /\ owner' \in Files /\ ListInv'
BY DEF EInv, Types, ListInv, cacheVars

LEMMA SeekInv == ASSUME EInv, NEW p \in Positions, Seek(p) PROVE EInv'
<1>1. /\ pc = "idle" /\ pc' = pc /\ position' = p /\ offset' = p /\ file' = file
      /\ UNCHANGED <<len, base, count, buf, astray>> /\ UNCHANGED cacheVars
  BY DEF Seek
<1>2. p \in Nat /\ file \in Files
  BY RequestAssumption DEF EInv, Types
<1>. QED BY <1>1, <1>2, ListKept, NoReadKeeps

LEMMA GoInv ==
  ASSUME EInv, NEW then, then # "loop", pc # "loop", Go(then)
  PROVE  EInv'
<1>1. /\ pc' = then /\ UNCHANGED <<file, position, offset, len, base, count, buf, astray>>
      /\ UNCHANGED cacheVars
  BY DEF Go
<1>2. file \in Files /\ position \in Nat /\ offset \in Nat
  BY DEF EInv, Types
<1>. QED BY <1>1, <1>2, ListKept, NoReadKeeps

LEMMA RefuseInv ==
  ASSUME EInv, NEW freed, NEW why, pc # "loop", Refuse(freed, why),
         cache' \in [CacheSlots -> Extents], valid' \in BOOLEAN, torn' \in BOOLEAN,
         owner' \in Files, ListInv'
  PROVE  EInv'
<1>1. /\ pc' = "closed" /\ offset' = 0
      /\ UNCHANGED <<file, position, len, base, count, buf, astray>>
  BY DEF Refuse
<1>2. file \in Files /\ position \in Nat /\ 0 \in Nat
  BY SMT DEF EInv, Types
<1>. QED BY <1>1, <1>2, NoReadKeeps

LEMMA RefuseQuietlyInv ==
  ASSUME EInv, NEW freed, NEW why, pc # "loop", RefuseQuietly(freed, why)
  PROVE  EInv'
BY ListKept, RefuseInv DEF RefuseQuietly

LEMMA DirFillInv == ASSUME EInv, DirFill PROVE EInv'
<1>1. /\ FillList /\ pc = "namei" /\ pc' = pc /\ UNCHANGED <<file, position>>
      /\ UNCHANGED <<len, base, offset, count, buf, astray>>
  BY DEF DirFill, Searching, callVars
<1>2. Types /\ file \in Files /\ position \in Nat /\ offset \in Nat
  BY DEF EInv, Types
<1>. QED BY <1>1, <1>2, FillListInv, NoReadKeeps

LEMMA DirFillFailsInv == ASSUME EInv, DirFillFails PROVE EInv'
<1>1. PartOfList /\ Refuse(FreedAtBad, TRUE) /\ pc = "namei"
  BY DEF DirFillFails, Searching
<1>2. Types /\ ListInv /\ valid \in BOOLEAN /\ owner \in Files
  BY DEF EInv, Types
<1>. QED BY <1>1, <1>2, PartOfListInv, RefuseInv

(* A directory is entered, or its next block is searched.                  *)
LEMMA WalkInv ==
  ASSUME EInv, pc = "namei", NEW f \in Files, NEW o \in Nat, file' = f, offset' = o,
         UNCHANGED <<position, pc, len, base, count, buf, astray>>, UNCHANGED cacheVars
  PROVE  EInv'
<1>1. position \in Nat
  BY DEF EInv, Types
<1>. QED BY <1>1, ListKept, NoReadKeeps

LEMMA NextBlockInv == ASSUME EInv, NextBlock PROVE EInv'
<1>1. /\ pc = "namei" /\ offset' = offset + BB /\ file' = file
      /\ UNCHANGED <<position, pc, len, base, count, buf, astray>> /\ UNCHANGED cacheVars
  BY DEF NextBlock, DirMapped, Searching
<1>2. file \in Files /\ offset \in Nat /\ BB \in Nat
  BY GeometryAssumption DEF EInv, Types
<1>3. offset + BB \in Nat
  BY <1>2, SMT
<1>. QED BY <1>1, <1>2, <1>3, WalkInv

LEMMA EnterInv == ASSUME EInv, Enter PROVE EInv'
<1>1. /\ pc = "namei" /\ offset' = 0 /\ file' \in Named
      /\ UNCHANGED <<position, pc, len, base, count, buf, astray>> /\ UNCHANGED cacheVars
  BY DEF Enter, DirMapped, Searching
<1>2. file' \in Files /\ 0 \in Nat
  BY <1>1, SMT DEF Named
<1>. QED BY <1>1, <1>2, WalkInv

LEMMA OpenInv == ASSUME EInv, NEW r \in Roots, NEW p, Open(r, p) PROVE EInv'
<1>1. /\ pc = "closed" /\ pc' = "check" /\ file' = r /\ position' = 0 /\ offset' = 0
      /\ UNCHANGED <<len, base, count, buf, astray>> /\ UNCHANGED cacheVars
  BY DEF Open
<1>2. file' \in Files /\ 0 \in Nat
  BY <1>1, SMT DEF Roots
<1>. QED BY <1>1, <1>2, ListKept, NoReadKeeps

LEMMA OpenedInv == ASSUME EInv, Opened \/ Close PROVE EInv'
<1>1. /\ pc \in {"namei", "idle"} /\ pc' \in {"idle", "closed"} /\ file' = file
      /\ position' \in {position, 0} /\ offset' = 0
      /\ UNCHANGED <<len, base, count, buf, astray>> /\ UNCHANGED cacheVars
  BY DEF Opened, Close
<1>2. file \in Files /\ position \in Nat /\ 0 \in Nat
  BY SMT DEF EInv, Types
<1>. QED BY <1>1, <1>2, ListKept, NoReadKeeps

LEMMA OpenStepInv == ASSUME EInv, OpenStep PROVE EInv'
<1>1. CASE Check
  BY <1>1, GoInv, RefuseQuietlyInv DEF Check
<1>2. CASE GetEfs \/ GetSb \/ GetDinode \/ GetBuffer
  BY <1>2, GoInv, RefuseQuietlyInv DEF GetEfs, GetSb, GetDinode, GetBuffer, Takes
<1>3. CASE ReadSuper \/ ReadRoot
  BY <1>3, GoInv, RefuseQuietlyInv DEF ReadSuper, ReadRoot
<1>4. CASE Namei
  <2>1. CASE DirNotMapped \/ DirReadFails
    BY <2>1, RefuseQuietlyInv DEF DirNotMapped, DirReadFails, DirMapped, Searching
  <2>2. CASE NoEntry \/ NoDirectory \/ IsDirectory
    BY <2>2, RefuseQuietlyInv DEF NoEntry, NoDirectory, IsDirectory
  <2>. QED
    BY <1>4, <2>1, <2>2, DirFillInv, DirFillFailsInv, NextBlockInv, EnterInv, OpenedInv
       DEF Namei
<1>. QED BY <1>1, <1>2, <1>3, <1>4 DEF OpenStep

LEMMA ReadingInv == ASSUME EInv, Call \/ Loop PROVE EInv'
<1>1. position \in Nat /\ offset \in Nat
  BY DEF EInv, Types
<1>2. ASSUME NEW n \in Lens, ReadNothing(n) PROVE EInv'
  BY <1>1, <1>2, ReturnKeeps DEF ReadNothing
<1>3. ASSUME NEW n \in Lens, NEW b \in 0 .. ALIGN - 1, StartRead(n, b) PROVE EInv'
  BY <1>3, StartReadInv
<1>4. ASSUME NEW p \in Positions, Seek(p) PROVE EInv'
  BY <1>4, SeekInv
<1>5. CASE NotMapped
  BY <1>1, <1>5, ReturnKeeps DEF NotMapped
<1>6. CASE ReadDone
  BY <1>1, <1>6, ReturnKeeps DEF ReadDone
<1>7. CASE DeviceFails
  BY <1>1, <1>7, ReturnKeeps DEF DeviceFails
<1>. QED
  BY <1>2, <1>3, <1>4, <1>5, <1>6, <1>7, FillInv, FillFailsInv, ReadDirectInv, PassOverInv,
     ReadPartInv
     DEF Call, Loop, Iterate

LEMMA ENextInv == EInv /\ [Next]_vars => EInv'
<1>. SUFFICES ASSUME EInv, [Next]_vars PROVE EInv'
  OBVIOUS
<1>1. CASE UNCHANGED vars
  BY <1>1 DEF vars, EInv, Types, ListInv, NoReadInv, LoopInv, done, Cut
<1>2. CASE Close
  BY <1>2, OpenedInv
<1>. QED
  BY <1>1, <1>2, OpenInv, OpenStepInv, ReadingInv DEF Next, Reading

-----------------------------------------------------------------------------
(* What an open has taken at each of its steps.                            *)
TakenInv ==
  CASE pc \in {"closed", "check", "efs"} -> taken = {}
    [] pc = "sb"     -> taken = {"efs"}
    [] pc = "dinode" -> taken = {"efs", "sb"}
    [] pc = "buffer" -> taken = Info
    [] OTHER         -> taken = FreedAtBad

LEMMA TakenNext == TakenInv /\ [Next]_vars => TakenInv'
<1>. SUFFICES ASSUME TakenInv, [Next]_vars PROVE TakenInv'
  OBVIOUS
<1>1. CASE UNCHANGED vars
  BY <1>1 DEF vars, TakenInv
<1>2. CASE Check \/ GetEfs \/ GetSb \/ GetDinode \/ GetBuffer
  BY <1>2 DEF Check, GetEfs, GetSb, GetDinode, GetBuffer, Takes, Go, RefuseQuietly, Refuse,
     openVars, TakenInv, Info, FreedAtBad
<1>3. CASE ReadSuper \/ ReadRoot
  BY <1>3 DEF ReadSuper, ReadRoot, Go, RefuseQuietly, Refuse, openVars, TakenInv, FreedAtBad
<1>4. CASE Namei
  <2>1. CASE DirFill \/ NextBlock \/ Enter \/ Opened
    <3>1. pc = "namei" /\ pc' \in {"namei", "idle"} /\ taken' = taken
      BY <2>1 DEF DirFill, NextBlock, Enter, Opened, DirMapped, Searching, openVars
    <3>. QED BY <3>1 DEF TakenInv
  <2>2. CASE DirFillFails
    BY <2>2 DEF DirFillFails, Searching, Refuse, TakenInv
  <2>3. CASE DirNotMapped \/ DirReadFails \/ NoEntry \/ NoDirectory \/ IsDirectory
    <3>1. pc = "namei" /\ pc' = "closed" /\ taken' = taken \ FreedAtBad
      BY <2>3 DEF DirNotMapped, DirReadFails, NoEntry, NoDirectory, IsDirectory, DirMapped,
         Searching, RefuseQuietly, Refuse
    <3>. QED BY <3>1 DEF TakenInv
  <2>. QED BY <1>4, <2>1, <2>2, <2>3 DEF Namei
<1>5. CASE Close \/ \E r \in Roots, p \in Paths : Open(r, p)
  BY <1>5 DEF Close, Open, TakenInv
<1>6. CASE Reading
  <2>1. pc \in {"idle", "loop"} /\ pc' \in {"idle", "loop"} /\ taken' = taken
    BY <1>6 DEF Reading, Call, Loop, Iterate, ReadNothing, StartRead, Seek, Fill, NotMapped,
       ReadDirect, PassOver, ReadPart, ReadDone, FillFails, DeviceFails, Looping, Mapping,
       Return, Advance, openVars
  <2>. QED BY <2>1 DEF TakenInv
<1>. QED
  BY <1>1, <1>2, <1>3, <1>4, <1>5, <1>6 DEF Next, OpenStep

-----------------------------------------------------------------------------
(* The names of a path, one after the other.                               *)
Entered(A, name) == UNION {NamedIn(f, name) : f \in A}

LEMMA LedToIs ==
  ASSUME NEW r \in Files, NEW p
  PROVE  /\ LedTo(r, p, 0) = {r}
         /\ \A k \in Nat \ {0} : LedTo(r, p, k) = Entered(LedTo(r, p, k - 1), p[k])
<1>. DEFINE V == SUBSET Files
            F(k, h) == [i \in 0 .. k |->
                          IF i = 0 THEN {r} ELSE UNION {NamedIn(f, p[i]) : f \in h[i - 1]}]
            up(k) == CHOOSE h : h = F(k, h)
            step(k) == [i \in 1 .. k |-> [A \in V |-> Entered(A, p[i])]]
<1>1. ASSUME NEW A, NEW name PROVE Entered(A, name) \in V
  BY DEF Entered, NamedIn
<1>2. ASSUME NEW k \in Nat PROVE \E h : Computes(h, k, V, {r}, step(k))
  <2>1. step(k) \in [1 .. k -> [V -> V]] /\ {r} \in V
    BY <1>1
  <2>. HIDE DEF step, V
  <2>. QED BY <2>1, RecursionExists
<1>3. ASSUME NEW k \in Nat, NEW h, Computes(h, k, V, {r}, step(k))
      PROVE  LedTo(r, p, k) = h[k]
  <2>1. /\ h \in [0 .. k -> V] /\ h[0] = {r}
        /\ \A i \in 1 .. k : h[i] = step(k)[i][h[i - 1]]
    BY <1>3 DEF Computes
  <2>2. ASSUME NEW i \in 1 .. k PROVE h[i] = UNION {NamedIn(f, p[i]) : f \in h[i - 1]}
    <3>1. h[i - 1] \in V
      <4>1. i - 1 \in 0 .. k
        OBVIOUS
      <4>. HIDE DEF V
      <4>. QED BY <2>1, <4>1
    <3>2. step(k)[i][h[i - 1]] = Entered(h[i - 1], p[i])
      BY <3>1
    <3>. QED BY <2>1, <3>2 DEF Entered
  <2>. HIDE DEF V, step
  <2>3. h = F(k, h)
    <3>1. ASSUME NEW i \in 0 .. k PROVE h[i] = F(k, h)[i]
      BY <2>1, <2>2
    <3>. QED BY <2>1, <3>1
  <2>. HIDE DEF F
  <2>4. up(k) = F(k, up(k))
    BY <2>3
  <2>5. LedTo(r, p, k) = up(k)[k]
    BY DEF LedTo, F
  <2>. HIDE DEF up
  <2>. DEFINE Same == {i \in 0 .. k : up(k)[i] = h[i]}
  <2>6. 0 \in Same
    BY <2>1, <2>4 DEF F
  <2>7. ASSUME NEW i \in 1 .. k, i - 1 \in Same PROVE i \in Same
    <3>1. i \in 0 .. k /\ i # 0
      OBVIOUS
    <3>2. up(k)[i] = F(k, up(k))[i]
      BY <2>4
    <3>3. F(k, up(k))[i] = UNION {NamedIn(f, p[i]) : f \in up(k)[i - 1]}
      BY <3>1, Zenon DEF F
    <3>4. up(k)[i - 1] = h[i - 1]
      BY <2>7
    <3>5. up(k)[i] = h[i]
      BY <2>2, <3>2, <3>3, <3>4
    <3>. QED BY <3>1, <3>5
  <2>. HIDE DEF Same
  <2>8. k \in Same
    <3>1. \A i \in 0 .. k : i \in Same
      BY <2>6, <2>7, CountUp
    <3>. QED BY <3>1
  <2>. QED BY <2>5, <2>8 DEF Same
<1>4. LedTo(r, p, 0) = {r}
  <2>1. PICK h : Computes(h, 0, V, {r}, step(0))
    BY <1>2
  <2>2. h[0] = {r}
    BY <2>1 DEF Computes
  <2>. QED BY <1>3, <2>1, <2>2
<1>5. ASSUME NEW k \in Nat \ {0}
      PROVE  LedTo(r, p, k) = Entered(LedTo(r, p, k - 1), p[k])
  <2>1. PICK h : Computes(h, k, V, {r}, step(k))
    BY <1>2
  <2>2. /\ h \in [0 .. k -> V] /\ h[0] = {r}
        /\ \A i \in 1 .. k : h[i] = step(k)[i][h[i - 1]]
    BY <2>1 DEF Computes
  <2>. DEFINE g == [i \in 0 .. k - 1 |-> h[i]]
  <2>3. Computes(g, k - 1, V, {r}, step(k - 1))
    <3>1. g \in [0 .. k - 1 -> V] /\ g[0] = {r}
      <4>. HIDE DEF V
      <4>. QED BY <2>2
    <3>2. ASSUME NEW i \in 1 .. k - 1 PROVE g[i] = step(k - 1)[i][g[i - 1]]
      <4>1. i \in 1 .. k /\ i - 1 \in 0 .. k - 1
        OBVIOUS
      <4>2. step(k - 1)[i] = step(k)[i]
        BY <4>1
      <4>. HIDE DEF step, V
      <4>. QED BY <2>2, <4>1, <4>2
    <3>. HIDE DEF g, step, V
    <3>. QED BY <3>1, <3>2 DEF Computes
  <2>4. k - 1 \in Nat /\ k - 1 \in 0 .. k /\ g[k - 1] = h[k - 1]
    OBVIOUS
  <2>5. LedTo(r, p, k - 1) = h[k - 1]
    <3>. HIDE DEF g, step, V
    <3>. QED BY <1>3, <2>3, <2>4
  <2>6. LedTo(r, p, k) = h[k]
    BY <1>3, <2>1
  <2>7. h[k] = Entered(h[k - 1], p[k])
    <3>1. h[k - 1] \in V
      <4>. HIDE DEF V
      <4>. QED BY <2>2, <2>4
    <3>2. step(k)[k][h[k - 1]] = Entered(h[k - 1], p[k])
      BY <3>1
    <3>3. h[k] = step(k)[k][h[k - 1]]
      <4>. HIDE DEF step
      <4>. QED BY <2>2
    <3>. QED BY <3>2, <3>3
  <2>. QED BY <2>5, <2>6, <2>7
<1>. QED BY <1>4, <1>5

-----------------------------------------------------------------------------
(* Where an open stands on its way.  The directory it is in is where the   *)
(* names that are gone lead to, and the blocks of it that are behind name  *)
(* nothing that is sought.                                                 *)
NamedAt(f, b, name) ==
  {g \in Files :
     /\ g.base = f.base
     /\ name \in DOMAIN Dirents[f.base][b] /\ g.ino = Dirents[f.base][b][name]}

Gone == Len(names) - Len(rest)

RestOfNames ==
  /\ names \in Seq(STRING) /\ rest \in Seq(STRING) /\ Len(rest) <= Len(names)
  /\ \A i \in 1 .. Len(rest) : rest[i] = names[Gone + i]

Behind ==
  rest # <<>> =>
    \A x \in 0 .. file.size - 1 :
      x < offset => NamedAt(file, OwnBlock(file, x \div BB), Head(rest)) = {}

Walk ==
  /\ RestOfNames
  /\ LedTo(root, names, Gone) = {file} /\ file.base = root.base
  /\ offset % BB = 0
  /\ Behind

Starting == {"check", "efs", "sb", "dinode", "buffer", "super", "root"}
NoFileThere == \A f \in LedTo(root, names, Len(names)) : f.kind # "reg"

PathInv ==
  /\ root \in Roots /\ trouble \in BOOLEAN
  /\ names \in Seq(STRING)
  /\ pc \in Starting => file = root /\ rest = names /\ offset = 0
  /\ ~trouble =>
       /\ pc = "namei" => Walk
       /\ pc \in {"idle", "loop"} => LedTo(root, names, Len(names)) = {file}
       /\ pc = "closed" /\ result.how = "ENOENT" => NoFileThere

LEMMA NamedInIs ==
  ASSUME NEW f \in Files, NEW name
  PROVE  /\ f.kind # "dir" => NamedIn(f, name) = {}
         /\ f.kind = "dir" => NamedIn(f, name) = UNION {NamedAt(f, b, name) : b \in OwnBlocks(f)}
BY DEF NamedIn, NamedAt

(* A name of a directory leads to one inode.                               *)
LEMMA OneInode ==
  ASSUME NEW f \in Files, f.kind = "dir", NEW b \in OwnBlocks(f), NEW name,
         NEW g \in NamedAt(f, b, name)
  PROVE  NamedIn(f, name) = {g}
<1>1. \A c \in OwnBlocks(f) :
        DOMAIN Dirents[f.base][b] \cap DOMAIN Dirents[f.base][c] # {} => b = c
  BY DirectoryAssumption
<1>2. ASSUME NEW h \in NamedIn(f, name) PROVE h = g
  <2>1. PICK c \in OwnBlocks(f) : h \in NamedAt(f, c, name)
    BY <1>2, NamedInIs
  <2>2. name \in DOMAIN Dirents[f.base][b] \cap DOMAIN Dirents[f.base][c]
    BY <2>1 DEF NamedAt
  <2>3. b = c
    BY <1>1, <2>2
  <2>4. h \in Files /\ g \in Files /\ h.base = g.base /\ h.ino = g.ino
    BY <2>1, <2>3 DEF NamedAt
  <2>. QED BY <2>4, PartitionAssumption
<1>3. g \in NamedIn(f, name)
  BY NamedInIs
<1>. QED BY <1>2, <1>3

(* A directory's block that is searched is its own.                        *)
LEMMA SearchedIs ==
  ASSUME EInv, DirMapped, ~Mislaid, file.base = root.base, offset % BB = 0
  PROVE  /\ Searched = OwnBlock(file, offset \div BB) /\ Searched \in OwnBlocks(file)
         /\ IsDirblk /\ Named = NamedAt(file, Searched, Head(rest))
<1>. DEFINE o == offset \div BB
<1>1. /\ Types /\ ListInv /\ file \in Files /\ offset \in Nat
      /\ file.base \in Nat /\ file.size \in Nat /\ BB \in Nat \ {0}
  BY FileTypes, GeometryAssumption DEF EInv, Types
<1>2. /\ offset < file.size /\ file.kind = "dir" /\ ~MustFill /\ Hits(o) # {}
      /\ ~ForeignList /\ ~Beyond(o, BB)
  BY DEF DirMapped, Searching, Mislaid
<1>3. o \in Nat /\ offset \in 0 .. file.size - 1
  BY <1>1, <1>2, Divide
<1>4. PICK k \in 1 .. file.num : Hit(o) = file.slots[k]
  BY <1>1, <1>2, <1>3, OwnHit
<1>. HIDE DEF o
<1>5. /\ Hit(o).off <= o /\ o < Hit(o).off + Hit(o).len /\ Block(o) \in Nat
  BY <1>1, <1>2, <1>3, HitFacts
<1>6. OwnBlock(file, o) = Block(o)
  BY <1>1, <1>3, <1>4, <1>5, BlockOfExtent DEF Block
<1>7. Transferred(o, 0) = Start(o) /\ Start(o) \in Nat
  <2>1. Start(o) \in Nat
    <3>1. file.base + Block(o) \in Nat
      BY <1>1, <1>5
    <3>. QED BY <1>1, <3>1, Products DEF Start
  <2>. DEFINE s == Start(o)
  <2>2. s \in Nat /\ ~(s + BB > REACH) /\ REACH \in Nat /\ Transferred(o, 0) = (s + 0) % REACH
    BY <1>2, <2>1, GeometryAssumption DEF Beyond, Transferred
  <2>. HIDE DEF s
  <2>3. (s + 0) % REACH = s
    BY <1>1, <2>2, SMT
  <2>. QED BY <2>1, <2>2, <2>3 DEF s
<1>8. Start(o) \div BB = file.base + Block(o)
  <2>. DEFINE q == file.base + Block(o)
  <2>1. q \in Nat /\ Start(o) = q * BB
    BY <1>1, <1>5 DEF Start
  <2>. HIDE DEF q
  <2>2. Start(o) = BB * q + 0 /\ 0 \in 0 .. BB - 1
    BY <1>1, <2>1, SMT
  <2>3. Start(o) \div BB = q
    BY <1>1, <1>7, <2>1, <2>2, Quotient
  <2>. QED BY <2>3 DEF q
<1>9. Searched = Block(o)
  <2>1. Searched = Start(o) \div BB - root.base
    BY <1>7 DEF Searched, o
  <2>. QED BY <1>1, <1>5, <1>8, <2>1
<1>10. Searched \in OwnBlocks(file)
  BY <1>3, <1>6, <1>9 DEF OwnBlocks, o
<1>11. IsDirblk
  BY <1>1, <1>2, <1>10, DirectoryAssumption DEF IsDirblk
<1>12. Named = NamedAt(file, Searched, Head(rest))
  BY <1>11 DEF Named, NamedAt
<1>. QED BY <1>6, <1>9, <1>10, <1>11, <1>12 DEF o

(* Where the next name leads to, and where all do when it leads nowhere.   *)
LEMMA NextName ==
  ASSUME root \in Roots, Walk, rest # <<>>
  PROVE  /\ Head(rest) = names[Gone + 1] /\ Gone \in Nat /\ Gone < Len(names)
         /\ LedTo(root, names, Gone + 1) = NamedIn(file, Head(rest))
<1>1. /\ names \in Seq(STRING) /\ rest \in Seq(STRING) /\ Len(rest) <= Len(names)
      /\ \A i \in 1 .. Len(rest) : rest[i] = names[Gone + i]
      /\ LedTo(root, names, Gone) = {file}
  BY DEF Walk, RestOfNames
<1>2. Len(rest) \in Nat \ {0} /\ Len(names) \in Nat /\ Head(rest) = rest[1]
  BY <1>1
<1>3. Gone \in Nat /\ Gone < Len(names)
  BY <1>1, <1>2 DEF Gone
<1>4. Head(rest) = names[Gone + 1]
  BY <1>1, <1>2
<1>5. LedTo(root, names, Gone + 1) = Entered({file}, names[Gone + 1])
  <2>1. root \in Files
    BY DEF Roots
  <2>. DEFINE k == Gone + 1
  <2>2. k \in Nat \ {0} /\ k - 1 = Gone
    BY <1>3
  <2>. HIDE DEF k
  <2>3. LedTo(root, names, k) = Entered(LedTo(root, names, k - 1), names[k])
    BY <2>1, <2>2, LedToIs
  <2>4. LedTo(root, names, k - 1) = {file}
    BY <1>1, <2>2
  <2>. QED BY <2>3, <2>4 DEF k
<1>. QED BY <1>3, <1>4, <1>5 DEF Entered

LEMMA LedNowhere ==
  ASSUME NEW r \in Files, NEW p \in Seq(STRING), NEW k \in 0 .. Len(p), LedTo(r, p, k) = {}
  PROVE  LedTo(r, p, Len(p)) = {}
<1>. DEFINE S == {i \in 0 .. Len(p) : i >= k => LedTo(r, p, i) = {}}
<1>1. Len(p) \in Nat
  OBVIOUS
<1>2. 0 \in S
  <2>1. k = 0 \/ ~(0 >= k)
    BY <1>1
  <2>. QED BY <1>1, <2>1
<1>3. ASSUME NEW i \in 1 .. Len(p), i - 1 \in S PROVE i \in S
  <2>1. LedTo(r, p, i) = Entered(LedTo(r, p, i - 1), p[i])
    BY <1>1, LedToIs
  <2>2. CASE i > k
    <3>1. LedTo(r, p, i - 1) = {}
      BY <1>1, <1>3, <2>2
    <3>. QED BY <2>1, <3>1 DEF Entered
  <2>3. CASE ~(i > k)
    <3>1. i = k \/ ~(i >= k)
      BY <1>1, <2>3
    <3>. QED BY <3>1
  <2>. QED BY <2>2, <2>3
<1>. HIDE DEF S
<1>4. \A i \in 0 .. Len(p) : i \in S
  BY <1>1, <1>2, <1>3, CountUp
<1>5. Len(p) \in S
  BY <1>1, <1>4
<1>. QED BY <1>1, <1>5 DEF S

-----------------------------------------------------------------------------
(* The steps of an open.                                                   *)
LEMMA RefusedInv ==
  ASSUME PathInv, NEW freed, NEW why \in BOOLEAN, Refuse(freed, why),
         ~trouble /\ ~why => NoFileThere
  PROVE  PathInv'
<1>1. /\ pc' = "closed" /\ root' = root /\ names' = names
      /\ trouble' = (trouble \/ why)
  BY DEF Refuse
<1>2. NoFileThere' <=> NoFileThere
  BY <1>1 DEF NoFileThere
<1>. QED BY <1>1, <1>2 DEF PathInv, Starting

LEMMA StartedInv ==
  ASSUME PathInv, pc \in Starting, pc' \in Starting,
         UNCHANGED <<file, offset, root, names, rest, trouble>>
  PROVE  PathInv'
BY DEF PathInv, Starting

LEMMA ReadRootInv ==
  ASSUME EInv, PathInv, ReadRoot
  PROVE  PathInv'
<1>1. CASE Go("namei") /\ UNCHANGED openVars
  <2>1. /\ pc = "root" /\ pc' = "namei"
        /\ UNCHANGED <<file, offset, root, names, rest, trouble>>
    BY <1>1 DEF ReadRoot, Go, openVars
  <2>2. /\ root \in Files /\ file' = root /\ rest' = names /\ offset' = 0
        /\ root' = root /\ names' = names /\ names \in Seq(STRING)
    BY <2>1 DEF PathInv, Starting, Roots
  <2>3. Gone' = 0 /\ Len(names) \in Nat
    BY <2>2 DEF Gone
  <2>4. RestOfNames'
    <3>1. Gone' = 0 /\ rest' = names /\ names' = names
      BY <2>2, <2>3
    <3>2. \A i \in 1 .. Len(names) : names[i] = names[0 + i]
      BY <2>2
    <3>. QED BY <2>2, <2>3, <3>1, <3>2 DEF RestOfNames
  <2>5. LedTo(root', names', Gone') = {root}
    BY <2>2, <2>3, LedToIs
  <2>6. 0 % BB = 0
    BY GeometryAssumption, SMT
  <2>7. Behind'
    BY <2>2 DEF Behind
  <2>8. Walk'
    BY <2>2, <2>4, <2>5, <2>6, <2>7 DEF Walk
  <2>. QED BY <2>1, <2>8 DEF PathInv, Starting
<1>2. CASE RefuseQuietly(FreedAtBad, TRUE)
  BY <1>2, RefusedInv DEF RefuseQuietly
<1>. QED BY <1>1, <1>2 DEF ReadRoot

LEMMA FillingInv == ASSUME PathInv, DirFill PROVE PathInv'
<1>1. /\ pc = "namei" /\ pc' = pc
      /\ UNCHANGED <<file, offset, root, names, rest, trouble>>
  BY DEF DirFill, Searching, callVars, openVars
<1>2. Walk => Walk'
  BY <1>1 DEF Walk, RestOfNames, Gone, Behind
<1>. QED BY <1>1, <1>2 DEF PathInv, Starting

(* What was not found in the block that is searched is not found behind    *)
(* the end of it.                                                          *)
LEMMA NextBlockPath == ASSUME EInv, PathInv, NextBlock PROVE PathInv'
<1>1. /\ DirMapped /\ (IsDirblk => Named = {})
      /\ pc = "namei" /\ pc' = pc /\ offset' = offset + BB /\ rest # <<>>
      /\ trouble' = (trouble \/ Mislaid)
      /\ UNCHANGED <<file, root, names, rest>>
  BY DEF NextBlock, DirMapped, Searching
<1>2. Mislaid \in BOOLEAN
  BY DEF Mislaid, ForeignList, Beyond
<1>3. ASSUME ~trouble' PROVE Walk'
  <2>1. ~trouble /\ ~Mislaid
    BY <1>1, <1>2, <1>3 DEF PathInv
  <2>2. Walk
    BY <1>1, <2>1 DEF PathInv
  <2>3. NamedAt(file, OwnBlock(file, offset \div BB), Head(rest)) = {}
    <3>1. file.base = root.base /\ offset % BB = 0
      BY <2>2 DEF Walk
    <3>2. /\ Searched = OwnBlock(file, offset \div BB)
          /\ IsDirblk /\ Named = NamedAt(file, Searched, Head(rest))
      BY <1>1, <2>1, <3>1, SearchedIs
    <3>. QED BY <1>1, <3>2
  <2>4. /\ offset \in Nat /\ BB \in Nat \ {0} /\ file.size \in Nat
    BY GeometryAssumption, FileTypes DEF EInv, Types
  <2>. DEFINE q == offset \div BB
  <2>5. q \in Nat /\ offset = BB * q + 0 /\ BB * q \in Nat
    <3>1. offset % BB = 0
      BY <2>2 DEF Walk
    <3>2. q \in Nat /\ offset = BB * q + (offset % BB)
      BY <2>4, Divide
    <3>3. BB * q \in Nat
      <4>. HIDE DEF q
      <4>. QED BY <2>4, <3>2, Products
    <3>. HIDE DEF q
    <3>. QED BY <2>4, <3>1, <3>2, <3>3
  <2>6. (offset + BB) % BB = 0
    <3>1. (offset + BB) \div BB = q + 1
      <4>. HIDE DEF q
      <4>1. offset + BB = BB * (q + 1) + 0 /\ q + 1 \in Int /\ 0 \in 0 .. BB - 1
        BY <2>4, <2>5, SMT
      <4>. QED BY <2>4, <4>1, Quotient
    <3>2. offset + BB = BB * ((offset + BB) \div BB) + ((offset + BB) % BB)
          /\ ((offset + BB) % BB) \in 0 .. BB - 1
      BY <2>4, Divide
    <3>. DEFINE m == (offset + BB) % BB
    <3>3. offset + BB = BB * (q + 1) + m /\ m \in 0 .. BB - 1
      BY <3>1, <3>2
    <3>. HIDE DEF q, m
    <3>4. m = 0
      BY <2>4, <2>5, <3>3, SMT
    <3>. QED BY <3>4 DEF m
  <2>7. ASSUME NEW x \in 0 .. file.size - 1, x < offset + BB
        PROVE  NamedAt(file, OwnBlock(file, x \div BB), Head(rest)) = {}
    <3>1. CASE x < offset
      BY <1>1, <2>2, <3>1 DEF Walk, Behind
    <3>2. CASE ~(x < offset)
      <4>1. x \div BB = q
        <5>. HIDE DEF q
        <5>. DEFINE r == x - offset
        <5>1. r \in 0 .. BB - 1 /\ x = BB * q + r /\ x \in Nat /\ q \in Int
          BY <2>4, <2>5, <2>7, <3>2, SMT
        <5>. HIDE DEF r
        <5>. QED BY <2>4, <5>1, Quotient
      <4>. QED BY <2>3, <4>1
    <3>. QED BY <3>1, <3>2
  <2>8. Behind'
    BY <1>1, <2>7 DEF Behind
  <2>9. /\ RestOfNames' /\ LedTo(root, names, Gone)' = {file'} /\ file'.base = root'.base
    BY <1>1, <2>2 DEF Walk, RestOfNames, Gone
  <2>10. (offset % BB = 0)'
    BY <1>1, <2>6
  <2>. QED BY <2>8, <2>9, <2>10 DEF Walk
<1>. QED BY <1>1, <1>2, <1>3 DEF PathInv, Starting

LEMMA EnterPath == ASSUME EInv, PathInv, Enter PROVE PathInv'
<1>1. /\ DirMapped /\ file' \in Named /\ rest' = Tail(rest) /\ offset' = 0
      /\ pc = "namei" /\ pc' = pc /\ rest # <<>> /\ file.kind = "dir"
      /\ trouble' = (trouble \/ Mislaid)
      /\ UNCHANGED <<root, names>>
  BY DEF Enter, DirMapped, Searching
<1>2. Mislaid \in BOOLEAN
  BY DEF Mislaid, ForeignList, Beyond
<1>3. ASSUME ~trouble' PROVE Walk'
  <2>1. ~trouble /\ ~Mislaid
    BY <1>1, <1>2, <1>3 DEF PathInv
  <2>2. Walk /\ root \in Roots
    BY <1>1, <2>1 DEF PathInv
  <2>3. file.base = root.base /\ offset % BB = 0 /\ file \in Files
    BY <2>2 DEF Walk, EInv, Types
  <2>4. Searched \in OwnBlocks(file) /\ Named = NamedAt(file, Searched, Head(rest))
    BY <1>1, <2>1, <2>3, SearchedIs
  <2>5. NamedIn(file, Head(rest)) = {file'}
    BY <1>1, <2>3, <2>4, OneInode
  <2>6. file'.base = root.base
    BY <1>1, <2>3, <2>4 DEF NamedAt
  <2>7. /\ LedTo(root, names, Gone + 1) = {file'} /\ Gone \in Nat
    BY <1>1, <2>2, <2>5, NextName
  <2>8. /\ names \in Seq(STRING) /\ rest \in Seq(STRING) /\ Len(rest) <= Len(names)
        /\ \A i \in 1 .. Len(rest) : rest[i] = names[Gone + i]
    BY <2>2 DEF Walk, RestOfNames
  <2>9. /\ Tail(rest) \in Seq(STRING) /\ Len(Tail(rest)) = Len(rest) - 1
        /\ \A i \in 1 .. Len(rest) - 1 : Tail(rest)[i] = rest[i + 1]
        /\ Len(rest) \in Nat \ {0} /\ Len(names) \in Nat
    BY <1>1, <2>8
  <2>10. Gone' = Gone + 1
    BY <1>1, <2>9 DEF Gone
  <2>11. RestOfNames'
    <3>1. ASSUME NEW i \in 1 .. Len(rest) - 1 PROVE rest'[i] = names[(Gone + 1) + i]
      <4>1. i + 1 \in 1 .. Len(rest) /\ Gone + (i + 1) = (Gone + 1) + i
        BY <2>7, <2>9
      <4>2. rest[i + 1] = names[Gone + (i + 1)]
        BY <2>8, <4>1
      <4>. QED BY <1>1, <2>9, <4>1, <4>2
    <3>2. Len(rest') = Len(rest) - 1 /\ Len(rest') <= Len(names')
      BY <1>1, <2>8, <2>9
    <3>. QED BY <1>1, <2>8, <2>9, <2>10, <3>1, <3>2 DEF RestOfNames
  <2>12. Behind'
    BY <1>1 DEF Behind
  <2>13. LedTo(root, names, Gone)' = {file'}
    BY <1>1, <2>7, <2>10
  <2>14. 0 % BB = 0
    BY GeometryAssumption, SMT
  <2>. QED BY <1>1, <2>6, <2>11, <2>12, <2>13, <2>14 DEF Walk
<1>. QED BY <1>1, <1>2, <1>3 DEF PathInv, Starting

(* A directory whose own list is searched is never found to have no block  *)
(* within its size.                                                        *)
LEMMA DirNotMappedPath == ASSUME EInv, PathInv, DirNotMapped PROVE PathInv'
<1>1. Searching /\ NoMap /\ Refuse(FreedAtBad, MustFill \/ ForeignList)
  BY DEF DirNotMapped, RefuseQuietly
<1>2. MustFill \/ ForeignList
  <2>1. SUFFICES ASSUME ~MustFill, ~ForeignList PROVE FALSE
    OBVIOUS
  <2>. DEFINE o == offset \div BB
  <2>2. /\ Types /\ ListInv /\ file \in Files /\ offset \in 0 .. file.size - 1 /\ Hits(o) = {}
    <3>1. Types /\ ListInv /\ file \in Files /\ offset \in Nat
      BY DEF EInv, Types
    <3>2. file.size \in Nat
      BY <3>1, FileTypes
    <3>. QED BY <1>1, <2>1, <3>1, <3>2 DEF Searching, NoMap
  <2>3. PICK k \in 1 .. file.num : file.slots[k].off <= o /\ o < file.slots[k].off + file.slots[k].len
    BY <2>2, FileAssumption
  <2>. HIDE DEF o
  <2>4. k \in Hits(o)
    BY <2>1, <2>2, <2>3, OwnList DEF Hits
  <2>. QED BY <2>2, <2>4
<1>3. (MustFill \/ ForeignList) \in BOOLEAN
  BY DEF MustFill, ForeignList, Indirect
<1>. QED BY <1>1, <1>2, <1>3, RefusedInv

(* An open that is refused for another reason has been led nowhere, or to  *)
(* a directory.                                                            *)
LEMMA NowhereToGo ==
  ASSUME EInv, PathInv, ~trouble, pc = "namei", NoEntry \/ NoDirectory \/ IsDirectory
  PROVE  NoFileThere
<1>1. Walk /\ root \in Roots /\ root \in Files /\ names \in Seq(STRING)
  BY DEF PathInv, Roots
<1>2. CASE IsDirectory
  <2>1. rest = <<>> /\ file.kind # "reg"
    BY <1>2 DEF IsDirectory
  <2>2. Gone = Len(names)
    BY <1>1, <2>1 DEF Gone
  <2>. QED BY <1>1, <2>1, <2>2 DEF Walk, NoFileThere
<1>3. CASE NoEntry \/ NoDirectory
  <2>1. rest # <<>>
    BY <1>3 DEF NoEntry, NoDirectory
  <2>2. file \in Files /\ file.size \in Nat /\ offset \in Nat
    BY FileTypes DEF EInv, Types
  <2>3. NamedIn(file, Head(rest)) = {}
    <3>1. CASE file.kind # "dir"
      BY <2>2, <3>1, NamedInIs
    <3>2. CASE file.kind = "dir"
      <4>1. offset >= file.size
        BY <1>3, <3>2 DEF NoEntry, NoDirectory
      <4>2. ASSUME NEW b \in OwnBlocks(file) PROVE NamedAt(file, b, Head(rest)) = {}
        <5>1. PICK x \in 0 .. file.size - 1 : b = OwnBlock(file, x \div BB)
          BY <4>2 DEF OwnBlocks
        <5>2. x < offset
          BY <2>2, <4>1
        <5>. QED BY <1>1, <2>1, <5>1, <5>2 DEF Walk, Behind
      <4>. QED BY <2>2, <3>2, <4>2, NamedInIs
    <3>. QED BY <3>1, <3>2
  <2>4. LedTo(root, names, Gone + 1) = {} /\ Gone + 1 \in 0 .. Len(names)
    <3>1. Len(names) \in Nat
      BY <1>1
    <3>. QED BY <1>1, <2>1, <2>3, <3>1, NextName
  <2>5. LedTo(root, names, Len(names)) = {}
    BY <1>1, <2>4, LedNowhere
  <2>. QED BY <2>5 DEF NoFileThere
<1>. QED BY <1>2, <1>3

LEMMA NameiPath == ASSUME EInv, PathInv, Namei PROVE PathInv'
<1>1. CASE DirFillFails \/ DirReadFails
  BY <1>1, RefusedInv DEF DirFillFails, DirReadFails, RefuseQuietly
<1>2. CASE NoEntry \/ NoDirectory \/ IsDirectory
  <2>1. pc = "namei" /\ Refuse(FreedAtBad, FALSE)
    BY <1>2 DEF NoEntry, NoDirectory, IsDirectory, RefuseQuietly
  <2>. QED BY <1>2, <2>1, NowhereToGo, RefusedInv
<1>3. CASE Opened
  <2>1. /\ pc = "namei" /\ rest = <<>> /\ pc' = "idle"
        /\ UNCHANGED <<file, root, names, rest, trouble>>
    BY <1>3 DEF Opened, openVars
  <2>2. ~trouble => LedTo(root, names, Len(names)) = {file}
    <3>1. Len(<<>>) = 0 /\ Len(names) \in Nat
      BY DEF PathInv
    <3>2. Gone = Len(names)
      BY <2>1, <3>1 DEF Gone
    <3>. QED BY <2>1, <3>2 DEF PathInv, Walk
  <2>. QED BY <2>1, <2>2 DEF PathInv, Starting
<1>. QED
  BY <1>1, <1>2, <1>3, FillingInv, DirNotMappedPath, NextBlockPath, EnterPath DEF Namei

LEMMA PathNext == EInv /\ PathInv /\ [Next]_vars => PathInv'
<1>. SUFFICES ASSUME EInv, PathInv, [Next]_vars PROVE PathInv'
  OBVIOUS
<1>1. CASE UNCHANGED vars
  <2>1. UNCHANGED <<file, pc, offset, result, root, names, rest, trouble>>
    BY <1>1 DEF vars
  <2>2. Walk => Walk'
    BY <2>1 DEF Walk, RestOfNames, Gone, Behind
  <2>. QED BY <2>1, <2>2 DEF PathInv, Starting, NoFileThere
<1>2. CASE Check \/ GetEfs \/ GetSb \/ GetDinode \/ GetBuffer \/ ReadSuper
  <2>1. \/ /\ pc \in Starting /\ pc' \in Starting
           /\ UNCHANGED <<file, offset, root, names, rest, trouble>>
        \/ \E freed \in {{}, {"efs"}, {"sb", "efs"}, Info, FreedAtBad} : Refuse(freed, TRUE)
    BY <1>2 DEF Check, GetEfs, GetSb, GetDinode, GetBuffer, ReadSuper, Takes, Go, openVars,
       RefuseQuietly, Starting
  <2>. QED BY <2>1, StartedInv, RefusedInv
<1>3. CASE \E r \in Roots, p \in Paths : Open(r, p)
  <2>1. PICK r \in Roots, p \in Paths : Open(r, p)
    BY <1>3
  <2>2. /\ pc' = "check" /\ file' = r /\ root' = r /\ names' = p /\ rest' = p
        /\ trouble' = FALSE /\ offset' = 0 /\ p \in Seq(STRING)
    BY <2>1, PathAssumption DEF Open
  <2>. QED BY <2>2 DEF PathInv, Starting
<1>4. CASE Close
  <2>1. /\ pc' = "closed" /\ result'.how = "none" /\ UNCHANGED <<root, names, trouble>>
    BY <1>4 DEF Close, None
  <2>. QED BY <2>1 DEF PathInv, Starting
<1>5. CASE Reading
  <2>1. /\ pc \in {"idle", "loop"} /\ pc' \in {"idle", "loop"}
        /\ UNCHANGED <<file, root, names, trouble>>
    BY <1>5 DEF Reading, Call, Loop, Iterate, ReadNothing, StartRead, Seek, Fill, NotMapped,
       ReadDirect, PassOver, ReadPart, ReadDone, FillFails, DeviceFails, Looping, Mapping,
       Return, Advance, openVars
  <2>. QED BY <2>1 DEF PathInv, Starting
<1>. QED
  BY <1>1, <1>2, <1>3, <1>4, <1>5, ReadRootInv, NameiPath DEF Next, OpenStep

-----------------------------------------------------------------------------
(* No transfer of _efs_read() writes behind the length the program gave,   *)
(* also when it goes by another file's extents or passes over a block.     *)
THEOREM EfsAlwaysInBounds == Spec => []EfsInBounds
<1>1. EInv => EfsInBounds
  <2>1. ASSUME EInv, NEW k \in DOMAIN buf PROVE 0 <= k /\ k < len
    <3>1. CASE pc # "loop"
      BY <2>1, <3>1 DEF EInv, NoReadInv, Empty
    <3>2. CASE pc = "loop"
      <4>1. /\ k \in 0 .. done - 1 /\ done \in Nat /\ count \in Nat /\ len \in Nat
            /\ count + done <= len
        BY <2>1, <3>2, LoopFacts DEF LoopInv
      <4>. QED BY <4>1, SMT
    <3>. QED BY <3>1, <3>2
  <2>. QED BY <2>1 DEF EfsInBounds
<1>. QED BY EInitInv, ENextInv, <1>1, PTL DEF Spec

(* The list bmap() keeps is, under its number, that of the last file whose *)
(* list came in whole, as long as no other came in half.                   *)
THEOREM ListAlwaysTruthful == Spec => []ListTruthful
<1>1. EInv => ListTruthful
  BY DEF EInv, ListInv, ListTruthful
<1>. QED BY EInitInv, ENextInv, <1>1, PTL DEF Spec

(* However files and partitions were read before, a read that goes by its  *)
(* own list and passes over nothing delivers the file's bytes in order.    *)
THEOREM EfsSliceAlwaysRight == Spec => []EfsSliceRight
<1>1. EInv => EfsDelivered
  BY DEF EInv, LoopInv, EfsDelivered, done
<1>2. Spec => []EfsDelivered
  BY EInitInv, ENextInv, <1>1, PTL DEF Spec
<1>3. EfsInBounds /\ EfsDelivered => EfsSliceRight
  BY DEF EfsSliceRight
<1>. QED BY EfsAlwaysInBounds, <1>2, <1>3, PTL

(* Every way an open fails gives back what it took, and an open file has   *)
(* its blocks until it is closed, for any partitions and paths.            *)
THEOREM BlocksAlwaysBack == Spec => []EfsBlocksBack
<1>1. Init => TakenInv
  BY DEF Init, TakenInv
<1>2. TakenInv => EfsBlocksBack
  BY DEF TakenInv, EfsBlocksBack, Info, FreedAtBad
<1>. QED BY <1>1, TakenNext, <1>2, PTL DEF Spec

(* For any partitions, directories and paths and in any order of opening   *)
(* and reading: namei() follows the names through the directories' own     *)
(* entries, the file that is opened is the whole path's, and no path that  *)
(* leads to a file is refused - unless something failed, or a directory    *)
(* was searched through a list not its own or beyond the driver's reach.   *)
THEOREM EfsPathAlwaysRight == Spec => []EfsPathRight
<1>1. Init => PathInv
  <2>1. Init => pc = "closed" /\ result.how = "none" /\ root \in Roots /\ names = <<>> /\ trouble = FALSE
    BY DEF Init, Install, None
  <2>2. <<>> \in Seq(STRING)
    OBVIOUS
  <2>. QED BY <2>1, <2>2 DEF PathInv, Starting
<1>2. PathInv => EfsPathRight
  BY DEF PathInv, Walk, Gone, EfsPathRight, NoFileThere
<1>. QED BY <1>1, <1>2, EInitInv, ENextInv, PathNext, PTL DEF Spec
=============================================================================
