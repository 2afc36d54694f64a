----------------------------- MODULE BootIoProofs -----------------------------
(***************************************************************************)
(* Proofs about the boot path for every file system, every heap and every  *)
(* number of descriptors.                                                  *)
(***************************************************************************)
EXTENDS BootIoProps, WellFoundedInduction, TLAPS

(* A set of natural numbers that is not empty has a least one.             *)
LEMMA LeastNatural ==
  ASSUME NEW S, S \subseteq Nat, S # {}
  PROVE  \E i \in S : \A j \in S : i <= j
<1>. DEFINE Less == OpToRel(<, Nat)
<1>1. IsWellFoundedOn(Less, Nat)
  BY NatLessThanWellFounded
<1>2. PICK i \in S : \A j \in S : ~(<<j, i>> \in Less)
  <2>. HIDE DEF Less
  <2>. QED BY <1>1, WFMin
<1>3. \A j \in S : ~(j < i)
  BY <1>2 DEF OpToRel
<1>. QED BY <1>3

(* What holds of 0 and passes from each number to the next holds up to n.  *)
LEMMA CountUp ==
  ASSUME NEW n \in Nat, NEW S, 0 \in S, \A k \in 1 .. n : k - 1 \in S => k \in S
  PROVE  \A k \in 0 .. n : k \in S
<1>1. SUFFICES ASSUME NEW k \in 0 .. n, k \notin S PROVE FALSE
  OBVIOUS
<1>. DEFINE Missing == {m \in 0 .. n : m \notin S}
<1>2. PICK m \in Missing : \A j \in Missing : m <= j
  <2>1. Missing \subseteq Nat /\ Missing # {}
    BY <1>1
  <2>. QED BY <2>1, LeastNatural
<1>3. m \in 1 .. n /\ m - 1 \in 0 .. n /\ ~(m <= m - 1)
  OBVIOUS
<1>4. m - 1 \in S
  BY <1>2, <1>3
<1>. QED BY <1>3, <1>4

(* A function on 0 .. n given by its first value and by what each turn     *)
(* makes of the value before.                                              *)
Computes(h, n, V, b, turn) ==
  /\ h \in [0 .. n -> V] /\ h[0] = b
  /\ \A k \in 1 .. n : h[k] = turn[k][h[k - 1]]

LEMMA RecursionExists ==
  ASSUME NEW n \in Nat, NEW V, NEW b \in V, NEW turn \in [1 .. n -> [V -> V]]
  PROVE  \E h : Computes(h, n, V, b, turn)
<1>. DEFINE Upto(m, h) == h[0] = b /\ \A k \in 1 .. m : h[k] = turn[k][h[k - 1]]
            S == {m \in 0 .. n : \E h \in [0 .. m -> V] : Upto(m, h)}
<1>1. 0 \in S
  <2>1. Upto(0, [k \in 0 .. 0 |-> b]) /\ [k \in 0 .. 0 |-> b] \in [0 .. 0 -> V]
    OBVIOUS
  <2>. HIDE DEF Upto
  <2>. QED BY <2>1
<1>2. ASSUME NEW m \in 1 .. n, m - 1 \in S PROVE m \in S
  <2>1. PICK h \in [0 .. m - 1 -> V] : Upto(m - 1, h)
    BY <1>2
  <2>. DEFINE g == [k \in 0 .. m |-> IF k = m THEN turn[m][h[m - 1]] ELSE h[k]]
  <2>2. h[m - 1] \in V /\ turn[m] \in [V -> V]
    OBVIOUS
  <2>3. g \in [0 .. m -> V]
    <3>1. ASSUME NEW k \in 0 .. m PROVE g[k] \in V
      BY <2>2
    <3>. QED BY <3>1
  <2>4. Upto(m, g)
    <3>1. g[0] = b
      BY <2>1
    <3>2. ASSUME NEW k \in 1 .. m PROVE g[k] = turn[k][g[k - 1]]
      <4>1. k - 1 \in 0 .. m /\ k - 1 # m /\ g[k - 1] = h[k - 1]
        OBVIOUS
      <4>2. CASE k = m
        BY <4>1, <4>2
      <4>3. CASE k # m
        <5>1. k \in 1 .. m - 1 /\ g[k] = h[k]
          BY <4>3
        <5>2. h[k] = turn[k][h[k - 1]]
          BY <2>1, <5>1
        <5>. QED BY <4>1, <5>1, <5>2
      <4>. QED BY <4>2, <4>3
    <3>. QED BY <3>1, <3>2
  <2>. HIDE DEF Upto
  <2>. QED BY <2>3, <2>4
<1>. HIDE DEF S
<1>3. \A m \in 1 .. n : m - 1 \in S => m \in S
  BY <1>2
<1>4. \A m \in 0 .. n : m \in S
  BY <1>1, <1>3, CountUp
<1>5. n \in S
  BY <1>4
<1>. QED BY <1>5 DEF S, Computes

-----------------------------------------------------------------------------

(* The descriptors: Execute() has one of its own while it searches and     *)
(* loads, none while it opens a file.                                      *)
Working == {"vh", "load", "image"}

DescInv ==
  /\ fdTable \in [Fds -> Types] /\ held \subseteq Fds
  /\ pc \in Working => fd \in Fds \ held
  /\ pc \in {"vh", "image"} => fdTable[fd] = "disk"
  /\ pc = "load" => fdTable[fd] \in {"disk", "xfs"}
  /\ \A i \in Fds : fdTable[i] # "unused" <=> i \in held \/ (pc \in Working /\ i = fd)
  /\ \A i \in held : fdTable[i] = "disk"

-----------------------------------------------------------------------------
(* open_fs_file()'s search finds an unused descriptor if there is one.     *)
LEMMA FirstUnusedIsUnused ==
  ASSUME Unused # {} PROVE FirstUnused \in Unused
<1>1. Unused \subseteq Nat
  BY BootAssumption DEF Unused, Fds
<1>2. \E i \in Unused : \A j \in Unused : i <= j
  BY <1>1, LeastNatural
<1> QED BY <1>2 DEF FirstUnused

(* malloc() gives a block that nobody has, if there is one.                *)
LEMMA FreshIsFree ==
  ASSUME CanTake PROVE Fresh \in (1 .. BLOCKS) \ DOMAIN alloc
<1>1. FreeBlocks \subseteq Nat /\ FreeBlocks # {}
  BY HeapAssumption DEF FreeBlocks, CanTake
<1>2. \E b \in FreeBlocks : \A c \in FreeBlocks : b <= c
  BY <1>1, LeastNatural
<1> QED BY <1>2 DEF Fresh, FreeBlocks

-----------------------------------------------------------------------------
(* A step of the open leaves the descriptors alone and ends where none of  *)
(* them is in use by Execute().                                            *)
LEMMA OpenStepPc == OpenStep => pc \notin Working /\ pc' \notin Working
<1> SUFFICES ASSUME OpenStep PROVE pc \notin Working /\ pc' \notin Working
  OBVIOUS
<1> USE DEF Working
<1>1. CASE Check \/ GetInfo \/ GetMount \/ GetInode \/ ReadSuper \/ GetBuffer \/ ReadLast
  BY <1>1 DEF Check, GetInfo, GetMount, GetInode, ReadSuper, GetBuffer, ReadLast,
              Superblock, Takes, Fails, Refuse
<1>2. CASE ReadInode \/ ReadLeaves
  BY <1>2 DEF ReadInode, ReadLeaves, Refuse, Walk
<1>3. CASE NotADirectory \/ Lookup \/ LookupFails \/ LookupEnds
  BY <1>3 DEF NotADirectory, Lookup, LookupFails, LookupEnds, Refuse
<1> QED BY <1>1, <1>2, <1>3 DEF OpenStep

LEMMA DescStep == DescInv /\ [Next]_vars => DescInv'
<1> SUFFICES ASSUME DescInv, [Next]_vars PROVE DescInv'
  OBVIOUS
<1> USE DEF Working
<1>1. CASE UNCHANGED vars
  BY <1>1 DEF DescInv, vars
<1>2. ASSUME NEW p \in Paths, ExecuteFile(p) PROVE DescInv'
  BY <1>2 DEF DescInv, ExecuteFile, OpenFsFile, ioVars
<1>3. CASE Opening
  BY <1>3, OpenStepPc DEF DescInv, Opening, ioVars
<1>4. CASE TakeFd
  <2>1. CASE Unused # {} /\ fdTable' = [fdTable EXCEPT ![FirstUnused] = "xfs"]
             /\ fd' = FirstUnused /\ pc' = "load"
    BY <1>4, <2>1, FirstUnusedIsUnused DEF DescInv, TakeFd, Unused, Types
  <2>2. CASE Over /\ UNCHANGED fdTable
    BY <1>4, <2>2 DEF DescInv, TakeFd, Over, Forgotten
  <2> QED BY <1>4, <2>1, <2>2 DEF TakeFd
<1>5. ASSUME NEW there \in VhNames, ExecuteVh(there) PROVE DescInv'
  BY <1>5, FirstUnusedIsUnused DEF DescInv, ExecuteVh, Unused, Types
<1>6. CASE LoadDevice \/ RawFd
  BY <1>6, FirstUnusedIsUnused DEF DescInv, LoadDevice, RawFd, Unused, Types
<1>7. CASE VhFails \/ Load
  BY <1>7 DEF DescInv, VhFails, Load, Close, Over, Forgotten, Types
<1>8. CASE VhFound
  BY <1>8 DEF DescInv, VhFound, Close, Types
<1>9. CASE Refused
  BY <1>9 DEF DescInv, Refused, Over, Forgotten
<1>10. CASE ProgramOpens
  BY <1>10, FirstUnusedIsUnused DEF DescInv, ProgramOpens, Unused, Types
<1>11. ASSUME NEW i \in Fds, ProgramCloses(i) PROVE DescInv'
  BY <1>11 DEF DescInv, ProgramCloses, Close, Types
<1>12. CASE ProgramReturns \/ CloseNoncons
  BY <1>12 DEF DescInv, ProgramReturns, CloseNoncons, Types
<1> QED BY <1>1, <1>2, <1>3, <1>4, <1>5, <1>6, <1>7, <1>8, <1>9, <1>10, <1>11, <1>12
        DEF Next, Call, Step

LEMMA DescHolds == Spec => []DescInv
<1>1. Init => DescInv
  BY DEF Init, FsInit, DescInv, Types, Working
<1> QED BY <1>1, DescStep, PTL DEF Spec

(* At most one descriptor leads to the static eiob, and only while         *)
(* Execute() loads from it, however many descriptors there are.            *)
THEOREM OneFileAtATime == Spec => []OneFsFile
<1>1. DescInv => OneFsFile
  BY DEF DescInv, OneFsFile, Working
<1> QED BY <1>1, DescHolds, PTL

(* No way out of Execute() or Load() forgets a descriptor.                 *)
THEOREM NoDescriptorForgotten == Spec => []DescriptorsBalanced
<1>1. DescInv => DescriptorsBalanced
  BY DEF DescInv, DescriptorsBalanced, Working
<1> QED BY <1>1, DescHolds, PTL
-----------------------------------------------------------------------------
(* The blocks of a file that is being opened or is open: from the step     *)
(* that takes a block on, it is taken for its purpose, and the inode's own *)
(* blocks are others, also while they are stale.                           *)
WithBuffer == {"last", "iread", "leaves", "walk"}
WithInode  == {"super", "buffer"} \cup WithBuffer
WithMount  == {"inode"} \cup WithInode
WithInfo   == {"mount"} \cup WithMount

AllocOK == DOMAIN alloc \subseteq 1 .. BLOCKS

Backed ==
  /\ pc \in WithInfo \/ FileOpen => Holds(fsb.info, "info")
  /\ pc \in WithMount \/ FileOpen => Holds(fsb.mp, "mount")
  /\ pc \in WithInode \/ FileOpen => Holds(fsb.ip, "inode")
  /\ pc \in WithBuffer \/ FileOpen => Holds(fsb.buffer, "buffer")

Apart ==
  /\ pc \in {"check", "info"} \cup (WithInfo \ {"iread", "leaves", "walk"}) => ip = NoInode
  /\ pc \in WithInfo \/ FileOpen =>
       {ip.exts, ip.root} \cap {fsb.info, fsb.mp, fsb.ip, fsb.buffer} \subseteq {NULL}

Loads ==
  ~trouble =>
    /\ pc = "leaves" => ip.format = "btree" /\ Holds(ip.root, "root")
    /\ (pc = "walk" /\ ret = 1) \/ FileOpen => ~Stale

FileInv ==
  /\ DescInv /\ AllocOK /\ Backed /\ Apart /\ Loads
  /\ DOMAIN fsb = {"info", "mp", "ip", "buffer"}
  /\ DOMAIN ip = {"no", "format", "exts", "root"}

(* Taking a block gives nobody's block away, nor does freeing other ones.  *)
LEMMA TakenKeeps ==
  ASSUME AllocOK, CanTake, NEW what, alloc' = Taken(what)
  PROVE  /\ AllocOK' /\ Fresh \in 1 .. BLOCKS /\ Fresh \notin DOMAIN alloc
         /\ Fresh \in DOMAIN alloc' /\ alloc'[Fresh] = what
         /\ \A b \in DOMAIN alloc : b \in DOMAIN alloc' /\ alloc'[b] = alloc[b]
<1>1. Fresh \in (1 .. BLOCKS) \ DOMAIN alloc
  BY FreshIsFree
<1> QED BY <1>1 DEF AllocOK, Taken

LEMMA FreedKeeps ==
  ASSUME AllocOK, NEW S, alloc' = Freed(S)
  PROVE  /\ AllocOK'
         /\ \A b \in DOMAIN alloc \ S : b \in DOMAIN alloc' /\ alloc'[b] = alloc[b]
BY DEF AllocOK, Freed

(* Where no file is being opened nothing is to be shown of its blocks.     *)
Elsewhere == {"idle", "refused", "fault", "vh", "raw", "image"}

LEMMA ElsewhereInv ==
  ASSUME DescInv', AllocOK', pc' \in Elsewhere,
         DOMAIN fsb' = {"info", "mp", "ip", "buffer"},
         DOMAIN ip' = {"no", "format", "exts", "root"}
  PROVE  FileInv'
BY DEF FileInv, Elsewhere, Backed, Apart, Loads, FileOpen, WithInfo, WithMount, WithInode, WithBuffer

LEMMA TakeInfoInv ==
  ASSUME FileInv, DescInv', Check \/ GetInfo \/ GetMount \/ GetInode \/ ReadSuper \/ GetBuffer \/ ReadLast
  PROVE  FileInv'
<1> USE DEF FileInv, WithInfo, WithMount, WithInode, WithBuffer
<1>1. CASE pc' = "refused"
  <2>1. AllocOK'
    BY <1>1, TakenKeeps, FreedKeeps DEF Check, GetInfo, GetMount, GetInode, ReadSuper, GetBuffer, ReadLast,
       Superblock, Takes, Fails, Refuse, AllocOK
  <2>2. UNCHANGED <<fsb, ip>>
    BY <1>1 DEF Check, GetInfo, GetMount, GetInode, ReadSuper, GetBuffer, ReadLast,
       Superblock, Takes, Fails, Refuse
  <2> QED BY <1>1, <2>1, <2>2, ElsewhereInv DEF Elsewhere
<1>2. CASE Check /\ pc' # "refused"
  <2>1. Takes("super", "info") /\ UNCHANGED fsb /\ pc = "check"
    BY <1>2 DEF Check, Superblock, Fails, Refuse
  <2>2. AllocOK'
    BY <2>1, TakenKeeps DEF Takes
  <2> QED BY <2>1, <2>2 DEF Takes, Backed, Apart, Loads, FileOpen
<1>3. CASE GetInfo /\ pc' # "refused"
  <2>1. Takes("info", "mount") /\ fsb' = [fsb EXCEPT !.info = Fresh] /\ pc = "info"
    BY <1>3 DEF GetInfo, Fails, Refuse
  <2>2. AllocOK' /\ fsb'.info = Fresh /\ Holds(fsb.info, "info")'
    BY <2>1, TakenKeeps DEF Takes, Holds
  <2>3. DOMAIN fsb' = DOMAIN fsb /\ UNCHANGED ip /\ ip = NoInode /\ pc' = "mount"
    BY <2>1 DEF Takes, Apart
  <2> QED BY <2>2, <2>3 DEF Backed, Apart, Loads, FileOpen, NoInode
<1>4. CASE GetMount /\ pc' # "refused"
  <2>1. Takes("mount", "inode") /\ fsb' = [fsb EXCEPT !.mp = Fresh] /\ pc = "mount"
    BY <1>4 DEF GetMount, Fails, Refuse
  <2>2. AllocOK' /\ fsb'.mp = Fresh /\ Holds(fsb.mp, "mount")'
    BY <2>1, TakenKeeps DEF Takes, Holds
  <2>3. DOMAIN fsb' = DOMAIN fsb /\ UNCHANGED ip /\ ip = NoInode /\ pc' = "inode"
    BY <2>1 DEF Takes, Apart
  <2>4. Holds(fsb.info, "info")'
    BY <2>1, TakenKeeps DEF Takes, Backed, Holds
  <2> QED BY <2>2, <2>3, <2>4 DEF Backed, Apart, Loads, FileOpen, NoInode
<1>5. CASE GetInode /\ pc' # "refused"
  <2>1. Takes("inode", "super") /\ fsb' = [fsb EXCEPT !.ip = Fresh] /\ pc = "inode"
    BY <1>5 DEF GetInode, Fails, Refuse
  <2>2. AllocOK' /\ fsb'.ip = Fresh /\ Holds(fsb.ip, "inode")'
    BY <2>1, TakenKeeps DEF Takes, Holds
  <2>3. DOMAIN fsb' = DOMAIN fsb /\ UNCHANGED ip /\ ip = NoInode /\ pc' = "super"
    BY <2>1 DEF Takes, Apart
  <2>4. Holds(fsb.info, "info")' /\ Holds(fsb.mp, "mount")'
    BY <2>1, TakenKeeps DEF Takes, Backed, Holds
  <2> QED BY <2>2, <2>3, <2>4 DEF Backed, Apart, Loads, FileOpen, NoInode
<1>6. CASE ReadSuper /\ pc' # "refused"
  <2>1. Takes("super", "buffer") /\ UNCHANGED fsb /\ pc = "super"
    BY <1>6 DEF ReadSuper, Superblock, Fails, Refuse
  <2>2. AllocOK' /\ Holds(fsb.info, "info")' /\ Holds(fsb.mp, "mount")' /\ Holds(fsb.ip, "inode")'
    BY <2>1, TakenKeeps DEF Takes, Backed, Holds
  <2> QED BY <2>1, <2>2 DEF Takes, Backed, Apart, Loads, FileOpen
<1>7. CASE GetBuffer /\ pc' # "refused"
  <2>1. Takes("buffer", "last") /\ fsb' = [fsb EXCEPT !.buffer = Fresh] /\ pc = "buffer"
    BY <1>7 DEF GetBuffer, Fails, Refuse
  <2>2. AllocOK' /\ fsb'.buffer = Fresh /\ Holds(fsb.buffer, "buffer")'
    BY <2>1, TakenKeeps DEF Takes, Holds
  <2>3. DOMAIN fsb' = DOMAIN fsb /\ UNCHANGED ip /\ ip = NoInode /\ pc' = "last"
    BY <2>1 DEF Takes, Apart
  <2>4. Holds(fsb.info, "info")' /\ Holds(fsb.mp, "mount")' /\ Holds(fsb.ip, "inode")'
    BY <2>1, TakenKeeps DEF Takes, Backed, Holds
  <2> QED BY <2>2, <2>3, <2>4 DEF Backed, Apart, Loads, FileOpen, NoInode
<1>8. CASE ReadLast /\ pc' # "refused"
  <2>1. pc = "last" /\ pc' = "iread" /\ UNCHANGED <<alloc, fsb, ip>>
    BY <1>8 DEF ReadLast, Fails, Refuse
  <2> QED BY <2>1 DEF AllocOK, Backed, Apart, Loads, FileOpen, Holds, NoInode
<1> QED BY <1>1, <1>2, <1>3, <1>4, <1>5, <1>6, <1>7, <1>8
(* The inode's own blocks may be freed: the file's others stay.            *)
LEMMA WalkBacked ==
  ASSUME FileInv, pc \in {"iread", "leaves", "walk"}, pc' \in {"iread", "leaves", "walk", "opened"},
         UNCHANGED fsb, AllocOK',
         \A b \in DOMAIN alloc \ Owned : b \in DOMAIN alloc' /\ alloc'[b] = alloc[b]
  PROVE  Backed'
<1>1. /\ Holds(fsb.info, "info") /\ Holds(fsb.mp, "mount")
      /\ Holds(fsb.ip, "inode") /\ Holds(fsb.buffer, "buffer")
  BY DEF FileInv, Backed, WithInfo, WithMount, WithInode, WithBuffer
<1>2. {fsb.info, fsb.mp, fsb.ip, fsb.buffer} \cap Owned = {}
  <2>1. Owned \subseteq {ip.exts, ip.root}
    BY DEF Owned
  <2>2. NULL \notin {fsb.info, fsb.mp, fsb.ip, fsb.buffer}
    BY <1>1, HeapAssumption DEF FileInv, AllocOK, Holds, NULL
  <2> QED BY <2>1, <2>2 DEF FileInv, Apart, WithInfo, WithMount, WithInode, WithBuffer
<1> QED BY <1>1, <1>2 DEF Backed, Holds

LEMMA ReadInodeInv ==
  ASSUME FileInv, DescInv', ReadInode
  PROVE  FileInv'
<1> USE DEF FileInv, WithInfo, WithMount, WithInode, WithBuffer
<1>0. pc = "iread" /\ UNCHANGED fsb
  BY DEF ReadInode
<1>1. CASE UNCHANGED <<alloc, ip>> /\ Refuse(TRUE)
  BY <1>0, <1>1, ElsewhereInv DEF Refuse, Elsewhere, AllocOK
<1>2. CASE ~Forked(next) /\ ip' = Loaded(next, NULL, NULL) /\ pc' = "walk" /\ UNCHANGED <<alloc, trouble>>
  <2>1. AllocOK' /\ Backed'
    BY <1>0, <1>2, WalkBacked DEF AllocOK
  <2>2. DOMAIN ip' = DOMAIN ip /\ ip'.exts = NULL /\ ip'.root = NULL /\ Owned' = {}
    BY <1>2 DEF Loaded, Forked, Owned
  <2>3. Apart'
    BY <1>0, <1>2, <2>2 DEF Apart, FileOpen
  <2>4. ~Stale'
    BY <2>2 DEF Stale
  <2> QED BY <1>0, <1>2, <2>1, <2>2, <2>3, <2>4 DEF Loads, FileOpen
<1>3. CASE /\ Forked(next) /\ CanTake
           /\ alloc' = Taken(Purpose(next))
           /\ ip' = IF Inodes[next].format = "btree" THEN Loaded(next, NULL, Fresh)
                    ELSE Loaded(next, Fresh, NULL)
           /\ pc' = Walk(next) /\ UNCHANGED trouble
  <2>1. AllocOK' /\ Backed'
    BY <1>0, <1>3, WalkBacked, TakenKeeps DEF Walk
  <2>2. /\ DOMAIN ip' = DOMAIN ip /\ {ip'.exts, ip'.root} = {NULL, Fresh}
        /\ ip'.format = Inodes[next].format
    BY <1>3 DEF Loaded
  <2>3. Fresh \notin DOMAIN alloc /\ Fresh \in DOMAIN alloc' /\ alloc'[Fresh] = Purpose(next)
    BY <1>3, TakenKeeps
  <2>4. /\ Holds(fsb.info, "info") /\ Holds(fsb.mp, "mount")
        /\ Holds(fsb.ip, "inode") /\ Holds(fsb.buffer, "buffer")
    BY <1>0 DEF Backed
  <2>5. Apart'
    BY <1>0, <1>3, <2>2, <2>3, <2>4 DEF Apart, Holds, Walk
  <2>6. Loads'
    <3>1. CASE Inodes[next].format = "btree"
      BY <1>3, <2>2, <2>3, <3>1 DEF Loads, Loaded, Walk, Holds, Purpose, FileOpen
    <3>2. CASE Inodes[next].format = "manyextents"
      <4>1. Owned' = {ip'.exts} /\ ip'.exts = Fresh /\ Purpose(next) = "exts" /\ pc' = "walk"
        BY <1>3, <2>2, <3>2 DEF Owned, Purpose, Loaded, Walk
      <4> QED BY <4>1, <2>3 DEF Loads, Stale, Holds, FileOpen
    <3>3. CASE Inodes[next].format = "longlocal"
      BY <1>3, <2>2, <3>3 DEF Loads, Walk, Stale, Owned, FileOpen
    <3> QED BY <1>3, <3>1, <3>2, <3>3 DEF Forked
  <2> QED BY <1>0, <2>1, <2>2, <2>5, <2>6
<1>4. CASE /\ Forked(next) /\ ip' = Loaded(next, NULL, NULL)
           /\ pc' \in {Walk(next), "fault"} /\ trouble' = TRUE /\ UNCHANGED alloc
  <2>1. AllocOK' /\ DOMAIN ip' = DOMAIN ip /\ ip'.exts = NULL /\ ip'.root = NULL
    BY <1>4 DEF AllocOK, Loaded
  <2>2. CASE pc' = "fault"
    BY <1>0, <2>1, <2>2, ElsewhereInv DEF Elsewhere
  <2>3. CASE pc' # "fault"
    <3>1. Backed'
      BY <1>0, <1>4, <2>1, <2>3, WalkBacked DEF Walk
    <3> QED BY <1>0, <1>4, <2>1, <2>3, <3>1 DEF Apart, Loads, Walk
  <2> QED BY <2>2, <2>3
<1> QED BY <1>1, <1>2, <1>3, <1>4 DEF ReadInode
LEMMA ReadLeavesInv ==
  ASSUME FileInv, DescInv', ReadLeaves
  PROVE  FileInv'
<1> USE DEF FileInv, WithInfo, WithMount, WithInode, WithBuffer
<1>0. pc = "leaves" /\ pc' = "walk" /\ UNCHANGED <<fsb, ret>>
  BY DEF ReadLeaves
<1>1. CASE CanTake /\ alloc' = Taken("exts") /\ ip' = [ip EXCEPT !.exts = Fresh] /\ trouble' \in {trouble, TRUE}
  <2>1. AllocOK' /\ Backed'
    BY <1>0, <1>1, WalkBacked, TakenKeeps
  <2>2. /\ Fresh \notin DOMAIN alloc /\ Fresh \in DOMAIN alloc' /\ alloc'[Fresh] = "exts"
        /\ \A b \in DOMAIN alloc : b \in DOMAIN alloc' /\ alloc'[b] = alloc[b]
    BY <1>1, TakenKeeps
  <2>3. /\ DOMAIN ip' = DOMAIN ip /\ ip'.exts = Fresh /\ ip'.root = ip.root
        /\ ip'.format = ip.format
    BY <1>1
  <2>4. /\ Holds(fsb.info, "info") /\ Holds(fsb.mp, "mount")
        /\ Holds(fsb.ip, "inode") /\ Holds(fsb.buffer, "buffer")
    BY <1>0 DEF Backed
  <2>5. Apart'
    BY <1>0, <2>2, <2>3, <2>4 DEF Apart, Holds
  <2>6. Loads'
    <3>1. CASE trouble'
      BY <3>1 DEF Loads
    <3>2. CASE ~trouble'
      <4>1. ip.format = "btree" /\ Holds(ip.root, "root")
        <5>1. ~trouble
          <6>1. CASE trouble' = trouble
            BY <3>2, <6>1, Zenon
          <6>2. CASE trouble' = TRUE
            BY <3>2, <6>2, Zenon
          <6> QED BY <1>1, <6>1, <6>2
        <5> QED BY <1>0, <5>1 DEF Loads
      <4>2. Owned' = {ip'.root, ip'.exts}
        BY <2>3, <4>1 DEF Owned
      <4>3. alloc'[ip'.root] = "root" /\ ip'.root \in DOMAIN alloc'
        BY <2>2, <2>3, <4>1 DEF Holds
      <4> QED BY <1>0, <2>2, <2>3, <4>2, <4>3 DEF Loads, Stale, Holds, FileOpen
    <3> QED BY <3>1, <3>2
  <2> QED BY <1>0, <2>1, <2>3, <2>5, <2>6
<1>2. CASE UNCHANGED <<alloc, ip>> /\ trouble' = TRUE
  <2>1. AllocOK' /\ Backed'
    BY <1>0, <1>2, WalkBacked DEF AllocOK
  <2> QED BY <1>0, <1>2, <2>1 DEF Apart, Loads
<1> QED BY <1>1, <1>2 DEF ReadLeaves

LEMMA WalkInv ==
  ASSUME FileInv, DescInv', NotADirectory \/ Lookup \/ LookupFails \/ LookupEnds
  PROVE  FileInv'
<1> USE DEF FileInv, WithInfo, WithMount, WithInode, WithBuffer
<1>1. CASE NotADirectory
  BY <1>1, ElsewhereInv DEF NotADirectory, Refuse, Elsewhere, AllocOK
<1>2. CASE Lookup
  <2>1. /\ pc = "walk" /\ pc' \in {"walk", "iread"} /\ UNCHANGED <<fsb, ip>>
        /\ pc' = "walk" => ret' = 0
        /\ alloc' = Freed(Owned)
    BY <1>2 DEF Lookup, Released
  <2>2. AllocOK' /\ Backed'
    BY <2>1, WalkBacked, FreedKeeps
  <2> QED BY <2>1, <2>2 DEF Apart, Loads, FileOpen
<1>3. CASE LookupFails
  <2>1. pc = "walk" /\ pc' = "walk" /\ UNCHANGED <<fsb, ip>> /\ trouble' = TRUE
    BY <1>3 DEF LookupFails
  <2>2. AllocOK' /\ \A b \in DOMAIN alloc \ Owned : b \in DOMAIN alloc' /\ alloc'[b] = alloc[b]
    <3>1. CASE Released
      BY <3>1, FreedKeeps DEF Released
    <3>2. CASE CanTake /\ alloc' = [b \in DOMAIN Taken("dir") \ Owned |-> Taken("dir")[b]]
      <4>1. Fresh \in (1 .. BLOCKS) \ DOMAIN alloc
        BY <3>2, FreshIsFree
      <4> QED BY <3>2, <4>1 DEF Taken, AllocOK
    <3> QED BY <1>3, <3>1, <3>2 DEF LookupFails
  <2>3. Backed'
    BY <2>1, <2>2, WalkBacked
  <2> QED BY <2>1, <2>2, <2>3 DEF Apart, Loads
<1>4. CASE LookupEnds
  <2>1. /\ pc = "walk" /\ UNCHANGED <<alloc, fsb, ip, ret, trouble>>
        /\ pc' \in {"opened", "refused"} /\ (pc' = "opened" => ret = 1)
    BY <1>4 DEF LookupEnds
  <2>2. CASE pc' = "refused"
    BY <2>1, <2>2, ElsewhereInv DEF Elsewhere, AllocOK
  <2>3. CASE pc' = "opened"
    <3>1. AllocOK' /\ Backed'
      BY <2>1, <2>3, WalkBacked DEF AllocOK
    <3>2. Apart'
      BY <2>1, <2>3 DEF Apart
    <3>3. Loads'
      BY <2>1, <2>3 DEF Loads, Stale, Owned, Holds
    <3> QED BY <2>1, <3>1, <3>2, <3>3
  <2> QED BY <2>1, <2>2, <2>3
<1> QED BY <1>1, <1>2, <1>3, <1>4

LEMMA FileStep == FileInv /\ DescInv' /\ [Next]_vars => FileInv'
<1> SUFFICES ASSUME FileInv, DescInv', [Next]_vars PROVE FileInv'
  OBVIOUS
<1> USE DEF FileInv
<1>1. CASE UNCHANGED vars
  BY <1>1 DEF vars, AllocOK, Backed, Apart, Loads, FileOpen, Stale, Owned, Holds,
              WithInfo, WithMount, WithInode, WithBuffer
<1>2. ASSUME NEW p \in Paths, ExecuteFile(p) PROVE FileInv'
  BY <1>2 DEF ExecuteFile, OpenFsFile, NoFsb, NoInode, AllocOK, Backed, Apart, Loads, FileOpen,
              WithInfo, WithMount, WithInode, WithBuffer
<1>3. CASE Opening
  BY <1>3, TakeInfoInv, ReadInodeInv, ReadLeavesInv, WalkInv DEF Opening, OpenStep
<1>4. CASE TakeFd
  <2>1. CASE /\ Unused # {} /\ fdTable' = [fdTable EXCEPT ![FirstUnused] = "xfs"]
             /\ fd' = FirstUnused /\ pc' = "load" /\ UNCHANGED alloc /\ UNCHANGED OpenVars
    <3>1. FileOpen /\ FileOpen'
      BY <1>4, <2>1, FirstUnusedIsUnused DEF TakeFd, FileOpen, Unused, DescInv
    <3> QED BY <2>1, <3>1 DEF OpenVars, AllocOK, Backed, Apart, Loads, Stale, Owned, Holds,
                WithInfo, WithMount, WithInode, WithBuffer
  <2>2. CASE FsClose /\ Over
    BY <1>4, <2>2, FreedKeeps, ElsewhereInv DEF FsClose, Over, Forgotten, Elsewhere, NoFsb, NoInode
  <2> QED BY <1>4, <2>1, <2>2 DEF TakeFd
<1>5. CASE RawFd
  <2>1. ~FileOpen' /\ pc' = "load"
    BY <1>5, FirstUnusedIsUnused DEF RawFd, FileOpen, Unused, DescInv
  <2> QED BY <1>5, <2>1 DEF RawFd, OpenVars, AllocOK, Backed, Apart, Loads,
                WithInfo, WithMount, WithInode, WithBuffer
<1>6. CASE LoadDevice \/ Refused \/ ProgramOpens \/ ProgramReturns \/ CloseNoncons
           \/ \E there \in VhNames : ExecuteVh(there)
  <2>1. UNCHANGED alloc /\ pc' \in Elsewhere
        /\ (UNCHANGED <<fsb, ip>> \/ (fsb' = NoFsb /\ ip' = NoInode))
    BY <1>6 DEF LoadDevice, Refused, ProgramOpens, ProgramReturns, CloseNoncons, ExecuteVh,
                OpenVars, Over, Forgotten, Elsewhere
  <2> QED BY <2>1, ElsewhereInv DEF AllocOK, NoFsb, NoInode
<1>7. CASE VhFails \/ VhFound \/ Load \/ \E i \in Fds : ProgramCloses(i)
  <2>1. /\ alloc' = Freed(Closed) \/ UNCHANGED alloc
        /\ pc' \in Elsewhere
        /\ UNCHANGED <<fsb, ip>> \/ (fsb' = NoFsb /\ ip' = NoInode)
    BY <1>7 DEF VhFails, VhFound, Load, ProgramCloses, Close, FsClose, OpenVars, Over, Forgotten, Elsewhere
  <2>2. AllocOK'
    BY <2>1, FreedKeeps DEF AllocOK
  <2> QED BY <2>1, <2>2, ElsewhereInv DEF NoFsb, NoInode
<1> QED BY <1>1, <1>2, <1>3, <1>4, <1>5, <1>6, <1>7 DEF Next, Call, Step

(* While a file is open every block its descriptor leads to is taken for   *)
(* its own purpose, whatever directories the path went through, which of   *)
(* them were missing, and what failed on the way.                          *)
THEOREM FileBacked == Spec => []OpenFileBacked
<1>1. Init => FileInv
  BY DEF Init, FsInit, FileInv, DescInv, Types, Working, AllocOK, Backed, Apart, Loads, FileOpen,
         NoFsb, NoInode, WithInfo, WithMount, WithInode, WithBuffer
<1>2. FileInv => OpenFileBacked
  BY DEF FileInv, Backed, Loads, OpenFileBacked
<1>3. FileInv /\ [Next]_vars => FileInv'
  BY DescStep, FileStep DEF FileInv
<1> QED BY <1>1, <1>2, <1>3, PTL DEF Spec
-----------------------------------------------------------------------------
(* Who has the blocks that were taken since the open began: the file, the  *)
(* in-core inode, or nobody.  Between the lookup of a name and the read of *)
(* its inode the in-core inode has none.                                   *)
FileBlocks == {fsb.info, fsb.mp, fsb.ip, fsb.buffer}
InOpen == pc \in {"check", "info"} \cup WithInfo \/ FileOpen

Accounted ==
  InOpen /\ ~trouble =>
    \A b \in DOMAIN alloc \ base :
      alloc[b] \in {"super", "data"} \/ b \in FileBlocks \/ (pc # "iread" /\ b \in Owned)

NotYet ==
  /\ pc \in {"check", "info"} => fsb.info = NULL
  /\ pc \in {"check", "info", "mount"} => fsb.mp = NULL
  /\ pc \in {"check", "info", "mount", "inode"} => fsb.ip = NULL
  /\ pc \in {"check", "info", "mount", "inode", "super", "buffer"} => fsb.buffer = NULL
  /\ pc = "leaves" => ip.exts = NULL

LeakInv == FileInv /\ NotYet /\ Accounted

LEMMA NullNotTaken == AllocOK => NULL \notin DOMAIN alloc
BY HeapAssumption DEF AllocOK, NULL

LEMMA NotYetStep ==
  ASSUME FileInv, NotYet, OpenStep
  PROVE  NotYet'
<1> USE DEF FileInv, NotYet
<1>1. CASE Check \/ ReadSuper \/ ReadLast
  BY <1>1 DEF Check, ReadSuper, ReadLast, Superblock, Takes, Fails, Refuse
<1>2. CASE GetInfo \/ GetMount \/ GetInode \/ GetBuffer
  BY <1>2 DEF GetInfo, GetMount, GetInode, GetBuffer, Takes, Fails, Refuse
<1>3. CASE ReadInode
  BY <1>3 DEF ReadInode, Refuse, Walk, Loaded
<1>4. CASE ReadLeaves \/ NotADirectory \/ Lookup \/ LookupFails \/ LookupEnds
  BY <1>4 DEF ReadLeaves, NotADirectory, Lookup, LookupFails, LookupEnds, Refuse
<1> QED BY <1>1, <1>2, <1>3, <1>4 DEF OpenStep

LEMMA TakesAccounted ==
  ASSUME LeakInv, NEW what, NEW then, Takes(what, then),
         pc \in {"check", "info", "mount", "inode", "super", "buffer"},
         \/ what = "super" /\ UNCHANGED fsb
         \/ pc = "info" /\ fsb' = [fsb EXCEPT !.info = Fresh]
         \/ pc = "mount" /\ fsb' = [fsb EXCEPT !.mp = Fresh]
         \/ pc = "inode" /\ fsb' = [fsb EXCEPT !.ip = Fresh]
         \/ pc = "buffer" /\ fsb' = [fsb EXCEPT !.buffer = Fresh]
  PROVE  Accounted'
<1> USE DEF LeakInv, FileInv
<1>1. /\ DOMAIN alloc' = DOMAIN alloc \cup {Fresh} /\ alloc'[Fresh] = what
      /\ \A b \in DOMAIN alloc : alloc'[b] = alloc[b]
      /\ UNCHANGED <<ip, base, trouble>> /\ NULL \notin DOMAIN alloc
  BY FreshIsFree, NullNotTaken DEF Takes, Taken
<1>2. /\ DOMAIN alloc \cap FileBlocks \subseteq FileBlocks'
      /\ what = "super" \/ Fresh \in FileBlocks'
  BY <1>1 DEF FileBlocks, NotYet
<1>3. Owned = Owned' /\ Owned \cap DOMAIN alloc = {}
  BY <1>1 DEF Owned, Apart, NoInode, WithInfo, WithMount, WithInode, WithBuffer
<1>4. InOpen
  BY DEF InOpen, WithInfo, WithMount, WithInode, WithBuffer
<1> QED BY <1>1, <1>2, <1>3, <1>4 DEF Accounted

LEMMA OpenAccounted ==
  ASSUME LeakInv, OpenStep
  PROVE  Accounted'
<1> USE DEF LeakInv, FileInv
<1>1. CASE pc' \in {"refused", "fault"}
  BY <1>1 DEF Accounted, InOpen, FileOpen, WithInfo, WithMount, WithInode, WithBuffer
<1>2. CASE Check \/ ReadSuper
  <2>1. ASSUME NEW then, Superblock(then) PROVE pc' = "refused" \/ (Takes("super", then) /\ UNCHANGED fsb)
    BY <2>1 DEF Superblock, Fails, Refuse
  <2>2. CASE Check
    BY <1>1, <2>1, <2>2, TakesAccounted, Zenon DEF Check
  <2>3. CASE ReadSuper
    BY <1>1, <2>1, <2>3, TakesAccounted, Zenon DEF ReadSuper
  <2> QED BY <1>2, <2>2, <2>3
<1>12. CASE GetInfo
  <2>1. CASE Takes("info", "mount") /\ fsb' = [fsb EXCEPT !.info = Fresh]
    BY <1>12, <2>1, TakesAccounted, Zenon DEF GetInfo
  <2> QED BY <1>1, <1>12, <2>1 DEF GetInfo, Fails, Refuse
<1>13. CASE GetMount
  <2>1. CASE Takes("mount", "inode") /\ fsb' = [fsb EXCEPT !.mp = Fresh]
    BY <1>13, <2>1, TakesAccounted, Zenon DEF GetMount
  <2> QED BY <1>1, <1>13, <2>1 DEF GetMount, Fails, Refuse
<1>14. CASE GetInode
  <2>1. CASE Takes("inode", "super") /\ fsb' = [fsb EXCEPT !.ip = Fresh]
    BY <1>14, <2>1, TakesAccounted, Zenon DEF GetInode
  <2> QED BY <1>1, <1>14, <2>1 DEF GetInode, Fails, Refuse
<1>15. CASE GetBuffer
  <2>1. CASE Takes("buffer", "last") /\ fsb' = [fsb EXCEPT !.buffer = Fresh]
    BY <1>15, <2>1, TakesAccounted, Zenon DEF GetBuffer
  <2> QED BY <1>1, <1>15, <2>1 DEF GetBuffer, Fails, Refuse
<1>3. CASE ReadLast /\ pc' # "refused"
  <2>1. pc = "last" /\ pc' = "iread" /\ UNCHANGED <<alloc, fsb, ip, base, trouble>>
    BY <1>3 DEF ReadLast, Fails, Refuse
  <2>2. Owned \cap DOMAIN alloc = {}
    BY <2>1, NullNotTaken DEF Owned, Apart, NoInode, WithInfo, WithMount, WithInode, WithBuffer
  <2> QED BY <2>1, <2>2 DEF Accounted, InOpen, FileBlocks, WithInfo, WithMount, WithInode, WithBuffer
<1>4. CASE ReadInode /\ pc' \notin {"refused", "fault"}
  <2> SUFFICES ASSUME ~trouble', NEW b \in DOMAIN alloc' \ base'
               PROVE  alloc'[b] \in {"super", "data"} \/ b \in FileBlocks' \/ b \in Owned'
    <3>1. pc' # "iread"
      BY <1>4 DEF ReadInode, Walk, Refuse
    <3> QED BY <3>1 DEF Accounted
  <2>1. pc = "iread" /\ UNCHANGED <<fsb, base, trouble>>
    BY <1>4 DEF ReadInode, Refuse
  <2>2. b \in DOMAIN alloc => alloc[b] \in {"super", "data"} \/ b \in FileBlocks
    BY <2>1 DEF Accounted, InOpen, WithInfo, WithMount, WithInode, WithBuffer
  <2>3. CASE UNCHANGED alloc
    BY <2>1, <2>2, <2>3 DEF FileBlocks
  <2>4. CASE /\ Forked(next) /\ CanTake /\ alloc' = Taken(Purpose(next))
             /\ ip' = IF Inodes[next].format = "btree" THEN Loaded(next, NULL, Fresh)
                      ELSE Loaded(next, Fresh, NULL)
    <3>1. b = Fresh => alloc'[b] = Purpose(next) /\ (Purpose(next) = "data" \/ b \in Owned')
      BY <2>4 DEF Taken, Forked, Purpose, Owned, Loaded
    <3>2. b # Fresh => b \in DOMAIN alloc /\ alloc'[b] = alloc[b]
      BY <2>4 DEF Taken
    <3> QED BY <2>1, <2>2, <3>1, <3>2 DEF FileBlocks
  <2> QED BY <1>4, <2>3, <2>4 DEF ReadInode
<1>5. CASE ReadLeaves
  <2> SUFFICES ASSUME ~trouble', NEW b \in DOMAIN alloc' \ base'
               PROVE  alloc'[b] \in {"super", "data"} \/ b \in FileBlocks' \/ b \in Owned'
    BY <1>5 DEF Accounted, ReadLeaves
  <2>1. /\ pc = "leaves" /\ CanTake /\ alloc' = Taken("exts") /\ ip' = [ip EXCEPT !.exts = Fresh]
        /\ UNCHANGED <<fsb, base>>
    BY <1>5 DEF ReadLeaves
  <2>2. ~trouble
    <3>1. CASE trouble' = trouble
      BY <3>1, Zenon
    <3>2. CASE trouble' = TRUE
      BY <3>2, Zenon
    <3> QED BY <1>5, <3>1, <3>2 DEF ReadLeaves
  <2>3. ip.format = "btree" /\ ip.exts = NULL
    BY <2>1, <2>2 DEF Loads, NotYet
  <2>4. Owned = {ip.root, NULL} /\ Owned' = {ip.root, Fresh}
    BY <2>1, <2>3 DEF Owned
  <2>5. b \in DOMAIN alloc => alloc[b] \in {"super", "data"} \/ b \in FileBlocks \/ b \in Owned
    BY <2>1, <2>2 DEF Accounted, InOpen, WithInfo, WithMount, WithInode, WithBuffer
  <2>6. b # Fresh => b \in DOMAIN alloc /\ alloc'[b] = alloc[b] /\ b # NULL
    BY <2>1, NullNotTaken DEF Taken
  <2> QED BY <2>1, <2>4, <2>5, <2>6 DEF FileBlocks
<1>6. CASE NotADirectory
  BY <1>1, <1>6 DEF NotADirectory, Refuse
<1>7. CASE Lookup
  <2>1. pc = "walk" /\ alloc' = Freed(Owned) /\ UNCHANGED <<fsb, ip, base, trouble>>
    BY <1>7 DEF Lookup, Released
  <2>2. DOMAIN alloc' = DOMAIN alloc \ Owned /\ \A b \in DOMAIN alloc' : alloc'[b] = alloc[b]
    BY <2>1 DEF Freed
  <2> QED BY <2>1, <2>2 DEF Accounted, InOpen, FileBlocks, WithInfo, WithMount, WithInode, WithBuffer
<1>8. CASE LookupFails
  <2>1. trouble'
    BY <1>8 DEF LookupFails
  <2> QED BY <2>1 DEF Accounted
<1>9. CASE LookupEnds /\ pc' # "refused"
  <2>1. pc = "walk" /\ pc' = "opened" /\ UNCHANGED <<alloc, fsb, ip, base, trouble>>
    BY <1>9 DEF LookupEnds
  <2> QED BY <2>1 DEF Accounted, InOpen, FileBlocks, Owned, WithInfo, WithMount, WithInode, WithBuffer
<1>10. ReadLast \/ LookupEnds => pc' # "refused" \/ Accounted'
  BY <1>1
<1>11. ReadInode => pc' \notin {"refused", "fault"} \/ Accounted'
  BY <1>1
<1> QED BY <1>2, <1>3, <1>4, <1>5, <1>6, <1>7, <1>8, <1>9, <1>10, <1>11, <1>12, <1>13, <1>14, <1>15
        DEF OpenStep

LEMMA LeakStep == LeakInv /\ FileInv' /\ [Next]_vars => LeakInv'
<1> SUFFICES ASSUME LeakInv, FileInv', [Next]_vars PROVE NotYet' /\ Accounted'
  BY DEF LeakInv
<1> USE DEF LeakInv
<1>1. CASE UNCHANGED vars
  BY <1>1 DEF vars, NotYet, Accounted, InOpen, FileOpen, FileBlocks, Owned
<1>2. ASSUME NEW p \in Paths, ExecuteFile(p) PROVE NotYet' /\ Accounted'
  BY <1>2 DEF ExecuteFile, OpenFsFile, NoFsb, NotYet, Accounted
<1>3. CASE Opening
  BY <1>3, NotYetStep, OpenAccounted DEF Opening
<1>4. CASE TakeFd /\ pc' = "load"
  <2>1. InOpen /\ pc = "opened" /\ UNCHANGED <<alloc, fsb, ip, base, trouble>>
    BY <1>4 DEF TakeFd, OpenVars, InOpen, FileOpen, Over, Forgotten
  <2> QED BY <1>4, <2>1 DEF NotYet, Accounted, FileBlocks, Owned
<1>5. CASE RawFd
  <2>1. ~FileOpen' /\ pc' = "load"
    BY <1>5, FirstUnusedIsUnused DEF RawFd, FileOpen, Unused, DescInv, FileInv
  <2> QED BY <2>1 DEF NotYet, Accounted, InOpen, WithInfo, WithMount, WithInode, WithBuffer
<1>6. CASE \/ LoadDevice \/ Refused \/ ProgramOpens \/ ProgramReturns \/ CloseNoncons
           \/ \E there \in VhNames : ExecuteVh(there)
           \/ VhFails \/ VhFound \/ Load \/ \E i \in Fds : ProgramCloses(i)
           \/ TakeFd /\ pc' # "load"
  <2>1. pc' \in Elsewhere
    BY <1>6 DEF LoadDevice, Refused, ProgramOpens, ProgramReturns, CloseNoncons, ExecuteVh,
                VhFails, VhFound, Load, ProgramCloses, TakeFd, OpenVars, Over, Forgotten, Elsewhere
  <2> QED BY <2>1 DEF Elsewhere, NotYet, Accounted, InOpen, FileOpen,
                      WithInfo, WithMount, WithInode, WithBuffer
<1> QED BY <1>1, <1>2, <1>3, <1>4, <1>5, <1>6 DEF Next, Call, Step

(* A file that was opened without trouble, loaded and closed leaves        *)
(* nothing on the heap but superblock buffers and local data in blocks of  *)
(* their own, however long its path and whatever its directories' formats. *)
THEOREM LeaksKnown == Spec => OnlyKnownLeaks
<1>1. Init => LeakInv
  BY DEF Init, FsInit, FileInv, LeakInv, NotYet, Accounted, InOpen, DescInv, Types, Working, AllocOK,
         Backed, Apart, Loads, FileOpen, NoFsb, NoInode, WithInfo, WithMount, WithInode, WithBuffer
<1>2. LeakInv /\ [Next]_vars => LeakInv'
  BY DescStep, FileStep, LeakStep DEF LeakInv, FileInv
<1>3. LeakInv /\ [Next]_vars =>
        [FileOpen /\ pc' = "idle" /\ ~trouble =>
           \A b \in DOMAIN alloc' \ base : alloc'[b] \in {"super", "data"}]_vars
  <2> SUFFICES ASSUME LeakInv, Next, FileOpen, pc' = "idle", ~trouble,
                      NEW b \in DOMAIN alloc' \ base
               PROVE  alloc'[b] \in {"super", "data"}
    OBVIOUS
  <2>1. alloc' = Freed(Closed)
    <3>1. CASE TakeFd
      BY <3>1 DEF TakeFd, FsClose
    <3>2. CASE Load
      BY <3>2 DEF Load, Close, FsClose, FileOpen
    <3>3. pc # "idle" /\ pc \notin {"vh", "raw", "refused"}
      BY DEF FileOpen
    <3>4. ~OpenStep
      <4>1. CASE pc = "opened"
        BY <4>1 DEF OpenStep, Check, GetInfo, GetMount, GetInode, ReadSuper, GetBuffer, ReadLast,
                    ReadInode, ReadLeaves, NotADirectory, Lookup, LookupFails, LookupEnds
      <4>2. CASE pc = "load"
        BY <4>2, OpenStepPc DEF Working
      <4> QED BY <4>1, <4>2 DEF FileOpen
    <3> QED BY <3>1, <3>2, <3>3, <3>4 DEF Next, Call, Step, ExecuteFile, Opening, ExecuteVh, LoadDevice,
               VhFails, VhFound, RawFd, Refused, ProgramOpens, ProgramCloses, ProgramReturns, CloseNoncons
  <2>2. b \in DOMAIN alloc \ Closed /\ alloc'[b] = alloc[b]
    BY <2>1 DEF Freed
  <2> QED BY <2>2 DEF LeakInv, Accounted, InOpen, FileBlocks, Closed
<1> QED BY <1>1, <1>2, <1>3, PTL DEF Spec, OnlyKnownLeaks
-----------------------------------------------------------------------------
(* Where the names of a path lead.                                         *)
Onward(up, name) ==
  IF up # 0 /\ Inodes[up].kind = "dir" /\ Inodes[up].linked /\ name \in DOMAIN Inodes[up].entries
  THEN Inodes[up].entries[name] ELSE 0

LEMMA WayIs ==
  ASSUME NEW p \in Seq(STRING)
  PROVE  /\ Way(p)[0] = RootIno
         /\ \A k \in 1 .. Len(p) : Way(p)[k] = Onward(Way(p)[k - 1], p[k])
<1>. DEFINE n == Len(p)
            V == DOMAIN Inodes \cup {0}
            F(h) == [k \in 0 .. n |-> IF k = 0 THEN RootIno ELSE Onward(h[k - 1], p[k])]
            at == CHOOSE h : h = F(h)
            step == [k \in 1 .. n |-> [up \in V |-> Onward(up, p[k])]]
<1>1. n \in Nat /\ RootIno \in V /\ step \in [1 .. n -> [V -> V]]
  <2>1. ASSUME NEW up \in V, NEW name PROVE Onward(up, name) \in V
    BY InodesAssumption DEF Onward
  <2>. QED BY <2>1, InodesAssumption
<1>2. PICK h : Computes(h, n, V, RootIno, step)
  <2>. HIDE DEF step, V, n
  <2>. QED BY <1>1, RecursionExists
<1>3. /\ h \in [0 .. n -> V] /\ h[0] = RootIno
      /\ \A k \in 1 .. n : h[k] = step[k][h[k - 1]]
  BY <1>2 DEF Computes
<1>4. ASSUME NEW k \in 1 .. n PROVE h[k] = Onward(h[k - 1], p[k])
  <2>1. k - 1 \in 0 .. n
    BY <1>1
  <2>2. h[k - 1] \in V
    <3>. HIDE DEF V, n
    <3>. QED BY <1>3, <2>1
  <2>3. step[k][h[k - 1]] = Onward(h[k - 1], p[k])
    <3>. HIDE DEF V, n
    <3>. QED BY <2>2
  <2>. QED BY <1>3, <2>3
<1>. HIDE DEF V, step
<1>5. h = F(h)
  <2>. HIDE DEF n
  <2>1. ASSUME NEW k \in 0 .. n PROVE h[k] = F(h)[k]
    <3>1. CASE k = 0
      BY <1>1, <1>3, <3>1
    <3>2. CASE k # 0
      <4>1. k \in 1 .. n
        BY <1>1, <3>2
      <4>. QED BY <1>4, <4>1
    <3>. QED BY <3>1, <3>2
  <2>. QED BY <1>3, <2>1
<1>. HIDE DEF F
<1>6. at = F(at)
  BY <1>5
<1>7. Way(p) = at
  BY DEF Way, F, Onward
<1>. HIDE DEF at, n
<1>8. 0 \in 0 .. n /\ \A k \in 1 .. n : k \in 0 .. n /\ k # 0
  BY <1>1
<1>9. at[0] = RootIno
  <2>1. F(at)[0] = RootIno
    BY <1>8, Zenon DEF F
  <2>. QED BY <1>6, <2>1
<1>10. ASSUME NEW k \in 1 .. n PROVE at[k] = Onward(at[k - 1], p[k])
  <2>1. F(at)[k] = Onward(at[k - 1], p[k])
    BY <1>8, Zenon DEF F
  <2>. QED BY <1>6, <2>1
<1>. QED BY <1>7, <1>9, <1>10 DEF n

(* Behind a name that leads nowhere no name leads anywhere.                *)
LEMMA WayGoesOn ==
  ASSUME NEW p \in Seq(STRING), Resolve(p) # 0, NEW k \in 0 .. Len(p)
  PROVE  Way(p)[k] # 0
<1>. DEFINE n == Len(p)
            Lost == {i \in 0 .. n : i >= k => Way(p)[i] = 0}
<1>1. SUFFICES ASSUME Way(p)[k] = 0 PROVE FALSE
  OBVIOUS
<1>2. n \in Nat /\ k \in 0 .. n
  OBVIOUS
<1>3. \A i \in 1 .. n : Way(p)[i] = Onward(Way(p)[i - 1], p[i])
  BY WayIs
<1>4. 0 \in Lost
  BY <1>1, <1>2
<1>5. ASSUME NEW i \in 1 .. n, i - 1 \in Lost PROVE i \in Lost
  <2>1. CASE i = k
    BY <1>1, <1>2, <2>1
  <2>2. CASE i # k
    <3>1. i \in 0 .. n /\ (i >= k => i - 1 >= k)
      BY <1>2, <2>2
    <3>2. i >= k => Way(p)[i - 1] = 0
      BY <1>5, <3>1
    <3>3. Way(p)[i - 1] = 0 => Way(p)[i] = 0
      BY <1>3 DEF Onward
    <3>. QED BY <3>1, <3>2, <3>3
  <2>. QED BY <2>1, <2>2
<1>. HIDE DEF Lost, n
<1>6. \A i \in 0 .. n : i \in Lost
  BY <1>2, <1>4, <1>5, CountUp
<1>7. n \in Lost
  BY <1>2, <1>6
<1>8. Way(p)[n] = 0
  BY <1>2, <1>7 DEF Lost
<1>. QED BY <1>8 DEF Resolve, n

(* While nothing fails the lookup is where the names it consumed lead to.  *)
Gone == Len(target) - Len(path)
Before  == {"check", "info", "mount", "inode", "super", "buffer", "last"}
Walking == {"iread", "leaves", "walk"}

Remains ==
  /\ target \in Seq(STRING) /\ path \in Seq(STRING)
  /\ pc \in Before \cup Walking =>
       Gone \in 0 .. Len(target) /\ \A i \in 1 .. Len(path) : path[i] = target[Gone + i]

There ==
  /\ pc # "refused"
  /\ pc \in Before => path = target
  /\ pc \in Before \cup Walking => ret = 1
  /\ pc = "iread" => next = Way(target)[Gone]
  /\ pc \in {"leaves", "walk"} => ip.no = Way(target)[Gone]
  /\ pc = "opened" => ip.no = Resolve(target)

OnWay == Remains /\ (Resolve(target) # 0 /\ ~trouble => There)

LEMMA StartedOnWay == ASSUME OnWay, NEW p \in Paths, OpenFsFile(p) PROVE OnWay'
<1>1. target' = p /\ path' = p /\ ret' = 1 /\ pc' = "check" /\ p \in Seq(STRING)
  BY BootAssumption DEF OpenFsFile
<1>2. Gone' = 0 /\ Len(p) \in Nat
  BY <1>1 DEF Gone
<1>3. Remains'
  <2>1. \A i \in 1 .. Len(p) : p[i] = p[0 + i]
    OBVIOUS
  <2>. QED BY <1>1, <1>2, <2>1 DEF Remains
<1>4. There'
  BY <1>1 DEF There, Before, Walking
<1>. QED BY <1>3, <1>4 DEF OnWay

(* Whatever fails, or is not between the open and its end.                 *)
LEMMA TroubleOnWay ==
  ASSUME OnWay, target' = target, path' = path, pc \in Before \cup Walking, trouble'
  PROVE  OnWay'
<1>1. Gone' = Gone
  BY DEF Gone
<1>2. Remains'
  BY <1>1 DEF OnWay, Remains
<1>. QED BY <1>2 DEF OnWay

LEMMA BeforeOnWay ==
  ASSUME OnWay, Check \/ GetInfo \/ GetMount \/ GetInode \/ ReadSuper \/ GetBuffer \/ ReadLast
  PROVE  OnWay'
<1>1. pc \in Before /\ UNCHANGED <<target, path, ret>>
  BY DEF Check, GetInfo, GetMount, GetInode, ReadSuper, GetBuffer, ReadLast, Superblock, Takes,
         Fails, Refuse, Before
<1>2. \/ trouble'
      \/ trouble' = trouble /\ pc' \in Before
      \/ trouble' = trouble /\ pc' = "iread" /\ next' = RootIno
  BY DEF Check, GetInfo, GetMount, GetInode, ReadSuper, GetBuffer, ReadLast, Superblock, Takes,
         Fails, Refuse, Before
<1>3. CASE trouble'
  BY <1>1, <1>3, TroubleOnWay
<1>4. Gone' = Gone
  BY <1>1 DEF Gone
<1>5. Remains'
  BY <1>1, <1>4 DEF OnWay, Remains
<1>6. CASE trouble' = trouble /\ pc' \in Before
  BY <1>1, <1>4, <1>5, <1>6 DEF OnWay, There, Before, Walking
<1>7. CASE trouble' = trouble /\ pc' = "iread" /\ next' = RootIno
  <2>1. ASSUME Resolve(target) # 0, ~trouble PROVE There'
    <3>1. path = target /\ ret = 1 /\ target \in Seq(STRING)
      BY <1>1, <2>1 DEF OnWay, There, Remains
    <3>2. Gone = 0
      BY <3>1 DEF Gone
    <3>3. Way(target)[0] = RootIno
      BY <3>1, WayIs
    <3>4. Way(target)'[Gone'] = RootIno
      BY <1>1, <1>4, <3>2, <3>3
    <3>. QED BY <1>1, <1>7, <3>1, <3>4 DEF There, Before, Walking
  <2>. QED BY <1>1, <1>5, <1>7, <2>1 DEF OnWay
<1>. QED BY <1>2, <1>3, <1>6, <1>7

LEMMA ReadOnWay == ASSUME OnWay, FileInv, ReadInode \/ ReadLeaves PROVE OnWay'
<1>1. pc \in {"iread", "leaves"} /\ UNCHANGED <<target, path, ret>>
  BY DEF ReadInode, ReadLeaves
<1>2. \/ trouble'
      \/ trouble' = trouble /\ pc = "iread" /\ pc' \in {"leaves", "walk"} /\ ip'.no = next
      \/ trouble' = trouble /\ pc = "leaves" /\ pc' = "walk" /\ ip'.no = ip.no
  <2>1. CASE ReadInode
    <3>1. \/ trouble' = TRUE \/ trouble' = (trouble \/ TRUE)
          \/ trouble' = trouble /\ pc' \in {Walk(next), "walk"}
             /\ \E x, r : ip' = Loaded(next, x, r)
      BY <2>1 DEF ReadInode, Refuse
    <3>2. \A x, r : Loaded(next, x, r).no = next
      BY DEF Loaded
    <3>3. Walk(next) \in {"leaves", "walk"} /\ pc = "iread"
      BY <2>1 DEF Walk, ReadInode
    <3>. QED BY <3>1, <3>2, <3>3
  <2>2. CASE ReadLeaves
    <3>1. [ip EXCEPT !.exts = Fresh].no = ip.no
      BY DEF FileInv
    <3>. QED BY <2>2, <3>1 DEF ReadLeaves
  <2>. QED BY <2>1, <2>2
<1>3. CASE trouble'
  BY <1>1, <1>3, TroubleOnWay DEF Walking
<1>4. Gone' = Gone
  BY <1>1 DEF Gone
<1>5. Remains'
  BY <1>1, <1>2, <1>4 DEF OnWay, Remains, Walking
<1>6. Way(target)'[Gone'] = Way(target)[Gone]
  BY <1>1, <1>4
<1>7. CASE ~trouble'
  BY <1>1, <1>2, <1>5, <1>6, <1>7 DEF OnWay, There, Before, Walking
<1>. QED BY <1>3, <1>7

(* A name of a path that leads somewhere is found: the directory is one,   *)
(* the name is in it, and its extents are still there.                     *)
LEMMA NameIsThere ==
  ASSUME OnWay, FileInv, Resolve(target) # 0, ~trouble, pc = "walk", path # <<>>
  PROVE  /\ Gone + 1 \in 1 .. Len(target) /\ ret = 1
         /\ IsDir /\ ~Stale /\ Head(path) \in DOMAIN Entries
         /\ Entries[Head(path)] = Way(target)[Gone + 1]
<1>. DEFINE g == Gone
            k == g + 1
<1>1. /\ target \in Seq(STRING) /\ path \in Seq(STRING) /\ g = Len(target) - Len(path)
      /\ g \in 0 .. Len(target)
      /\ \A i \in 1 .. Len(path) : path[i] = target[g + i]
  BY DEF OnWay, Remains, Walking, Gone
<1>2. ret = 1 /\ ip.no = Way(target)[g]
  BY DEF OnWay, There, Walking
<1>3. ~Stale
  BY <1>2 DEF FileInv, Loads
<1>. HIDE DEF g
<1>4. Len(path) \in Nat /\ Len(path) > 0 /\ Head(path) = path[1]
  BY <1>1
<1>5. k \in 1 .. Len(target) /\ k - 1 = g /\ 1 \in 1 .. Len(path)
  BY <1>1, <1>4
<1>6. Head(path) = target[k]
  BY <1>1, <1>4, <1>5
<1>. HIDE DEF k
<1>7. Way(target)[k] = Onward(Way(target)[g], target[k]) /\ Way(target)[k] # 0
  <2>1. k \in 0 .. Len(target)
    BY <1>5
  <2>. QED BY <1>1, <1>5, <2>1, WayIs, WayGoesOn
<1>8. Way(target)[k] = Onward(ip.no, Head(path)) /\ Onward(ip.no, Head(path)) # 0
  BY <1>2, <1>6, <1>7
<1>9. IsDir /\ Head(path) \in DOMAIN Entries /\ Entries[Head(path)] = Way(target)[k]
  BY <1>8 DEF Onward, IsDir, Entries
<1>. QED BY <1>2, <1>3, <1>5, <1>9 DEF k, g

(* The rest of the path after one name of it.                              *)
LEMMA OneNameGone ==
  ASSUME Remains, pc = "walk", path # <<>>, path' = Tail(path), target' = target
  PROVE  Remains' /\ Gone' = Gone + 1
<1>. DEFINE g == Gone
<1>1. /\ target \in Seq(STRING) /\ path \in Seq(STRING) /\ g = Len(target) - Len(path)
      /\ g \in 0 .. Len(target) /\ Len(target) \in Nat
      /\ \A i \in 1 .. Len(path) : path[i] = target[g + i]
  BY DEF Remains, Walking, Gone
<1>2. /\ path' \in Seq(STRING) /\ Len(path') = Len(path) - 1 /\ Len(path) \in Nat \ {0}
      /\ \A i \in 1 .. Len(path) - 1 : path'[i] = path[i + 1]
  BY <1>1
<1>3. Gone' = Len(target) - Len(path')
  BY DEF Gone
<1>. HIDE DEF g
<1>4. Gone' = g + 1 /\ Gone' \in 0 .. Len(target)
  BY <1>1, <1>2, <1>3
<1>5. ASSUME NEW i \in 1 .. Len(path') PROVE path'[i] = target[(g + 1) + i]
  <2>1. i + 1 \in 1 .. Len(path) /\ g + (i + 1) = (g + 1) + i
    BY <1>1, <1>2
  <2>2. path'[i] = path[i + 1]
    BY <1>2
  <2>. QED BY <1>1, <2>1, <2>2
<1>6. Remains'
  BY <1>1, <1>2, <1>4, <1>5 DEF Remains
<1>. QED BY <1>4, <1>6 DEF g

LEMMA LookupOnWay ==
  ASSUME OnWay, FileInv, Lookup \/ LookupFails
  PROVE  OnWay'
<1>1. pc = "walk" /\ path # <<>> /\ path' = Tail(path) /\ target' = target
  BY DEF Lookup, LookupFails
<1>2. Remains' /\ Gone' = Gone + 1
  BY <1>1, OneNameGone DEF OnWay
<1>3. CASE trouble'
  BY <1>2, <1>3 DEF OnWay
<1>4. CASE Resolve(target) # 0 /\ ~trouble'
  <2>1. Lookup /\ ~trouble
    BY <1>4 DEF Lookup, LookupFails
  <2>2. /\ ~Stale /\ Head(path) \in DOMAIN Entries
        /\ Entries[Head(path)] = Way(target)[Gone + 1]
    BY <1>1, <1>4, <2>1, NameIsThere
  <2>3. ret' = 1 /\ next' = Entries[Head(path)] /\ pc' = "iread"
    BY <2>1, <2>2 DEF Lookup
  <2>4. next' = Way(target)'[Gone']
    BY <1>1, <1>2, <2>2, <2>3
  <2>5. There'
    BY <2>3, <2>4 DEF There, Before, Walking
  <2>. QED BY <1>2, <2>5 DEF OnWay
<1>. QED BY <1>1, <1>2, <1>3, <1>4 DEF OnWay

LEMMA EndsOnWay ==
  ASSUME OnWay, FileInv, NotADirectory \/ LookupEnds
  PROVE  OnWay'
<1>1. pc = "walk" /\ UNCHANGED <<target, path, ret, ip>> /\ pc' \in {"refused", "opened"}
      /\ (trouble' <=> trouble)
  <2>1. CASE NotADirectory
    BY <2>1 DEF NotADirectory, Refuse
  <2>2. CASE LookupEnds
    BY <2>2 DEF LookupEnds
  <2>. QED BY <2>1, <2>2
<1>2. Remains'
  BY <1>1 DEF OnWay, Remains, Before, Walking
<1>3. ASSUME Resolve(target) # 0, ~trouble PROVE There'
  <2>1. LookupEnds /\ path = <<>>
    BY <1>1, <1>3, NameIsThere DEF NotADirectory, LookupEnds
  <2>2. ret = 1 /\ ip.no = Way(target)[Gone] /\ target \in Seq(STRING)
    BY <1>1, <1>3 DEF OnWay, There, Remains, Walking
  <2>3. Gone = Len(target)
    BY <2>1, <2>2 DEF Gone
  <2>4. pc' = "opened" /\ ip'.no = Resolve(target)'
    BY <1>1, <2>1, <2>2, <2>3 DEF LookupEnds, Resolve
  <2>. QED BY <2>4 DEF There, Before, Walking
<1>. QED BY <1>1, <1>2, <1>3 DEF OnWay

LEMMA ElsewhereOnWay ==
  ASSUME OnWay, pc' \in {"idle", "fault", "vh", "raw", "image", "load"},
         UNCHANGED <<target, path>> \/ (target' = <<>> /\ path' = <<>>)
  PROVE  OnWay'
<1>1. <<>> \in Seq(STRING)
  OBVIOUS
<1>2. Remains'
  BY <1>1 DEF OnWay, Remains, Before, Walking
<1>3. There'
  BY DEF There, Before, Walking
<1>. QED BY <1>2, <1>3 DEF OnWay

LEMMA WayNext == ASSUME OnWay, FileInv, [Next]_vars PROVE OnWay'
<1>1. CASE UNCHANGED vars
  BY <1>1 DEF vars, OnWay, Remains, There, Gone
<1>2. ASSUME NEW p \in Paths, ExecuteFile(p) PROVE OnWay'
  BY <1>2, StartedOnWay DEF ExecuteFile
<1>3. CASE Opening
  BY <1>3, BeforeOnWay, ReadOnWay, LookupOnWay, EndsOnWay DEF Opening, OpenStep
<1>4. CASE \/ TakeFd \/ VhFails \/ VhFound \/ RawFd \/ Load \/ Refused
           \/ LoadDevice \/ ProgramOpens \/ ProgramReturns \/ CloseNoncons
           \/ (\E there \in VhNames : ExecuteVh(there)) \/ \E i \in Fds : ProgramCloses(i)
  <2>1. /\ pc' \in {"idle", "fault", "vh", "raw", "image", "load"}
        /\ UNCHANGED <<target, path>> \/ (target' = <<>> /\ path' = <<>>)
    BY <1>4 DEF TakeFd, VhFails, VhFound, RawFd, Load, Refused, LoadDevice, ProgramOpens,
       ProgramReturns, CloseNoncons, ExecuteVh, ProgramCloses, OpenVars, Over, Forgotten
  <2>. QED BY <2>1, ElsewhereOnWay
<1>. QED BY <1>1, <1>2, <1>3, <1>4 DEF Next, Call, Step

(* On any file system, with any heap, a path that leads somewhere is       *)
(* opened and leads there when nothing fails on the way.                   *)
THEOREM GoodPathAlwaysOpens == Spec => []GoodPathOpens
<1>1. Init => FileInv
  BY DEF Init, FsInit, FileInv, DescInv, Types, Working, AllocOK, Backed, Apart, Loads, FileOpen,
         NoFsb, NoInode, WithInfo, WithMount, WithInode, WithBuffer
<1>2. Init => OnWay
  <2>1. Init => pc = "idle" /\ target = <<>> /\ path = <<>> /\ <<>> \in Seq(STRING)
    BY DEF Init, FsInit
  <2>. QED BY <2>1 DEF OnWay, Remains, There, Before, Walking
<1>3. FileInv /\ [Next]_vars => FileInv'
  BY DescStep, FileStep DEF FileInv
<1>4. OnWay => GoodPathOpens
  BY DEF OnWay, There, GoodPathOpens
<1>. QED BY <1>1, <1>2, <1>3, <1>4, WayNext, PTL DEF Spec
==============================================================================
