------------------------------ MODULE EfsRead -------------------------------
(***************************************************************************)
(* Reading an open EFS file: _efs_read() and bmap() of libsc/fs/efs.c      *)
(* below Read() and Seek() of fw/pv_stubs.c.  EfsOpen opens the files, of  *)
(* several partitions, one after the other.                                *)
(*                                                                         *)
(* As in XfsRead a byte of the disk is its own address.  Two things        *)
(* outlive a file: the list of extents of the last file that had more than *)
(* its inode holds, kept under the inode's number, and StartBlock, by      *)
(* which _efs_read() decides whether a transfer was already made.          *)
(*                                                                         *)
(* pv_disk_strategy() counts bytes from the start of the disk in 32 bits.  *)
(* An instance keeps inodes and lists of extents below that reach; blocks  *)
(* of directories and files may lie beyond it.                             *)
(***************************************************************************)
EXTENDS Integers, Sequences

CONSTANTS
  BB,        (* BBSIZE: bytes in a disk block                              *)
  PERBB,     (* extents in a disk block                                    *)
  DIRECT,    (* EFS_DIRECTEXTENTS                                          *)
  MAXEXTENTS,(* slots of indirectExtents[]                                 *)
  REACH,     (* the bytes that the driver's offsets tell apart, 2^32       *)
  ALIGN,     (* the alignment a direct transfer asks of the user's buffer  *)
  Files,     (* in-core inodes with the extents the disk holds for them    *)
  Lens,      (* the lengths programs ask for                               *)
  Positions, (* the offsets programs seek to                               *)
  Junk       (* what malloc() may leave in the slots of indirectExtents[]  *)

Extents == [off : Nat, bn : Nat, len : Nat]

ASSUME GeometryAssumption ==
  /\ {BB, PERBB, DIRECT, MAXEXTENTS, ALIGN, REACH} \subseteq Nat \ {0}
  /\ BB > 1 /\ BB % ALIGN = 0 /\ REACH % BB = 0
ASSUME RequestAssumption ==
  Lens \subseteq Nat /\ Positions \subseteq Nat /\ Junk \subseteq Extents

(* io->Count and Offset.lo are words too: as in XfsRead, a length with the *)
(* sign bit and a sum with the offset that wraps stay outside.             *)
ASSUME WidthAssumption ==
  \A n \in Lens, p \in Positions \cup {f.size : f \in Files} :
    2 * n < REACH /\ p + n < REACH

(* num of the slots are the file's, in file order; the rest hold anything. *)
(* A file of more than DIRECT extents has them in the first blocks of the  *)
(* extent indir, whose n is the number of such extents.  A directory that  *)
(* is barred has no links, or is not searchable.                           *)
Kinds == {"dir", "barred", "reg"}

ASSUME FileAssumption ==
  \A f \in Files :
    /\ f.kind \in Kinds
    /\ f.base \in Nat /\ f.ino \in Nat /\ f.size \in Nat /\ f.num \in Nat
    /\ f.slots \in Seq(Extents)
    /\ f.indir \in [n : Nat, len : Nat]
    /\ f.num <= DIRECT => Len(f.slots) = DIRECT
    /\ f.num > DIRECT => f.num <= Len(f.slots) /\ Len(f.slots) = f.indir.len * PERBB
    /\ \A o \in 0 .. f.size - 1 : \E k \in 1 .. f.num :
         f.slots[k].off <= o \div BB /\ o \div BB < f.slots[k].off + f.slots[k].len
    /\ \A j, k \in 1 .. f.num :
         j < k => f.slots[j].off + f.slots[j].len <= f.slots[k].off

NOBLOCK == -1                    (* a StartBlock that is no file's data     *)
CacheSlots == 1 .. MAXEXTENTS

VARIABLES
  file,      (* the open file                                              *)
  position,  (* fd_table[fd].position                                      *)
  pc,        (* "idle", "loop" inside _efs_read(), or a step of EfsOpen    *)
  len,       (* io->Count as the program asked                             *)
  base,      (* the address of the program's buffer, modulo ALIGN          *)
  offset,    (* iob->Offset.lo                                             *)
  count,     (* count: the bytes still to deliver                          *)
  buf,       (* what was written to the program's buffer: index -> byte    *)
  startBlock,(* iob->StartBlock, as far as it may be compared with         *)
  valid,     (* indirectExtentsValid                                       *)
  vino,      (* indirectExtentsIno                                         *)
  cache,     (* indirectExtents[]                                          *)
  result,    (* how the last call ended and what it delivered              *)
  owner,     (* history: the file whose list was read in last, complete    *)
  torn,      (* history: a later list was read in only in part             *)
  astray     (* history: this call went by a list that is not the file's,  *)
             (* passed over a block it had not read, or went beyond REACH  *)

callVars == <<len, base, offset, count, buf, astray>>
cacheVars == <<valid, vino, cache, owner, torn>>
fileVars == <<file, position, pc, len, base, offset, count, buf, astray, startBlock,
              valid, vino, cache, owner, torn, result>>

Empty == [k \in {} |-> 0]
None == [how |-> "none", got |-> Empty]
Least(a, b) == IF a <= b THEN a ELSE b

(* efs_install() takes the slots from malloc() and leaves them as they are.*)
Install ==
  /\ file \in Files
  /\ position = 0
  /\ len = 0 /\ base = 0 /\ offset = 0 /\ count = 0 /\ buf = Empty
  /\ startBlock = NOBLOCK
  /\ valid = FALSE /\ vino = 0
  /\ \E e \in Junk : cache = [k \in CacheSlots |-> e]
  /\ result = None
  /\ owner = file /\ torn = FALSE /\ astray = FALSE

-----------------------------------------------------------------------------
(* bmap()                                                                  *)
Indirect(f) == f.num > DIRECT

(* The cached list is taken for this file's.                               *)
\* Mutant: a list that was read in once does for every file.
AnyList == valid

Vouched == valid /\ vino = file.ino

(* Lists that bmap() does not read.                                        *)
TooFragmented(f) ==
  f.indir.n > 1 \/ f.indir.len * PERBB > MAXEXTENTS \/ f.num > MAXEXTENTS

Filled(f, n) ==
  [k \in CacheSlots |-> IF k <= n /\ k <= Len(f.slots) THEN f.slots[k] ELSE cache[k]]

(* The slots that are searched, all of them whatever num is, and the first *)
(* that holds block o.                                                     *)
Slots == IF Indirect(file) THEN cache ELSE file.slots
Hits(o) ==
  {k \in DOMAIN Slots : Slots[k].off <= o /\ o < Slots[k].off + Slots[k].len}
Hit(o) == Slots[CHOOSE k \in Hits(o) : \A j \in Hits(o) : k <= j]

\* Mutant: the block's place within its extent is left out.
StartOfExtent(o) == Hit(o).bn

Block(o) == Hit(o).bn + (o - Hit(o).off)

\* Mutant: the blocks before the block are counted, not those that follow.
BlocksPassed(o, maxblks) == Least(maxblks, o - Hit(o).off)

Blocks(o, maxblks) == Least(maxblks, Hit(o).off + Hit(o).len - o)

(* Byte k of the transfer that starts at block o; the driver adds the      *)
(* start of the file's partition.                                          *)
Start(o) == (file.base + Block(o)) * BB
Transferred(o, k) == (Start(o) + k) % REACH
Beyond(o, n) == Start(o) + n > REACH

(* The list is the one of another partition's inode of the same number, or *)
(* a mixture.                                                              *)
ForeignList ==
  Indirect(file) /\ (torn \/ (owner # file /\ owner.ino = file.ino))

-----------------------------------------------------------------------------
(* Read() and the ends of _efs_read().                                     *)
Cut(n) == Least(n, file.size - position)

Return(how, got, pos) ==
  /\ position' = pos /\ offset' = pos
  /\ pc' = "idle" /\ result' = [how |-> how, got |-> got]
  /\ len' = 0 /\ base' = 0 /\ count' = 0 /\ buf' = Empty /\ astray' = FALSE

ReadNothing(n) ==
  /\ pc = "idle"
  /\ Cut(n) <= 0
  /\ Return("ESUCCESS", Empty, position)
  /\ UNCHANGED <<file, startBlock>> /\ UNCHANGED cacheVars

StartRead(n, b) ==
  /\ pc = "idle"
  /\ Cut(n) > 0
  /\ pc' = "loop"
  /\ len' = n /\ base' = b /\ offset' = position /\ count' = Cut(n)
  /\ buf' = Empty /\ astray' = FALSE /\ result' = None
  /\ UNCHANGED <<file, position, startBlock>> /\ UNCHANGED cacheVars

(* What a caller asks of bmap(): the list is in, or is read in first.      *)
MustFill == Indirect(file) /\ ~Vouched

\* Mutant: the list is vouched for before its blocks are in.
VouchedEarly ==
  /\ MustFill /\ ~TooFragmented(file)
  /\ cache' = Filled(file, 0)
  /\ valid' = TRUE /\ vino' = file.ino
  /\ owner' = file /\ torn' = FALSE
  /\ startBlock' = NOBLOCK

FillList ==
  /\ MustFill /\ ~TooFragmented(file)
  /\ cache' = Filled(file, MAXEXTENTS)
  /\ valid' = TRUE /\ vino' = file.ino
  /\ owner' = file /\ torn' = FALSE
  /\ startBlock' = NOBLOCK

(* The device fails after some of the list's blocks.                       *)
PartOfList ==
  /\ MustFill /\ ~TooFragmented(file)
  /\ \E s \in 0 .. file.indir.len - 1 : cache' = Filled(file, s * PERBB)
  /\ torn' = TRUE
  /\ startBlock' = NOBLOCK
  /\ UNCHANGED <<valid, vino, owner>>

(* The list is refused, or no slot holds the block.                        *)
NoMap ==
  \/ MustFill /\ TooFragmented(file)
  \/ ~MustFill /\ Hits(offset \div BB) = {}

Looping == pc = "loop" /\ count > 0
Mapping == Looping /\ ~MustFill

Fill ==
  /\ Looping /\ FillList
  /\ UNCHANGED <<file, position, pc, result>> /\ UNCHANGED callVars

FillFails ==
  /\ Looping /\ PartOfList
  /\ Return("EIO", Empty, position)
  /\ UNCHANGED file

NotMapped ==
  /\ Looping /\ NoMap
  /\ Return("EIO", Empty, position)
  /\ UNCHANGED <<file, startBlock>> /\ UNCHANGED cacheVars

-----------------------------------------------------------------------------
(* The transfers of _efs_read()                                            *)
done == offset - position

\* Mutant: a partial last block counts as a whole one.
RoundedUp == (count + BB - 1) \div BB

WholeBlocks == count \div BB
Direct == offset % BB = 0 /\ (base + done) % ALIGN = 0 /\ WholeBlocks > 0

(* "i != BBSIZE" compares the number of blocks that is asked for, before   *)
(* it becomes a number of bytes.                                           *)
Bypass(o) == startBlock = Block(o) /\ WholeBlocks = BB

Put(k, n, b) == [j \in DOMAIN buf \cup k .. k + n - 1 |->
                   IF j \in k .. k + n - 1 THEN b[j - k] ELSE buf[j]]

Advance(n) ==
  /\ offset' = offset + n /\ count' = count - n
  /\ UNCHANGED <<file, position, pc, len, base, result>> /\ UNCHANGED cacheVars

ReadDirect ==
  /\ Mapping /\ Direct
  /\ LET o == offset \div BB
         n == Blocks(o, WholeBlocks) * BB IN
     /\ Hits(o) # {} /\ ~Bypass(o)
     /\ buf' = Put(done, n, [k \in 0 .. n - 1 |-> Transferred(o, k)])
     /\ startBlock' = NOBLOCK
     /\ astray' = (astray \/ ForeignList \/ Beyond(o, n))
     /\ Advance(n)

(* The block is taken to be there already: one block's worth of bytes is   *)
(* counted as delivered and nothing is read.                               *)
PassOver ==
  /\ Mapping /\ Direct
  /\ LET o == offset \div BB IN Hits(o) # {} /\ Bypass(o)
  /\ startBlock' = NOBLOCK
  /\ astray' = TRUE
  /\ UNCHANGED buf
  /\ Advance(BB)

(* One block to the file's buffer, and from there the part asked for.      *)
ReadPart ==
  /\ Mapping /\ ~Direct
  /\ LET o == offset \div BB
         skipped == offset % BB
         n == Least(Blocks(o, 1) * BB - skipped, count) IN
     /\ Hits(o) # {}
     /\ buf' = Put(done, n, [k \in 0 .. n - 1 |-> Transferred(o, skipped + k)])
     /\ startBlock' = Block(o)
     /\ astray' = (astray \/ ForeignList \/ Beyond(o, BB))
     /\ Advance(n)

(* The device fails after some blocks of a transfer, of which the ones     *)
(* before may be in the program's buffer; the call is over.                *)
DeviceFails ==
  /\ Mapping
  /\ LET o == offset \div BB IN
     /\ Hits(o) # {} /\ ~(Direct /\ Bypass(o))
     /\ startBlock' = Block(o)
  /\ Return("EIO", Empty, position)
  /\ UNCHANGED file /\ UNCHANGED cacheVars

ReadDone ==
  /\ pc = "loop" /\ count <= 0
  /\ Return("ESUCCESS", buf, offset)
  /\ UNCHANGED <<file, startBlock>> /\ UNCHANGED cacheVars

Iterate == Fill \/ NotMapped \/ ReadDirect \/ PassOver \/ ReadPart \/ ReadDone

Loop == Iterate \/ FillFails \/ DeviceFails

-----------------------------------------------------------------------------
(* Seek()                                                                  *)
Seek(p) ==
  /\ pc = "idle"
  /\ position' = p /\ offset' = p /\ result' = None
  /\ UNCHANGED <<file, pc, len, base, count, buf, astray, startBlock>>
  /\ UNCHANGED cacheVars

Call ==
  \/ \E n \in Lens : ReadNothing(n)
  \/ \E n \in Lens, b \in 0 .. ALIGN - 1 : StartRead(n, b)
  \/ \E p \in Positions : Seek(p)
=============================================================================
