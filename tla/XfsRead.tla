------------------------------ MODULE XfsRead -------------------------------
(***************************************************************************)
(* Reading an open XFS file: Read() and Seek() on a descriptor of type     *)
(* FD_TYPE_XFS (fw/pv_stubs.c), _xfs_read() and _xfs_bmap()                *)
(* (libsc/xfs/xfs.c) and _xfs_get_blockno() (libsc/xfs/xfs_inode.c).       *)
(*                                                                         *)
(* A byte of the disk is identified with its address, so what a read       *)
(* delivers tells where it came from; address 0 is in the superblock, no   *)
(* file's data, and stands for a zeroed byte.  Each iteration of           *)
(* _xfs_read()'s loop is one step: it maps the offset, transfers from the  *)
(* disk to the user's buffer or to the file's one-block buffer, and copies *)
(* from there.  The disk is taken to end within the 2^32 bytes to which    *)
(* the driver's offsets reach; EfsRead models what lies beyond.            *)
(***************************************************************************)
EXTENDS Integers, Sequences

CONSTANTS
  BSIZE,     (* bytes in a file system block: sb_blocksize                 *)
  SECTOR,    (* bytes in a disk sector, the unit of a device read          *)
  MAX_DMA,   (* MAX_XFS_DMA: the longest transfer                          *)
  ALIGN,     (* the alignment a direct transfer asks of the user's buffer  *)
  Files,     (* in-core inodes: extent list and size                       *)
  Lens,      (* the lengths programs ask for                               *)
  Positions, (* the offsets programs seek to                               *)
  Stack,     (* what ex_offset may hold before anything assigns it         *)
  WORD       (* 2^32: the width of io->Count and Offset.lo                 *)

ASSUME GeometryAssumption ==
  /\ {BSIZE, SECTOR, ALIGN} \subseteq Nat \ {0}
  /\ BSIZE % SECTOR = 0 /\ BSIZE % ALIGN = 0
  /\ MAX_DMA \in Nat \ {0} /\ MAX_DMA % BSIZE = 0
ASSUME RequestAssumption == Lens \subseteq Nat /\ Positions \subseteq Nat /\ Stack \subseteq Int

(* Integers are unbounded here; in Read() the length becomes a LONG, and   *)
(* _xfs_read() adds it to Offset.lo in 32 bits.  A length with the sign    *)
(* bit would need a buffer larger than the machine's memory; a sum that    *)
(* wraps needs a seek to the last bytes below 2^32.  Both stay outside.    *)
ASSUME WidthAssumption ==
  \A n \in Lens, p \in Positions \cup {f.size : f \in Files} :
    2 * n < WORD /\ p + n < WORD

(* The extents are kept in file order and do not overlap, in blocks: off   *)
(* in the file, start on the disk, len.                                    *)
ASSUME FileAssumption ==
  \A f \in Files :
    /\ f.size \in Nat
    /\ f.ext \in Seq([off : Nat, start : Nat \ {0}, len : Nat \ {0}])
    /\ \A j, k \in DOMAIN f.ext : j < k => f.ext[j].off + f.ext[j].len <= f.ext[k].off

ZERO   == 0                      (* a byte bzero() wrote                    *)
HOLE   == -1                     (* NULLFSBLOCK, and ex_bn of a hole        *)

VARIABLES
  file,      (* the open file                                              *)
  position,  (* fd_table[fd].position                                      *)
  pc,        (* "idle", or "loop" inside _xfs_read()                       *)
  len,       (* io->Count as the program asked                             *)
  base,      (* the address of the program's buffer, modulo ALIGN          *)
  offset,    (* iob->Offset.lo                                             *)
  count,     (* count: the bytes still to deliver                          *)
  exoff,     (* result.ex_offset, a variable of _xfs_read()'s frame        *)
  buf,       (* what was written to the program's buffer: index -> byte    *)
  result,    (* how the last call ended and what it delivered              *)
  failed     (* a device read of this call failed                          *)

vars == <<file, position, pc, len, base, offset, count, exoff, buf, result, failed>>
callVars == <<len, base, offset, count, exoff, buf, failed>>

Empty == [k \in {} |-> ZERO]
None == [how |-> "none", got |-> Empty]
Least(a, b) == IF a <= b THEN a ELSE b

Init ==
  /\ file \in Files
  /\ position = 0 /\ pc = "idle"
  /\ len = 0 /\ base = 0 /\ offset = 0 /\ count = 0 /\ exoff = 0
  /\ buf = Empty /\ failed = FALSE
  /\ result = None

(* The bytes delivered so far, and the block offset lies in.               *)
done == offset - position
Fsb(o) == o \div BSIZE

-----------------------------------------------------------------------------
(* _xfs_get_blockno(): the first extent that holds block o, unless an      *)
(* extent that starts after o comes first.                                 *)
Passed(o) == {k \in DOMAIN file.ext : \A j \in 1 .. k : file.ext[j].off <= o}
Within(o) == {k \in Passed(o) : o < file.ext[k].off + file.ext[k].len}
ExtentOf(o) == CHOOSE k \in Within(o) : \A j \in Within(o) : k <= j

\* Mutant: the block's place within its extent is left out.
StartOfExtent(o) == IF Within(o) = {} THEN HOLE ELSE file.ext[ExtentOf(o)].start

BlockNo(o) ==
  IF Within(o) = {} THEN HOLE
  ELSE LET e == file.ext[ExtentOf(o)] IN e.start + (o - e.off)

Remaining(o) == LET e == file.ext[ExtentOf(o)] IN e.off + e.len - o

(* _xfs_bmap(): the block and how many bytes of it to transfer when at     *)
(* most maxblks are wanted.  A hole inside the file is one block of HOLE,  *)
(* and leaves ex_offset as it was.                                         *)
Blocks == (file.size + BSIZE - 1) \div BSIZE
Mapped(o) == BlockNo(o) # HOLE \/ o < Blocks
Length(o, maxblks) ==
  IF BlockNo(o) = HOLE THEN BSIZE
  ELSE Least(BSIZE * Least(Remaining(o), maxblks), MAX_DMA)

(* What ex_offset is after _xfs_bmap().                                    *)
ExOffset(o) == IF BlockNo(o) = HOLE THEN exoff ELSE o

(* Byte k of the transfer that starts at block o.                          *)
Transferred(o, k) == IF BlockNo(o) = HOLE THEN ZERO ELSE BlockNo(o) * BSIZE + k

-----------------------------------------------------------------------------
(* Read(): the count is cut at the end of the file; at or past it the read *)
(* succeeds with nothing.  The frame's ex_offset is not initialised.       *)
\* Mutant: the count is not cut.
Uncut(n) == n

Cut(n) == Least(n, file.size - position)

(* The frame is gone; pos is the descriptor's position from now on.        *)
Return(how, got, pos) ==
  /\ position' = pos /\ offset' = pos
  /\ pc' = "idle" /\ result' = [how |-> how, got |-> got]
  /\ len' = 0 /\ base' = 0 /\ count' = 0 /\ exoff' = 0
  /\ buf' = Empty /\ failed' = FALSE

ReadNothing(n) ==
  /\ pc = "idle"
  /\ Cut(n) <= 0
  /\ Return("ESUCCESS", Empty, position)
  /\ UNCHANGED file

StartRead(n, b) ==
  /\ pc = "idle"
  /\ Cut(n) > 0
  /\ pc' = "loop"
  /\ len' = n /\ base' = b /\ offset' = position /\ count' = Cut(n)
  /\ exoff' \in Stack
  /\ buf' = Empty /\ failed' = FALSE /\ result' = None
  /\ UNCHANGED <<file, position>>

(* Whole blocks that are left, and whether they go straight to the         *)
(* program's buffer.                                                       *)
\* Mutant: a partial last block counts as a whole one.
RoundedUp == (count + BSIZE - 1) \div BSIZE

WholeBlocks == count \div BSIZE
Direct ==
  /\ offset % BSIZE = 0
  /\ (base + done) % ALIGN = 0
  /\ WholeBlocks > 0

Put(k, n, b) == [j \in DOMAIN buf \cup k .. k + n - 1 |->
                   IF j \in k .. k + n - 1 THEN b[j - k] ELSE buf[j]]

Advance(n) ==
  /\ offset' = offset + n /\ count' = count - n
  /\ UNCHANGED <<file, position, pc, len, base, result, failed>>

(* A block or more straight to the program's buffer.                       *)
ReadDirect ==
  /\ pc = "loop" /\ count > 0 /\ ~failed /\ Direct
  /\ LET o == Fsb(offset)
         n == Length(o, WholeBlocks) IN
     /\ Mapped(o)
     /\ buf' = Put(done, n, [k \in 0 .. n - 1 |-> Transferred(o, k)])
     /\ exoff' = ExOffset(o)
     /\ Advance(n)

(* One block to the file's buffer, and from there the part that is asked   *)
(* for.                                                                    *)
Skipped(o) == offset - ExOffset(o) * BSIZE

\* Mutant: only an offset before the extent is refused.
BeforeExtent(o) == Skipped(o) < 0

Misplaced(o) == Skipped(o) < 0 \/ Least(Length(o, 1) - Skipped(o), count) <= 0

ReadPart ==
  /\ pc = "loop" /\ count > 0 /\ ~failed /\ ~Direct
  /\ LET o == Fsb(offset)
         n == Least(Length(o, 1) - Skipped(o), count) IN
     /\ Mapped(o) /\ ~Misplaced(o)
     /\ buf' = Put(done, n, [k \in 0 .. n - 1 |-> Transferred(o, Skipped(o) + k)])
     /\ exoff' = ExOffset(o)
     /\ Advance(n)

(* The errors: the device fails after some sectors of a transfer, the      *)
(* offset maps to nothing, or the part asked for is not in the block.      *)
DeviceFails ==
  /\ pc = "loop" /\ count > 0 /\ ~failed
  /\ LET o == Fsb(offset)
         n == Length(o, IF Direct THEN WholeBlocks ELSE 1) IN
     /\ BlockNo(o) # HOLE
     /\ \E s \in 0 .. n \div SECTOR - 1 :
          buf' = IF Direct
                 THEN Put(done, s * SECTOR, [k \in 0 .. n - 1 |-> Transferred(o, k)])
                 ELSE buf
  /\ failed' = TRUE
  /\ UNCHANGED <<file, position, pc, len, base, offset, count, exoff, result>>

ReadFails ==
  /\ pc = "loop" /\ count > 0
  /\ LET o == Fsb(offset) IN
     failed \/ ~Mapped(o) \/ (~Direct /\ Misplaced(o))
  /\ Return("EIO", Empty, position)
  /\ UNCHANGED file

(* The end of the loop: Read() moves the descriptor's position to where    *)
(* _xfs_read() stopped.                                                    *)
ReadDone ==
  /\ pc = "loop" /\ count <= 0
  /\ Return("ESUCCESS", buf, offset)
  /\ UNCHANGED file

Loop == ReadDirect \/ ReadPart \/ DeviceFails \/ ReadFails \/ ReadDone

(* Seek(), absolute or relative: the position is not checked against the   *)
(* size.                                                                   *)
Seek(p) ==
  /\ pc = "idle"
  /\ position' = p /\ offset' = p /\ result' = None
  /\ UNCHANGED <<file, pc, len, base, count, exoff, buf, failed>>

Call ==
  \/ \E n \in Lens : ReadNothing(n)
  \/ \E n \in Lens, b \in 0 .. ALIGN - 1 : StartRead(n, b)
  \/ \E p \in Positions : Seek(p)

Next == Call \/ Loop

(* The firmware has one thread: a call that was made runs to its end.      *)
Spec == Init /\ [][Next]_vars /\ WF_vars(Loop)
=============================================================================
