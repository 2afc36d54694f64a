------------------------------- MODULE EfsOpen -------------------------------
(***************************************************************************)
(* Opening and closing an EFS file by its path: fs_search()'s check,       *)
(* _efs_open(), namei() and _efs_close() of libsc/fs/efs.c over EfsRead.   *)
(*                                                                         *)
(* The blocks of directories are found by the same bmap(), through the     *)
(* same list of extents, as those of the files they lead to.  Blocks taken *)
(* and given back within a function are left out, their failure is not.    *)
(***************************************************************************)
EXTENDS EfsRead

CONSTANTS
  Dirents,   (* what the blocks of directories hold: the start of a        *)
             (* partition -> a block of it -> a name -> an inode's number  *)
  Paths      (* the paths that are opened: sequences of names              *)

ROOTINO == 2                     (* EFS_ROOTINO, of every partition        *)
Roots == {f \in Files : f.ino = ROOTINO}

(* A partition has one inode of a number.                                  *)
ASSUME PartitionAssumption ==
  /\ Roots # {}
  /\ \A f, g \in Files : f.base = g.base /\ f.ino = g.ino => f = g

(* The block of the partition that block o of a file is, by the file's own *)
(* extents, and the blocks within its size.                                *)
OwnBlock(f, o) ==
  LET k == CHOOSE k \in 1 .. f.num : o \in f.slots[k].off .. f.slots[k].off + f.slots[k].len - 1
  IN f.slots[k].bn + (o - f.slots[k].off)
OwnBlocks(f) == {OwnBlock(f, x \div BB) : x \in 0 .. f.size - 1}

(* A directory is made of blocks of directories, which name nothing twice. *)
ASSUME DirectoryAssumption ==
  \A f \in {g \in Files : g.kind = "dir"} :
    /\ OwnBlocks(f) \subseteq DOMAIN Dirents[f.base]
    /\ \A b, c \in OwnBlocks(f) :
         DOMAIN Dirents[f.base][b] \cap DOMAIN Dirents[f.base][c] # {} => b = c
ASSUME PathAssumption == Paths \subseteq Seq(STRING)

VARIABLES
  root,      (* the root of the partition that is opened                   *)
  names,     (* Filename, without its slashes                              *)
  rest,      (* sp: what is left of it                                     *)
  taken,     (* the blocks that _efs_open() took                           *)
  trouble    (* history: since the open began a malloc() or a read failed, *)
             (* or a directory had a list of extents that bmap() does not  *)
             (* take or that was another's, or a block beyond REACH        *)

openVars == <<root, names, rest, taken, trouble>>
vars == <<file, position, pc, len, base, offset, count, buf, astray, startBlock,
          valid, vino, cache, owner, torn, result, root, names, rest, taken, trouble>>

Init ==
  /\ Install /\ pc = "closed"
  /\ root = file /\ root \in Roots
  /\ names = <<>> /\ rest = <<>> /\ taken = {} /\ trouble = FALSE

-----------------------------------------------------------------------------
(* The frees of _efs_open()'s error labels and of _efs_close(); free()     *)
(* ignores a null pointer.                                                 *)
Info == {"efs", "sb", "dinode"}

\* Mutant: the buffer is forgotten.
FreedInfo == Info

FreedAtBad == Info \cup {"buffer"}

(* open_fs_file() answers ENOENT whatever _efs_open() answered.            *)
Refuse(freed, why) ==
  /\ pc' = "closed" /\ result' = [how |-> "ENOENT", got |-> Empty]
  /\ taken' = taken \ freed /\ rest' = <<>>
  /\ trouble' = (trouble \/ why)
  /\ offset' = 0
  /\ UNCHANGED <<file, position, len, base, count, buf, astray, root, names>>

Go(then) ==
  /\ pc' = then
  /\ UNCHANGED <<file, position, len, base, offset, count, buf, astray, startBlock, result>>
  /\ UNCHANGED cacheVars

RefuseQuietly(freed, why) == Refuse(freed, why) /\ UNCHANGED startBlock /\ UNCHANGED cacheVars

(* open_fs_file() wipes the static eiob.  In-core there is no inode before *)
(* the root's, and no block that a transfer could be compared with.        *)
Open(r, p) ==
  /\ pc = "closed"
  /\ pc' = "check"
  /\ file' = r /\ root' = r /\ names' = p /\ rest' = p /\ trouble' = FALSE
  /\ position' = 0 /\ offset' = 0 /\ startBlock' = NOBLOCK /\ result' = None
  /\ UNCHANGED <<len, base, count, buf, astray, taken>> /\ UNCHANGED cacheVars

(* _efs_checkfs(): the superblock in a buffer of its own.                  *)
Check ==
  /\ pc = "check"
  /\ \/ Go("efs") /\ UNCHANGED openVars
     \/ RefuseQuietly({}, TRUE)

(* _get_efsinfo() gives back what it took, _efs_open() the rest.           *)
Takes(block, then) ==
  /\ Go(then)
  /\ taken' = taken \cup {block} /\ UNCHANGED <<root, names, rest, trouble>>

GetEfs ==
  pc = "efs" /\ (Takes("efs", "sb") \/ RefuseQuietly({}, TRUE))
GetSb ==
  pc = "sb" /\ (Takes("sb", "dinode") \/ RefuseQuietly({"efs"}, TRUE))
GetDinode ==
  pc = "dinode" /\ (Takes("dinode", "buffer") \/ RefuseQuietly({"sb", "efs"}, TRUE))
GetBuffer ==
  pc = "buffer" /\ (Takes("buffer", "super") \/ RefuseQuietly(Info, TRUE))

(* The superblock was an EFS one a moment ago.                             *)
ReadSuper ==
  /\ pc = "super"
  /\ \/ Go("root") /\ UNCHANGED openVars
     \/ RefuseQuietly(FreedAtBad, TRUE)

(* iread(), which needs a buffer and the device.                           *)
ReadRoot ==
  /\ pc = "root"
  /\ \/ Go("namei") /\ UNCHANGED openVars
     \/ RefuseQuietly(FreedAtBad, TRUE)

-----------------------------------------------------------------------------
(* namei(): a directory's blocks are searched one after the other.         *)
Searching == pc = "namei" /\ rest # <<>> /\ file.kind = "dir" /\ offset < file.size
DirMapped == Searching /\ ~MustFill /\ Hits(offset \div BB) # {}

DirFill ==
  /\ Searching /\ FillList
  /\ UNCHANGED <<file, position, pc, result>> /\ UNCHANGED callVars /\ UNCHANGED openVars

DirFillFails ==
  Searching /\ PartOfList /\ Refuse(FreedAtBad, TRUE)

(* What is searched may be none of the directory's blocks.                 *)
Mislaid == ForeignList \/ Beyond(offset \div BB, BB)

DirNotMapped ==
  Searching /\ NoMap /\ RefuseQuietly(FreedAtBad, MustFill \/ ForeignList)

(* A block, or the inode a name leads to, cannot be read.                  *)
DirReadFails ==
  DirMapped /\ RefuseQuietly(FreedAtBad, TRUE)

(* The inodes a name may lead to by the block that is searched: any of the *)
(* partition, when the block is no directory's.                            *)
Searched == Transferred(offset \div BB, 0) \div BB - root.base
IsDirblk == Searched \in DOMAIN Dirents[root.base]
Named ==
  {f \in Files :
     /\ f.base = root.base
     /\ IsDirblk => LET entries == Dirents[root.base][Searched] IN
                    Head(rest) \in DOMAIN entries /\ f.ino = entries[Head(rest)]}

NextBlock ==
  /\ DirMapped
  /\ IsDirblk => Named = {}
  /\ offset' = offset + BB
  /\ trouble' = (trouble \/ Mislaid)
  /\ UNCHANGED <<file, position, pc, len, base, count, buf, astray, startBlock, result>>
  /\ UNCHANGED <<root, names, rest, taken>> /\ UNCHANGED cacheVars

\* Mutant: the next directory is searched from where this one ended.
EnterFarIn ==
  /\ DirMapped
  /\ file' \in Named /\ rest' = Tail(rest)
  /\ trouble' = (trouble \/ Mislaid)
  /\ UNCHANGED <<position, pc, len, base, offset, count, buf, astray, startBlock, result>>
  /\ UNCHANGED <<root, names, taken>> /\ UNCHANGED cacheVars

Enter ==
  /\ DirMapped
  /\ file' \in Named /\ rest' = Tail(rest) /\ offset' = 0
  /\ trouble' = (trouble \/ Mislaid)
  /\ UNCHANGED <<position, pc, len, base, count, buf, astray, startBlock, result>>
  /\ UNCHANGED <<root, names, taken>> /\ UNCHANGED cacheVars

NoEntry ==
  /\ pc = "namei" /\ rest # <<>> /\ file.kind = "dir" /\ offset >= file.size
  /\ RefuseQuietly(FreedAtBad, FALSE)

NoDirectory ==
  /\ pc = "namei" /\ rest # <<>> /\ file.kind # "dir"
  /\ RefuseQuietly(FreedAtBad, FALSE)

(* _efs_open() was not asked for a directory.                              *)
IsDirectory ==
  /\ pc = "namei" /\ rest = <<>> /\ file.kind # "reg"
  /\ RefuseQuietly(FreedAtBad, FALSE)

(* Read() replaces what namei() left in iob->Offset.                       *)
Opened ==
  /\ pc = "namei" /\ rest = <<>> /\ file.kind = "reg"
  /\ pc' = "idle" /\ offset' = 0
  /\ UNCHANGED <<file, position, len, base, count, buf, astray, startBlock, result>>
  /\ UNCHANGED cacheVars /\ UNCHANGED openVars

Namei ==
  \/ DirFill \/ DirFillFails \/ DirNotMapped \/ DirReadFails
  \/ NextBlock \/ Enter \/ NoEntry \/ NoDirectory \/ IsDirectory \/ Opened

OpenStep ==
  \/ Check \/ GetEfs \/ GetSb \/ GetDinode \/ GetBuffer \/ ReadSuper \/ ReadRoot
  \/ Namei

(* _efs_close().  The cached list stays.                                   *)
Close ==
  /\ pc = "idle"
  /\ pc' = "closed" /\ taken' = taken \ FreedAtBad
  /\ position' = 0 /\ offset' = 0 /\ startBlock' = NOBLOCK /\ result' = None
  /\ UNCHANGED <<file, len, base, count, buf, astray, root, names, rest, trouble>>
  /\ UNCHANGED cacheVars

Reading == (Call \/ Loop) /\ UNCHANGED openVars

Next == (\E r \in Roots, p \in Paths : Open(r, p)) \/ OpenStep \/ Close \/ Reading

(* The firmware has one thread: a call that was made goes on.  The device  *)
(* need never fail.                                                        *)
Step == OpenStep \/ (Iterate /\ UNCHANGED openVars)

Spec == Init /\ [][Next]_vars /\ WF_vars(Step)
=============================================================================
