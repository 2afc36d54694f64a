------------------------------- MODULE XfsOpen -------------------------------
(***************************************************************************)
(* Opening and closing a file of an XFS file system: fs_search()'s check,  *)
(* _xfs_open(), _xfs_lookup_name(), _xfs_iread() and xfs_iformat(),        *)
(* _xfs_ifree() and _xfs_close() (libsc/xfs/xfs.c, xfs_inode.c).           *)
(*                                                                         *)
(* What matters of the heap is which blocks are taken and what for: a      *)
(* buffer taken and given back within a function is left out, but its      *)
(* failure is not.  The heap is shared with the rest of the firmware, so   *)
(* any malloc() may fail, and any read of the disk.                        *)
(***************************************************************************)
EXTENDS Integers, Sequences

CONSTANTS
  Inodes,    (* the file system: inode number -> inode                     *)
  RootIno,   (* sb_rootino                                                 *)
  DirVersions, (* the directory formats: 1 (xfs_dir.c), 2 (xfs_dir2.c)     *)
  BLOCKS     (* bound: how many blocks of the heap can be taken            *)

Kinds   == {"dir", "reg"}
(* di_format, with what the data fork needs a block of the heap for: local *)
(* data that fits the inode or not, a list of extents that fits it or not, *)
(* and a B-tree.                                                           *)
Formats == {"local", "longlocal", "extents", "manyextents", "btree"}

ASSUME InodesAssumption ==
  /\ RootIno \in DOMAIN Inodes
  /\ \A n \in DOMAIN Inodes :
       /\ Inodes[n].kind \in Kinds /\ Inodes[n].format \in Formats
       /\ \A name \in DOMAIN Inodes[n].entries : Inodes[n].entries[name] \in DOMAIN Inodes
ASSUME HeapAssumption == BLOCKS \in Nat /\ DirVersions \subseteq {1, 2}

NULL == 0

VARIABLES
  alloc,     (* the heap: block -> what it was taken for                   *)
  dirv,      (* the file system's directory format                         *)
  fsb,       (* s_xfs_eiob.fsb: FsPtr and what it points to, Buffer        *)
  ip,        (* the in-core inode: number, format, if_extents, if_broot    *)
  target,    (* the path that is opened                                    *)
  path,      (* sp: what is left of it                                     *)
  ret,       (* ret of _xfs_lookup_name()                                  *)
  next,      (* nextinum                                                   *)
  base,      (* the blocks that were taken when the open began             *)
  trouble,   (* a malloc() or a read of the disk failed on the way         *)
  pc         (* where the call is                                          *)

fsVars == <<alloc, dirv, fsb, ip, target, path, ret, next, base, trouble, pc>>

NoFsb == [info |-> NULL, mp |-> NULL, ip |-> NULL, buffer |-> NULL]
NoInode == [no |-> 0, format |-> "local", exts |-> NULL, root |-> NULL]

FsInit ==
  /\ alloc = [b \in {} |-> "super"] /\ dirv \in DirVersions
  /\ fsb = NoFsb /\ ip = NoInode
  /\ target = <<>> /\ path = <<>> /\ ret = 1 /\ next = 0 /\ base = {} /\ trouble = FALSE
  /\ pc = "idle"

-----------------------------------------------------------------------------
(* malloc() and free(), which ignores a block that is not taken.           *)
FreeBlocks == (1 .. BLOCKS) \ DOMAIN alloc
Fresh == CHOOSE b \in FreeBlocks : \A c \in FreeBlocks : b <= c
Taken(what) == [b \in DOMAIN alloc \cup {Fresh} |-> IF b = Fresh THEN what ELSE alloc[b]]
CanTake == FreeBlocks # {}
Freed(S) == [b \in DOMAIN alloc \ S |-> alloc[b]]

Refuse(why) == pc' = "refused" /\ trouble' = (trouble \/ why)

Fails ==
  /\ Refuse(TRUE)
  /\ UNCHANGED <<dirv, fsb, ip, target, path, ret, next, base>>

(* A step that takes one block for `what' and goes on at `then'.           *)
Takes(what, then) ==
  /\ CanTake
  /\ alloc' = Taken(what) /\ pc' = then
  /\ UNCHANGED <<dirv, ip, target, path, ret, next, base, trouble>>

(* _xfs_get_superblock() reads through a buffer it never frees, whether    *)
(* the read succeeds or not.                                               *)
Superblock(then) ==
  \/ Takes("super", then) /\ UNCHANGED fsb
  \/ CanTake /\ alloc' = Taken("super") /\ Fails
  \/ UNCHANGED alloc /\ Fails

(* open_fs_file() wipes the static eiob and fs_search() finds the file     *)
(* system by its superblock.                                               *)
OpenFsFile(p) ==
  /\ fsb' = NoFsb /\ ip' = NoInode
  /\ target' = p /\ path' = p /\ ret' = 1 /\ next' = 0 /\ trouble' = FALSE
  /\ base' = DOMAIN alloc
  /\ pc' = "check"
  /\ UNCHANGED <<alloc, dirv>>

Check == pc = "check" /\ Superblock("info")

(* _get_xfsinfo(): all three blocks or none.                               *)
GetInfo ==
  /\ pc = "info"
  /\ \/ Takes("info", "mount") /\ fsb' = [fsb EXCEPT !.info = Fresh]
     \/ UNCHANGED alloc /\ Fails

GetMount ==
  /\ pc = "mount"
  /\ \/ Takes("mount", "inode") /\ fsb' = [fsb EXCEPT !.mp = Fresh]
     \/ alloc' = Freed({fsb.info}) /\ Fails

GetInode ==
  /\ pc = "inode"
  /\ \/ Takes("inode", "super") /\ fsb' = [fsb EXCEPT !.ip = Fresh]
     \/ alloc' = Freed({fsb.info, fsb.mp}) /\ Fails

ReadSuper == pc = "super" /\ Superblock("buffer")

(* The file's buffer, and a temporary one to read the last block of the    *)
(* file system with; what was taken stays taken when that fails.           *)
GetBuffer ==
  /\ pc = "buffer"
  /\ \/ Takes("buffer", "last") /\ fsb' = [fsb EXCEPT !.buffer = Fresh]
     \/ UNCHANGED alloc /\ Fails

ReadLast ==
  /\ pc = "last"
  /\ \/ /\ pc' = "iread" /\ next' = RootIno
        /\ UNCHANGED <<alloc, dirv, fsb, ip, target, path, ret, base, trouble>>
     \/ UNCHANGED alloc /\ Fails

-----------------------------------------------------------------------------
(* _xfs_iread(): the inode comes in, and xfs_iformat() takes a block for a *)
(* data fork that does not fit.  Nobody looks whether it got one: the list *)
(* is then built at address 0, where the access faults or hits memory.     *)
Forked(n) == Inodes[n].format \in {"longlocal", "manyextents", "btree"}
Purpose(n) ==
  CASE Inodes[n].format = "longlocal" -> "data"
    [] Inodes[n].format = "btree"     -> "root"
    [] OTHER                          -> "exts"

\* Mutant: the B-tree's leaves are never read in.
RootOnly(n) == "walk"

Walk(n) == IF Inodes[n].format = "btree" THEN "leaves" ELSE "walk"
Loaded(n, x, r) == [no |-> n, format |-> Inodes[n].format, exts |-> x, root |-> r]

ReadInode ==
  /\ pc = "iread"
  /\ \/ UNCHANGED <<alloc, ip>> /\ Refuse(TRUE)
     \/ /\ ~Forked(next) /\ ip' = Loaded(next, NULL, NULL)
        /\ pc' = "walk" /\ UNCHANGED <<alloc, trouble>>
     \/ /\ Forked(next) /\ CanTake
        /\ alloc' = Taken(Purpose(next))
        /\ ip' = IF Inodes[next].format = "btree" THEN Loaded(next, NULL, Fresh)
                 ELSE Loaded(next, Fresh, NULL)
        /\ pc' = Walk(next) /\ UNCHANGED trouble
     \/ /\ Forked(next) /\ ip' = Loaded(next, NULL, NULL)
        /\ pc' \in {Walk(next), "fault"} /\ trouble' = TRUE /\ UNCHANGED alloc
  /\ UNCHANGED <<dirv, fsb, target, path, ret, next, base>>

(* _xfs_iread_extents(): the leaves' extents in a block of their own; a    *)
(* failure is printed and forgotten.                                       *)
\* Mutant: the root is given back once the leaves are read.
RootGivenBack ==
  /\ pc = "leaves" /\ CanTake
  /\ pc' = "walk" /\ ip' = [ip EXCEPT !.exts = Fresh]
  /\ alloc' = [b \in (DOMAIN alloc \cup {Fresh}) \ {ip.root} |-> Taken("exts")[b]]
  /\ UNCHANGED <<dirv, fsb, target, path, ret, next, base, trouble>>

ReadLeaves ==
  /\ pc = "leaves"
  /\ pc' = "walk"
  /\ \/ CanTake /\ alloc' = Taken("exts") /\ ip' = [ip EXCEPT !.exts = Fresh]
                /\ trouble' \in {trouble, TRUE}
     \/ UNCHANGED <<alloc, ip>> /\ trouble' = TRUE
  /\ UNCHANGED <<dirv, fsb, target, path, ret, next, base>>

(* _xfs_ifree(): what it gives back; local data in a block of its own is   *)
(* not among it.                                                           *)
Owned ==
  CASE ip.format = "manyextents" -> {ip.exts}
    [] ip.format = "btree"       -> {ip.root, ip.exts}
    [] OTHER                     -> {}

-----------------------------------------------------------------------------
(* _xfs_lookup_name(), one component per round.  A name that is not found  *)
(* only sets ret: the next one is looked up in the same directory, whose   *)
(* extents are freed by then; a list that is stale, or never came in, may  *)
(* hide a name.                                                            *)
Holds(b, what) == b \in DOMAIN alloc /\ alloc[b] = what
Stale == \E b \in Owned : ~Holds(b, "exts") /\ ~Holds(b, "root")
Entries == Inodes[ip.no].entries
IsDir == Inodes[ip.no].kind = "dir" /\ Inodes[ip.no].linked

NotADirectory ==
  /\ pc = "walk" /\ path # <<>> /\ ~IsDir
  /\ Refuse(FALSE)
  /\ UNCHANGED <<alloc, dirv, fsb, ip, target, path, ret, next, base>>

Released == alloc' = Freed(Owned)

\* Mutant: a name that is not there is looked for again.
LookAgain ==
  /\ pc = "walk" /\ path # <<>> /\ IsDir
  /\ IF Head(path) \in DOMAIN Entries
     THEN path' = Tail(path) /\ ret' = 1 /\ next' = Entries[Head(path)] /\ pc' = "iread"
     ELSE ret' = 0 /\ UNCHANGED <<path, next, pc>>
  /\ Released
  /\ UNCHANGED <<dirv, fsb, ip, target, base, trouble>>

Lookup ==
  /\ pc = "walk" /\ path # <<>> /\ IsDir
  /\ path' = Tail(path)
  /\ \/ /\ Head(path) \in DOMAIN Entries
        /\ ret' = 1 /\ next' = Entries[Head(path)] /\ pc' = "iread"
     \/ /\ Head(path) \notin DOMAIN Entries \/ Stale \/ trouble
        /\ ret' = 0 /\ UNCHANGED <<next, pc>>
  /\ Released
  /\ UNCHANGED <<dirv, fsb, ip, target, base, trouble>>

(* The directory's block cannot be had: as if the name were not there.     *)
(* xfs_dir.c then keeps the buffer it read into.                           *)
LookupFails ==
  /\ pc = "walk" /\ path # <<>> /\ IsDir
  /\ ip.format \notin {"local", "longlocal"}
  /\ path' = Tail(path) /\ ret' = 0 /\ trouble' = TRUE
  /\ \/ Released
     \/ /\ dirv = 1 /\ CanTake
        /\ alloc' = [b \in DOMAIN Taken("dir") \ Owned |-> Taken("dir")[b]]
  /\ UNCHANGED <<dirv, fsb, ip, target, next, base, pc>>

LookupEnds ==
  /\ pc = "walk" /\ path = <<>>
  /\ pc' = IF ret = 1 THEN "opened" ELSE "refused"
  /\ UNCHANGED <<alloc, dirv, fsb, ip, target, path, ret, next, base, trouble>>

(* _xfs_close(): the blocks an open file holds.                            *)
\* Mutant: the buffer is forgotten.
CloseKeepsBuffer == Owned \cup {fsb.mp, fsb.ip, fsb.info}

Closed == Owned \cup {fsb.buffer, fsb.mp, fsb.ip, fsb.info}

FsClose == alloc' = Freed(Closed)

(* The call is over: its variables are gone, and the static eiob is not    *)
(* read before the next open wipes it.                                     *)
Forgotten ==
  /\ fsb' = NoFsb /\ ip' = NoInode
  /\ target' = <<>> /\ path' = <<>> /\ ret' = 1 /\ next' = 0
  /\ base' = {} /\ trouble' = FALSE
  /\ pc' = "idle"
  /\ UNCHANGED dirv

OpenStep ==
  \/ Check \/ GetInfo \/ GetMount \/ GetInode \/ ReadSuper \/ GetBuffer \/ ReadLast
  \/ ReadInode \/ ReadLeaves \/ NotADirectory \/ Lookup \/ LookupFails \/ LookupEnds
=============================================================================
