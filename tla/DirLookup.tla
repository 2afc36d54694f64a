----------------------------- MODULE DirLookup ------------------------------
(***************************************************************************)
(* The search of an XFS directory for a name: _xfs_dir_lookup() with the   *)
(* routines of both formats (libsc/xfs/xfs_dir.c, xfs_dir2.c), below       *)
(* _xfs_lookup_name().  Extents and blocks are counted in blocks of the    *)
(* file system; a directory block of the second format has DIRBLKFSBS of   *)
(* them, and numbers are from 0.                                           *)
(***************************************************************************)
EXTENDS Integers, Sequences

CONSTANTS
  Directories,   (* the directories on the disks, in a sequence            *)
  DIRBLKFSBS,    (* m_dirblkfsbs                                           *)
  MANY,          (* the entries from which a leaf is searched by halves, 64*)
  CLOSE,         (* the span at which that is left, 4                      *)
  MAXNAMELEN     (* lengths of names from which none is found, 256         *)

(* A name has a length and a hash.  A directory is of one of two formats,  *)
(* in its inode ("local") or in the blocks of its extents.                 *)
Name == [id : Nat, len : Nat, hash : Nat]
Extent == [off : Nat, len : Nat]
Block == [magic : {"leaf", "node", "data", "other"}, names : Seq(Name)]
Directory ==
  [version : {1, 2}, form : {"local", "leaf", "node", "data"}, inline : BOOLEAN,
   extents : Seq(Extent), blocks : Seq(Block), names : Seq(Name)]

ASSUME DirLookupAssumption ==
  /\ Directories \in Seq(Directory)
  /\ DIRBLKFSBS \in Nat \ {0} /\ CLOSE \in Nat \ {0} /\ MANY \in Nat \ {0} /\ MAXNAMELEN \in Nat
  /\ \A n \in DOMAIN Directories :
       LET d == Directories[n] IN
       /\ d.form = "data" => d.version = 2
       /\ d.form \in {"leaf", "node"} => d.version = 1
       /\ \A i \in DOMAIN d.extents : d.extents[i].len > 0
       /\ \A i, j \in DOMAIN d.extents :
            i < j => d.extents[i].off + d.extents[i].len <= d.extents[j].off

(* A leaf's entries are in the order of their hashes.                      *)
ASSUME OrderAssumption ==
  \A n \in DOMAIN Directories : \A b \in DOMAIN Directories[n].blocks :
    LET s == Directories[n].blocks[b] IN
    s.magic = "leaf" => \A i, j \in DOMAIN s.names : i < j => s.names[i].hash <= s.names[j].hash

(* The extents of a directory a block lies in.                             *)
Covering(d, off) ==
  {i \in DOMAIN d.extents :
     d.extents[i].off <= off /\ off < d.extents[i].off + d.extents[i].len}

(* There is nothing in a directory block that lies in a hole, and nothing  *)
(* in a directory of the first format that lacks its first one.            *)
ASSUME HoleAssumption ==
  \A n \in DOMAIN Directories : \A b \in DOMAIN Directories[n].blocks :
    LET d == Directories[n] IN
    \/ d.blocks[b].names = <<>>
    \/ /\ d.version = 1 => Covering(d, 0) # {} /\ Covering(d, b - 1) # {}
       /\ d.version = 2 =>
            \A k \in 0 .. DIRBLKFSBS - 1 : Covering(d, (b - 1) * DIRBLKFSBS + k) # {}

UNSET == -1
Nobody == [id |-> 0, len |-> 0, hash |-> 0]

VARIABLES
  dir,       (* the directory that is searched, by its number              *)
  name,      (* for this name                                              *)
  where,     (* "no call", "blocks", "reading", or "over"                  *)
  dbno,      (* the block that is next                                     *)
  len,       (* the file system blocks of it that were read                *)
  buf,       (* the file's blocks that lie in the buffer, or -1            *)
  over,      (* the file system blocks that were read behind the buffer    *)
  retval,    (* what is returned: 0, 1, or UNSET                           *)
  inumber,   (* the inode that was found, by its name                      *)
  failed     (* history: no buffer, or a read of this search failed        *)

dirVars == <<dir, name, where, dbno, len, buf, over, retval, inumber, failed>>

Dp == Directories[dir]
Empty == [k \in 0 .. DIRBLKFSBS - 1 |-> -1]

DirInit ==
  /\ dir = 1 /\ name = Nobody /\ where = "no call"
  /\ dbno = 0 /\ len = 0 /\ buf = Empty /\ over = 0
  /\ retval = UNSET /\ inumber = Nobody /\ failed = FALSE

-----------------------------------------------------------------------------
(* _xfs_get_blockno(): the extent a block lies in, and what is left of it. *)
Holding(off) == Covering(Dp, off)
Hole(off) == Holding(off) = {}
Rest(off) ==
  LET e == Dp.extents[CHOOSE i \in Holding(off) : TRUE] IN e.off + e.len - off

(* The entries with the length and the letters of the name.                *)
Match(names) == {i \in DOMAIN names : names[i].id = name.id}

(* _xfs_dirv1_leaf_lookup_int(): one after the other, until a hash is      *)
(* larger.                                                                 *)
\* Mutant: or is as large.
AsLarge(names) == {i \in DOMAIN names : names[i].hash >= name.hash}

Larger(names) == {i \in DOMAIN names : names[i].hash > name.hash}
Linear(names) ==
  {i \in Match(names) : names[i].hash = name.hash /\ \A j \in Larger(names) : i < j}

(* By halves: the probe and the span, until it is close or hits, for which *)
(* as many rounds as there are entries are enough.                         *)
Hash(names, i) == names[i + 1].hash
Closer(names, b) ==
  LET h == b.span \div 2
      p == IF Hash(names, b.probe) < name.hash THEN b.probe + h
           ELSE IF Hash(names, b.probe) > name.hash THEN b.probe - h ELSE b.probe IN
  IF b.done THEN b
  ELSE [probe |-> p, span |-> h, done |-> Hash(names, b.probe) = name.hash \/ h <= CLOSE]
Halves(names) ==
  LET n == Len(names)
      try[i \in 0 .. n] ==
        IF i = 0 THEN [probe |-> n \div 2, span |-> n \div 2, done |-> FALSE]
        ELSE Closer(names, try[i - 1])
  IN try[n].probe

(* From the probe by hand: down to where the hash is not larger, up to     *)
(* where it is not smaller; then down over the equal ones and up again for *)
(* the name.                                                               *)
Down(names, p) ==
  LET stops == {q \in 0 .. p : q = 0 \/ Hash(names, q) <= name.hash}
  IN CHOOSE q \in stops : \A r \in stops : r <= q
Up(names, p) ==
  LET stops == {q \in p .. Len(names) : q = Len(names) \/ Hash(names, q) >= name.hash}
  IN CHOOSE q \in stops : \A r \in stops : q <= r
Equal(names, p) ==       (* the entries around p with its hash             *)
  {i \in DOMAIN names :
     \A j \in DOMAIN names :
       (i <= j /\ j <= p + 1) \/ (p + 1 <= j /\ j <= i) => names[j].hash = name.hash}
ByHalves(names) ==
  LET p == Up(names, Down(names, Halves(names))) IN
  IF p = Len(names) \/ Hash(names, p) # name.hash THEN {}
  ELSE Match(names) \cap Equal(names, p)

LeafFind(names) == IF Len(names) < MANY THEN Linear(names) ELSE ByHalves(names)

-----------------------------------------------------------------------------
(* What the routines return for a whole directory, or go on with.          *)
Answer(r, n) ==
  /\ where' = "over" /\ retval' = r /\ inumber' = n
  /\ UNCHANGED <<dir, name, dbno, len, over>>

Begin(d, n) ==
  /\ where = "no call"
  /\ dir' = d /\ name' = n
  /\ dbno' = 0 /\ len' = 0 /\ buf' = Empty /\ over' = 0 /\ failed' = FALSE

(* No name is that long; a directory in the inode is searched at once, its *)
(* header for "." and "..".                                                *)
InInode(d, n) ==
  /\ n.len < MAXNAMELEN /\ Directories[d].inline
  /\ \E i \in DOMAIN Directories[d].names : Directories[d].names[i].id = n.id

LookupLocal(d, n) ==
  /\ n.len >= MAXNAMELEN \/ Directories[d].form = "local"
  /\ Begin(d, n) /\ where' = "over"
  /\ IF InInode(d, n) THEN retval' = 1 /\ inumber' = n ELSE retval' = 0 /\ inumber' = Nobody

(* The others need a buffer.  retval is not set yet.                       *)
LookupBlocks(d, n) ==
  /\ n.len < MAXNAMELEN /\ Directories[d].form # "local"
  /\ Begin(d, n) /\ where' = "blocks"
  /\ retval' = UNSET /\ inumber' = Nobody

NoBuffer ==
  /\ where = "blocks" /\ dbno = 0 /\ len = 0 /\ retval = UNSET
  /\ Answer(0, Nobody) /\ failed' = TRUE
  /\ UNCHANGED buf

Left == where = "blocks" /\ dbno < Len(Dp.blocks)
Content == Dp.blocks[dbno + 1]

(* On to the next block, from one that is passed over or was searched.     *)
PassOver ==
  /\ dbno' = dbno + 1 /\ len' = 0
  /\ UNCHANGED <<dir, name, where, over, retval, inumber>>
Searched(found) ==
  IF found THEN Answer(1, name)
  ELSE /\ retval' = 0 /\ dbno' = dbno + 1 /\ len' = 0
       /\ UNCHANGED <<dir, name, where, over, inumber>>

(* The first format: one block at a time.  The only block of a leaf, and   *)
(* the first one of a larger directory, must be there.                     *)
LeafHole ==
  /\ Left /\ Dp.version = 1 /\ Hole(dbno)
  /\ IF dbno = 0 THEN Answer(0, Nobody) ELSE PassOver
  /\ UNCHANGED <<buf, failed>>

LeafBlock ==
  /\ Left /\ Dp.version = 1 /\ ~Hole(dbno)
  /\ buf' = [buf EXCEPT ![0] = dbno]
  /\ IF Dp.form = "node" /\ Content.magic = "node" THEN PassOver
     ELSE Searched(Content.magic = "leaf" /\ LeafFind(Content.names) # {})
  /\ UNCHANGED failed

(* The second format: a directory block extent by extent, from each all    *)
(* that is left of it.                                                     *)
Off == dbno * DIRBLKFSBS + len
\* Mutant: a further extent is read to the start of the buffer.
CameFirst(n) ==
  [k \in DOMAIN buf |-> IF k < n THEN Off + k ELSE buf[k]]

Came(n) ==
  [k \in DOMAIN buf |-> IF k \in len .. len + n - 1 THEN Off + (k - len) ELSE buf[k]]
Beyond(n) == IF len + n > DIRBLKFSBS THEN len + n - DIRBLKFSBS ELSE 0

DataHole ==
  /\ Left /\ Dp.version = 2 /\ len < DIRBLKFSBS /\ Hole(Off)
  /\ PassOver /\ UNCHANGED <<buf, failed>>

DataRead ==
  /\ Left /\ Dp.version = 2 /\ len < DIRBLKFSBS /\ ~Hole(Off)
  /\ buf' = Came(Rest(Off)) /\ over' = Beyond(Rest(Off)) /\ len' = len + Rest(Off)
  /\ UNCHANGED <<dir, name, where, dbno, retval, inumber, failed>>

InBuffer == \A k \in DOMAIN buf : buf[k] = dbno * DIRBLKFSBS + k
DataSearch ==
  /\ Left /\ Dp.version = 2 /\ len >= DIRBLKFSBS
  /\ Searched(Content.magic = "data" /\ InBuffer /\ Match(Content.names) # {})
  /\ UNCHANGED <<buf, failed>>

ReadFails ==
  /\ Left /\ (Dp.version = 2 => len < DIRBLKFSBS)
  /\ ~Hole(IF Dp.version = 2 THEN Off ELSE dbno)
  /\ Answer(0, Nobody) /\ failed' = TRUE
  /\ UNCHANGED buf

(* Behind the last block.  retval is what the last search gave - or, when  *)
(* there was none, what the frame held, with inode 0.                      *)
SearchEnds ==
  /\ where = "blocks" /\ dbno = Len(Dp.blocks)
  /\ \E r \in {0, 1} : (retval = UNSET \/ r = retval) /\ Answer(r, inumber)
  /\ UNCHANGED <<buf, failed>>

Return ==
  /\ where = "over" /\ where' = "no call"
  /\ UNCHANGED <<dir, name, dbno, len, buf, over, retval, inumber, failed>>

DirLookup(d, n) == LookupLocal(d, n) \/ LookupBlocks(d, n)
DirStep ==
  \/ NoBuffer \/ LeafHole \/ LeafBlock \/ DataHole \/ DataRead \/ DataSearch
  \/ ReadFails \/ SearchEnds \/ Return
=============================================================================
