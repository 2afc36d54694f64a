---------------------------- MODULE EfsReadProps ----------------------------
(***************************************************************************)
(* What opening and reading EFS files must guarantee, stated over EfsOpen. *)
(***************************************************************************)
EXTENDS EfsOpen

(* The byte of the file at offset o, from the extents that are its own.    *)
EfsByte(f, o) == (f.base + OwnBlock(f, o \div BB)) * BB + (o % BB)

(* No transfer, whole blocks straight to the program's buffer included,    *)
(* writes behind the length the program gave.                              *)
EfsInBounds == \A k \in DOMAIN buf : 0 <= k /\ k < len

(* Whatever mix of direct and buffered transfers brought them in, and      *)
(* whatever files were read before, the bytes delivered so far are the     *)
(* file's, in order and none missing - unless this call went by the list   *)
(* of another partition's inode of the same number or by one that came in  *)
(* only in part, passed over a block, or came to a place of the disk that  *)
(* the driver's 32 bits do not reach; even then it stays in the buffer.    *)
EfsDelivered ==
  pc = "loop" /\ ~astray =>
    \A k \in 0 .. offset - position - 1 :
      k \in DOMAIN buf /\ buf[k] = EfsByte(file, position + k)

EfsSliceRight == EfsInBounds /\ EfsDelivered

(* The list that is kept is, complete and under its own number, that of    *)
(* the last file whose list was read in; only a read that failed half way  *)
(* since then leaves a mixture.  The slots behind a shorter list keep what *)
(* was there, and must not come before the file's own.                     *)
ListTruthful ==
  valid /\ ~torn =>
    /\ vino = owner.ino
    /\ \A k \in 1 .. owner.num : cache[k] = owner.slots[k]

(* The inode a name of a directory leads to, by the directory's own blocks.*)
NamedIn(f, name) ==
  {g \in Files :
     /\ f.kind = "dir" /\ g.base = f.base
     /\ \E b \in OwnBlocks(f) :
          name \in DOMAIN Dirents[f.base][b] /\ g.ino = Dirents[f.base][b][name]}

(* Where the first k names of a path lead, from the root: one inode or     *)
(* none.                                                                   *)
LedTo(r, p, k) ==
  LET at[i \in 0 .. k] ==
        IF i = 0 THEN {r} ELSE UNION {NamedIn(f, p[i]) : f \in at[i - 1]}
  IN at[k]

(* Every directory on the way is the one the names so far lead to, the     *)
(* file that is opened is the whole path's, and a path that leads to a     *)
(* file is not refused - unless something failed, or a directory was       *)
(* searched through a list that is not its own or lies beyond the driver's *)
(* reach.  Its blocks come through the list that the files read before     *)
(* left behind.                                                            *)
EfsPathRight ==
  ~trouble =>
    /\ pc = "namei" => LedTo(root, names, Len(names) - Len(rest)) = {file}
    /\ pc \in {"idle", "loop"} => LedTo(root, names, Len(names)) = {file}
    /\ pc = "closed" /\ result.how = "ENOENT" => \A f \in LedTo(root, names, Len(names)) : f.kind # "reg"

(* Whatever way an open ends, it gave back what it took, and an open file  *)
(* holds all of it until it is closed.                                     *)
EfsBlocksBack ==
  /\ pc = "closed" => taken = {}
  /\ pc \in {"namei", "idle", "loop"} => taken = {"efs", "sb", "dinode", "buffer"}

(* An open and a read end, whatever the list they go by: no iteration      *)
(* leaves the count, or the directory's offset, where it was.              *)
EfsCallEnds == pc \notin {"idle", "closed"} ~> pc \in {"idle", "closed"}
=============================================================================
