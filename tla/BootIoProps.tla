----------------------------- MODULE BootIoProps -----------------------------
(***************************************************************************)
(* What the boot path must guarantee, stated over BootIo.                  *)
(***************************************************************************)
EXTENDS BootIo

(* "only one fs file open at a time (boot path)": the eiob behind a        *)
(* descriptor of type XFS is static, so there is at most one such          *)
(* descriptor, only while Execute() loads from it, and none is left for a  *)
(* program, or for close_noncons(), which closes no file.                  *)
OneFsFile ==
  \A i \in Fds : fdTable[i] = "xfs" => i = fd /\ pc = "load" /\ i \notin held

(* Whatever way Execute() and Load() end, the descriptors in use           *)
(* afterwards are those the programs hold: an error return that forgets    *)
(* one would use them up after a few attempts to boot.                     *)
DescriptorsBalanced ==
  pc = "idle" => \A i \in Fds : fdTable[i] # "unused" <=> i \in held

FileOpen == pc = "opened" \/ (pc = "load" /\ fdTable[fd] = "xfs")

(* While a file is open the blocks its descriptor leads to are taken, each *)
(* for the purpose it is used for: no step of the lookup, which frees and  *)
(* loads inodes into the same in-core one, gave one of them away.          *)
OpenFileBacked ==
  FileOpen =>
    /\ Holds(fsb.info, "info") /\ Holds(fsb.mp, "mount")
    /\ Holds(fsb.ip, "inode") /\ Holds(fsb.buffer, "buffer")
    /\ ~trouble => ~Stale

(* What is left on the heap after a file was opened, loaded and closed     *)
(* with no failure on the way: _xfs_get_superblock()'s buffers and local   *)
(* data in blocks of their own, and nothing else of this file or of the    *)
(* directories on its path.                                                *)
OnlyKnownLeaks ==
  [][FileOpen /\ pc' = "idle" /\ ~trouble =>
       \A b \in DOMAIN alloc' \ base : alloc'[b] \in {"super", "data"}]_vars

(* Where the names of a path lead, one after the other from the root: to   *)
(* inodes, 0 for none.  Every component but the last is a directory that   *)
(* holds the next one.                                                     *)
Way(p) ==
  LET at[k \in 0 .. Len(p)] ==
        IF k = 0 THEN RootIno
        ELSE LET up == at[k - 1] IN
             IF up # 0 /\ Inodes[up].kind = "dir" /\ Inodes[up].linked
                /\ p[k] \in DOMAIN Inodes[up].entries
             THEN Inodes[up].entries[p[k]] ELSE 0
  IN at
Resolve(p) == Way(p)[Len(p)]

(* When the heap and the disk give no trouble, a path that leads somewhere *)
(* is opened and leads there, whatever formats its directories have: only  *)
(* then can the lookup's freeing and reading have been right.              *)
GoodPathOpens ==
  (Resolve(target) # 0 /\ ~trouble) =>
    /\ pc # "refused"
    /\ pc = "opened" => ip.no = Resolve(target)

(* Execute() comes back, or the access through a null pointer stopped the  *)
(* machine: the walk consumes the path even when its components are        *)
(* missing or cannot be read.                                              *)
ExecuteEnds == pc # "idle" ~> pc \in {"idle", "fault"}

(* "RETURNS: 1 on success 0 on failure" of _xfs_lookup_name(), which finds *)
(* "the file corresponding to the given file (filename)": what was opened  *)
(* is what the path leads to.  The code skips a directory that is not      *)
(* there and goes on with the next name.                                   *)
OpenedIsNamed == pc = "opened" => ip.no = Resolve(target)
=============================================================================
