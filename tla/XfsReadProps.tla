---------------------------- MODULE XfsReadProps ----------------------------
(***************************************************************************)
(* What reading an XFS file must guarantee, stated over XfsRead.           *)
(***************************************************************************)
EXTENDS XfsRead

Bytes == Nat

(* Every variable has its type.                                            *)
XfsTypeOK ==
  /\ file \in Files
  /\ position \in Nat /\ offset \in Nat /\ offset >= position
  /\ pc \in {"idle", "loop"}
  /\ len \in Lens \cup {0} /\ base \in 0 .. ALIGN - 1
  /\ count \in 0 .. len
  /\ exoff \in Int
  /\ DOMAIN buf \subseteq Nat /\ buf \in [DOMAIN buf -> Bytes]
  /\ result.how \in {"none", "ESUCCESS", "EIO"}
  /\ failed \in BOOLEAN

(* The byte of the file at offset o, from its extents alone: the disk's    *)
(* byte if an extent holds it, a zero in a hole.                           *)
FileByte(f, o) ==
  LET held == {k \in DOMAIN f.ext : o \div BSIZE \in f.ext[k].off .. f.ext[k].off + f.ext[k].len - 1}
  IN IF held = {} THEN ZERO
     ELSE LET e == f.ext[CHOOSE k \in held : TRUE]
          IN (e.start - e.off) * BSIZE + o

(* No transfer touches memory past the length the program gave, although   *)
(* whole blocks go straight to its buffer: a file block or a device read   *)
(* longer than what is left would overwrite what lies behind.              *)
InBounds == \A k \in DOMAIN buf : 0 <= k /\ k < len

(* Whatever mix of direct transfers, partial blocks and holes brought them *)
(* in, the bytes delivered so far are the file's bytes in order, and none  *)
(* is missing.                                                             *)
SliceRight ==
  pc = "loop" =>
    \A k \in 0 .. offset - position - 1 :
      k \in DOMAIN buf /\ buf[k] = FileByte(file, position + k)

(* A read ends, also on holes and at the end of the file: no iteration     *)
(* leaves the count where it was.                                          *)
ReadEnds == pc = "loop" ~> pc = "idle"

(* Read() and Seek() are those of an ordinary file with these contents: a  *)
(* success delivers everything up to the length or the end of the file and *)
(* moves the position past it, an error moves nothing.                     *)
Abstract == INSTANCE SeqFile WITH
  bytes <- [o \in 0 .. file.size - 1 |-> FileByte(file, o)], size <- file.size

ImplementsFile == Abstract!Spec

(* "The caller must look for a block number of -1 and assume a block of    *)
(* zeros" (xfs.c, _xfs_bmap): a hole reads as zeros, so EIO means that the *)
(* device failed.  _xfs_bmap() leaves ex_offset unset for a hole, and a    *)
(* read of part of one is refused or not by what lay on the stack.         *)
ErrorsFromDevice == [][result' # result /\ result'.how = "EIO" => failed]_vars
=============================================================================
