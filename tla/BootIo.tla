------------------------------- MODULE BootIo --------------------------------
(***************************************************************************)
(* Descriptors and Execute(): Open(), Close(), open_fs_file(), Execute()   *)
(* and close_noncons() of fw/pv_stubs.c over the XFS file layer.           *)
(*                                                                         *)
(* The prompt and the programs it starts call the same Execute(); a        *)
(* program keeps descriptors of its own open meanwhile.  The program's     *)
(* contents are load_program()'s concern and are left out: it succeeds or  *)
(* fails.                                                                  *)
(***************************************************************************)
EXTENDS XfsOpen

CONSTANTS
  MAX_FDS,   (* descriptors, 0 and 1 being the console                     *)
  Paths,     (* the file system paths that are executed                    *)
  VhNames    (* the volume header's files that are executed, by whether    *)
             (* they are in its directory                                  *)

ASSUME BootAssumption ==
  /\ MAX_FDS \in Nat /\ MAX_FDS > 2
  /\ Paths \subseteq Seq(STRING) /\ VhNames \subseteq BOOLEAN

VARIABLES
  fdTable,   (* fd_table[].type of the descriptors from 2 on               *)
  fd,        (* the descriptor Execute() works with                        *)
  wanted,    (* the volume header's file is in its directory               *)
  running,   (* a program runs, and has not given control back             *)
  held       (* the descriptors programs opened and did not close          *)

ioVars == <<fdTable, fd, wanted, running, held>>
vars == <<alloc, dirv, fsb, ip, target, path, ret, next, base, trouble, pc,
          fdTable, fd, wanted, running, held>>

Fds == 2 .. MAX_FDS - 1
Types == {"unused", "disk", "xfs"}

Init ==
  /\ FsInit
  /\ fdTable = [i \in Fds |-> "unused"]
  /\ fd = 0 /\ wanted = FALSE /\ running = FALSE /\ held = {}

-----------------------------------------------------------------------------
Unused == {i \in Fds : fdTable[i] = "unused"}

FirstUnused == CHOOSE i \in Unused : \A j \in Unused : i <= j

(* Close(): an XFS file is closed with its descriptor.                     *)
Close(i) ==
  /\ fdTable' = [fdTable EXCEPT ![i] = "unused"]
  /\ IF fdTable[i] = "xfs" THEN FsClose ELSE UNCHANGED alloc

OpenVars == <<dirv, fsb, ip, target, path, ret, next, base, trouble>>
Over == Forgotten /\ fd' = 0 /\ wanted' = FALSE

(* Execute() on "/..." opens the file, loads it and closes it.             *)
ExecuteFile(p) ==
  /\ pc = "idle"
  /\ OpenFsFile(p)
  /\ UNCHANGED ioVars

Opening ==
  /\ OpenStep
  /\ UNCHANGED ioVars

(* open_fs_file() takes a descriptor when the file is open, and closes the *)
(* file when there is none.                                                *)
TakeFd ==
  /\ pc = "opened"
  /\ \/ /\ Unused # {}
        /\ fdTable' = [fdTable EXCEPT ![FirstUnused] = "xfs"]
        /\ fd' = FirstUnused /\ pc' = "load"
        /\ UNCHANGED <<alloc, wanted>> /\ UNCHANGED OpenVars
     \/ /\ Unused = {}
        /\ FsClose /\ Over
        /\ UNCHANGED fdTable
  /\ UNCHANGED <<running, held>>

(* Execute() on the volume header's directory: the disk's descriptor while *)
(* the directory is searched, and one of its own for the file.             *)
ExecuteVh(there) ==
  /\ pc = "idle" /\ Unused # {}
  /\ fdTable' = [fdTable EXCEPT ![FirstUnused] = "disk"]
  /\ fd' = FirstUnused /\ wanted' = there /\ pc' = "vh"
  /\ UNCHANGED OpenVars /\ UNCHANGED <<alloc, running, held>>

(* The volume header cannot be read, is none, or does not name the file.   *)
\* Mutant: an error return forgets the descriptor.
StillOpen ==
  /\ pc = "vh"
  /\ Over
  /\ UNCHANGED <<alloc, fdTable, running, held>>

VhFails ==
  /\ pc = "vh"
  /\ Close(fd) /\ Over
  /\ UNCHANGED <<running, held>>

VhFound ==
  /\ pc = "vh" /\ wanted
  /\ Close(fd) /\ pc' = "raw"
  /\ UNCHANGED <<fd, wanted, running, held>> /\ UNCHANGED OpenVars

(* One is free, the disk's own.                                            *)
RawFd ==
  /\ pc = "raw" /\ Unused # {}
  /\ fdTable' = [fdTable EXCEPT ![FirstUnused] = "disk"]
  /\ fd' = FirstUnused /\ pc' = "load"
  /\ UNCHANGED <<alloc, wanted, running, held>> /\ UNCHANGED OpenVars

(* Load() of a device path: the image is loaded and nothing is started.    *)
LoadDevice ==
  /\ pc = "idle" /\ Unused # {}
  /\ fdTable' = [fdTable EXCEPT ![FirstUnused] = "disk"]
  /\ fd' = FirstUnused /\ pc' = "image"
  /\ UNCHANGED OpenVars /\ UNCHANGED <<alloc, wanted, running, held>>

(* load_program(), Close() in either case, and the jump when it succeeded. *)
\* Mutant: the program is started before the descriptor is closed.
JumpFirst ==
  /\ pc \in {"load", "image"}
  /\ \/ Close(fd) /\ Over /\ UNCHANGED running
     \/ /\ pc = "load" /\ Over
        /\ running' = TRUE /\ UNCHANGED <<alloc, fdTable>>
  /\ UNCHANGED held

Load ==
  /\ pc \in {"load", "image"}
  /\ Close(fd) /\ Over
  /\ running' \in {running} \cup IF pc = "load" THEN {TRUE} ELSE {}
  /\ UNCHANGED held

Refused ==
  /\ pc = "refused"
  /\ Over
  /\ UNCHANGED <<alloc, fdTable, running, held>>

-----------------------------------------------------------------------------
(* What the program that runs asks for in between, and the end of it: a    *)
(* return to Execute()'s caller.  The monitor's loop marks every           *)
(* descriptor unused and closes none.                                      *)
ProgramOpens ==
  /\ pc = "idle" /\ running /\ Unused # {}
  /\ fdTable' = [fdTable EXCEPT ![FirstUnused] = "disk"]
  /\ held' = held \cup {FirstUnused}
  /\ UNCHANGED OpenVars /\ UNCHANGED <<alloc, pc, fd, wanted, running>>

ProgramCloses(i) ==
  /\ pc = "idle" /\ running
  /\ Close(i)
  /\ held' = held \ {i}
  /\ UNCHANGED <<pc, fd, wanted, running>> /\ UNCHANGED OpenVars

ProgramReturns ==
  /\ pc = "idle" /\ running
  /\ running' = FALSE
  /\ UNCHANGED OpenVars /\ UNCHANGED <<alloc, pc, fdTable, fd, wanted, held>>

CloseNoncons ==
  /\ pc = "idle" /\ ~running
  /\ fdTable' = [i \in Fds |-> "unused"]
  /\ held' = {}
  /\ UNCHANGED OpenVars /\ UNCHANGED <<alloc, pc, fd, wanted, running>>

Call ==
  \/ \E p \in Paths : ExecuteFile(p)
  \/ \E there \in VhNames : ExecuteVh(there)
  \/ LoadDevice \/ ProgramOpens \/ ProgramReturns \/ CloseNoncons
  \/ \E i \in Fds : ProgramCloses(i)

Step ==
  Opening \/ TakeFd \/ VhFails \/ VhFound \/ RawFd \/ Load \/ Refused

Next == Call \/ Step

(* One thread: a call that was made runs to its end.                       *)
Spec == Init /\ [][Next]_vars /\ WF_vars(Step)
=============================================================================
