------------------------------ MODULE Services ------------------------------
(***************************************************************************)
(* What a started program finds and calls: the component tree and the      *)
(* memory descriptors that _init_saio() made, and the search of            *)
(* directories behind Open() and Execute().  There is one thread, so a     *)
(* call ends before another begins.                                        *)
(***************************************************************************)
EXTENDS CfgTree, MemMap, DirLookup

CONSTANT Systems   (* the machines in a sequence, each with the numbers of
                      the directories of its disk and the names looked up  *)

ASSUME ServicesAssumption ==
  \A i \in DOMAIN Systems :
    LET s == Systems[i] IN
    s.machine \in Machine /\ s.dirs \subseteq DOMAIN Directories /\ s.names \subseteq Name

(* The hash of a name follows from its letters: an entry with the letters  *)
(* of the name that is looked up has its hash.                             *)
ASSUME HashAssumption ==
  \A i \in DOMAIN Systems : \A n \in Systems[i].names, d \in Systems[i].dirs :
    \A b \in DOMAIN Directories[d].blocks :
      LET names == Directories[d].blocks[b].names IN
      \A k \in DOMAIN names : names[k].id = n.id => names[k].hash = n.hash

VARIABLES
  sys,       (* the system, by its number                                  *)
  descs,     (* mem_descs up to num_mem_descs                              *)
  cur,       (* mem_getblock()'s descriptor, or 0                          *)
  block      (* the largest free block so far, or 0                        *)

mapVars == <<descs, cur, block>>
vars == <<nodes, built, newnode, peer, dir, name, where, dbno, len, buf, over, retval, inumber,
          failed, sys, descs, cur, block>>

Sys == Systems[sys]

Init ==
  /\ sys \in DOMAIN Systems
  /\ TreeInit /\ DirInit
  /\ descs = <<>> /\ cur = 0 /\ block = 0

Started == built = Len(Firmware) /\ newnode = NULL /\ descs # <<>>
NoCall == newnode = NULL /\ where = "no call" /\ cur = 0

InitMemoryDescriptors ==
  /\ built = Len(Firmware) /\ newnode = NULL /\ descs = <<>>
  /\ descs' = Descriptors(Sys.machine)
  /\ UNCHANGED <<cur, block, sys>> /\ UNCHANGED treeVars /\ UNCHANGED dirVars

(* mem_getblock(), called by boot_cmd().                                   *)
GetBlock ==
  /\ Started /\ NoCall
  /\ cur' = GetMemoryDescriptor(descs, 0) /\ block' = 0
  /\ UNCHANGED <<descs, sys>> /\ UNCHANGED treeVars /\ UNCHANGED dirVars

NextDescriptor ==
  /\ cur # 0
  /\ block' = IF Better(descs, block, cur) THEN cur ELSE block
  /\ cur' = GetMemoryDescriptor(descs, cur)
  /\ UNCHANGED <<descs, sys>> /\ UNCHANGED treeVars /\ UNCHANGED dirVars

TreeCall ==
  /\ \/ InitComponentTree \/ FollowPeer \/ LinkPeer
     \/ Started /\ NoCall /\ ProgramAdds
  /\ UNCHANGED sys /\ UNCHANGED mapVars /\ UNCHANGED dirVars

DirCall ==
  /\ \/ Started /\ NoCall /\ \E d \in Sys.dirs, n \in Sys.names : DirLookup(d, n)
     \/ DirStep
  /\ UNCHANGED sys /\ UNCHANGED mapVars /\ UNCHANGED treeVars

Next == InitMemoryDescriptors \/ GetBlock \/ NextDescriptor \/ TreeCall \/ DirCall

Spec == Init /\ [][Next]_vars
=============================================================================
