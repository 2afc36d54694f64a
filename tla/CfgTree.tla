------------------------------ MODULE CfgTree -------------------------------
(***************************************************************************)
(* The ARCS component tree (fw/pv_stubs.c): init_component_tree() builds   *)
(* the firmware's nodes from a static pool, and programs add theirs behind *)
(* them with AddChild(), which walks to the last peer one link at a time.  *)
(***************************************************************************)
EXTENDS Integers, Sequences

CONSTANT MAX_CFG_NODES     (* the nodes of the pool, 24                    *)

NULL == 0
NotInPool == -1            (* a COMPONENT of the program's own             *)

(* The calls of init_component_tree(), by the node each is added to: the   *)
(* system; the CPU with its FPU and two caches; memory; the SCSI adapter,  *)
(* its disk controller and the disk.                                       *)
Firmware == <<NULL, 1, 2, 2, 2, 1, 1, 7, 8>>

ASSUME CfgTreeAssumption == MAX_CFG_NODES \in Nat /\ Len(Firmware) <= MAX_CFG_NODES

VARIABLES
  nodes,     (* cfg_pool up to cfg_pool_used                               *)
  built,     (* the calls that init_component_tree() made                  *)
  newnode,   (* the node AddChild() is about to append, or NULL            *)
  peer       (* AddChild()'s walk                                          *)

treeVars == <<nodes, built, newnode, peer>>

Nodes == 1 .. Len(nodes)
Orphan == [parent |-> NULL, peer |-> NULL, child |-> NULL]

TreeInit == nodes = <<>> /\ built = 0 /\ newnode = NULL /\ peer = NULL

(* No parent, or none of the pool: a node that nothing leads to.  The      *)
(* first one is the root by its place.                                     *)
AddOrphan(p) ==
  /\ p \notin Nodes /\ Len(nodes) < MAX_CFG_NODES
  /\ nodes' = Append(nodes, Orphan)
  /\ UNCHANGED <<newnode, peer>>

AddFirst(p) ==
  /\ p \in Nodes /\ Len(nodes) < MAX_CFG_NODES
  /\ nodes[p].child = NULL
  /\ nodes' = Append([nodes EXCEPT ![p].child = Len(nodes) + 1], [Orphan EXCEPT !.parent = p])
  /\ UNCHANGED <<newnode, peer>>

AddLater(p) ==
  /\ p \in Nodes /\ Len(nodes) < MAX_CFG_NODES
  /\ nodes[p].child # NULL
  /\ nodes' = Append(nodes, [Orphan EXCEPT !.parent = p])
  /\ newnode' = Len(nodes) + 1 /\ peer' = nodes[p].child

(* cfg_alloc() has no node: the caller gets NULL.                          *)
NoNode == Len(nodes) >= MAX_CFG_NODES /\ UNCHANGED <<nodes, newnode, peer>>

AddChild(p) == newnode = NULL /\ (AddOrphan(p) \/ AddFirst(p) \/ AddLater(p) \/ NoNode)


\* Mutant: the walk stops at the first peer.
AnyPeer == TRUE

LastPeer == nodes[peer].peer = NULL

FollowPeer ==
  /\ newnode # NULL /\ ~LastPeer
  /\ peer' = nodes[peer].peer
  /\ UNCHANGED <<nodes, built, newnode>>

LinkPeer ==
  /\ newnode # NULL /\ LastPeer
  /\ nodes' = [nodes EXCEPT ![peer].peer = newnode]
  /\ newnode' = NULL /\ peer' = NULL
  /\ UNCHANGED built

InitComponentTree ==
  /\ built < Len(Firmware)
  /\ AddChild(Firmware[built + 1])
  /\ built' = built + 1

ProgramAdds ==
  /\ built = Len(Firmware)
  /\ \E p \in {NULL, NotInPool} \cup Nodes : AddChild(p)
  /\ UNCHANGED built

TreeNext == InitComponentTree \/ ProgramAdds \/ FollowPeer \/ LinkPeer

TreeSpec == TreeInit /\ [][TreeNext]_treeVars
=============================================================================
