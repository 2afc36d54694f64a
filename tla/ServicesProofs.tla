--------------------------- MODULE ServicesProofs ---------------------------
(***************************************************************************)
(* Proofs about the component tree, the memory descriptors and the buffer  *)
(* of a directory search, for pools and tables of any size, every machine  *)
(* and every directory.                                                    *)
(***************************************************************************)
EXTENDS ServicesProps, WellFoundedInduction, TLAPS

(* A set of natural numbers that is not empty has a least one.             *)
LEMMA LeastNatural ==
  ASSUME NEW S, S \subseteq Nat, S # {}
  PROVE  \E i \in S : \A j \in S : i <= j
<1>. DEFINE Less == OpToRel(<, Nat)
<1>1. IsWellFoundedOn(Less, Nat)
  BY NatLessThanWellFounded
<1>2. PICK i \in S : \A j \in S : ~(<<j, i>> \in Less)
  <2>. HIDE DEF Less
  <2>. QED BY <1>1, WFMin
<1>3. \A j \in S : ~(j < i)
  BY <1>2 DEF OpToRel
<1>. QED BY <1>3

(* What holds of 0 and passes from each number to the next holds up to n.  *)
LEMMA CountUp ==
  ASSUME NEW n \in Nat, NEW S, 0 \in S, \A k \in 1 .. n : k - 1 \in S => k \in S
  PROVE  \A k \in 0 .. n : k \in S
<1>1. SUFFICES ASSUME NEW k \in 0 .. n, k \notin S PROVE FALSE
  OBVIOUS
<1>. DEFINE Missing == {m \in 0 .. n : m \notin S}
<1>2. PICK m \in Missing : \A j \in Missing : m <= j
  <2>1. Missing \subseteq Nat /\ Missing # {}
    BY <1>1
  <2>. QED BY <2>1, LeastNatural
<1>3. m \in 1 .. n /\ m - 1 \in 0 .. n /\ ~(m <= m - 1)
  OBVIOUS
<1>4. m - 1 \in S
  BY <1>2, <1>3
<1>. QED BY <1>3, <1>4

(* A function on 0 .. n given by its first value and by what each turn     *)
(* makes of the value before.                                              *)
Computes(h, n, V, b, turn) ==
  /\ h \in [0 .. n -> V] /\ h[0] = b
  /\ \A k \in 1 .. n : h[k] = turn[k][h[k - 1]]

LEMMA RecursionExists ==
  ASSUME NEW n \in Nat, NEW V, NEW b \in V, NEW turn \in [1 .. n -> [V -> V]]
  PROVE  \E h : Computes(h, n, V, b, turn)
<1>. DEFINE Upto(m, h) == h[0] = b /\ \A k \in 1 .. m : h[k] = turn[k][h[k - 1]]
            S == {m \in 0 .. n : \E h \in [0 .. m -> V] : Upto(m, h)}
<1>1. 0 \in S
  <2>1. Upto(0, [k \in 0 .. 0 |-> b]) /\ [k \in 0 .. 0 |-> b] \in [0 .. 0 -> V]
    OBVIOUS
  <2>. HIDE DEF Upto
  <2>. QED BY <2>1
<1>2. ASSUME NEW m \in 1 .. n, m - 1 \in S PROVE m \in S
  <2>1. PICK h \in [0 .. m - 1 -> V] : Upto(m - 1, h)
    BY <1>2
  <2>. DEFINE g == [k \in 0 .. m |-> IF k = m THEN turn[m][h[m - 1]] ELSE h[k]]
  <2>2. h[m - 1] \in V /\ turn[m] \in [V -> V]
    OBVIOUS
  <2>3. g \in [0 .. m -> V]
    <3>1. ASSUME NEW k \in 0 .. m PROVE g[k] \in V
      BY <2>2
    <3>. QED BY <3>1
  <2>4. Upto(m, g)
    <3>1. g[0] = b
      BY <2>1
    <3>2. ASSUME NEW k \in 1 .. m PROVE g[k] = turn[k][g[k - 1]]
      <4>1. k - 1 \in 0 .. m /\ k - 1 # m /\ g[k - 1] = h[k - 1]
        OBVIOUS
      <4>2. CASE k = m
        BY <4>1, <4>2
      <4>3. CASE k # m
        <5>1. k \in 1 .. m - 1 /\ g[k] = h[k]
          BY <4>3
        <5>2. h[k] = turn[k][h[k - 1]]
          BY <2>1, <5>1
        <5>. QED BY <4>1, <5>1, <5>2
      <4>. QED BY <4>2, <4>3
    <3>. QED BY <3>1, <3>2
  <2>. HIDE DEF Upto
  <2>. QED BY <2>3, <2>4
<1>. HIDE DEF S
<1>3. \A m \in 1 .. n : m - 1 \in S => m \in S
  BY <1>2
<1>4. \A m \in 0 .. n : m \in S
  BY <1>1, <1>3, CountUp
<1>5. n \in S
  BY <1>4
<1>. QED BY <1>5 DEF S, Computes

-----------------------------------------------------------------------------
(* The component tree.                                                     *)

CfgNode == [parent : Nat, peer : Nat, child : Nat]

(* What AddChild() knows of its walk: the node it appends is the last one, *)
(* has a parent and leads nowhere, nothing leads to it yet, and the walk   *)
(* is at a child of the same parent.                                       *)
WalkInv ==
  newnode # NULL =>
    /\ newnode = Len(nodes) /\ newnode \in Nodes /\ peer \in Nodes \ {newnode}
    /\ nodes[newnode].parent # NULL
    /\ nodes[newnode].child = NULL /\ nodes[newnode].peer = NULL
    /\ nodes[peer].parent = nodes[newnode].parent
    /\ \A m \in Nodes : nodes[m].child # newnode /\ nodes[m].peer # newnode

TreeInv == nodes \in Seq(CfgNode) /\ TreeSound /\ WalkInv

LEMMA Appended ==
  ASSUME NEW S, NEW s \in Seq(S), NEW e \in S
  PROVE  /\ Append(s, e) \in Seq(S) /\ Len(Append(s, e)) = Len(s) + 1
         /\ 1 .. Len(Append(s, e)) = (1 .. Len(s)) \cup {Len(s) + 1}
         /\ Len(s) + 1 \notin 1 .. Len(s) /\ Len(s) \in Nat
         /\ \A n \in 1 .. Len(s) : Append(s, e)[n] = s[n] /\ s[n] \in S
         /\ Append(s, e)[Len(s) + 1] = e
OBVIOUS

LEMMA Changed1 ==
  ASSUME NEW S, NEW s \in Seq(S), NEW p \in 1 .. Len(s), NEW e \in S
  PROVE  /\ [s EXCEPT ![p] = e] \in Seq(S) /\ Len([s EXCEPT ![p] = e]) = Len(s)
         /\ \A n \in 1 .. Len(s) : [s EXCEPT ![p] = e][n] = IF n = p THEN e ELSE s[n]
OBVIOUS

LEMMA Changed ==
  ASSUME NEW r \in CfgNode, NEW x \in Nat
  PROVE  /\ [r EXCEPT !.parent = x] = [parent |-> x, peer |-> r.peer, child |-> r.child]
         /\ [r EXCEPT !.peer = x] = [parent |-> r.parent, peer |-> x, child |-> r.child]
         /\ [r EXCEPT !.child = x] = [parent |-> r.parent, peer |-> r.peer, child |-> x]
         /\ r.parent \in Nat /\ r.peer \in Nat /\ r.child \in Nat
BY DEF CfgNode

(* The node that is appended is behind all others and nothing leads to it. *)
LEMMA Fresh1 ==
  ASSUME TreeInv
  PROVE  /\ Len(nodes) \in Nat /\ Nodes \subseteq Nat \ {0}
         /\ \A n \in Nodes : /\ n < Len(nodes) + 1 /\ nodes[n] \in CfgNode
                             /\ nodes[n].parent # Len(nodes) + 1
                             /\ nodes[n].peer # Len(nodes) + 1
                             /\ nodes[n].child # Len(nodes) + 1
<1>1. Len(nodes) \in Nat /\ Nodes = 1 .. Len(nodes) /\ \A n \in Nodes : nodes[n] \in CfgNode
  BY DEF TreeInv, Nodes
<1>2. \A n \in Nodes :
        /\ nodes[n].parent \in Nodes \cup {NULL}
        /\ nodes[n].peer \in Nodes \cup {NULL}
        /\ nodes[n].child \in Nodes \cup {NULL}
  BY DEF TreeInv, TreeSound, LinksAgree
<1> QED BY <1>1, <1>2 DEF NULL

LEMMA Links ==
  ASSUME TreeInv, NEW n \in Nodes
  PROVE  /\ nodes[n].parent # NULL => nodes[n].parent \in Nodes /\ nodes[n].parent < n
         /\ nodes[n].child # NULL =>
              /\ nodes[n].child \in Nodes /\ n < nodes[n].child
              /\ nodes[nodes[n].child].parent = n
         /\ nodes[n].peer # NULL =>
              /\ nodes[n].peer \in Nodes /\ n < nodes[n].peer /\ nodes[n].parent # NULL
              /\ nodes[nodes[n].peer].parent = nodes[n].parent
BY DEF TreeInv, TreeSound, LinksAgree

LEMMA OrphanKeepsTree ==
  ASSUME TreeInv, newnode = NULL, NEW p, AddOrphan(p)
  PROVE  TreeInv'
<1> DEFINE new == Len(nodes) + 1
<1>1. Orphan \in CfgNode /\ Orphan.parent = NULL /\ Orphan.peer = NULL /\ Orphan.child = NULL
  BY DEF Orphan, CfgNode, NULL
<1>2. /\ newnode' = NULL /\ nodes' \in Seq(CfgNode)
      /\ Nodes' = Nodes \cup {new} /\ new \notin Nodes
      /\ \A n \in Nodes : nodes'[n] = nodes[n]
      /\ nodes'[new] = Orphan
  BY <1>1, Appended DEF TreeInv, AddOrphan, Nodes
<1>3. LinksAgree'
  BY <1>1, <1>2, Fresh1 DEF TreeInv, TreeSound, LinksAgree, NULL
<1>4. EveryLed'
  BY <1>1, <1>2, Fresh1 DEF TreeInv, TreeSound, EveryLed, NULL
<1>5. LedOnce'
  BY <1>1, <1>2, Fresh1 DEF TreeInv, TreeSound, LedOnce, NULL
<1> QED BY <1>2, <1>3, <1>4, <1>5 DEF TreeInv, TreeSound, WalkInv

LEMMA FirstKeepsTree ==
  ASSUME TreeInv, newnode = NULL, NEW p, AddFirst(p)
  PROVE  TreeInv'
<1> DEFINE new == Len(nodes) + 1
           full == [nodes[p] EXCEPT !.child = new]
           old == [nodes EXCEPT ![p] = full]
           e == [Orphan EXCEPT !.parent = p]
<1>1. /\ p \in Nodes /\ nodes[p].child = NULL /\ nodes' = Append(old, e)
      /\ newnode' = NULL
  BY DEF AddFirst
<1>2. /\ new \in Nat /\ p \in Nat \ {0} /\ p < new /\ nodes[p] \in CfgNode
      /\ Orphan \in CfgNode
  BY <1>1, Fresh1 DEF Orphan, CfgNode, NULL
<1>3. e \in CfgNode /\ e.parent = p /\ e.peer = NULL /\ e.child = NULL
  BY <1>2, Changed DEF Orphan, CfgNode, NULL
<1>4. full \in CfgNode /\ full.parent = nodes[p].parent /\ full.peer = nodes[p].peer
      /\ full.child = new
  BY <1>2, Changed DEF CfgNode
<1> HIDE DEF full, e
<1>5. /\ old \in Seq(CfgNode) /\ Len(old) = Len(nodes)
      /\ \A n \in Nodes : old[n] = IF n = p THEN full ELSE nodes[n]
  BY <1>1, <1>4, Changed1 DEF TreeInv, Nodes
<1> HIDE DEF old
<1>6. /\ nodes' \in Seq(CfgNode)
      /\ Nodes' = Nodes \cup {new} /\ new \notin Nodes
      /\ \A n \in Nodes : nodes'[n] = IF n = p THEN full ELSE nodes[n]
      /\ nodes'[new] = e
  BY <1>1, <1>3, <1>5, Appended DEF Nodes
<1>7. \A n \in Nodes : /\ nodes'[n].parent = nodes[n].parent /\ nodes'[n].peer = nodes[n].peer
                       /\ nodes'[n].child = IF n = p THEN new ELSE nodes[n].child
  BY <1>4, <1>6
<1>8. nodes'[new].parent = p /\ nodes'[new].peer = NULL /\ nodes'[new].child = NULL
  BY <1>3, <1>6
<1> HIDE DEF new
<1>9. LinksAgree'
  <2> SUFFICES ASSUME NEW n \in Nodes'
               PROVE  /\ nodes'[n].parent # NULL => nodes'[n].parent \in Nodes' /\ nodes'[n].parent < n
                      /\ nodes'[n].child # NULL =>
                           /\ nodes'[n].child \in Nodes' /\ n < nodes'[n].child
                           /\ nodes'[nodes'[n].child].parent = n
                      /\ nodes'[n].peer # NULL =>
                           /\ nodes'[n].peer \in Nodes' /\ n < nodes'[n].peer
                           /\ nodes'[n].parent # NULL
                           /\ nodes'[nodes'[n].peer].parent = nodes'[n].parent
    BY DEF LinksAgree
  <2>1. CASE n = new
    BY <2>1, <1>1, <1>2, <1>6, <1>8
  <2>2. CASE n \in Nodes
    <3>1. nodes'[n].parent = nodes[n].parent /\ nodes'[n].peer = nodes[n].peer
      BY <2>2, <1>7
    <3>2. nodes'[n].parent # NULL => nodes'[n].parent \in Nodes' /\ nodes'[n].parent < n
      BY <2>2, <3>1, <1>6, Links
    <3>3. nodes'[n].child # NULL /\ n # p =>
            /\ nodes'[n].child \in Nodes' /\ n < nodes'[n].child
            /\ nodes'[nodes'[n].child].parent = n
      BY <2>2, <1>6, <1>7, Links
    <3>4. nodes'[n].peer # NULL =>
            /\ nodes'[n].peer \in Nodes' /\ n < nodes'[n].peer
            /\ nodes'[n].parent # NULL
            /\ nodes'[nodes'[n].peer].parent = nodes'[n].parent
      BY <2>2, <3>1, <1>6, <1>7, Links
    <3>5. n = p => /\ nodes'[n].child \in Nodes' /\ n < nodes'[n].child
                   /\ nodes'[nodes'[n].child].parent = n
      BY <2>2, <1>2, <1>6, <1>7, <1>8
    <3> QED BY <3>2, <3>3, <3>4, <3>5
  <2> QED BY <2>1, <2>2, <1>6
<1>10. EveryLed'
  <2> SUFFICES ASSUME NEW n \in Nodes', nodes'[n].parent # NULL
               PROVE  \E m \in Nodes' : nodes'[m].child = n \/ nodes'[m].peer = n
    BY DEF EveryLed
  <2>1. CASE n = new
    BY <2>1, <1>1, <1>6, <1>7
  <2>2. CASE n \in Nodes
    <3>1. PICK m \in Nodes : nodes[m].child = n \/ nodes[m].peer = n
      BY <2>2, <1>7, Fresh1 DEF TreeInv, TreeSound, EveryLed, NULL
    <3> QED BY <2>2, <3>1, <1>1, <1>6, <1>7, Fresh1 DEF NULL
  <2> QED BY <2>1, <2>2, <1>6
<1>11. LedOnce'
  <2>1. \A n \in Nodes : nodes[n].peer # new
    BY Fresh1 DEF new
  <2> SUFFICES ASSUME NEW m \in Nodes', NEW n \in Nodes'
               PROVE  /\ nodes'[m].peer = nodes'[n].peer /\ nodes'[m].peer # NULL => m = n
                      /\ nodes'[m].child = nodes'[n].peer => nodes'[m].child = NULL
    BY DEF LedOnce
  <2>2. CASE m \in Nodes /\ n \in Nodes
    BY <2>1, <2>2, <1>7 DEF TreeInv, TreeSound, LedOnce
  <2>3. CASE m = new \/ n = new
    BY <2>3, <1>6, <1>7, <1>8
  <2> QED BY <2>2, <2>3, <1>6
<1> QED BY <1>1, <1>6, <1>9, <1>10, <1>11 DEF TreeInv, TreeSound, WalkInv

LEMMA LaterKeepsTree ==
  ASSUME TreeInv, newnode = NULL, NEW p, AddLater(p)
  PROVE  TreeInv'
<1> DEFINE new == Len(nodes) + 1
           e == [Orphan EXCEPT !.parent = p]
<1>1. /\ p \in Nodes /\ nodes[p].child # NULL /\ nodes' = Append(nodes, e)
      /\ newnode' = new /\ peer' = nodes[p].child
  BY DEF AddLater
<1>2. new \in Nat /\ p \in Nat \ {0} /\ p < new /\ Orphan \in CfgNode
  BY <1>1, Fresh1 DEF Orphan, CfgNode, NULL
<1>3. e \in CfgNode /\ e.parent = p /\ e.peer = NULL /\ e.child = NULL
  BY <1>2, Changed DEF Orphan, CfgNode, NULL
<1> HIDE DEF e
<1>4. /\ nodes' \in Seq(CfgNode) /\ Len(nodes') = new
      /\ Nodes' = Nodes \cup {new} /\ new \notin Nodes
      /\ \A n \in Nodes : nodes'[n] = nodes[n]
      /\ nodes'[new] = e
  BY <1>1, <1>3, Appended DEF TreeInv, Nodes
<1>5. /\ nodes'[new].parent = p /\ nodes'[new].peer = NULL /\ nodes'[new].child = NULL
      /\ \A n \in Nodes : nodes[n].child # new /\ nodes[n].peer # new
  BY <1>3, <1>4, Fresh1
<1> HIDE DEF new
<1>6. LinksAgree'
  <2> SUFFICES ASSUME NEW n \in Nodes'
               PROVE  /\ nodes'[n].parent # NULL => nodes'[n].parent \in Nodes' /\ nodes'[n].parent < n
                      /\ nodes'[n].child # NULL =>
                           /\ nodes'[n].child \in Nodes' /\ n < nodes'[n].child
                           /\ nodes'[nodes'[n].child].parent = n
                      /\ nodes'[n].peer # NULL =>
                           /\ nodes'[n].peer \in Nodes' /\ n < nodes'[n].peer
                           /\ nodes'[n].parent # NULL
                           /\ nodes'[nodes'[n].peer].parent = nodes'[n].parent
    BY DEF LinksAgree
  <2>1. CASE n = new
    BY <2>1, <1>1, <1>2, <1>4, <1>5
  <2>2. CASE n \in Nodes
    BY <2>2, <1>4, Links
  <2> QED BY <2>1, <2>2, <1>4
<1>7. EveryLed' /\ LedOnce'
  <2>1. EveryLed'
    <3> SUFFICES ASSUME NEW n \in Nodes' \ {newnode'}, nodes'[n].parent # NULL
                 PROVE  \E m \in Nodes' : nodes'[m].child = n \/ nodes'[m].peer = n
      BY DEF EveryLed
    <3>1. n \in Nodes
      BY <1>1, <1>4
    <3>2. n # newnode
      BY <3>1, Fresh1 DEF NULL
    <3>3. PICK m \in Nodes : nodes[m].child = n \/ nodes[m].peer = n
      BY <3>1, <3>2, <1>4 DEF TreeInv, TreeSound, EveryLed
    <3> QED BY <3>3, <1>4
  <2>2. LedOnce'
    BY <1>4, <1>5 DEF TreeInv, TreeSound, LedOnce
  <2> QED BY <2>1, <2>2
<1>8. WalkInv'
  <2>1. nodes[p].child \in Nodes /\ nodes[nodes[p].child].parent = p
    BY <1>1, Links
  <2>2. newnode' = new /\ new = Len(nodes') /\ new \in Nodes' /\ p # NULL
    BY <1>1, <1>2, <1>4 DEF NULL
  <2>3. peer' = nodes[p].child /\ peer' \in Nodes /\ peer' # new /\ peer' \in Nodes'
    BY <2>1, <1>1, <1>4
  <2>4. nodes'[peer'].parent = p
    BY <2>1, <2>3, <1>4
  <2>5. \A m \in Nodes' : nodes'[m].child # new /\ nodes'[m].peer # new
    <3>1. new # NULL
      BY <1>2 DEF NULL
    <3> QED BY <3>1, <1>4, <1>5
  <2> QED BY <2>2, <2>3, <2>4, <2>5, <1>5 DEF WalkInv
<1> QED BY <1>4, <1>6, <1>7, <1>8 DEF TreeInv, TreeSound

LEMMA FollowKeepsTree ==
  ASSUME TreeInv, FollowPeer
  PROVE  TreeInv'
<1>1. LinksAgree' /\ EveryLed' /\ LedOnce'
  BY DEF TreeInv, TreeSound, LinksAgree, EveryLed, LedOnce, FollowPeer, Nodes
<1>2. WalkInv'
  BY DEF TreeInv, TreeSound, LinksAgree, WalkInv, FollowPeer, LastPeer, Nodes
<1> QED BY <1>1, <1>2 DEF TreeInv, TreeSound, FollowPeer

LEMMA LinkKeepsTree ==
  ASSUME TreeInv, LinkPeer
  PROVE  TreeInv'
<1> DEFINE e == [nodes[peer] EXCEPT !.peer = newnode]
<1>1. /\ newnode \in Nodes /\ newnode # NULL /\ peer \in Nodes \ {newnode} /\ newnode = Len(nodes)
      /\ nodes[peer].peer = NULL /\ newnode' = NULL /\ nodes' = [nodes EXCEPT ![peer] = e]
  BY DEF TreeInv, WalkInv, LinkPeer, LastPeer
<1>2. newnode \in Nat /\ peer \in Nat /\ peer < newnode /\ nodes[peer] \in CfgNode
  BY <1>1, Fresh1
<1>3. e \in CfgNode /\ e.parent = nodes[peer].parent /\ e.child = nodes[peer].child /\ e.peer = newnode
  BY <1>2, Changed DEF CfgNode
<1> HIDE DEF e
<1>4. /\ nodes' \in Seq(CfgNode) /\ Nodes' = Nodes
      /\ \A n \in Nodes : nodes'[n] = IF n = peer THEN e ELSE nodes[n]
  BY <1>1, <1>3, Changed1 DEF TreeInv, Nodes
<1>5. \A n \in Nodes : /\ nodes'[n].parent = nodes[n].parent /\ nodes'[n].child = nodes[n].child
                       /\ nodes'[n].peer = IF n = peer THEN newnode ELSE nodes[n].peer
  BY <1>3, <1>4
<1>6. LinksAgree'
  BY <1>1, <1>2, <1>4, <1>5 DEF TreeInv, TreeSound, LinksAgree, WalkInv
<1>7. EveryLed'
  BY <1>1, <1>2, <1>4, <1>5 DEF TreeInv, TreeSound, EveryLed, WalkInv
<1>8. LedOnce'
  BY <1>1, <1>2, <1>4, <1>5 DEF TreeInv, TreeSound, LedOnce, WalkInv
<1> QED BY <1>1, <1>4, <1>6, <1>7, <1>8 DEF TreeInv, TreeSound, WalkInv

LEMMA TreeUnchanged ==
  ASSUME TreeInv, UNCHANGED treeVars
  PROVE  TreeInv'
BY DEF TreeInv, TreeSound, LinksAgree, EveryLed, LedOnce, WalkInv, Nodes, treeVars

LEMMA AddKeepsTree ==
  ASSUME TreeInv, NEW p, AddChild(p)
  PROVE  TreeInv'
<1>1. newnode = NULL
  BY DEF AddChild
<1>2. CASE NoNode
  BY <1>2 DEF TreeInv, TreeSound, LinksAgree, EveryLed, LedOnce, WalkInv, Nodes, NoNode
<1> QED BY <1>1, <1>2, OrphanKeepsTree, FirstKeepsTree, LaterKeepsTree DEF AddChild

(* However many nodes the pool has and whatever is added, and at every     *)
(* moment of AddChild(), the links of the tree agree and every node that   *)
(* has a parent is led to once.                                            *)
THEOREM TreeAlwaysSound == Spec => []TreeSound
<1>1. Init => TreeInv
  BY DEF Init, TreeInit, TreeInv, TreeSound, LinksAgree, EveryLed, LedOnce, WalkInv, Nodes, NULL
<1>2. TreeInv /\ [Next]_vars => TreeInv'
  <2> SUFFICES ASSUME TreeInv, [Next]_vars PROVE TreeInv'
    OBVIOUS
  <2>1. CASE TreeCall
    BY <2>1, AddKeepsTree, FollowKeepsTree, LinkKeepsTree
       DEF TreeCall, InitComponentTree, ProgramAdds
  <2>2. CASE InitMemoryDescriptors \/ GetBlock \/ NextDescriptor \/ DirCall \/ UNCHANGED vars
    <3>1. UNCHANGED treeVars
      BY <2>2 DEF InitMemoryDescriptors, GetBlock, NextDescriptor, DirCall, vars, treeVars
    <3> QED BY <3>1, TreeUnchanged
  <2> QED BY <2>1, <2>2 DEF Next
<1>3. TreeInv => TreeSound
  BY DEF TreeInv
<1> QED BY <1>1, <1>2, <1>3, PTL DEF Spec
-----------------------------------------------------------------------------
(* The memory descriptors.                                                 *)

MemType == {"ExceptionBlock", "SPBPage", "FirmwareTemporary", "FirmwarePermanent", "FreeMemory"}
Descriptor == [Type : MemType, BasePage : Int, PageCount : Int]

LEMMA Joined ==
  ASSUME NEW s \in Seq(Descriptor), NEW t \in Seq(Descriptor)
  PROVE  /\ s \o t \in Seq(Descriptor) /\ Len(s \o t) = Len(s) + Len(t)
         /\ Len(s) \in Nat /\ Len(t) \in Nat
         /\ \A i \in 1 .. Len(s) : (s \o t)[i] = s[i]
         /\ \A i \in 1 .. Len(t) : (s \o t)[Len(s) + i] = t[i]
OBVIOUS

LEMMA DIs ==
  ASSUME NEW t \in MemType, NEW b \in Int, NEW n \in Int
  PROVE  /\ D(t, b, n) \in Descriptor
         /\ D(t, b, n).Type = t /\ D(t, b, n).BasePage = b /\ D(t, b, n).PageCount = n
         /\ End(D(t, b, n)) = b + n
BY DEF D, Descriptor, End

LEMMA RamIs ==
  ASSUME NEW m \in Machine
  PROVE  /\ RamMB(m) \in Nat /\ RamMB(m) >= 64
         /\ RamEnd(m) \in Nat /\ 49152 <= RamEnd(m) /\ RamEnd(m) <= 98304
         /\ RamMB(m) <= 64 => RamEnd(m) = 49152
BY DEF Machine, RamMB, RamEnd, Smaller

(* What lies in a zone of its own, piece by piece.                         *)
Piecewise(s) ==
  \A i, j \in DOMAIN s : i # j => Apart(s[i], s[j])
Within(s, lo, hi) ==
  \A i \in DOMAIN s : lo <= s[i].BasePage /\ s[i].BasePage <= End(s[i]) /\ End(s[i]) <= hi

LEMMA LowIs ==
  /\ Low \in Seq(Descriptor) /\ Len(Low) = 7
  /\ Piecewise(Low) /\ Within(Low, 0, START)
  /\ Low[4].BasePage = 32768
  /\ \A i \in 1 .. 7 : Low[i].Type = "FreeMemory" =>
       Low[i].BasePage = 33792 /\ End(Low[i]) = 48896
  /\ \A i \in 1 .. 7 : Low[i].BasePage >= 32768 =>
       End(Low[i]) = START \/ \E j \in 1 .. 7 : Low[j].BasePage = End(Low[i])
<1>1. Low \in Seq(Descriptor) /\ Len(Low) = 7
  <2>1. /\ D("ExceptionBlock", 0, 1) \in Descriptor /\ D("SPBPage", 1, 1) \in Descriptor
        /\ D("FirmwareTemporary", 2, 766) \in Descriptor
        /\ D("FirmwareTemporary", 32768, 2) \in Descriptor
        /\ D("FirmwareTemporary", 32770, 1022) \in Descriptor
        /\ D("FreeMemory", 33792, 15104) \in Descriptor
        /\ D("FirmwarePermanent", 48896, 256) \in Descriptor
    BY DEF D, Descriptor, MemType
  <2> QED BY <2>1 DEF Low
<1>2. /\ Low[1] = D("ExceptionBlock", 0, 1) /\ Low[2] = D("SPBPage", 1, 1)
      /\ Low[3] = D("FirmwareTemporary", 2, 766) /\ Low[4] = D("FirmwareTemporary", 32768, 2)
      /\ Low[5] = D("FirmwareTemporary", 32770, 1022)
      /\ Low[6] = D("FreeMemory", 33792, 15104) /\ Low[7] = D("FirmwarePermanent", 48896, 256)
  BY DEF Low
<1>3. /\ Low[1].Type # "FreeMemory" /\ Low[1].BasePage = 0 /\ End(Low[1]) = 1
      /\ Low[2].Type # "FreeMemory" /\ Low[2].BasePage = 1 /\ End(Low[2]) = 2
      /\ Low[3].Type # "FreeMemory" /\ Low[3].BasePage = 2 /\ End(Low[3]) = 768
      /\ Low[4].Type # "FreeMemory" /\ Low[4].BasePage = 32768 /\ End(Low[4]) = 32770
      /\ Low[5].Type # "FreeMemory" /\ Low[5].BasePage = 32770 /\ End(Low[5]) = 33792
      /\ Low[6].Type = "FreeMemory" /\ Low[6].BasePage = 33792 /\ End(Low[6]) = 48896
      /\ Low[7].Type # "FreeMemory" /\ Low[7].BasePage = 48896 /\ End(Low[7]) = 49152
  <2>1. Low[1].Type = "ExceptionBlock" /\ Low[1].BasePage = 0 /\ End(Low[1]) = 1
    BY <1>2 DEF D, End
  <2>2. Low[2].Type = "SPBPage" /\ Low[2].BasePage = 1 /\ End(Low[2]) = 2
    BY <1>2 DEF D, End
  <2>3. Low[3].Type = "FirmwareTemporary" /\ Low[3].BasePage = 2 /\ End(Low[3]) = 768
    BY <1>2 DEF D, End
  <2>4. Low[4].Type = "FirmwareTemporary" /\ Low[4].BasePage = 32768 /\ End(Low[4]) = 32770
    BY <1>2 DEF D, End
  <2>5. Low[5].Type = "FirmwareTemporary" /\ Low[5].BasePage = 32770 /\ End(Low[5]) = 33792
    BY <1>2 DEF D, End
  <2>6. Low[6].Type = "FreeMemory" /\ Low[6].BasePage = 33792 /\ End(Low[6]) = 48896
    BY <1>2 DEF D, End
  <2>7. Low[7].Type = "FirmwarePermanent" /\ Low[7].BasePage = 48896 /\ End(Low[7]) = 49152
    BY <1>2 DEF D, End
  <2> QED BY <2>1, <2>2, <2>3, <2>4, <2>5, <2>6, <2>7
<1>4. DOMAIN Low = 1 .. 7 /\ 1 .. 7 = {1, 2, 3, 4, 5, 6, 7}
  BY <1>1
<1>5. Piecewise(Low)
  BY <1>3, <1>4 DEF Piecewise, Apart
<1>6. Within(Low, 0, START)
  BY <1>3, <1>4 DEF Within, START
<1>7. \A i \in 1 .. 7 : Low[i].Type = "FreeMemory" =>
        Low[i].BasePage = 33792 /\ End(Low[i]) = 48896
  BY <1>3, <1>4
<1>8. \A i \in 1 .. 7 : Low[i].BasePage >= 32768 =>
        End(Low[i]) = START \/ \E j \in 1 .. 7 : Low[j].BasePage = End(Low[i])
  BY <1>3, <1>4 DEF START
<1> QED BY <1>1, <1>3, <1>5, <1>6, <1>7, <1>8
AboveFits(m) ==
  /\ Above64(m) \in Seq(Descriptor) /\ Len(Above64(m)) \in 0 .. 3
  /\ Piecewise(Above64(m)) /\ Within(Above64(m), START, RamEnd(m))
  /\ \A i \in DOMAIN Above64(m) :
       /\ Above64(m)[i].Type = "FreeMemory" =>
            End(Above64(m)[i]) <= HEARTLO \/ HEARTHI <= Above64(m)[i].BasePage
       /\ End(Above64(m)[i]) = RamEnd(m)
            \/ \E j \in DOMAIN Above64(m) : Above64(m)[j].BasePage = End(Above64(m)[i])
  /\ IF Len(Above64(m)) = 0 THEN RamEnd(m) = START ELSE Above64(m)[1].BasePage = START

LEMMA AboveIs ==
  ASSUME NEW m \in Machine
  PROVE  AboveFits(m)
<1>1. /\ RamMB(m) \in Nat /\ RamMB(m) >= 64
      /\ RamEnd(m) \in Nat /\ START <= RamEnd(m) /\ RamEnd(m) <= 98304
      /\ RamMB(m) <= 64 => RamEnd(m) = START
  BY RamIs DEF START
<1>2. CASE RamMB(m) <= 64
  <2>1. Above64(m) = <<>>
    BY <1>2 DEF Above64
  <2> QED BY <1>1, <1>2, <2>1 DEF AboveFits, Piecewise, Within
<1>3. CASE RamMB(m) > 64 /\ RamEnd(m) <= HEARTLO
  <2> DEFINE s == Above64(m)
  <2>1. /\ s = <<D("FreeMemory", START, RamEnd(m) - START)>>
        /\ D("FreeMemory", START, RamEnd(m) - START) \in Descriptor
    BY <1>1, <1>3 DEF Above64, D, Descriptor, MemType, START, HEARTLO, HEARTHI
  <2>2. s \in Seq(Descriptor) /\ Len(s) = 1 /\ DOMAIN s = {1}
    BY <2>1
  <2>3. s[1].Type = "FreeMemory" /\ s[1].BasePage = START /\ End(s[1]) = RamEnd(m)
    BY <1>1, <2>1 DEF D, End, START, HEARTLO, HEARTHI
  <2> HIDE DEF s
  <2>4. Piecewise(s)
    BY <1>1, <1>3, <2>2, <2>3 DEF Piecewise, Apart, START, HEARTLO, HEARTHI
  <2>5. Within(s, START, RamEnd(m))
    BY <1>1, <1>3, <2>2, <2>3 DEF Within, START, HEARTLO, HEARTHI
  <2>6. \A i \in DOMAIN s :
          /\ s[i].Type = "FreeMemory" => End(s[i]) <= HEARTLO \/ HEARTHI <= s[i].BasePage
          /\ End(s[i]) = RamEnd(m) \/ \E j \in DOMAIN s : s[j].BasePage = End(s[i])
    BY <1>1, <1>3, <2>2, <2>3 DEF START, HEARTLO, HEARTHI
  <2> QED BY <2>2, <2>3, <2>4, <2>5, <2>6 DEF AboveFits, s
<1>4. ~(HEARTLO < RamEnd(m) /\ RamEnd(m) <= HEARTHI)      (* it ends with a MB *)
  <2>1. PICK k \in Nat : RamEnd(m) = 32768 + 256 * k
    BY <1>1 DEF RamEnd, Smaller
  <2> QED BY <2>1 DEF HEARTLO, HEARTHI
<1>5. CASE RamMB(m) > 64 /\ HEARTHI < RamEnd(m)
  <2> DEFINE s == Above64(m)
  <2>1. /\ s = <<D("FreeMemory", START, HEARTLO - START),
               D("FirmwarePermanent", HEARTLO, HEARTHI - HEARTLO),
               D("FreeMemory", HEARTHI, RamEnd(m) - HEARTHI)>>
        /\ D("FreeMemory", START, HEARTLO - START) \in Descriptor
        /\ D("FirmwarePermanent", HEARTLO, HEARTHI - HEARTLO) \in Descriptor
        /\ D("FreeMemory", HEARTHI, RamEnd(m) - HEARTHI) \in Descriptor
    BY <1>1, <1>5 DEF Above64, D, Descriptor, MemType, START, HEARTLO, HEARTHI
  <2>2. s \in Seq(Descriptor) /\ Len(s) = 3 /\ DOMAIN s = {1, 2, 3}
    BY <2>1
  <2>3. s[1].Type = "FreeMemory" /\ s[1].BasePage = START /\ End(s[1]) = HEARTLO
    BY <1>1, <2>1 DEF D, End, START, HEARTLO, HEARTHI
  <2>4. s[2].Type # "FreeMemory" /\ s[2].BasePage = HEARTLO /\ End(s[2]) = HEARTHI
    BY <1>1, <2>1 DEF D, End, START, HEARTLO, HEARTHI
  <2>5. s[3].Type = "FreeMemory" /\ s[3].BasePage = HEARTHI /\ End(s[3]) = RamEnd(m)
    BY <1>1, <2>1 DEF D, End, START, HEARTLO, HEARTHI
  <2> HIDE DEF s
  <2>6. Piecewise(s)
    BY <1>1, <1>5, <2>2, <2>3, <2>4, <2>5 DEF Piecewise, Apart, START, HEARTLO, HEARTHI
  <2>7. Within(s, START, RamEnd(m))
    BY <1>1, <1>5, <2>2, <2>3, <2>4, <2>5 DEF Within, START, HEARTLO, HEARTHI
  <2>8. \A i \in DOMAIN s :
          /\ s[i].Type = "FreeMemory" => End(s[i]) <= HEARTLO \/ HEARTHI <= s[i].BasePage
          /\ End(s[i]) = RamEnd(m) \/ \E j \in DOMAIN s : s[j].BasePage = End(s[i])
    BY <1>1, <1>5, <2>2, <2>3, <2>4, <2>5 DEF START, HEARTLO, HEARTHI
  <2> QED BY <2>2, <2>3, <2>6, <2>7, <2>8 DEF AboveFits, s
<1> QED BY <1>1, <1>2, <1>3, <1>4, <1>5 DEF HEARTLO, HEARTHI

HighFits(m) ==
  /\ HighBank(m) \in Seq(Descriptor) /\ Len(HighBank(m)) \in 0 .. 1
  /\ \A i \in DOMAIN HighBank(m) :
       LET d == HighBank(m)[i] IN
       /\ 98304 <= d.BasePage /\ d.BasePage <= End(d)
       /\ 4 * d.BasePage = m.highBase /\ 4 * End(d) <= m.highBase + m.highSize

LEMMA Quarters ==
  ASSUME NEW a \in Nat
  PROVE  a \div 4 \in Nat /\ 4 * (a \div 4) <= a /\ (a % 4 = 0 => 4 * (a \div 4) = a)
OBVIOUS

LEMMA HighIs ==
  ASSUME NEW m \in Machine
  PROVE  HighFits(m)
<1>1. /\ m.highBase \in Nat /\ m.highBase >= 4 * 98304 /\ m.highBase % 4 = 0
      /\ m.highSize \in Nat
  BY DEF Machine
<1> DEFINE b == m.highBase \div 4
           n == m.highSize \div 4
           d == D("FreeMemory", b, n)
<1>2. b \in Nat /\ n \in Nat /\ 4 * b = m.highBase /\ 4 * n <= m.highSize
  BY <1>1, Quarters
<1>3. CASE m.highSize = 0
  BY <1>3 DEF HighFits, HighBank
<1>4. CASE m.highSize # 0
  <2>1. HighBank(m) = <<d>>
    BY <1>4 DEF HighBank
  <2> HIDE DEF b, n
  <2>2. d \in Descriptor /\ d.BasePage = b /\ End(d) = b + n
    BY <1>2 DEF D, End, Descriptor, MemType
  <2> HIDE DEF d
  <2>3. Len(HighBank(m)) = 1 /\ DOMAIN HighBank(m) = {1} /\ HighBank(m)[1] = d
        /\ HighBank(m) \in Seq(Descriptor)
    BY <2>1, <2>2
  <2> QED BY <1>1, <1>2, <2>2, <2>3 DEF HighFits
<1> QED BY <1>3, <1>4
(* All of them fit, the PROM's own first, those of the main memory above   *)
(* it next and the bank behind.                                            *)
LEMMA WantedIs ==
  ASSUME NEW m \in Machine
  PROVE  LET w == Wanted(m)  a == Len(Above64(m))  h == Len(HighBank(m)) IN
         /\ Descriptors(m) = w /\ w \in Seq(Descriptor)
         /\ a \in 0 .. 3 /\ h \in 0 .. 1 /\ Len(w) = 7 + a + h
         /\ \A i \in 1 .. 7 : w[i] = Low[i]
         /\ \A i \in 1 .. a : w[7 + i] = Above64(m)[i]
         /\ \A i \in 1 .. h : w[7 + a + i] = HighBank(m)[i]
<1> DEFINE s == Above64(m)
           t == HighBank(m)
           v == Low \o s
           w == v \o t
<1>1. /\ Low \in Seq(Descriptor) /\ Len(Low) = 7
      /\ s \in Seq(Descriptor) /\ Len(s) \in 0 .. 3
      /\ t \in Seq(Descriptor) /\ Len(t) \in 0 .. 1
  BY LowIs, AboveIs, HighIs DEF AboveFits, HighFits
<1> HIDE DEF s, t
<1>2. /\ v \in Seq(Descriptor) /\ Len(v) = 7 + Len(s)
      /\ \A i \in 1 .. 7 : v[i] = Low[i]
      /\ \A i \in 1 .. Len(s) : v[7 + i] = s[i]
  <2>1. /\ v \in Seq(Descriptor) /\ Len(v) = Len(Low) + Len(s)
        /\ \A i \in 1 .. Len(Low) : v[i] = Low[i]
        /\ \A i \in 1 .. Len(s) : v[Len(Low) + i] = s[i]
    BY <1>1, Joined, Zenon
  <2> HIDE DEF v
  <2> QED BY <1>1, <2>1
<1> HIDE DEF v
<1>3. /\ w \in Seq(Descriptor) /\ Len(w) = Len(v) + Len(t)
      /\ \A i \in 1 .. Len(v) : w[i] = v[i]
      /\ \A i \in 1 .. Len(t) : w[Len(v) + i] = t[i]
  BY <1>1, <1>2, Joined, Zenon
<1> HIDE DEF w
<1>4. Wanted(m) = w
  BY DEF Wanted, w, v, s, t
<1>5. Len(w) \in Nat /\ Len(w) <= MAX_MEM_DESCS /\ MAX_MEM_DESCS \in Nat
  <2>1. Len(w) = Len(v) + Len(t)
    BY <1>3
  <2>2. Len(v) = 7 + Len(s)
    BY <1>2
  <2>3. Len(s) \in 0 .. 3 /\ Len(t) \in 0 .. 1
    BY <1>1
  <2>4. \A x \in 0 .. 3, y \in 0 .. 1 : 7 + x + y \in Nat /\ 7 + x + y <= MAX_MEM_DESCS
    BY MemMapAssumption
  <2> QED BY <2>1, <2>2, <2>3, <2>4, MemMapAssumption, Zenon
<1>6. Descriptors(m) = w
  <2>1. Smaller(Len(w), MAX_MEM_DESCS) = Len(w)
    BY <1>5 DEF Smaller
  <2>2. SubSeq(w, 1, Len(w)) = w
    BY <1>3
  <2> QED BY <1>4, <2>1, <2>2 DEF Descriptors
<1>7. \A i \in 1 .. 7 : w[i] = Low[i]
  BY <1>1, <1>2, <1>3
<1>8. ASSUME NEW i \in 1 .. Len(s) PROVE w[7 + i] = s[i]
  <2>1. 7 + i \in 1 .. Len(v)
    BY <1>1, <1>2
  <2> QED BY <1>2, <1>3, <2>1
<1>9. Len(w) = 7 + Len(s) + Len(t) /\ \A i \in 1 .. Len(t) : w[7 + Len(s) + i] = t[i]
  BY <1>2, <1>3
<1>10. /\ Descriptors(m) = Wanted(m) /\ Wanted(m) \in Seq(Descriptor)
       /\ Len(s) \in 0 .. 3 /\ Len(t) \in 0 .. 1 /\ Len(Wanted(m)) = 7 + Len(s) + Len(t)
       /\ \A i \in 1 .. 7 : Wanted(m)[i] = Low[i]
       /\ \A i \in 1 .. Len(s) : Wanted(m)[7 + i] = s[i]
       /\ \A i \in 1 .. Len(t) : Wanted(m)[7 + Len(s) + i] = t[i]
  BY <1>1, <1>3, <1>4, <1>6, <1>7, <1>8, <1>9
<1> QED BY <1>10 DEF s, t

(* For every machine, whatever memory it reports.                          *)
LEMMA MapIsSound ==
  ASSUME NEW m \in Machine
  PROVE  MapSoundOf(Descriptors(m), m)
<1> DEFINE w == Wanted(m)
           s == Above64(m)
           t == HighBank(m)
           a == Len(s)
           h == Len(t)
<1>1. /\ Descriptors(m) = w /\ w \in Seq(Descriptor)
      /\ a \in 0 .. 3 /\ h \in 0 .. 1 /\ Len(w) = 7 + a + h
      /\ \A i \in 1 .. 7 : w[i] = Low[i]
      /\ \A i \in 1 .. a : w[7 + i] = s[i]
      /\ \A i \in 1 .. h : w[7 + a + i] = t[i]
  BY WantedIs
<1>2. /\ RamEnd(m) \in Nat /\ START <= RamEnd(m) /\ RamEnd(m) <= 98304
      /\ m.highBase \in Nat /\ m.highSize \in Nat
  BY RamIs DEF START, Machine
<1>3. /\ DOMAIN s = 1 .. a /\ DOMAIN t = 1 .. h /\ DOMAIN w = 1 .. 7 + a + h
      /\ DOMAIN Low = 1 .. 7
  BY <1>1, AboveIs, HighIs, LowIs DEF AboveFits, HighFits
<1> HIDE DEF w
<1>4. \A i \in DOMAIN w : /\ w[i] \in Descriptor /\ w[i].BasePage \in Int /\ w[i].PageCount \in Int
                          /\ End(w[i]) \in Int
  <2>1. \A i \in DOMAIN w : w[i] \in Descriptor
    BY <1>1
  <2> QED BY <2>1 DEF Descriptor, End
<1>5. ASSUME NEW i \in DOMAIN w
      PROVE  \/ i \in 1 .. 7
             \/ \E j \in 1 .. a : i = 7 + j
             \/ \E j \in 1 .. h : i = 7 + a + j
  <2>1. CASE i > 7 /\ i <= 7 + a
    <3>1. i - 7 \in 1 .. a /\ i = 7 + (i - 7)
      BY <1>1, <1>3, <2>1
    <3> QED BY <3>1
  <2>2. CASE i > 7 + a
    <3>1. i - (7 + a) \in 1 .. h /\ i = 7 + a + (i - (7 + a))
      BY <1>1, <1>3, <2>2
    <3> QED BY <3>1
  <2> QED BY <1>1, <1>3, <2>1, <2>2
<1>6. ASSUME NEW i \in 1 .. 7
      PROVE  /\ i \in DOMAIN w /\ 0 <= w[i].BasePage /\ w[i].BasePage <= End(w[i])
             /\ End(w[i]) <= START
  BY <1>1, <1>3, LowIs DEF Within
<1>7. ASSUME NEW j \in 1 .. a
      PROVE  /\ 7 + j \in DOMAIN w /\ START <= w[7 + j].BasePage
             /\ w[7 + j].BasePage <= End(w[7 + j]) /\ End(w[7 + j]) <= RamEnd(m)
  <2>1. w[7 + j] = s[j] /\ j \in DOMAIN s /\ 7 + j \in DOMAIN w
    BY <1>1, <1>3
  <2> QED BY <2>1, AboveIs DEF AboveFits, Within
<1>8. ASSUME NEW j \in 1 .. h
      PROVE  /\ 7 + a + j \in DOMAIN w /\ 98304 <= w[7 + a + j].BasePage
             /\ w[7 + a + j].BasePage <= End(w[7 + a + j])
             /\ 4 * w[7 + a + j].BasePage = m.highBase
             /\ 4 * End(w[7 + a + j]) <= m.highBase + m.highSize
  <2>1. w[7 + a + j] = t[j] /\ j \in DOMAIN t /\ 7 + a + j \in DOMAIN w
    BY <1>1, <1>3
  <2> QED BY <2>1, HighIs DEF HighFits
<1> HIDE DEF a, h, s, t
<1>9. \A i, j \in DOMAIN w : i # j => Apart(w[i], w[j])
  <2> SUFFICES ASSUME NEW i \in DOMAIN w, NEW j \in DOMAIN w, i < j
               PROVE  Apart(w[i], w[j])
    BY <1>3 DEF Apart
  <2>1. CASE j \in 1 .. 7
    <3>1. i \in 1 .. 7 /\ w[i] = Low[i] /\ w[j] = Low[j]
      BY <1>1, <1>3, <2>1
    <3> QED BY <1>3, <2>1, <3>1, LowIs DEF Piecewise
  <2>2. ASSUME NEW k \in 1 .. a, j = 7 + k
        PROVE  Apart(w[i], w[j])
    <3>1. CASE i \in 1 .. 7
      <4>1. End(w[i]) <= START /\ START <= w[j].BasePage
        BY <1>6, <1>7, <2>2, <3>1
      <4> QED BY <1>4, <4>1 DEF Apart, START
    <3>2. ASSUME NEW l \in 1 .. a, i = 7 + l
          PROVE  Apart(w[i], w[j])
      <4>1. w[i] = s[l] /\ w[j] = s[k] /\ l # k /\ l \in DOMAIN s /\ k \in DOMAIN s
        BY <1>1, <1>3, <2>2, <3>2
      <4> QED BY <4>1, AboveIs DEF AboveFits, Piecewise, s
    <3>3. ~\E l \in 1 .. h : i = 7 + a + l
      BY <1>1, <2>2
    <3> QED BY <1>5, <3>1, <3>2, <3>3
  <2>3. ASSUME NEW k \in 1 .. h, j = 7 + a + k
        PROVE  Apart(w[i], w[j])
    <3>1. 98304 <= w[j].BasePage
      BY <1>8, <2>3
    <3>2. CASE i \in 1 .. 7
      <4>1. End(w[i]) <= START
        BY <1>6, <3>2
      <4> QED BY <1>4, <3>1, <4>1 DEF Apart, START
    <3>3. ASSUME NEW l \in 1 .. a, i = 7 + l
          PROVE  Apart(w[i], w[j])
      BY <1>2, <1>4, <1>7, <3>1, <3>3 DEF Apart
    <3>4. ~\E l \in 1 .. h : i = 7 + a + l
      BY <1>1, <2>3
    <3> QED BY <1>5, <3>2, <3>3, <3>4
  <2> QED BY <1>5, <2>1, <2>2, <2>3
<1>10. ASSUME NEW i \in DOMAIN w, w[i].Type = "FreeMemory"
       PROVE  \/ /\ 33792 <= w[i].BasePage /\ End(w[i]) <= RamEnd(m)
                 /\ Apart(w[i], D("window", HEARTLO, HEARTHI - HEARTLO))
                 /\ Apart(w[i], D("PROM", 48896, 256))
              \/ 4 * w[i].BasePage = m.highBase /\ 4 * End(w[i]) <= m.highBase + m.highSize
  <2>1. /\ D("window", HEARTLO, HEARTHI - HEARTLO).BasePage = HEARTLO
        /\ End(D("window", HEARTLO, HEARTHI - HEARTLO)) = HEARTHI
        /\ D("PROM", 48896, 256).BasePage = 48896 /\ End(D("PROM", 48896, 256)) = 49152
    BY DEF D, End, HEARTLO, HEARTHI
  <2>2. CASE i \in 1 .. 7
    <3>1. w[i].BasePage = 33792 /\ End(w[i]) = 48896
      BY <1>1, <1>10, <2>2, LowIs
    <3> QED BY <1>2, <2>1, <3>1 DEF Apart, HEARTLO, START
  <2>3. ASSUME NEW k \in 1 .. a, i = 7 + k
        PROVE  /\ 33792 <= w[i].BasePage /\ End(w[i]) <= RamEnd(m)
               /\ Apart(w[i], D("window", HEARTLO, HEARTHI - HEARTLO))
               /\ Apart(w[i], D("PROM", 48896, 256))
    <3>1. w[i] = s[k] /\ k \in DOMAIN s
      BY <1>1, <1>3, <2>3
    <3>2. End(w[i]) <= HEARTLO \/ HEARTHI <= w[i].BasePage
      BY <1>10, <3>1, AboveIs DEF AboveFits, s
    <3>3. START <= w[i].BasePage /\ End(w[i]) <= RamEnd(m)
      BY <1>7, <2>3
    <3> QED BY <1>4, <2>1, <3>2, <3>3 DEF Apart, START
  <2>4. ASSUME NEW k \in 1 .. h, i = 7 + a + k
        PROVE  4 * w[i].BasePage = m.highBase /\ 4 * End(w[i]) <= m.highBase + m.highSize
    BY <1>8, <2>4
  <2> QED BY <1>5, <2>2, <2>3, <2>4
<1>11. w[4].BasePage = 32768 /\ 4 \in DOMAIN w
  BY <1>1, <1>6, LowIs
<1>12. ASSUME NEW i \in DOMAIN w, w[i].BasePage \in 32768 .. RamEnd(m) - 1
       PROVE  End(w[i]) = RamEnd(m) \/ \E j \in DOMAIN w : w[j].BasePage = End(w[i])
  <2>1. CASE i \in 1 .. 7
    <3>1. End(w[i]) = START \/ \E j \in 1 .. 7 : w[j].BasePage = End(w[i])
      <4>1. w[i] = Low[i] /\ Low[i].BasePage >= 32768
        BY <1>1, <1>2, <1>12, <2>1
      <4>2. End(Low[i]) = START \/ \E j \in 1 .. 7 : Low[j].BasePage = End(Low[i])
        BY <2>1, <4>1, LowIs
      <4> QED BY <1>1, <4>1, <4>2
    <3>2. CASE End(w[i]) = START
      <4>1. CASE a = 0
        BY <3>2, <4>1, AboveIs DEF AboveFits, a, s
      <4>2. CASE a # 0
        <5>1. s[1].BasePage = START
          BY <4>2, AboveIs DEF AboveFits, a, s
        <5>2. 1 \in 1 .. a
          BY <1>1, <4>2
        <5> QED BY <1>1, <1>7, <3>2, <5>1, <5>2
      <4> QED BY <4>1, <4>2
    <3> QED BY <1>6, <3>1, <3>2
  <2>2. ASSUME NEW k \in 1 .. a, i = 7 + k
        PROVE  End(w[i]) = RamEnd(m) \/ \E j \in DOMAIN w : w[j].BasePage = End(w[i])
    <3>1. w[i] = s[k] /\ k \in DOMAIN s
      BY <1>1, <1>3, <2>2
    <3>2. End(s[k]) = RamEnd(m) \/ \E j \in DOMAIN s : s[j].BasePage = End(s[k])
      BY <3>1, AboveIs DEF AboveFits, s
    <3> QED BY <1>1, <1>3, <1>7, <3>1, <3>2
  <2>3. ~\E k \in 1 .. h : i = 7 + a + k
    BY <1>2, <1>4, <1>8, <1>12
  <2> QED BY <1>5, <2>1, <2>2, <2>3
<1>13. Len(w) = Len(Wanted(m))
  BY DEF w
<1>14. Descriptors(m) = w
  BY <1>1
<1> HIDE DEF w
<1>15. MapSoundOf(w, m)
  <2>1. \A i \in DOMAIN w : w[i].Type = "FreeMemory" =>
          \/ /\ 33792 <= w[i].BasePage /\ End(w[i]) <= RamEnd(m)
             /\ Apart(w[i], D("window", HEARTLO, HEARTHI - HEARTLO))
             /\ Apart(w[i], D("PROM", 48896, 256))
          \/ 4 * w[i].BasePage = m.highBase /\ 4 * End(w[i]) <= m.highBase + m.highSize
    BY <1>10
  <2>2. \A i \in DOMAIN w : w[i].BasePage \in 32768 .. RamEnd(m) - 1 =>
          End(w[i]) = RamEnd(m) \/ \E j \in DOMAIN w : w[j].BasePage = End(w[i])
    BY <1>12
  <2>3. \E i \in DOMAIN w : w[i].BasePage = 32768
    BY <1>11
  <2> QED BY <1>9, <1>13, <2>1, <2>2, <2>3 DEF MapSoundOf
<1> QED BY <1>14, <1>15
(* What mem_getblock() has of the descriptors that it passed.              *)
Passed == IF cur = 0 THEN Len(descs) ELSE cur - 1
BlockInv ==
  /\ cur \in 0 .. Len(descs) /\ block \in 0 .. Len(descs)
  /\ block # 0 => descs[block].Type = "FreeMemory"
  /\ cur # 0 \/ block # 0 =>
       \A i \in 1 .. Passed :
         descs[i].Type = "FreeMemory" => /\ block # 0
                                         /\ descs[i].PageCount <= descs[block].PageCount

MapInv ==
  /\ sys \in DOMAIN Systems /\ descs \in Seq(Descriptor)
  /\ IF descs = <<>> THEN cur = 0 /\ block = 0 ELSE descs = Descriptors(Sys.machine)
  /\ BlockInv

LEMMA MapUnchanged ==
  ASSUME MapInv, UNCHANGED mapVars, UNCHANGED sys
  PROVE  MapInv'
BY DEF MapInv, BlockInv, Passed, mapVars, Sys

LEMMA ListIs ==
  ASSUME sys \in DOMAIN Systems
  PROVE  /\ Sys.machine \in Machine
         /\ Descriptors(Sys.machine) \in Seq(Descriptor)
         /\ Len(Descriptors(Sys.machine)) \in 7 .. 11
<1>1. Sys.machine \in Machine
  BY ServicesAssumption DEF Sys
<1> DEFINE m == Sys.machine
<1> HIDE DEF m
<1>2. m \in Machine
  BY <1>1 DEF m
<1>3. Descriptors(m) \in Seq(Descriptor) /\ Len(Descriptors(m)) \in 7 .. 11
  <2>1. /\ Descriptors(m) \in Seq(Descriptor)
        /\ Len(Descriptors(m)) = 7 + Len(Above64(m)) + Len(HighBank(m))
        /\ Len(Above64(m)) \in 0 .. 3 /\ Len(HighBank(m)) \in 0 .. 1
    BY <1>2, WantedIs, Zenon
  <2>2. \A x \in 0 .. 3, y \in 0 .. 1 : 7 + x + y \in 7 .. 11
    OBVIOUS
  <2> QED BY <2>1, <2>2, Zenon
<1> QED BY <1>1, <1>3 DEF m

LEMMA MadeKeepsMap ==
  ASSUME MapInv, InitMemoryDescriptors
  PROVE  MapInv'
<1>1. /\ descs' = Descriptors(Sys.machine) /\ sys' = sys /\ cur' = cur /\ block' = block
      /\ sys \in DOMAIN Systems /\ cur = 0 /\ block = 0
  BY DEF MapInv, InitMemoryDescriptors
<1>2. Sys' = Sys
  BY <1>1 DEF Sys
<1>3. descs' \in Seq(Descriptor) /\ Len(descs') \in 7 .. 11
  BY <1>1, ListIs
<1>4. BlockInv'
  BY <1>1, <1>3 DEF BlockInv
<1> QED BY <1>1, <1>2, <1>3, <1>4 DEF MapInv

LEMMA BlockKeepsMap ==
  ASSUME MapInv, GetBlock \/ NextDescriptor
  PROVE  MapInv'
<1>1. /\ descs' = descs /\ sys' = sys /\ descs \in Seq(Descriptor)
      /\ sys \in DOMAIN Systems /\ BlockInv /\ descs # <<>>
      /\ descs = Descriptors(Sys.machine)
  BY DEF MapInv, GetBlock, NextDescriptor, Started
<1>2. Sys' = Sys
  BY <1>1 DEF Sys
<1>3. /\ Len(descs) \in Nat /\ Len(descs) > 0
      /\ \A i \in 1 .. Len(descs) : descs[i].PageCount \in Int
  <2>1. Len(descs) \in 7 .. 11
    BY <1>1, ListIs
  <2>2. \A i \in 1 .. Len(descs) : descs[i] \in Descriptor
    BY <1>1
  <2>3. \A i \in 1 .. Len(descs) : descs[i].PageCount \in Int
    BY <2>2 DEF Descriptor
  <2>4. Len(descs) \in Nat /\ Len(descs) > 0
    BY <2>1
  <2> QED BY <2>3, <2>4
<1>4. GetBlock => BlockInv'
  BY <1>1, <1>3 DEF BlockInv, Passed, GetBlock, GetMemoryDescriptor
<1>5. ASSUME NextDescriptor
      PROVE  BlockInv'
  <2>1. /\ cur \in 1 .. Len(descs) /\ Passed = cur - 1
        /\ block' = IF Better(descs, block, cur) THEN cur ELSE block
        /\ cur' = IF cur < Len(descs) THEN cur + 1 ELSE 0
    BY <1>1, <1>5 DEF NextDescriptor, BlockInv, Passed, GetMemoryDescriptor
  <2>2. Passed' = cur
    BY <1>1, <1>3, <2>1 DEF Passed
  <2>3. cur' \in 0 .. Len(descs) /\ block' \in 0 .. Len(descs)
    BY <1>1, <1>3, <2>1 DEF BlockInv
  <2>4. block' # 0 => descs[block'].Type = "FreeMemory"
    BY <1>1, <2>1 DEF BlockInv, Better
  <2>5. ASSUME NEW i \in 1 .. cur, descs[i].Type = "FreeMemory"
        PROVE  block' # 0 /\ descs[i].PageCount <= descs[block'].PageCount
    <3>1. i # cur => block # 0 /\ descs[i].PageCount <= descs[block].PageCount
      BY <1>1, <2>1, <2>5 DEF BlockInv
    <3>2. block # 0 => block \in 1 .. Len(descs)
      BY <1>1, <1>3 DEF BlockInv
    <3> QED BY <1>3, <2>1, <2>5, <3>1, <3>2 DEF Better
  <2> QED BY <1>1, <2>2, <2>3, <2>4, <2>5 DEF BlockInv
<1>6. BlockInv'
  BY <1>4, <1>5
<1> QED BY <1>1, <1>2, <1>6 DEF MapInv

(* Whatever memory a machine reports, the descriptors share no page, none  *)
(* but usable memory is free, all of the main memory is described and none *)
(* was dropped; and mem_getblock() ends with a largest free block.         *)
THEOREM MapAlwaysSound == Spec => []MapSound
<1>1. Init => MapInv
  BY DEF Init, MapInv, BlockInv
<1>2. MapInv /\ [Next]_vars => MapInv'
  <2> SUFFICES ASSUME MapInv, [Next]_vars PROVE MapInv'
    OBVIOUS
  <2>1. CASE InitMemoryDescriptors
    BY <2>1, MadeKeepsMap
  <2>2. CASE GetBlock \/ NextDescriptor
    BY <2>2, BlockKeepsMap
  <2>3. CASE TreeCall \/ DirCall \/ UNCHANGED vars
    BY <2>3, MapUnchanged DEF TreeCall, DirCall, vars, mapVars
  <2> QED BY <2>1, <2>2, <2>3 DEF Next
<1>3. MapInv => MapSound
  <2> SUFFICES ASSUME MapInv PROVE MapSound
    OBVIOUS
  <2>1. descs # <<>> => MapSoundOf(descs, Sys.machine)
    BY ListIs, MapIsSound DEF MapInv
  <2>2. cur = 0 /\ block # 0 => LargestBlock
    BY DEF MapInv, BlockInv, Passed, LargestBlock
  <2> QED BY <2>1, <2>2 DEF MapSound
<1> QED BY <1>1, <1>2, <1>3, PTL DEF Spec
-----------------------------------------------------------------------------
(* The buffer of a directory search.                                       *)

Slots == 0 .. DIRBLKFSBS - 1
BehindBlock(e, b, n) == e.off < (b + 1) * DIRBLKFSBS /\ e.off + e.len = (b + 1) * DIRBLKFSBS + n

OverInv ==
  over > 0 => \E i \in DOMAIN Dp.extents : \E b \in 0 .. dbno : BehindBlock(Dp.extents[i], b, over)

BufInv ==
  /\ dbno \in Nat /\ len \in Nat /\ over \in Nat
  /\ DOMAIN buf = Slots
  /\ where = "blocks" => dir \in DOMAIN Directories
  /\ where = "blocks" /\ Dp.version = 2 =>
       \A k \in Slots : k < len => buf[k] = dbno * DIRBLKFSBS + k
  /\ OverInv

LEMMA BlockSize == DIRBLKFSBS \in Nat /\ DIRBLKFSBS > 0
BY DirLookupAssumption

LEMMA HoldingIs ==
  ASSUME dir \in DOMAIN Directories, dbno \in Nat, len \in Nat, ~Hole(Off)
  PROVE  \E i \in DOMAIN Dp.extents :
           LET e == Dp.extents[i] IN
           /\ e.off \in Nat /\ e.len \in Nat
           /\ e.off <= Off /\ Off < e.off + e.len /\ Rest(Off) = e.off + e.len - Off
<1> DEFINE i == CHOOSE i \in Holding(Off) : TRUE
<1>1. i \in Holding(Off)
  BY DEF Hole
<1>2. Dp \in Directory
  BY DirLookupAssumption DEF Dp
<1>3. Dp.extents \in Seq(Extent)
  BY <1>2 DEF Directory
<1>4. /\ i \in DOMAIN Dp.extents /\ Dp.extents[i].off <= Off
      /\ Off < Dp.extents[i].off + Dp.extents[i].len
  BY <1>1 DEF Holding, Covering
<1>5. Rest(Off) = Dp.extents[i].off + Dp.extents[i].len - Off
  BY DEF Rest
<1> HIDE DEF i
<1>6. Dp.extents[i] \in Extent
  BY <1>3, <1>4
<1> QED BY <1>4, <1>5, <1>6 DEF Extent

LEMMA BeginKeepsBuf ==
  ASSUME BufInv, NEW d \in DOMAIN Directories, NEW n, DirLookup(d, n)
  PROVE  BufInv'
<1>1. /\ dbno' = 0 /\ len' = 0 /\ over' = 0 /\ buf' = Empty /\ dir' = d
  BY DEF DirLookup, LookupLocal, LookupBlocks, Begin
<1> QED BY <1>1, BlockSize DEF BufInv, OverInv, Empty, Slots

(* A step that leaves the search, or goes on to the next block.            *)
LEMMA OnKeepsBuf ==
  ASSUME BufInv, DOMAIN buf' = Slots, UNCHANGED <<dir, over>>,
         where' # "blocks" \/ where = "blocks",
         (dbno' = dbno /\ len' = len) \/ (dbno' = dbno + 1 /\ len' = 0),
         len' = len => where' # "blocks" \/ len = 0
  PROVE  BufInv'
<1>0. dbno \in Nat /\ len \in Nat /\ over \in Nat
  BY DEF BufInv
<1>1. dbno' \in Nat /\ dbno <= dbno' /\ len' \in Nat
  <2>1. CASE dbno' = dbno /\ len' = len
    BY <1>0, <2>1
  <2>2. CASE dbno' = dbno + 1 /\ len' = 0
    BY <1>0, <2>2
  <2> QED BY <2>1, <2>2
<1>a. over' \in Nat /\ over' = over /\ Dp' = Dp
  BY <1>0 DEF Dp
<1>2. OverInv'
  <2> SUFFICES ASSUME over > 0
               PROVE  \E i \in DOMAIN Dp.extents : \E b \in 0 .. dbno' :
                        BehindBlock(Dp.extents[i], b, over)
    BY <1>a DEF OverInv, BehindBlock
  <2>1. PICK i \in DOMAIN Dp.extents : \E b \in 0 .. dbno : BehindBlock(Dp.extents[i], b, over)
    BY DEF BufInv, OverInv
  <2>2. PICK b \in 0 .. dbno : BehindBlock(Dp.extents[i], b, over)
    BY <2>1
  <2>3. b \in 0 .. dbno'
    <3>1. \A x, y \in Nat : x <= y => 0 .. x \subseteq 0 .. y
      OBVIOUS
    <3> QED BY <1>0, <1>1, <3>1, Zenon
  <2> QED BY <2>2, <2>3
<1>3. where' = "blocks" => dir' \in DOMAIN Directories /\ ~\E k \in Slots : k < len'
  BY BlockSize DEF BufInv, Slots
<1> QED BY <1>1, <1>a, <1>2, <1>3 DEF BufInv

LEMMA ReadKeepsBuf ==
  ASSUME BufInv, DataRead
  PROVE  BufInv'
<1> DEFINE n == Rest(Off)
           f == DIRBLKFSBS
           p == dbno * f
<1>1. /\ where = "blocks" /\ Dp.version = 2 /\ len < f /\ ~Hole(Off)
      /\ buf' = Came(n) /\ over' = Beyond(n) /\ len' = len + n
      /\ dir' = dir /\ dbno' = dbno /\ where' = where /\ Dp' = Dp
  BY DEF DataRead, Left, Dp
<1>2. /\ f \in Nat /\ f > 0 /\ dbno \in Nat /\ len \in Nat /\ over \in Nat
      /\ dir \in DOMAIN Directories /\ DOMAIN buf = Slots
      /\ \A k \in Slots : k < len => buf[k] = p + k
  BY <1>1, BlockSize DEF BufInv
<1>3. p \in Nat /\ (dbno + 1) * f = p + f /\ Off = p + len
  BY <1>2 DEF Off
<1>4. PICK i \in DOMAIN Dp.extents :
        LET e == Dp.extents[i] IN
        /\ e.off \in Nat /\ e.len \in Nat
        /\ e.off <= Off /\ Off < e.off + e.len /\ n = e.off + e.len - Off
  BY <1>1, <1>2, HoldingIs
<1> DEFINE e == Dp.extents[i]
<1>5. e.off \in Nat /\ e.len \in Nat /\ e.off <= Off /\ Off < e.off + e.len
      /\ n = e.off + e.len - Off
  BY <1>4
<1> HIDE DEF n, e, p, f
<1>6. n \in Nat /\ n > 0
  BY <1>3, <1>5, <1>2
<1>7. /\ DOMAIN buf' = Slots
      /\ \A k \in Slots : buf'[k] = IF k \in len .. len + n - 1 THEN Off + (k - len) ELSE buf[k]
  BY <1>1, <1>2 DEF Came
<1>8. \A k \in Slots : k < len' => buf'[k] = p + k
  <2> SUFFICES ASSUME NEW k \in Slots, k < len + n PROVE buf'[k] = p + k
    BY <1>1
  <2>1. k \in Nat
    BY BlockSize DEF Slots
  <2>2. CASE k < len
    BY <1>2, <1>6, <1>7, <2>1, <2>2
  <2>3. CASE ~(k < len)
    BY <1>2, <1>3, <1>6, <1>7, <2>1, <2>3
  <2> QED BY <2>2, <2>3
<1>9. over' \in Nat /\ (over' > 0 => over' = len + n - f)
  BY <1>1, <1>2, <1>6 DEF Beyond, f
<1>10. OverInv'
  <2> SUFFICES ASSUME over' > 0 PROVE BehindBlock(e, dbno, over')
    BY <1>1, <1>2 DEF OverInv, BehindBlock, e
  <2>1. e.off < p + f /\ e.off + e.len = p + f + over'
    <3>1. e.off \in Nat /\ e.len \in Nat /\ e.off <= p + len
          /\ n = e.off + e.len - (p + len) /\ over' = len + n - f
      BY <1>3, <1>5, <1>9
    <3>2. p \in Nat /\ len \in Nat /\ f \in Nat /\ n \in Nat /\ len < f
      BY <1>1, <1>2, <1>3, <1>6
    <3> QED BY <3>1, <3>2
  <2> QED BY <1>3, <2>1 DEF BehindBlock, f
<1> QED BY <1>1, <1>2, <1>6, <1>7, <1>8, <1>9, <1>10 DEF BufInv, p, f

LEMMA BufUnchanged ==
  ASSUME BufInv, UNCHANGED dirVars
  PROVE  BufInv'
BY DEF BufInv, OverInv, dirVars, Dp, BehindBlock

SysInv == BufInv /\ sys \in DOMAIN Systems

LEMMA InitBuf == Init => SysInv
<1> SUFFICES ASSUME Init PROVE SysInv
  OBVIOUS
<1>1. sys \in DOMAIN Systems /\ where = "no call" /\ dbno = 0 /\ len = 0 /\ over = 0
      /\ buf = Empty
  BY DEF Init, DirInit
<1>2. DOMAIN buf = Slots
  BY <1>1 DEF Empty, Slots
<1>3. over = 0
  BY DEF Init, DirInit
<1>4. OverInv
  BY <1>3 DEF OverInv
<1> QED BY <1>1, <1>2, <1>4 DEF BufInv, SysInv

LEMMA NextBuf == SysInv /\ [Next]_vars => SysInv'
<1> SUFFICES ASSUME BufInv, sys \in DOMAIN Systems, [Next]_vars
             PROVE  BufInv' /\ sys' \in DOMAIN Systems
  BY DEF SysInv
<1>0. sys' = sys
  BY DEF Next, TreeCall, DirCall, InitMemoryDescriptors, GetBlock, NextDescriptor, vars
<1>1. CASE UNCHANGED dirVars
  BY <1>0, <1>1, BufUnchanged
<1>2. CASE \E d \in Sys.dirs, n \in Sys.names : DirLookup(d, n)
  <2>1. Sys.dirs \subseteq DOMAIN Directories
    BY ServicesAssumption DEF Sys
  <2> QED BY <1>0, <1>2, <2>1, BeginKeepsBuf
<1>3. CASE DataRead
  BY <1>0, <1>3, ReadKeepsBuf
<1>4. CASE DirStep /\ ~DataRead
  <2>1. DOMAIN buf' = DOMAIN buf /\ UNCHANGED <<dir, over>>
    BY <1>4 DEF DirStep, NoBuffer, LeafHole, LeafBlock, DataHole, DataSearch, ReadFails,
                SearchEnds, Return, Answer, PassOver, Searched
  <2>2. where' # "blocks" \/ where = "blocks"
    BY <1>4 DEF DirStep, NoBuffer, LeafHole, LeafBlock, DataHole, DataSearch, ReadFails,
                SearchEnds, Return, Left, Answer, PassOver, Searched
  <2>3. (dbno' = dbno /\ len' = len) \/ (dbno' = dbno + 1 /\ len' = 0)
    BY <1>4 DEF DirStep, NoBuffer, LeafHole, LeafBlock, DataHole, DataSearch, ReadFails,
                SearchEnds, Return, Left, Answer, PassOver, Searched
  <2>4. len' = len => where' # "blocks" \/ len = 0
    BY <1>4 DEF DirStep, NoBuffer, LeafHole, LeafBlock, DataHole, DataSearch, ReadFails,
                SearchEnds, Return, Left, Answer, PassOver, Searched
  <2> QED BY <1>0, <2>1, <2>2, <2>3, <2>4, OnKeepsBuf DEF BufInv
<1> QED BY <1>0, <1>1, <1>2, <1>3, <1>4
        DEF Next, TreeCall, DirCall, InitMemoryDescriptors, GetBlock, NextDescriptor, vars, dirVars

-----------------------------------------------------------------------------
(* A leaf is searched for a name: it is found when it is there.            *)
Ordered(names) == \A i, j \in DOMAIN names : i < j => names[i].hash <= names[j].hash
HashFollows(names) == \A i \in DOMAIN names : names[i].id = name.id => names[i].hash = name.hash

(* The probe stays among the entries.                                      *)
Probes(n) ==
  {b \in [probe : 0 .. n - 1, span : 0 .. n, done : BOOLEAN] :
     b.span <= b.probe /\ b.probe + b.span <= n}

LEMMA CloserStays ==
  ASSUME NEW names, NEW n \in Nat, NEW b \in Probes(n)
  PROVE  Closer(names, b) \in Probes(n)
<1>. DEFINE s == b.span
            q == b.probe
            h == s \div 2
            p == IF Hash(names, q) < name.hash THEN q + h
                 ELSE IF Hash(names, q) > name.hash THEN q - h ELSE q
            d == Hash(names, q) = name.hash \/ h <= CLOSE
<1>1. q \in 0 .. n - 1 /\ s \in 0 .. n /\ s <= q /\ q + s <= n /\ s \in Nat
  BY DEF Probes
<1>2. h \in Nat /\ h + h <= s
  <2>. HIDE DEF s
  <2>. QED BY <1>1, SMT
<1>3. Closer(names, b) = IF b.done THEN b ELSE [probe |-> p, span |-> h, done |-> d]
  BY DEF Closer
<1>4. p \in {q, q + h, q - h} /\ d \in BOOLEAN
  OBVIOUS
<1>. HIDE DEF s, q, h, p, d
<1>5. h <= p /\ p + h <= n /\ p \in 0 .. n - 1 /\ h \in 0 .. n
  BY <1>1, <1>2, <1>4
<1>6. [probe |-> p, span |-> h, done |-> d] \in Probes(n)
  BY <1>4, <1>5 DEF Probes
<1>. QED BY <1>3, <1>6

LEMMA HalvesIs ==
  ASSUME NEW names \in Seq(Name), Len(names) > 0
  PROVE  Halves(names) \in 0 .. Len(names) - 1
<1>. DEFINE n == Len(names)
            V == Probes(n)
            b0 == [probe |-> n \div 2, span |-> n \div 2, done |-> FALSE]
            F(h) == [i \in 0 .. n |-> IF i = 0 THEN b0 ELSE Closer(names, h[i - 1])]
            try == CHOOSE h : h = F(h)
            step == [i \in 1 .. n |-> [b \in V |-> Closer(names, b)]]
<1>1. n \in Nat /\ n > 0
  OBVIOUS
<1>2. b0 \in V
  <2>. DEFINE half == n \div 2
  <2>1. half \in Nat /\ half + half <= n /\ half <= n - 1
    <3>. HIDE DEF n
    <3>. QED BY <1>1, SMT
  <2>2. b0 = [probe |-> half, span |-> half, done |-> FALSE]
    OBVIOUS
  <2>. HIDE DEF n, half, b0
  <2>. QED BY <1>1, <2>1, <2>2 DEF Probes
<1>3. step \in [1 .. n -> [V -> V]]
  <2>. HIDE DEF n
  <2>. QED BY <1>1, CloserStays
<1>. HIDE DEF b0
<1>4. PICK h : Computes(h, n, V, b0, step)
  <2>. HIDE DEF step, V, n
  <2>. QED BY <1>1, <1>2, <1>3, RecursionExists
<1>5. /\ h \in [0 .. n -> V] /\ h[0] = b0
      /\ \A i \in 1 .. n : h[i] = step[i][h[i - 1]]
  BY <1>4 DEF Computes
<1>6. ASSUME NEW i \in 1 .. n PROVE h[i] = Closer(names, h[i - 1])
  <2>1. i - 1 \in 0 .. n
    BY <1>1
  <2>2. h[i - 1] \in V
    <3>. HIDE DEF V, n
    <3>. QED BY <1>5, <2>1
  <2>3. step[i][h[i - 1]] = Closer(names, h[i - 1])
    <3>. HIDE DEF V, n
    <3>. QED BY <2>2
  <2>. QED BY <1>5, <2>3
<1>. HIDE DEF V, step
<1>7. h = F(h)
  <2>. HIDE DEF n
  <2>1. ASSUME NEW i \in 0 .. n PROVE h[i] = F(h)[i]
    <3>1. CASE i = 0
      BY <1>1, <1>5, <3>1
    <3>2. CASE i # 0
      <4>1. i \in 1 .. n
        BY <1>1, <3>2
      <4>. QED BY <1>6, <4>1
    <3>. QED BY <3>1, <3>2
  <2>. QED BY <1>5, <2>1
<1>. HIDE DEF F
<1>8. try = F(try)
  BY <1>7
<1>9. Halves(names) = try[n].probe
  BY DEF Halves, F, b0
<1>. HIDE DEF try, n
<1>. DEFINE Inside == {i \in 0 .. n : try[i] \in V}
<1>10. 0 \in 0 .. n /\ \A i \in 1 .. n : i \in 0 .. n /\ i # 0
  BY <1>1
<1>11. 0 \in Inside
  <2>1. F(try)[0] = b0
    BY <1>10, Zenon DEF F
  <2>. QED BY <1>2, <1>8, <1>10, <2>1
<1>12. ASSUME NEW i \in 1 .. n, i - 1 \in Inside PROVE i \in Inside
  <2>1. F(try)[i] = Closer(names, try[i - 1])
    BY <1>10, Zenon DEF F
  <2>2. try[i - 1] \in Probes(n)
    BY <1>12 DEF V
  <2>3. Closer(names, try[i - 1]) \in Probes(n)
    BY <1>1, <2>2, CloserStays
  <2>. QED BY <1>8, <1>10, <2>1, <2>3 DEF V
<1>. HIDE DEF Inside
<1>13. \A i \in 0 .. n : i \in Inside
  BY <1>1, <1>11, <1>12, CountUp
<1>14. n \in Inside
  BY <1>1, <1>13
<1>15. try[n] \in V
  BY <1>14 DEF Inside
<1>. QED BY <1>9, <1>15 DEF V, Probes, n

LEMMA Highest ==
  ASSUME NEW p \in Nat, NEW S, S \subseteq 0 .. p, 0 \in S
  PROVE  \E q \in S : \A r \in S : r <= q
<1>. DEFINE T == {i \in 0 .. p : p - i \in S}
<1>1. p \in T /\ T \subseteq Nat
  <2>1. p \in 0 .. p /\ p - p = 0
    OBVIOUS
  <2>. QED BY <2>1
<1>2. PICK i \in T : \A j \in T : i <= j
  <2>. HIDE DEF T
  <2>. QED BY <1>1, LeastNatural
<1>3. p - i \in S /\ i \in 0 .. p
  BY <1>2
<1>4. ASSUME NEW r \in S PROVE r <= p - i
  <2>1. r \in 0 .. p /\ p - r \in 0 .. p /\ p - (p - r) = r
    BY <1>4
  <2>2. p - r \in T
    BY <1>4, <2>1
  <2>. QED BY <1>2, <1>3, <2>1, <2>2
<1>. QED BY <1>3, <1>4

LEMMA DownIs ==
  ASSUME NEW names, NEW p \in Nat
  PROVE  LET d == Down(names, p) IN
         /\ d \in 0 .. p /\ (d = 0 \/ Hash(names, d) <= name.hash)
<1>. DEFINE S == {q \in 0 .. p : q = 0 \/ Hash(names, q) <= name.hash}
<1>1. S \subseteq 0 .. p /\ 0 \in S
  OBVIOUS
<1>2. Down(names, p) = CHOOSE q \in S : \A r \in S : r <= q
  BY DEF Down
<1>3. Down(names, p) \in S
  <2>. HIDE DEF S
  <2>1. \E q \in S : \A r \in S : r <= q
    BY <1>1, Highest
  <2>. QED BY <1>2, <2>1
<1>. QED BY <1>3

LEMMA UpIs ==
  ASSUME NEW names, NEW n \in Nat, n = Len(names), NEW p \in 0 .. n
  PROVE  LET u == Up(names, p) IN
         /\ u \in p .. n /\ (u = n \/ Hash(names, u) >= name.hash)
         /\ \A r \in p .. n : r = n \/ Hash(names, r) >= name.hash => u <= r
<1>. DEFINE S == {q \in p .. n : q = n \/ Hash(names, q) >= name.hash}
<1>1. S \subseteq Nat /\ n \in S
  OBVIOUS
<1>2. Up(names, p) = CHOOSE q \in S : \A r \in S : q <= r
  BY DEF Up
<1>3. Up(names, p) \in S /\ \A r \in S : Up(names, p) <= r
  <2>. HIDE DEF S
  <2>1. \E q \in S : \A r \in S : q <= r
    BY <1>1, LeastNatural
  <2>. QED BY <1>2, <2>1
<1>. QED BY <1>3

LEMMA ByHalvesFinds ==
  ASSUME NEW names \in Seq(Name), Ordered(names), HashFollows(names), name.hash \in Nat,
         NEW m \in Match(names)
  PROVE  m \in ByHalves(names)
<1>. DEFINE n == Len(names)
            H == name.hash
            p == Halves(names)
            d == Down(names, p)
            u == Up(names, d)
            h(q) == Hash(names, q)
<1>1. m \in 1 .. n /\ n \in Nat /\ n > 0 /\ names[m].hash = H
  BY DEF Match, HashFollows
<1>2. \A q \in 0 .. n - 1 : h(q) \in Nat
  <2>. SUFFICES ASSUME NEW q \in 0 .. n - 1 PROVE h(q) \in Nat
    OBVIOUS
  <2>1. q + 1 \in DOMAIN names
    BY <1>1
  <2>2. names[q + 1] \in Name
    BY <2>1
  <2>. QED BY <2>2 DEF Hash, Name
<1>3. \A q, r \in 0 .. n - 1 : q <= r => h(q) <= h(r)
  <2>. SUFFICES ASSUME NEW q \in 0 .. n - 1, NEW r \in 0 .. n - 1, q <= r PROVE h(q) <= h(r)
    OBVIOUS
  <2>1. CASE q = r
    BY <1>2, <2>1
  <2>2. CASE q # r
    <3>1. q + 1 \in DOMAIN names /\ r + 1 \in DOMAIN names /\ q + 1 < r + 1
      BY <2>2
    <3>. QED BY <3>1 DEF Ordered, Hash
  <2>. QED BY <2>1, <2>2
<1>4. m - 1 \in 0 .. n - 1 /\ h(m - 1) = H
  BY <1>1 DEF Hash
<1>5. p \in 0 .. n - 1
  BY <1>1, HalvesIs
<1>. HIDE DEF p
<1>6. d \in 0 .. p /\ (d = 0 \/ h(d) <= H)
  BY <1>5, DownIs
<1>. HIDE DEF d
<1>7. /\ u \in d .. n /\ (u = n \/ h(u) >= H)
      /\ \A r \in d .. n : r = n \/ h(r) >= H => u <= r
  <2>1. d \in 0 .. n
    BY <1>1, <1>5, <1>6
  <2>. QED BY <1>1, <2>1, UpIs
<1>8. ByHalves(names) =
        IF u = n \/ h(u) # H THEN {} ELSE Match(names) \cap Equal(names, u)
  BY DEF ByHalves, u, d, p
<1>. HIDE DEF u
<1>9. H \in Nat /\ d \in 0 .. n - 1 /\ u \in 0 .. n
  BY <1>1, <1>5, <1>6, <1>7
<1>. HIDE DEF n, H, h
<1>10. u \in 0 .. n - 1 /\ h(u) = H
  <2>1. CASE d <= m - 1
    <3>1. m - 1 \in d .. n /\ h(m - 1) >= H
      BY <1>1, <1>4, <1>9, <2>1
    <3>2. u <= m - 1
      BY <1>7, <3>1
    <3>3. u \in 0 .. n - 1 /\ u # n
      BY <1>1, <1>4, <1>9, <3>2
    <3>4. h(u) <= h(m - 1) /\ h(u) >= H
      BY <1>3, <1>4, <1>7, <3>2, <3>3
    <3>. QED BY <1>2, <1>4, <1>9, <3>3, <3>4
  <2>2. CASE ~(d <= m - 1)
    <3>1. d # 0 /\ m - 1 <= d
      BY <1>4, <1>9, <2>2
    <3>2. h(d) <= H /\ h(m - 1) <= h(d) /\ h(d) \in Nat
      BY <1>2, <1>3, <1>4, <1>6, <1>9, <3>1
    <3>3. h(d) = H
      BY <1>4, <1>9, <3>2
    <3>4. d \in d .. n /\ h(d) >= H
      BY <1>1, <1>9, <3>3
    <3>5. u <= d
      BY <1>7, <3>4
    <3>6. u = d
      BY <1>1, <1>7, <1>9, <3>5
    <3>. QED BY <1>9, <3>3, <3>6
  <2>. QED BY <2>1, <2>2
<1>11. ASSUME NEW j \in 1 .. n, (m <= j /\ j <= u + 1) \/ (u + 1 <= j /\ j <= m)
       PROVE  h(j - 1) = H
  <2>1. j - 1 \in 0 .. n - 1 /\ h(j - 1) \in Nat
    BY <1>1, <1>2
  <2>2. \/ m - 1 <= j - 1 /\ j - 1 <= u
        \/ u <= j - 1 /\ j - 1 <= m - 1
    BY <1>1, <1>10, <1>11
  <2>3. h(j - 1) <= H /\ H <= h(j - 1)
    BY <1>3, <1>4, <1>10, <2>1, <2>2
  <2>. QED BY <1>9, <2>1, <2>3
<1>12. m \in Equal(names, u)
  <2>1. DOMAIN names = 1 .. n
    BY DEF n
  <2>2. \A j \in 1 .. n : h(j - 1) = names[j].hash
    <3>. SUFFICES ASSUME NEW j \in 1 .. n PROVE h(j - 1) = names[j].hash
      OBVIOUS
    <3>1. (j - 1) + 1 = j
      BY <1>1
    <3>. QED BY <3>1 DEF h, Hash
  <2>. QED BY <1>1, <1>11, <2>1, <2>2 DEF Equal, H
<1>. QED BY <1>8, <1>10, <1>12

LEMMA LeafFindFinds ==
  ASSUME NEW names \in Seq(Name), Ordered(names), HashFollows(names), name.hash \in Nat,
         LeafFind(names) = {}
  PROVE  Match(names) = {}
<1>. SUFFICES ASSUME NEW m \in Match(names) PROVE m \in Linear(names) /\ m \in ByHalves(names)
  BY DEF LeafFind
<1>1. m \in DOMAIN names /\ names[m].hash = name.hash
  BY DEF Match, HashFollows
<1>2. ASSUME NEW j \in Larger(names) PROVE m < j
  <2>1. j \in DOMAIN names /\ names[j].hash > name.hash /\ names[j].hash \in Nat
    <3>1. j \in DOMAIN names /\ names[j].hash > name.hash
      BY DEF Larger
    <3>2. names[j] \in Name
      BY <3>1
    <3>. QED BY <3>1, <3>2 DEF Name
  <2>2. ~(j < m) /\ j # m
    BY <1>1, <2>1 DEF Ordered
  <2>. QED BY <1>1, <2>1, <2>2
<1>. QED BY <1>1, <1>2, ByHalvesFinds DEF Linear

(* The blocks a search has behind it do not have the name, and while none  *)
(* was searched they are such as are passed over.                          *)
HasName(b) ==
  Dp.blocks[b].magic = Magic /\ \E i \in DOMAIN Dp.blocks[b].names : Dp.blocks[b].names[i].id = name.id

Sought ==
  /\ dir \in DOMAIN Directories /\ name.hash \in Nat /\ name.len < MAXNAMELEN
  /\ \A b \in DOMAIN Dp.blocks : HashFollows(Dp.blocks[b].names)

Behind ==
  /\ Sought /\ Dp.form # "local"
  /\ dbno \in 0 .. Len(Dp.blocks) /\ inumber = Nobody /\ retval \in {UNSET, 0}
  /\ \A b \in 1 .. dbno : ~HasName(b)
  /\ retval = UNSET => \A b \in 1 .. dbno : ~Searchable(b)

SearchInv == (where = "blocks" => Behind) /\ LookupRight

LEMMA DpIs ==
  ASSUME dir \in DOMAIN Directories
  PROVE  /\ Dp.version \in {1, 2} /\ Dp.blocks \in Seq(Block)
         /\ \A b \in DOMAIN Dp.blocks :
              /\ Dp.blocks[b].names \in Seq(Name)
              /\ Dp.blocks[b].magic = "leaf" => Ordered(Dp.blocks[b].names)
<1>1. Dp \in Directory
  BY DirLookupAssumption DEF Dp
<1>2. Dp.version \in {1, 2} /\ Dp.blocks \in Seq(Block)
  BY <1>1 DEF Directory
<1>3. ASSUME NEW b \in DOMAIN Dp.blocks
      PROVE  /\ Dp.blocks[b].names \in Seq(Name)
             /\ Dp.blocks[b].magic = "leaf" => Ordered(Dp.blocks[b].names)
  <2>1. Dp.blocks[b] \in Block
    BY <1>2
  <2>2. Dp.blocks[b].magic = "leaf" => Ordered(Dp.blocks[b].names)
    BY OrderAssumption DEF Dp, Ordered
  <2>. QED BY <2>1, <2>2 DEF Block
<1>. QED BY <1>2, <1>3

LEMMA NothingInHoles ==
  ASSUME dir \in DOMAIN Directories, NEW b \in DOMAIN Dp.blocks,
         \/ Dp.version = 1 /\ (Hole(0) \/ Hole(b - 1))
         \/ Dp.version = 2 /\ \E k \in Slots : Hole((b - 1) * DIRBLKFSBS + k)
  PROVE  ~HasName(b)
<1>1. Dp.blocks[b].names = <<>>
  BY HoleAssumption DEF Dp, Hole, Holding, Slots
<1>. QED BY <1>1 DEF HasName

LEMMA PresentIs ==
  ASSUME Sought, Dp.form # "local"
  PROVE  Present <=> \E b \in DOMAIN Dp.blocks : HasName(b)
BY DEF Present, HasName, Sought

(* A block that was passed over, or searched in vain.                      *)
LEMMA BlockBehind ==
  ASSUME Behind, Left, dbno' = dbno + 1, UNCHANGED <<dir, name, inumber>>,
         ~HasName(dbno + 1),
         retval' = 0 \/ (retval' = retval /\ ~Searchable(dbno + 1)), where' = "blocks"
  PROVE  SearchInv'
<1>. DEFINE n == Len(Dp.blocks)
<1>1. dbno \in 0 .. n /\ n \in Nat /\ dbno < n
  BY DpIs DEF Behind, Sought, Left
<1>2. Dp' = Dp
  BY DEF Dp
<1>3. dbno' \in 0 .. n /\ \A b \in 1 .. dbno' : b \in 1 .. dbno \/ b = dbno + 1
  <2>. HIDE DEF n
  <2>. QED BY <1>1
<1>4. ASSUME NEW b \in 1 .. dbno' PROVE ~HasName(b)'
  <2>1. ~HasName(b)
    BY <1>3 DEF Behind
  <2>. QED BY <1>2, <2>1 DEF HasName, Magic
<1>5. ASSUME NEW b \in 1 .. dbno', retval' = UNSET PROVE ~Searchable(b)'
  <2>1. retval' = retval /\ ~Searchable(dbno + 1)
    BY <1>5 DEF UNSET
  <2>2. ~Searchable(b)
    BY <1>3, <1>5, <2>1 DEF Behind
  <2>. QED BY <1>2, <2>2 DEF Searchable, Hole, Holding
<1>6. Sought' /\ Dp'.form # "local" /\ inumber' = Nobody /\ retval' \in {UNSET, 0}
  BY <1>2 DEF Behind, Sought, HashFollows
<1>7. Behind'
  BY <1>2, <1>3, <1>4, <1>5, <1>6 DEF Behind
<1>. QED BY <1>7 DEF SearchInv, LookupRight

(* The search ends: with the name in a block, without it, or with a        *)
(* failure.                                                                *)
LEMMA Ends ==
  ASSUME Behind, UNCHANGED <<dir, name>>, where' = "over",
         \/ retval' = 1 /\ inumber' = name /\ \E b \in DOMAIN Dp.blocks : HasName(b)
         \/ retval' = 0 /\ inumber' = Nobody
            /\ (failed' \/ \A b \in DOMAIN Dp.blocks : ~HasName(b))
         \/ inumber' = Nobody /\ \A b \in DOMAIN Dp.blocks : ~Searchable(b)
  PROVE  SearchInv'
<1>1. Present <=> \E b \in DOMAIN Dp.blocks : HasName(b)
  BY PresentIs DEF Behind
<1>2. Dp' = Dp /\ (Present' <=> Present)
  BY DEF Dp, Present, Magic
<1>3. (\A b \in DOMAIN Dp.blocks : ~Searchable(b)) => (\A b \in DOMAIN Dp.blocks : ~Searchable(b))'
  BY <1>2 DEF Searchable, Hole, Holding
<1>4. Dp'.form # "local"
  BY <1>2 DEF Behind
<1>. QED BY <1>1, <1>2, <1>3, <1>4 DEF SearchInv, LookupRight

LEMMA SearchedOn ==
  ASSUME Behind, Left, where = "blocks", NEW found \in BOOLEAN, Searched(found),
         found <=> HasName(dbno + 1)
  PROVE  SearchInv'
<1>1. dbno + 1 \in DOMAIN Dp.blocks
  BY DpIs DEF Behind, Sought, Left
<1>2. CASE found
  BY <1>1, <1>2, Ends DEF Searched, Answer
<1>3. CASE ~found
  BY <1>3, BlockBehind DEF Searched
<1>. QED BY <1>2, <1>3

LEMMA BlockNext ==
  ASSUME Behind, Left
  PROVE  /\ where = "blocks" /\ dir \in DOMAIN Directories /\ dbno \in Nat
         /\ dbno + 1 \in DOMAIN Dp.blocks /\ (dbno + 1) - 1 = dbno
BY DpIs DEF Behind, Sought, Left

LEMMA LeafKeeps == ASSUME Behind, LeafHole \/ LeafBlock PROVE SearchInv'
<1>0. Left /\ Dp.version = 1 /\ Magic = "leaf"
  BY DEF LeafHole, LeafBlock, Magic
<1>1. /\ where = "blocks" /\ dir \in DOMAIN Directories /\ dbno \in Nat
      /\ dbno + 1 \in DOMAIN Dp.blocks /\ (dbno + 1) - 1 = dbno
  BY <1>0, BlockNext
<1>2. CASE LeafHole /\ dbno = 0
  <2>1. where' = "over" /\ retval' = 0 /\ inumber' = Nobody /\ UNCHANGED <<dir, name>> /\ Hole(0)
    BY <1>2 DEF LeafHole, Answer
  <2>2. \A b \in DOMAIN Dp.blocks : ~HasName(b)
    BY <1>0, <1>1, <2>1, NothingInHoles
  <2>. QED BY <2>1, <2>2, Ends
<1>3. CASE LeafHole /\ dbno # 0
  <2>1. dbno' = dbno + 1 /\ UNCHANGED <<dir, name, inumber, retval, where>> /\ Hole(dbno)
    BY <1>3 DEF LeafHole, PassOver
  <2>2. ~HasName(dbno + 1)
    BY <1>0, <1>1, <2>1, NothingInHoles
  <2>3. ~Searchable(dbno + 1)
    BY <1>0, <1>1, <2>1 DEF Searchable
  <2>. QED BY <1>0, <1>1, <2>1, <2>2, <2>3, BlockBehind
<1>4. CASE LeafBlock /\ Dp.form = "node" /\ Content.magic = "node"
  <2>1. dbno' = dbno + 1 /\ UNCHANGED <<dir, name, inumber, retval, where>>
    BY <1>4 DEF LeafBlock, PassOver
  <2>2. ~HasName(dbno + 1) /\ ~Searchable(dbno + 1)
    BY <1>0, <1>4 DEF HasName, Searchable, Content
  <2>. QED BY <1>0, <1>1, <2>1, <2>2, BlockBehind
<1>5. CASE LeafBlock /\ ~(Dp.form = "node" /\ Content.magic = "node")
  <2>. DEFINE names == Dp.blocks[dbno + 1].names
              found == Content.magic = "leaf" /\ LeafFind(Content.names) # {}
  <2>1. Searched(found) /\ found \in BOOLEAN
    BY <1>5 DEF LeafBlock
  <2>2. names \in Seq(Name) /\ HashFollows(names) /\ name.hash \in Nat
    BY <1>1, DpIs DEF Behind, Sought
  <2>3. Content.magic = "leaf" => Ordered(names)
    BY <1>1, DpIs DEF Content
  <2>4. LeafFind(names) \subseteq Match(names)
    BY DEF LeafFind, Linear, ByHalves
  <2>5. Content.magic = "leaf" /\ LeafFind(names) = {} => Match(names) = {}
    <3>. HIDE DEF names
    <3>. QED BY <2>2, <2>3, LeafFindFinds
  <2>6. found <=> HasName(dbno + 1)
    BY <1>0, <2>4, <2>5 DEF HasName, Content, Match
  <2>. HIDE DEF found
  <2>. QED BY <1>0, <1>1, <2>1, <2>6, SearchedOn
<1>. QED BY <1>2, <1>3, <1>4, <1>5

LEMMA DataKeeps == ASSUME BufInv, Behind, DataHole \/ DataSearch PROVE SearchInv'
<1>0. Left /\ Dp.version = 2 /\ Magic = "data"
  BY DEF DataHole, DataSearch, Magic
<1>1. /\ where = "blocks" /\ dir \in DOMAIN Directories /\ dbno \in Nat
      /\ dbno + 1 \in DOMAIN Dp.blocks /\ (dbno + 1) - 1 = dbno
  BY <1>0, BlockNext
<1>2. CASE DataHole
  <2>1. /\ dbno' = dbno + 1 /\ UNCHANGED <<dir, name, inumber, retval, where>>
        /\ Hole(Off) /\ len < DIRBLKFSBS
    BY <1>2 DEF DataHole, PassOver
  <2>2. len \in Slots /\ Off = ((dbno + 1) - 1) * DIRBLKFSBS + len
    <3>1. len \in 0 .. DIRBLKFSBS - 1
      BY <2>1, BlockSize DEF BufInv
    <3>. QED BY <1>1, <3>1 DEF Slots, Off
  <2>3. ~HasName(dbno + 1)
    BY <1>0, <1>1, <2>1, <2>2, NothingInHoles
  <2>4. ~Searchable(dbno + 1)
    BY <1>0, <2>1, <2>2 DEF Searchable, Slots
  <2>. QED BY <1>0, <1>1, <2>1, <2>3, <2>4, BlockBehind
<1>3. CASE DataSearch
  <2>. DEFINE found == Content.magic = "data" /\ InBuffer /\ Match(Content.names) # {}
  <2>1. Searched(found) /\ found \in BOOLEAN /\ len >= DIRBLKFSBS
    BY <1>3 DEF DataSearch
  <2>2. InBuffer
    BY <1>0, <1>1, <2>1, BlockSize DEF BufInv, InBuffer, Slots
  <2>3. found <=> HasName(dbno + 1)
    BY <1>0, <2>2 DEF HasName, Content, Match
  <2>. HIDE DEF found
  <2>. QED BY <1>0, <1>1, <2>1, <2>3, SearchedOn
<1>. QED BY <1>2, <1>3

LEMMA BeginKeepsSearch ==
  ASSUME sys \in DOMAIN Systems, NEW d \in Sys.dirs, NEW n \in Sys.names, DirLookup(d, n)
  PROVE  SearchInv'
<1>1. dir' = d /\ name' = n /\ dbno' = 0 /\ Dp' = Directories[d]
  BY DEF DirLookup, LookupLocal, LookupBlocks, Begin, Dp
<1>2. d \in DOMAIN Directories /\ n \in Name /\ Directories[d] \in Directory
  BY ServicesAssumption, DirLookupAssumption DEF Sys
<1>3. CASE LookupLocal(d, n)
  <2>1. where' = "over" /\ (n.len >= MAXNAMELEN \/ Directories[d].form = "local")
    BY <1>3 DEF LookupLocal
  <2>2. n.len \in Nat /\ MAXNAMELEN \in Nat
    BY <1>2, DirLookupAssumption DEF Name
  <2>3. Present' <=> InInode(d, n)
    BY <1>1, <2>1, <2>2 DEF Present, InInode
  <2>4. \/ retval' = 1 /\ inumber' = name' /\ Present'
        \/ retval' = 0 /\ inumber' = Nobody /\ ~Present'
    BY <1>1, <1>3, <2>3 DEF LookupLocal
  <2>. QED BY <2>1, <2>4 DEF SearchInv, LookupRight
<1>4. CASE LookupBlocks(d, n)
  <2>1. /\ where' = "blocks" /\ retval' = UNSET /\ inumber' = Nobody
        /\ n.len < MAXNAMELEN /\ Directories[d].form # "local"
    BY <1>4 DEF LookupBlocks
  <2>2. ASSUME NEW b \in DOMAIN Directories[d].blocks
        PROVE  HashFollows(Directories[d].blocks[b].names)'
    BY <1>1, HashAssumption DEF Sys, HashFollows
  <2>3. Sought'
    BY <1>1, <1>2, <2>1, <2>2 DEF Sought, Name
  <2>4. 0 \in 0 .. Len(Directories[d].blocks) /\ ~\E b \in 1 .. 0 : TRUE
    BY <1>2 DEF Directory
  <2>5. Behind'
    BY <1>1, <2>1, <2>3, <2>4 DEF Behind
  <2>. QED BY <2>1, <2>5 DEF SearchInv, LookupRight
<1>. QED BY <1>3, <1>4 DEF DirLookup

LEMMA SearchUnchanged ==
  ASSUME SearchInv, UNCHANGED <<dir, name, where, dbno, retval, inumber, failed>>
  PROVE  SearchInv'
<1>1. Dp' = Dp
  BY DEF Dp
<1>2. Behind => Behind'
  BY <1>1 DEF Behind, Sought, HashFollows, HasName, Magic, Searchable, Hole, Holding
<1>3. LookupRight => LookupRight'
  BY <1>1 DEF LookupRight, Present, Magic, Searchable, Hole, Holding
<1>. QED BY <1>2, <1>3 DEF SearchInv

LEMMA StepKeepsSearch == ASSUME BufInv, SearchInv, DirStep PROVE SearchInv'
<1>1. CASE LeafHole \/ LeafBlock
  BY <1>1, LeafKeeps DEF SearchInv, LeafHole, LeafBlock, Left
<1>2. CASE DataHole \/ DataSearch
  BY <1>2, DataKeeps DEF SearchInv, DataHole, DataSearch, Left
<1>3. CASE DataRead
  BY <1>3, SearchUnchanged DEF DataRead
<1>4. CASE NoBuffer \/ ReadFails
  <2>1. /\ Behind /\ where' = "over" /\ retval' = 0 /\ inumber' = Nobody /\ failed'
        /\ UNCHANGED <<dir, name>>
    BY <1>4 DEF NoBuffer, ReadFails, Answer, Left, SearchInv
  <2>. QED BY <2>1, Ends
<1>5. CASE SearchEnds
  <2>1. Behind /\ dbno = Len(Dp.blocks) /\ where' = "over" /\ UNCHANGED <<dir, name>>
    BY <1>5 DEF SearchEnds, Answer, SearchInv
  <2>2. DOMAIN Dp.blocks = 1 .. dbno
    BY <2>1, DpIs DEF Behind, Sought
  <2>3. inumber' = Nobody /\ (retval = UNSET \/ retval' = retval)
    BY <1>5, <2>1 DEF SearchEnds, Answer, Behind
  <2>4. retval = UNSET => \A b \in DOMAIN Dp.blocks : ~Searchable(b)
    BY <2>1, <2>2 DEF Behind
  <2>5. retval = 0 => \A b \in DOMAIN Dp.blocks : ~HasName(b)
    BY <2>1, <2>2 DEF Behind
  <2>6. retval \in {UNSET, 0}
    BY <2>1 DEF Behind
  <2>. QED BY <2>1, <2>3, <2>4, <2>5, <2>6, Ends
<1>6. CASE Return
  BY <1>6 DEF Return, SearchInv, LookupRight
<1>. QED BY <1>1, <1>2, <1>3, <1>4, <1>5, <1>6 DEF DirStep

(* Whatever the directory and the extents its blocks lie in, the buffer    *)
(* that is searched holds the directory block it is searched for, and what *)
(* was read behind the buffer is the rest of an extent.                    *)
THEOREM BufferAlwaysRight == Spec => []BufferRight
<1>1. SysInv => BufferRight
  <2> SUFFICES ASSUME BufInv PROVE BufferRight
    BY DEF SysInv
  <2>1. Left /\ Dp.version = 2 /\ len >= DIRBLKFSBS => InBuffer
    BY BlockSize DEF BufInv, Left, InBuffer, Slots
  <2>2. OverInv
    BY DEF BufInv
  <2> QED BY <2>1, <2>2 DEF BufferRight, OverInv, BehindBlock
<1> QED BY <1>1, InitBuf, NextBuf, PTL DEF Spec

(* Whatever directories a disk has, of both formats, with whatever extents *)
(* and holes, a search that ends without a failure finds a name when, and  *)
(* only when, it is there.                                                 *)
THEOREM LookupAlwaysRight == Spec => []LookupRight
<1>1. Init => SearchInv
  BY DEF Init, DirInit, SearchInv, LookupRight
<1>2. SysInv /\ SearchInv /\ [Next]_vars => SearchInv'
  <2>. SUFFICES ASSUME BufInv, sys \in DOMAIN Systems, SearchInv, [Next]_vars
                PROVE  SearchInv'
    BY DEF SysInv
  <2>1. CASE UNCHANGED dirVars
    BY <2>1, SearchUnchanged DEF dirVars
  <2>2. CASE \E d \in Sys.dirs, n \in Sys.names : DirLookup(d, n)
    BY <2>2, BeginKeepsSearch
  <2>3. CASE DirStep
    BY <2>3, StepKeepsSearch
  <2>. QED BY <2>1, <2>2, <2>3
           DEF Next, TreeCall, DirCall, InitMemoryDescriptors, GetBlock, NextDescriptor, vars, dirVars
<1>3. SearchInv => LookupRight
  BY DEF SearchInv
<1>. QED BY <1>1, <1>2, <1>3, InitBuf, NextBuf, PTL DEF Spec
==============================================================================
