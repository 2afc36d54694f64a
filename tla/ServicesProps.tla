--------------------------- MODULE ServicesProps ----------------------------
(***************************************************************************)
(* What programs may rely on in the firmware's tables and in the search of *)
(* directories, stated over Services.                                      *)
(***************************************************************************)
EXTENDS Services

LinksAgree ==
  \A n \in Nodes :
    LET p == nodes[n].parent  c == nodes[n].child  q == nodes[n].peer IN
    /\ p # NULL => p \in Nodes /\ p < n
    /\ c # NULL => c \in Nodes /\ n < c /\ nodes[c].parent = n
    /\ q # NULL => q \in Nodes /\ n < q /\ nodes[q].parent = p /\ p # NULL
EveryLed ==
  \A n \in Nodes \ {newnode} :
    nodes[n].parent # NULL => \E m \in Nodes : nodes[m].child = n \/ nodes[m].peer = n
LedOnce ==
  \A m, n \in Nodes :
    /\ nodes[m].peer = nodes[n].peer /\ nodes[m].peer # NULL => m = n
    /\ nodes[m].child = nodes[n].peer => nodes[m].child = NULL

(* The links of the tree agree, at every moment of AddChild(): they point  *)
(* to later nodes, a child and every peer behind it name the parent, and   *)
(* each node that has a parent, the one being appended aside, is led to    *)
(* from exactly one place - so hinv and find_type(), which go to the child *)
(* and then to the peer, come to every linked node once and end.           *)
TreeSound == LinksAgree /\ EveryLed /\ LedOnce

Apart(d, e) == End(d) <= e.BasePage \/ End(e) <= d.BasePage

(* The descriptors share no page; free are only pages of the main memory   *)
(* and of the bank beyond it, and none of the HEART window, of the first   *)
(* 4 MB or of the PROM's own; all of the main memory, of which 64 MB are   *)
(* taken for granted, is described; and none was dropped.  mem_getblock()  *)
(* finds a largest free one.                                               *)
MapSoundOf(t, m) ==
  LET Window == D("window", HEARTLO, HEARTHI - HEARTLO) IN
  /\ Len(t) = Len(Wanted(m))
  /\ \A i, j \in DOMAIN t : i # j => Apart(t[i], t[j])
  /\ \A i \in DOMAIN t : t[i].Type = "FreeMemory" =>
       \/ /\ 33792 <= t[i].BasePage /\ End(t[i]) <= RamEnd(m)
          /\ Apart(t[i], Window) /\ Apart(t[i], D("PROM", 48896, 256))
       \/ 4 * t[i].BasePage = m.highBase /\ 4 * End(t[i]) <= m.highBase + m.highSize
  /\ \E i \in DOMAIN t : t[i].BasePage = 32768
  /\ \A i \in DOMAIN t :
       t[i].BasePage \in 32768 .. RamEnd(m) - 1 =>
         End(t[i]) = RamEnd(m) \/ \E j \in DOMAIN t : t[j].BasePage = End(t[i])

LargestBlock ==
  \A i \in DOMAIN descs :
    descs[i].Type = "FreeMemory" => /\ descs[block].Type = "FreeMemory"
                                    /\ descs[i].PageCount <= descs[block].PageCount

MapSound ==
  /\ descs # <<>> => MapSoundOf(descs, Sys.machine)
  /\ cur = 0 /\ block # 0 => LargestBlock

(* What is in a directory: the names of its well formed blocks.            *)
Magic == IF Dp.version = 1 THEN "leaf" ELSE "data"
Present ==
  \/ name.len < MAXNAMELEN /\ Dp.form = "local" /\ Dp.inline
       /\ \E i \in DOMAIN Dp.names : Dp.names[i].id = name.id
  \/ name.len < MAXNAMELEN /\ Dp.form # "local" /\ \E b \in DOMAIN Dp.blocks :
       /\ Dp.blocks[b].magic = Magic
       /\ \E i \in DOMAIN Dp.blocks[b].names : Dp.blocks[b].names[i].id = name.id

Searchable(b) ==
  /\ \A k \in 0 .. DIRBLKFSBS - 1 : Dp.version = 2 => ~Hole((b - 1) * DIRBLKFSBS + k)
  /\ Dp.version = 1 => ~Hole(b - 1) /\ ~(Dp.form = "node" /\ Dp.blocks[b].magic = "node")

(* A search that ends without a failure finds the name when, and only      *)
(* when, it is there - except that with no block to search, or only ones   *)
(* that are passed over, anything is answered.                             *)
LookupRight ==
  where = "over" =>
    \/ retval = 1 /\ inumber = name /\ Present
    \/ retval = 0 /\ inumber = Nobody /\ (failed \/ ~Present)
    \/ inumber = Nobody /\ Dp.form # "local"
         /\ \A b \in DOMAIN Dp.blocks : ~Searchable(b)

(* When a directory block of the second format is searched the buffer      *)
(* holds that block, however many extents it was read from; and more than  *)
(* the buffer takes was read only where the block's last extent goes on    *)
(* behind it, and no more than is left of that extent.                     *)
BufferRight ==
  /\ Left /\ Dp.version = 2 /\ len >= DIRBLKFSBS => InBuffer
  /\ over > 0 =>
       \E i \in DOMAIN Dp.extents : \E b \in 0 .. dbno :
         LET e == Dp.extents[i]  next == (b + 1) * DIRBLKFSBS IN
         e.off < next /\ e.off + e.len = next + over
=============================================================================
