----------------------------- MODULE MCEfsRead ------------------------------
(***************************************************************************)
(* Two partitions with roots of the same number whose extents are in a     *)
(* list; files with their extents in the inode and in a list of one or two *)
(* blocks, two of them with the same number; a list that is refused; slots *)
(* behind the file's own that hold something; the end of a file and a      *)
(* directory beyond the reach of the driver's offsets.                     *)
(***************************************************************************)
EXTENDS EfsReadProps

Ext(o, b, n) == [off |-> o, bn |-> b, len |-> n]
Free == Ext(0, 0, 0)
Inode(p, i, k, s, n, slots, l) ==
  [base |-> p, ino |-> i, kind |-> k, size |-> s, num |-> n, slots |-> slots,
   indir |-> [n |-> 1, len |-> l]]

RootA == Inode(0, 2, "dir", 6, 3, <<Ext(0, 1, 1), Ext(1, 2, 1), Ext(2, 3, 1), Free>>, 2)
RootB == Inode(100, 2, "dir", 6, 3, <<Ext(0, 4, 1), Ext(1, 2, 1), Ext(2, 5, 1), Free>>, 2)
Stand == Inode(0, 5, "dir", 2, 1, <<Ext(0, 6, 1), Free>>, 0)
Barred == Inode(0, 6, "barred", 2, 1, <<Ext(0, 7, 1), Free>>, 0)

Odd == [Inode(100, 8, "dir", 6, 3, <<Ext(0, 20, 1), Ext(1, 21, 1), Ext(2, 22, 1), Free>>, 2)
          EXCEPT !.indir.n = 2]

InInode == Inode(0, 1, "reg", 9, 2, <<Ext(0, 20, 3), Ext(3, 127, 2)>>, 0)
Listed  == Inode(0, 7, "reg", 12, 3, <<Ext(0, 40, 1), Ext(1, 50, 2), Ext(3, 60, 3), Ext(0, 70, 6)>>, 2)
SameIno == Inode(100, 7, "reg", 7, 3, <<Ext(0, 10, 2), Ext(2, 14, 1), Ext(3, 16, 1), Free>>, 2)
Longer  == Inode(0, 3, "reg", 8, 4, <<Ext(0, 80, 1), Ext(1, 82, 1), Ext(2, 84, 1), Ext(3, 86, 1)>>, 2)
Broken  == [Inode(0, 4, "reg", 8, 3, <<Ext(0, 90, 1), Ext(1, 92, 1), Ext(2, 94, 2), Free>>, 2)
              EXCEPT !.indir.n = 2]

Far == Inode(0, 9, "dir", 2, 1, <<Ext(0, 131, 1), Free>>, 0)

MCFiles == {RootA, RootB, Stand, Barred, Odd, Far, InInode, Listed, SameIno, Longer, Broken}
NoEntries == [x \in {} |-> 0]
MCDirents ==
  [p \in {0, 100} |->
     IF p = 0
     THEN [b \in {1, 2, 3, 6, 7, 131} |->
             CASE b = 1 -> [unix |-> 1, broken |-> 4]
               [] b = 2 -> [stand |-> 5]
               [] b = 3 -> [sash |-> 7, lost |-> 6, far |-> 9]
               [] b = 6 -> [ide |-> 3]
               [] b = 7 -> [unix |-> 1]
               [] b = 131 -> [ide |-> 3]]
     ELSE [b \in {2, 4, 5, 20, 21, 22} |->
             CASE b \in {2, 20, 21, 22} -> NoEntries
               [] b = 4 -> [odd |-> 8]
               [] b = 5 -> [sash |-> 7]]]
MCPaths ==
  {<<>>, <<"unix">>, <<"sash">>, <<"broken">>, <<"stand", "ide">>, <<"stand", "sash">>,
   <<"unix", "sash">>, <<"lost", "unix">>, <<"stand">>, <<"odd", "sash">>,
   <<"far", "ide">>}
MCLens == {0, 1, 4, 5, 20}
MCPositions == {0, 1, 2, 6, 12, 13}
MCJunk == {Free, Ext(0, 99, 9)}
=============================================================================
