----------------------------- MODULE MCServices -----------------------------
(***************************************************************************)
(* Machines at every boundary of the memory map, each with directories of  *)
(* one kind; leaves of more than 64 entries around every probe, and two    *)
(* nodes that programs may add to the tree.                                *)
(***************************************************************************)
EXTENDS ServicesProps, SequencesExt

Nm(i, l, h) == [id |-> i, len |-> l, hash |-> h]
A == Nm(1, 1, 2)
B == Nm(2, 2, 2)
C == Nm(3, 1, 1)
Long == Nm(4, 256, 3)

Blk(m, ns) == [magic |-> m, names |-> ns]
Ext(o, l) == [off |-> o, len |-> l]
Dir(v, f, es, bs, ns) ==
  [version |-> v, form |-> f, inline |-> TRUE, extents |-> es, blocks |-> bs, names |-> ns]

(* a entries before, b with the hash of A, of which the one at m is A, and *)
(* c behind.                                                               *)
Sorted(a, b, c, m) ==
  [i \in 1 .. a + b + c |->
     IF i <= a THEN Nm(9, 3, 1)
     ELSE IF i > a + b THEN Nm(9, 3, 3) ELSE IF i = a + m THEN A ELSE Nm(9, 3, 2)]
Leaf(ns) == Dir(1, "leaf", <<Ext(0, 1)>>, <<Blk("leaf", ns)>>, <<>>)

Befores == {0, 1, 15, 16, 17, 31, 32, 33, 48, 52, 60, 63}
Larges ==
  {Leaf(Sorted(a, b, 64 - a, m)) : a \in Befores, b \in {0, 1}, m \in {0, 1}}
    \cup {Leaf(Sorted(a, 9, 56, m)) : a \in {0, 20, 31, 33}, m \in {1, 5, 9}}
Smalls ==
  {Leaf(ns) : ns \in {<<>>, <<A>>, <<C, B, A>>, <<C, B>>, <<B, A, Nm(9, 3, 3)>>}}
    \cup {[Leaf(<<A>>) EXCEPT !.extents = <<>>, !.blocks = <<Blk("other", <<>>)>>],
          [Leaf(<<A>>) EXCEPT !.blocks = <<Blk("node", <<>>)>>]}

Locals ==
  {[Dir(v, "local", <<>>, <<>>, ns) EXCEPT !.inline = i] :
     v \in {1, 2}, ns \in {<<>>, <<C, A>>}, i \in BOOLEAN}
Node(es, bs) == Dir(1, "node", es, bs, <<>>)
Inner == Blk("node", <<>>)
None == Blk("other", <<>>)
Trees ==
  {Node(<<Ext(0, 4)>>, <<Inner, Blk("leaf", <<C>>), Inner, Blk("leaf", <<B, A>>)>>),
   Node(<<Ext(0, 1), Ext(2, 2)>>, <<Inner, None, Blk("leaf", <<C, B>>), Blk("other", <<>>)>>),
   Node(<<Ext(0, 1)>>, <<Inner, None, None>>), Node(<<>>, <<None, None>>)}

(* Data blocks of two file system blocks, in extents of every shape.       *)
Data(es, bs) == Dir(2, "data", es, bs, <<>>)
Bs(n) == SubSeq(<<Blk("data", <<C>>), Blk("data", <<B, A>>), Blk("other", <<>>)>>, 1, n)
Datas ==
  {Data(es, Bs(3)) :
     es \in {<<Ext(0, 6)>>, <<Ext(0, 2), Ext(2, 4)>>, <<Ext(0, 1), Ext(1, 3), Ext(4, 2)>>,
             <<Ext(0, 1), Ext(1, 1), Ext(2, 1), Ext(3, 1), Ext(4, 2)>>,
             <<Ext(0, 3), Ext(3, 9)>>}}
    \cup {Data(<<Ext(2, 2)>>, <<None, Blk("data", <<A>>)>>), Data(<<>>, <<None>>), Data(<<>>, <<>>)}

InSeq(S) == FoldSet(LAMBDA d, t : Append(t, d), <<>>, S)
Parts == <<InSeq(Larges), InSeq(Smalls), InSeq(Locals), InSeq(Trees), InSeq(Datas)>>
MCDirectories == FlattenSeq(Parts)
Part(i) ==
  LET before == Len(FlattenSeq(SubSeq(Parts, 1, i - 1))) IN before + 1 .. before + Len(Parts[i])

M(r, b, h) == [ram |-> r, highBase |-> b, highSize |-> h]
S(m, ds, ns) == [machine |-> m, dirs |-> ds, names |-> ns]
HIGH == 4 * 131072
MCSystems ==
  <<S(M(64, HIGH, 0), Part(1), {A}), S(M(65, HIGH, 4), Part(2), {A, C}),
    S(M(127, 4 * 98304, 7), Part(3), {A, B, Long}), S(M(128, HIGH, 65536 * 4), Part(4), {A, B}),
    S(M(256, 4 * 98304, 16384 * 4), Part(5), {A, B, Long}),
    S(M(32, HIGH, 3), {}, {}), S(M(257, HIGH, 0), {}, {}), S(M(4096, 4 * 98304, 9), {}, {})>>
=============================================================================
