---------------------------- MODULE AutobootProofs ----------------------------
(***************************************************************************)
(* The string list keeps its shape and loses no string but one it has no   *)
(* room for; from there the properties of the environment and of the boot  *)
(* sequence.                                                               *)
(***************************************************************************)
EXTENDS AutobootProps, WellFoundedInduction, FiniteSetTheorems, SequenceTheorems, TLAPS

(* A set of natural numbers that is not empty has a least one.             *)
LEMMA LeastNatural ==
  ASSUME NEW S, S \subseteq Nat, S # {}
  PROVE  \E i \in S : \A j \in S : i <= j
<1>. DEFINE Less == OpToRel(<, Nat)
<1>1. IsWellFoundedOn(Less, Nat)
  BY NatLessThanWellFounded
<1>2. PICK i \in S : \A j \in S : ~(<<j, i>> \in Less)
  <2>. HIDE DEF Less
  <2>. QED BY <1>1, WFMin
<1>3. \A j \in S : ~(j < i)
  BY <1>2 DEF OpToRel
<1>. QED BY <1>3

(* What holds of 0 and passes from each number to the next holds up to n.  *)
LEMMA CountUp ==
  ASSUME NEW n \in Nat, NEW S, 0 \in S, \A k \in 1 .. n : k - 1 \in S => k \in S
  PROVE  \A k \in 0 .. n : k \in S
<1>1. SUFFICES ASSUME NEW k \in 0 .. n, k \notin S PROVE FALSE
  OBVIOUS
<1>. DEFINE Missing == {m \in 0 .. n : m \notin S}
<1>2. PICK m \in Missing : \A j \in Missing : m <= j
  <2>1. Missing \subseteq Nat /\ Missing # {}
    BY <1>1
  <2>. QED BY <2>1, LeastNatural
<1>3. m \in 1 .. n /\ m - 1 \in 0 .. n /\ ~(m <= m - 1)
  OBVIOUS
<1>4. m - 1 \in S
  BY <1>2, <1>3
<1>. QED BY <1>3, <1>4

(* A function on 0 .. n given by its first value and by what each turn     *)
(* makes of the value before.                                              *)
Computes(h, n, V, b, turn) ==
  /\ h \in [0 .. n -> V] /\ h[0] = b
  /\ \A k \in 1 .. n : h[k] = turn[k][h[k - 1]]

LEMMA RecursionExists ==
  ASSUME NEW n \in Nat, NEW V, NEW b \in V, NEW turn \in [1 .. n -> [V -> V]]
  PROVE  \E h : Computes(h, n, V, b, turn)
<1>. DEFINE Upto(m, h) == h[0] = b /\ \A k \in 1 .. m : h[k] = turn[k][h[k - 1]]
            S == {m \in 0 .. n : \E h \in [0 .. m -> V] : Upto(m, h)}
<1>1. 0 \in S
  <2>1. Upto(0, [k \in 0 .. 0 |-> b]) /\ [k \in 0 .. 0 |-> b] \in [0 .. 0 -> V]
    OBVIOUS
  <2>. HIDE DEF Upto
  <2>. QED BY <2>1
<1>2. ASSUME NEW m \in 1 .. n, m - 1 \in S PROVE m \in S
  <2>1. PICK h \in [0 .. m - 1 -> V] : Upto(m - 1, h)
    BY <1>2
  <2>. DEFINE g == [k \in 0 .. m |-> IF k = m THEN turn[m][h[m - 1]] ELSE h[k]]
  <2>2. h[m - 1] \in V /\ turn[m] \in [V -> V]
    OBVIOUS
  <2>3. g \in [0 .. m -> V]
    <3>1. ASSUME NEW k \in 0 .. m PROVE g[k] \in V
      BY <2>2
    <3>. QED BY <3>1
  <2>4. Upto(m, g)
    <3>1. g[0] = b
      BY <2>1
    <3>2. ASSUME NEW k \in 1 .. m PROVE g[k] = turn[k][g[k - 1]]
      <4>1. k - 1 \in 0 .. m /\ k - 1 # m /\ g[k - 1] = h[k - 1]
        OBVIOUS
      <4>2. CASE k = m
        BY <4>1, <4>2
      <4>3. CASE k # m
        <5>1. k \in 1 .. m - 1 /\ g[k] = h[k]
          BY <4>3
        <5>2. h[k] = turn[k][h[k - 1]]
          BY <2>1, <5>1
        <5>. QED BY <4>1, <5>1, <5>2
      <4>. QED BY <4>2, <4>3
    <3>. QED BY <3>1, <3>2
  <2>. HIDE DEF Upto
  <2>. QED BY <2>3, <2>4
<1>. HIDE DEF S
<1>3. \A m \in 1 .. n : m - 1 \in S => m \in S
  BY <1>2
<1>4. \A m \in 0 .. n : m \in S
  BY <1>1, <1>3, CountUp
<1>5. n \in S
  BY <1>4
<1>. QED BY <1>5 DEF S, Computes

-----------------------------------------------------------------------------

LEMMA LeastIs ==
  ASSUME NEW S, S \subseteq Nat, S # {}
  PROVE  Least(S) \in S /\ \A n \in S : Least(S) <= n
<1>1. \E m \in S : \A n \in S : m <= n
  BY LeastNatural
<1>. QED BY <1>1 DEF Least

LEMMA NullIs == NULL \in Int /\ NULL \notin Nat
BY DEF NULL

LEMMA SameSeq ==
  ASSUME NEW S, NEW T, NEW s \in Seq(S), NEW t \in Seq(T), Len(s) = Len(t),
         \A i \in 1 .. Len(s) : s[i] = t[i]
  PROVE  s = t
<1>1. s = [i \in 1 .. Len(s) |-> s[i]] /\ t = [i \in 1 .. Len(t) |-> t[i]]
  OBVIOUS
<1>. QED BY <1>1

Places == 0 .. STRINGBYTES - 1
Cell == Chars \cup {NUL}
Buffers == [Places -> Cell]
Lists ==
  [strptrs : [0 .. MAXSTRINGS - 1 -> Int], strcnt : Nat, strp : Nat, strbuf : Buffers]

(* A string that begins at p has its NUL before q.                         *)
EndsBefore(buf, p, q) == \E e \in p .. q - 1 : buf[e] = NUL

(* n strings, the first free cell of buf at top.                           *)
Shape(ptr, n, top, buf) ==
  /\ ptr \in [0 .. MAXSTRINGS - 1 -> Int] /\ n \in Nat /\ top \in Nat /\ buf \in Buffers
  /\ n < MAXSTRINGS /\ ptr[n] = NULL
  /\ top < STRINGBYTES /\ buf[STRINGBYTES - 1] = NUL
  /\ \A i \in 0 .. n - 1 :
       ptr[i] \in 0 .. top - 1 /\ buf[ptr[i]] # NUL /\ EndsBefore(buf, ptr[i], top)
  /\ \A i, j \in 0 .. n - 1 : i < j => EndsBefore(buf, ptr[i], ptr[j])

Sound(sl) == sl \in Lists /\ Shape(sl.strptrs, sl.strcnt, sl.strp, sl.strbuf)

Named == Seq(Chars) \ {<<>>}

-----------------------------------------------------------------------------
(* Strings in a buffer.                                                    *)

LEMMA EndIs ==
  ASSUME NEW buf \in Buffers, NEW p \in Nat, NEW e \in p .. STRINGBYTES - 1, buf[e] = NUL
  PROVE  /\ StringEnd(buf, p) \in p .. e
         /\ buf[StringEnd(buf, p)] = NUL
         /\ \A q \in p .. StringEnd(buf, p) - 1 : buf[q] # NUL
<1>. DEFINE S == {q \in p .. STRINGBYTES - 1 : buf[q] = NUL}
<1>1. S \subseteq Nat /\ e \in S
  BY SizeAssumption
<1>2. Least(S) \in S /\ \A n \in S : Least(S) <= n
  BY <1>1, LeastIs
<1>3. StringEnd(buf, p) = Least(S)
  BY DEF StringEnd
<1>. HIDE DEF S
<1>4. Least(S) \in p .. STRINGBYTES - 1 /\ buf[Least(S)] = NUL /\ Least(S) <= e
  BY <1>1, <1>2 DEF S
<1>5. ASSUME NEW q \in p .. Least(S) - 1 PROVE buf[q] # NUL
  <2>1. ~(Least(S) <= q) /\ q \in p .. STRINGBYTES - 1
    BY <1>4, SizeAssumption
  <2>2. q \notin S
    BY <1>2, <2>1
  <2>. QED BY <2>1, <2>2 DEF S
<1>. QED BY <1>3, <1>4, <1>5

LEMMA StringIs ==
  ASSUME NEW buf \in Buffers, NEW p \in Nat, NEW e \in p .. STRINGBYTES - 1, buf[e] = NUL
  PROVE  /\ StringAt(buf, p) \in Seq(Chars)
         /\ Len(StringAt(buf, p)) = StringEnd(buf, p) - p
         /\ \A i \in 1 .. Len(StringAt(buf, p)) : StringAt(buf, p)[i] = buf[p + i - 1]
<1>. DEFINE z == StringEnd(buf, p)
<1>1. z \in p .. e /\ \A q \in p .. z - 1 : buf[q] # NUL
  BY EndIs
<1>. HIDE DEF z
<1>2. StringAt(buf, p) = [i \in 1 .. z - p |-> buf[p + i - 1]]
  BY DEF StringAt, z
<1>3. z - p \in Nat
  BY <1>1
<1>4. \A i \in 1 .. z - p : buf[p + i - 1] \in Chars
  <2>1. SUFFICES ASSUME NEW i \in 1 .. z - p PROVE buf[p + i - 1] \in Chars
    OBVIOUS
  <2>2. p + i - 1 \in Places /\ p + i - 1 \in p .. z - 1
    BY <1>1, SizeAssumption DEF Places
  <2>. QED BY <1>1, <2>2 DEF Buffers, Cell
<1>. QED BY <1>2, <1>3, <1>4 DEF z

(* Two buffers that agree up to a NUL hold the same string.                *)
LEMMA SameString ==
  ASSUME NEW buf \in Buffers, NEW bug \in Buffers, NEW p \in Nat,
         NEW e \in p .. STRINGBYTES - 1, buf[e] = NUL,
         \A q \in p .. e : bug[q] = buf[q]
  PROVE  StringEnd(bug, p) = StringEnd(buf, p) /\ StringAt(bug, p) = StringAt(buf, p)
<1>1. /\ StringEnd(buf, p) \in p .. e /\ buf[StringEnd(buf, p)] = NUL
      /\ \A q \in p .. StringEnd(buf, p) - 1 : buf[q] # NUL
  BY EndIs
<1>2. bug[e] = NUL
  BY SizeAssumption
<1>3. /\ StringEnd(bug, p) \in p .. e /\ bug[StringEnd(bug, p)] = NUL
      /\ \A q \in p .. StringEnd(bug, p) - 1 : bug[q] # NUL
  BY <1>2, EndIs
<1>4. StringEnd(bug, p) = StringEnd(buf, p)
  <2>1. ~(StringEnd(bug, p) < StringEnd(buf, p))
    BY <1>1, <1>3
  <2>2. ~(StringEnd(buf, p) < StringEnd(bug, p))
    BY <1>1, <1>3
  <2>. QED BY <1>1, <1>3, <2>1, <2>2
<1>5. \A i \in 1 .. StringEnd(buf, p) - p : bug[p + i - 1] = buf[p + i - 1]
  BY <1>1
<1>. QED BY <1>4, <1>5 DEF StringAt

(* What a sound list holds.                                                *)
LEMMA WalkOf ==
  ASSUME NEW ptr, NEW n, NEW top, NEW buf, Shape(ptr, n, top, buf)
  PROVE  Least({i \in 0 .. MAXSTRINGS - 1 : ptr[i] = NULL}) = n
<1>. DEFINE S == {i \in 0 .. MAXSTRINGS - 1 : ptr[i] = NULL}
<1>1. S \subseteq Nat /\ n \in S
  BY SizeAssumption DEF Shape
<1>2. \A i \in 0 .. n - 1 : i \notin S
  BY SizeAssumption, NullIs DEF Shape
<1>3. Least(S) \in S /\ \A i \in S : Least(S) <= i
  BY <1>1, LeastIs
<1>. HIDE DEF S
<1>4. Least(S) \in Nat /\ Least(S) <= n
  BY <1>1, <1>3
<1>5. Least(S) = n
  BY <1>2, <1>3, <1>4 DEF Shape
<1>. QED BY <1>5 DEF S

LEMMA StringOf ==
  ASSUME NEW ptr, NEW n, NEW top, NEW buf, Shape(ptr, n, top, buf), NEW i \in 0 .. n - 1
  PROVE  LET s == StringAt(buf, ptr[i]) IN
         /\ s \in Named /\ s[1] = buf[ptr[i]]
         /\ Len(s) = StringEnd(buf, ptr[i]) - ptr[i]
         /\ ptr[i] \in 0 .. top - 1 /\ StringEnd(buf, ptr[i]) \in 0 .. top - 1
         /\ buf[StringEnd(buf, ptr[i])] = NUL
         /\ StringEnd(buf, ptr[i]) < IF i + 1 < n THEN ptr[i + 1] ELSE top
<1>. DEFINE p == ptr[i]
            next == IF i + 1 < n THEN ptr[i + 1] ELSE top
<1>1. /\ n \in Nat /\ top \in Nat /\ top < STRINGBYTES /\ STRINGBYTES \in Nat
      /\ buf \in Buffers /\ p \in 0 .. top - 1 /\ buf[p] # NUL
  BY SizeAssumption DEF Shape
<1>2. EndsBefore(buf, p, next) /\ next \in Nat /\ next <= top
  <2>1. CASE i + 1 < n
    <3>1. i + 1 \in 0 .. n - 1 /\ i < i + 1
      BY <1>1, <2>1
    <3>. QED BY <1>1, <2>1, <3>1 DEF Shape
  <2>2. CASE ~(i + 1 < n)
    BY <1>1, <2>2 DEF Shape
  <2>. QED BY <2>1, <2>2
<1>. HIDE DEF p, next
<1>3. PICK e \in p .. next - 1 : buf[e] = NUL
  BY <1>2 DEF EndsBefore
<1>4. e \in p .. STRINGBYTES - 1 /\ p \in Nat
  BY <1>1, <1>2, <1>3
<1>5. /\ StringEnd(buf, p) \in p .. e /\ buf[StringEnd(buf, p)] = NUL
      /\ StringAt(buf, p) \in Seq(Chars)
      /\ Len(StringAt(buf, p)) = StringEnd(buf, p) - p
      /\ \A k \in 1 .. Len(StringAt(buf, p)) : StringAt(buf, p)[k] = buf[p + k - 1]
  BY <1>1, <1>3, <1>4, EndIs, StringIs
<1>6. StringEnd(buf, p) # p
  BY <1>1, <1>5
<1>7. /\ Len(StringAt(buf, p)) > 0 /\ StringEnd(buf, p) < next
      /\ StringEnd(buf, p) \in 0 .. top - 1
  BY <1>1, <1>2, <1>3, <1>5, <1>6
<1>8. StringAt(buf, p)[1] = buf[p] /\ StringAt(buf, p) \in Named
  BY <1>1, <1>5, <1>7 DEF Named
<1>. QED BY <1>1, <1>5, <1>7, <1>8 DEF p, next

LEMMA StringsAre ==
  ASSUME NEW sl, Sound(sl)
  PROVE  /\ Walk(sl) = 0 .. sl.strcnt - 1
         /\ Strings(sl) = [i \in 1 .. sl.strcnt |-> StringAt(sl.strbuf, sl.strptrs[i - 1])]
         /\ Strings(sl) \in Seq(Named) /\ Len(Strings(sl)) = sl.strcnt /\ sl.strcnt \in Nat
<1>0. sl.strcnt \in Nat /\ Shape(sl.strptrs, sl.strcnt, sl.strp, sl.strbuf)
  BY DEF Sound, Lists
<1>1. Walk(sl) = 0 .. sl.strcnt - 1
  BY <1>0, WalkOf DEF Walk
<1>2. Cardinality(Walk(sl)) = sl.strcnt
  BY <1>0, <1>1, FS_Interval
<1>3. Strings(sl) = [i \in 1 .. sl.strcnt |-> StringAt(sl.strbuf, sl.strptrs[i - 1])]
  BY <1>2 DEF Strings
<1>4. ASSUME NEW i \in 1 .. sl.strcnt PROVE StringAt(sl.strbuf, sl.strptrs[i - 1]) \in Named
  <2>1. i - 1 \in 0 .. sl.strcnt - 1
    BY <1>0
  <2>. QED BY <1>0, <2>1, StringOf
<1>. QED BY <1>0, <1>1, <1>3, <1>4

-----------------------------------------------------------------------------
(* The operations on the list.                                             *)

LEMMA InitStrSound ==
  ASSUME NEW sl \in Lists, sl.strbuf[STRINGBYTES - 1] = NUL
  PROVE  /\ Sound(InitStr(sl)) /\ Strings(InitStr(sl)) = <<>>
         /\ InitStr(sl).strp = 0 /\ InitStr(sl).strcnt = 0
<1>1. /\ sl.strptrs \in [0 .. MAXSTRINGS - 1 -> Int] /\ sl.strbuf \in Buffers
      /\ 0 \in 0 .. MAXSTRINGS - 1
  BY SizeAssumption DEF Lists
<1>2. ASSUME NEW f \in [0 .. MAXSTRINGS - 1 -> Int], NEW buf \in Buffers, buf[STRINGBYTES - 1] = NUL
      PROVE  Shape([f EXCEPT ![0] = NULL], 0, 0, buf)
  BY <1>1, <1>2, SizeAssumption, NullIs DEF Shape
<1>3. Shape([sl.strptrs EXCEPT ![0] = NULL], 0, 0, sl.strbuf)
  BY <1>1, <1>2
<1>4. /\ InitStr(sl).strptrs = [sl.strptrs EXCEPT ![0] = NULL]
      /\ InitStr(sl).strcnt = 0 /\ InitStr(sl).strp = 0 /\ InitStr(sl).strbuf = sl.strbuf
      /\ InitStr(sl) = [strptrs |-> InitStr(sl).strptrs, strcnt |-> InitStr(sl).strcnt,
                        strp |-> InitStr(sl).strp, strbuf |-> InitStr(sl).strbuf]
  BY DEF InitStr
<1>5. Sound(InitStr(sl))
  BY <1>3, <1>4 DEF Sound, Shape, Lists
<1>6. Strings(InitStr(sl)) \in Seq(Named) /\ Len(Strings(InitStr(sl))) = 0
  BY <1>4, <1>5, StringsAre
<1>. QED BY <1>4, <1>5, <1>6

LEMMA BlankIs == Blank \in Lists /\ Blank.strbuf[STRINGBYTES - 1] = NUL
<1>1. STRINGBYTES - 1 \in Places
  BY SizeAssumption DEF Places
<1>2. Blank.strptrs \in [0 .. MAXSTRINGS - 1 -> Int]
  BY NullIs DEF Blank
<1>3. [i \in Places |-> NUL] \in Buffers
  BY DEF Buffers, Cell
<1>4. Blank.strbuf = [i \in Places |-> NUL]
  BY DEF Blank, Places
<1>5. Blank.strbuf[STRINGBYTES - 1] = NUL
  BY <1>1, <1>4
<1>6. Blank = [strptrs |-> Blank.strptrs, strcnt |-> 0, strp |-> 0, strbuf |-> Blank.strbuf]
  BY DEF Blank
<1>. QED BY <1>2, <1>3, <1>4, <1>5, <1>6 DEF Lists

(* A string s behind the first n: the new vector and the new buffer.       *)
Longer(ptu, ptr, n, top) ==
  /\ ptu \in [0 .. MAXSTRINGS - 1 -> Int] /\ ptu[n] = top /\ ptu[n + 1] = NULL
  /\ \A i \in 0 .. n - 1 : ptu[i] = ptr[i]

Written(bug, buf, top, s) ==
  /\ bug \in Buffers
  /\ \A q \in 0 .. top - 1 : bug[q] = buf[q]
  /\ \A k \in 1 .. Len(s) : bug[top + k - 1] = s[k]
  /\ bug[top + Len(s)] = NUL /\ bug[STRINGBYTES - 1] = NUL

LEMMA Extended ==
  ASSUME NEW ptr, NEW n, NEW top, NEW buf, Shape(ptr, n, top, buf),
         NEW s \in Named, n < MAXSTRINGS - 1, top + Len(s) + 1 < STRINGBYTES,
         NEW ptu, Longer(ptu, ptr, n, top), NEW bug, Written(bug, buf, top, s)
  PROVE  /\ Shape(ptu, n + 1, top + Len(s) + 1, bug)
         /\ \A i \in 0 .. n - 1 : StringAt(bug, ptu[i]) = StringAt(buf, ptr[i])
         /\ StringAt(bug, ptu[n]) = s
<1>. DEFINE end == top + Len(s)
<1>1. /\ n \in Nat /\ top \in Nat /\ STRINGBYTES \in Nat /\ MAXSTRINGS \in Nat
      /\ buf \in Buffers /\ ptr \in [0 .. MAXSTRINGS - 1 -> Int]
      /\ s \in Seq(Chars) /\ Len(s) \in Nat /\ Len(s) > 0 /\ s[1] \in Chars
      /\ n \in 0 .. MAXSTRINGS - 1 /\ n + 1 \in 0 .. MAXSTRINGS - 1
  BY SizeAssumption DEF Shape, Named
<1>2. /\ end \in Nat /\ end = top + Len(s) /\ end + 1 < STRINGBYTES /\ top < end
      /\ bug \in Buffers /\ bug[end] = NUL /\ bug[STRINGBYTES - 1] = NUL
  BY <1>1 DEF Written
<1>. HIDE DEF end
<1>below. \A q \in 0 .. top - 1 : bug[q] = buf[q]
  BY DEF Written
<1>copied. \A k \in 1 .. Len(s) : bug[top + k - 1] = s[k]
  BY DEF Written
<1>3. /\ ptu \in [0 .. MAXSTRINGS - 1 -> Int] /\ \A i \in 0 .. n - 1 : ptu[i] = ptr[i]
      /\ ptu[n] = top /\ ptu[n + 1] = NULL
  BY DEF Longer
<1>4. ASSUME NEW i \in 0 .. n - 1
      PROVE  /\ ptr[i] \in 0 .. top - 1 /\ buf[ptr[i]] # NUL
             /\ EndsBefore(buf, ptr[i], top) /\ EndsBefore(bug, ptr[i], top)
             /\ EndsBefore(bug, ptr[i], end + 1)
             /\ StringAt(bug, ptr[i]) = StringAt(buf, ptr[i])
  <2>1. ptr[i] \in 0 .. top - 1 /\ buf[ptr[i]] # NUL
    BY DEF Shape
  <2>2. PICK e \in ptr[i] .. top - 1 : buf[e] = NUL
    BY DEF Shape, EndsBefore
  <2>3. bug[e] = NUL /\ e \in ptr[i] .. end /\ e \in ptr[i] .. STRINGBYTES - 1
    BY <1>1, <1>2, <1>below, <2>1, <2>2
  <2>4. ASSUME NEW q \in ptr[i] .. e PROVE bug[q] = buf[q]
    <3>1. q \in 0 .. top - 1
      BY <1>1, <2>1, <2>2
    <3>. QED BY <1>below, <3>1
  <2>5. StringAt(bug, ptr[i]) = StringAt(buf, ptr[i])
    BY <1>1, <1>2, <2>1, <2>2, <2>3, <2>4, SameString
  <2>6. EndsBefore(buf, ptr[i], top) /\ EndsBefore(bug, ptr[i], top)
    BY <2>2, <2>3 DEF EndsBefore
  <2>7. EndsBefore(bug, ptr[i], end + 1)
    <3>1. (end + 1) - 1 = end
      BY <1>2
    <3>. QED BY <2>3, <3>1 DEF EndsBefore
  <2>. QED BY <2>1, <2>5, <2>6, <2>7
<1>5. ASSUME NEW i \in 0 .. n - 1, NEW j \in 0 .. n - 1, i < j
      PROVE  EndsBefore(bug, ptr[i], ptr[j])
  <2>0. ptr[i] \in 0 .. top - 1 /\ ptr[j] \in 0 .. top - 1
    BY <1>4
  <2>1. PICK e \in ptr[i] .. ptr[j] - 1 : buf[e] = NUL
    BY <1>5 DEF Shape, EndsBefore
  <2>2. e \in 0 .. top - 1
    BY <1>1, <2>0, <2>1
  <2>. QED BY <1>below, <2>1, <2>2 DEF EndsBefore
<1>6. bug[top] = s[1] /\ bug[top] # NUL /\ EndsBefore(bug, top, end + 1)
  <2>1. bug[top] = s[1]
    <3>1. 1 \in 1 .. Len(s) /\ top + 1 - 1 = top
      BY <1>1
    <3>. QED BY <1>copied, <3>1
  <2>2. (end + 1) - 1 = end /\ end \in top .. end
    BY <1>1, <1>2
  <2>3. EndsBefore(bug, top, end + 1)
    BY <1>2, <2>2 DEF EndsBefore
  <2>. QED BY <1>1, <2>1, <2>3, DefaultsAssumption
<1>7. Shape(ptu, n + 1, end + 1, bug)
  <2>1. ASSUME NEW i \in 0 .. (n + 1) - 1
        PROVE  /\ ptu[i] \in 0 .. (end + 1) - 1 /\ bug[ptu[i]] # NUL
               /\ EndsBefore(bug, ptu[i], end + 1)
    <3>1. CASE i \in 0 .. n - 1
      <4>1. ptu[i] = ptr[i] /\ ptr[i] \in 0 .. top - 1
        BY <1>3, <1>4, <3>1
      <4>2. bug[ptr[i]] = buf[ptr[i]] /\ ptr[i] \in 0 .. (end + 1) - 1
        BY <1>1, <1>2, <1>below, <4>1
      <4>. QED BY <1>4, <3>1, <4>1, <4>2
    <3>2. CASE i = n
      <4>1. ptu[i] = top /\ top \in 0 .. (end + 1) - 1
        BY <1>1, <1>2, <1>3, <3>2
      <4>. QED BY <1>6, <4>1
    <3>. QED BY <1>1, <3>1, <3>2
  <2>2. ASSUME NEW i \in 0 .. (n + 1) - 1, NEW j \in 0 .. (n + 1) - 1, i < j
        PROVE  EndsBefore(bug, ptu[i], ptu[j])
    <3>1. i \in 0 .. n - 1
      BY <1>1, <2>2
    <3>2. CASE j \in 0 .. n - 1
      BY <1>3, <1>5, <2>2, <3>1, <3>2
    <3>3. CASE j = n
      <4>1. ptu[i] = ptr[i] /\ ptu[j] = top
        BY <1>3, <3>1, <3>3
      <4>2. EndsBefore(bug, ptr[i], top)
        BY <1>4, <3>1
      <4>. QED BY <4>1, <4>2
    <3>. QED BY <1>1, <3>2, <3>3
  <2>3. n + 1 \in Nat /\ n + 1 < MAXSTRINGS /\ end + 1 \in Nat /\ end + 1 < STRINGBYTES
    BY <1>1, <1>2
  <2>4. ptu[n + 1] = NULL /\ bug \in Buffers /\ bug[STRINGBYTES - 1] = NUL
    BY <1>2, <1>3
  <2>5. \A i \in 0 .. (n + 1) - 1 : /\ ptu[i] \in 0 .. (end + 1) - 1 /\ bug[ptu[i]] # NUL
                                   /\ EndsBefore(bug, ptu[i], end + 1)
    BY <2>1
  <2>6. \A i, j \in 0 .. (n + 1) - 1 : i < j => EndsBefore(bug, ptu[i], ptu[j])
    BY <2>2
  <2>7. ptu \in [0 .. MAXSTRINGS - 1 -> Int]
    BY <1>3
  <2>. QED BY <2>3, <2>4, <2>5, <2>6, <2>7, Zenon DEF Shape
<1>8. StringAt(bug, top) = s
  <2>1. end \in top .. STRINGBYTES - 1 /\ bug[end] = NUL
    BY <1>1, <1>2
  <2>2. /\ StringEnd(bug, top) \in top .. end
        /\ bug[StringEnd(bug, top)] = NUL
        /\ StringAt(bug, top) \in Seq(Chars)
        /\ Len(StringAt(bug, top)) = StringEnd(bug, top) - top
        /\ \A k \in 1 .. Len(StringAt(bug, top)) : StringAt(bug, top)[k] = bug[top + k - 1]
    <3>1. top \in Nat /\ bug \in Buffers
      BY <1>1, <1>2
    <3>. QED BY <2>1, <3>1, EndIs, StringIs
  <2>3. StringEnd(bug, top) = end
    <3>1. SUFFICES ASSUME StringEnd(bug, top) < end PROVE FALSE
      BY <1>2, <2>2
    <3>. DEFINE z == StringEnd(bug, top)
                k == z - top + 1
    <3>0. z \in Int /\ top <= z /\ z < top + Len(s)
      BY <1>1, <1>2, <2>2, <3>1
    <3>. HIDE DEF z
    <3>1a. top \in Nat /\ Len(s) \in Nat
      BY <1>1
    <3>2. k \in 1 .. Len(s) /\ top + k - 1 = z
      BY <3>0, <3>1a
    <3>. HIDE DEF k
    <3>3. bug[top + k - 1] = s[k] /\ s[k] \in Chars
      <4>1. s \in Seq(Chars)
        BY <1>1
      <4>2. s[k] \in Chars
        BY <3>2, <4>1
      <4>. QED BY <1>copied, <3>2, <4>2
    <3>4. bug[z] = NUL
      BY <2>2 DEF z
    <3>5. bug[z] = s[k]
      BY <3>2, <3>3
    <3>6. NUL \notin Chars
      BY DefaultsAssumption
    <3>. QED BY <3>3, <3>4, <3>5, <3>6
  <2>4. Len(StringAt(bug, top)) = Len(s)
    BY <1>1, <1>2, <2>2, <2>3
  <2>5. \A k \in 1 .. Len(s) : StringAt(bug, top)[k] = s[k]
    BY <1>copied, <2>2, <2>4
  <2>. QED BY <1>1, <2>2, <2>4, <2>5, SameSeq
<1>. QED BY <1>2, <1>3, <1>4, <1>7, <1>8

LEMMA AddedSound ==
  ASSUME NEW sl, Sound(sl), NEW s \in Named, ~TooMany(sl), ~NoRoom(s, sl)
  PROVE  /\ Sound(Added(s, sl))
         /\ Strings(Added(s, sl)) = Append(Strings(sl), s)
         /\ Added(s, sl).strcnt = sl.strcnt + 1
         /\ Added(s, sl).strp = sl.strp + Len(s) + 1
<1>. DEFINE ptr == sl.strptrs  n == sl.strcnt  top == sl.strp  buf == sl.strbuf
            ptu == Added(s, sl).strptrs  bug == Added(s, sl).strbuf
<1>1. /\ Shape(ptr, n, top, buf) /\ n < MAXSTRINGS - 1 /\ top + Len(s) + 1 < STRINGBYTES
      /\ n \in Nat /\ top \in Nat /\ buf \in Buffers /\ buf[STRINGBYTES - 1] = NUL
      /\ STRINGBYTES \in Nat /\ MAXSTRINGS \in Nat
  <2>1. STRINGBYTES \in Nat /\ MAXSTRINGS \in Nat /\ s \in Seq(Chars)
    BY SizeAssumption DEF Named
  <2>2. Shape(ptr, n, top, buf)
    BY DEF Sound
  <2>. HIDE DEF ptr, n, top, buf
  <2>3. n \in Nat /\ top \in Nat /\ buf \in Buffers /\ buf[STRINGBYTES - 1] = NUL
    BY <2>2 DEF Shape
  <2>4. ~(n >= MAXSTRINGS - 1) /\ ~(top + Len(s) + 1 >= STRINGBYTES)
    BY DEF TooMany, NoRoom, n, top
  <2>. QED BY <2>1, <2>2, <2>3, <2>4
<1>2. s \in Seq(Chars) /\ Len(s) \in Nat /\ \A k \in 1 .. Len(s) : s[k] \in Chars
  BY DEF Named
<1>3. /\ ptu = [ptr EXCEPT ![n] = top, ![n + 1] = NULL]
      /\ Added(s, sl) = [strptrs |-> ptu, strcnt |-> n + 1, strp |-> top + Len(s) + 1, strbuf |-> bug]
  BY DEF Added
<1>4. bug = [q \in Places |-> IF q - top \in 0 .. Len(s) - 1 THEN s[q - top + 1]
                               ELSE IF q = top + Len(s) THEN NUL ELSE buf[q]]
  BY <1>1 DEF Added, Buffers
<1>. HIDE DEF ptr, n, top, buf, ptu, bug
<1>5. ASSUME NEW q \in Places PROVE bug[q] \in Cell
  <2>1. CASE q - top \in 0 .. Len(s) - 1
    <3>1. q - top + 1 \in 1 .. Len(s)
      BY <1>1, <1>2, <2>1 DEF Places
    <3>. QED BY <1>2, <1>4, <2>1, <3>1 DEF Cell
  <2>2. CASE q - top \notin 0 .. Len(s) - 1 /\ q = top + Len(s)
    BY <1>4, <2>2 DEF Cell
  <2>3. CASE q - top \notin 0 .. Len(s) - 1 /\ q # top + Len(s)
    BY <1>1, <1>4, <2>3 DEF Buffers
  <2>. QED BY <2>1, <2>2, <2>3
<1>6. bug \in Buffers
  BY <1>4, <1>5 DEF Buffers
<1>7. /\ \A q \in 0 .. top - 1 : bug[q] = buf[q]
      /\ \A k \in 1 .. Len(s) : bug[top + k - 1] = s[k]
      /\ bug[top + Len(s)] = NUL /\ bug[STRINGBYTES - 1] = NUL
  <2>1. ASSUME NEW q \in 0 .. top - 1 PROVE bug[q] = buf[q]
    <3>1. q \in Places /\ q - top \notin 0 .. Len(s) - 1 /\ q # top + Len(s)
      BY <1>1, <1>2 DEF Places
    <3>. QED BY <1>4, <3>1
  <2>2. ASSUME NEW k \in 1 .. Len(s) PROVE bug[top + k - 1] = s[k]
    <3>1. /\ top + k - 1 \in Places /\ (top + k - 1) - top \in 0 .. Len(s) - 1
          /\ (top + k - 1) - top + 1 = k
      BY <1>1, <1>2 DEF Places
    <3>. QED BY <1>4, <3>1
  <2>3. top + Len(s) \in Places /\ (top + Len(s)) - top \notin 0 .. Len(s) - 1
    BY <1>1, <1>2 DEF Places
  <2>4. /\ STRINGBYTES - 1 \in Places /\ STRINGBYTES - 1 # top + Len(s)
        /\ (STRINGBYTES - 1) - top \notin 0 .. Len(s) - 1
    BY <1>1, <1>2 DEF Places
  <2>. QED BY <1>1, <1>4, <2>1, <2>2, <2>3, <2>4
<1>8. /\ Shape(ptu, n + 1, top + Len(s) + 1, bug)
      /\ \A i \in 0 .. n - 1 : StringAt(bug, ptu[i]) = StringAt(buf, ptr[i])
      /\ StringAt(bug, ptu[n]) = s
  <2>1. /\ ptr \in [0 .. MAXSTRINGS - 1 -> Int]
        /\ n \in 0 .. MAXSTRINGS - 1 /\ n + 1 \in 0 .. MAXSTRINGS - 1
    BY <1>1 DEF Shape
  <2>2. /\ ptu \in [0 .. MAXSTRINGS - 1 -> Int] /\ ptu[n] = top /\ ptu[n + 1] = NULL
        /\ \A i \in 0 .. n - 1 : ptu[i] = ptr[i]
    BY <1>1, <1>3, <2>1, NullIs
  <2>3. Longer(ptu, ptr, n, top) /\ Written(bug, buf, top, s)
    BY <1>6, <1>7, <2>2 DEF Longer, Written
  <2>. QED BY <1>1, <2>3, Extended
<1>9. Sound(Added(s, sl))
  <2>1. /\ Added(s, sl).strptrs = ptu /\ Added(s, sl).strcnt = n + 1
        /\ Added(s, sl).strp = top + Len(s) + 1 /\ Added(s, sl).strbuf = bug
    BY <1>3
  <2>2. /\ ptu \in [0 .. MAXSTRINGS - 1 -> Int] /\ n + 1 \in Nat
        /\ top + Len(s) + 1 \in Nat
    BY <1>8 DEF Shape
  <2>3. Added(s, sl) \in Lists
    <3>. DEFINE m == n + 1  till == top + Len(s) + 1
    <3>1. m \in Nat /\ till \in Nat /\ Added(s, sl) = [strptrs |-> ptu, strcnt |-> m, strp |-> till, strbuf |-> bug]
      BY <1>3, <2>2
    <3>. HIDE DEF m, till
    <3>. QED BY <1>6, <2>2, <3>1 DEF Lists
  <2>. QED BY <1>8, <2>1, <2>3 DEF Sound
<1>10. /\ Strings(sl) = [i \in 1 .. n |-> StringAt(buf, ptr[i - 1])] /\ Strings(sl) \in Seq(Named)
       /\ Strings(Added(s, sl)) = [i \in 1 .. n + 1 |-> StringAt(bug, ptu[i - 1])]
       /\ Strings(Added(s, sl)) \in Seq(Named)
  <2>1. /\ Added(s, sl).strptrs = ptu /\ Added(s, sl).strcnt = n + 1
        /\ Added(s, sl).strbuf = bug
    BY <1>3
  <2>. QED BY <1>9, <2>1, StringsAre DEF n, ptr, buf
<1>11. ASSUME NEW i \in 1 .. n + 1
       PROVE  Strings(Added(s, sl))[i] = IF i <= n THEN Strings(sl)[i] ELSE s
  <2>1. CASE i <= n
    <3>1. i - 1 \in 0 .. n - 1 /\ i \in 1 .. n
      BY <1>1, <2>1
    <3>. QED BY <1>8, <1>10, <2>1, <3>1
  <2>2. CASE ~(i <= n)
    <3>1. i - 1 = n
      BY <1>1, <2>2
    <3>. QED BY <1>8, <1>10, <2>2, <3>1
  <2>. QED BY <2>1, <2>2
<1>12. Strings(Added(s, sl)) = Append(Strings(sl), s)
  <2>1. Len(Strings(sl)) = n /\ Len(Strings(Added(s, sl))) = n + 1
    BY <1>1, <1>10
  <2>. QED BY <1>1, <1>10, <1>11, <2>1
<1>13. Added(s, sl).strcnt = n + 1 /\ Added(s, sl).strp = top + Len(s) + 1
  BY <1>3
<1>. QED BY <1>9, <1>12, <1>13 DEF n, top

-----------------------------------------------------------------------------
(* Collecting the garbage.                                                 *)

Step(s, done) == IF TooMany(done) \/ NoRoom(s, done) THEN done ELSE Added(s, done)

(* The lists of the copy loop, after each string.                          *)
Packing(h, strings, tl) ==
  /\ h \in [0 .. Len(strings) -> {l \in Lists : Sound(l)}]
  /\ h[0] = InitStr(tl)
  /\ \A k \in 1 .. Len(strings) : h[k] = Step(strings[k], h[k - 1])
  /\ Repacked(strings, tl) = h[Len(strings)]

LEMMA RepackedIs ==
  ASSUME NEW strings \in Seq(Named), NEW tl \in Lists, tl.strbuf[STRINGBYTES - 1] = NUL
  PROVE  \E h : Packing(h, strings, tl)
<1>. DEFINE V == {l \in Lists : Sound(l)}
            n == Len(strings)
            step == [k \in 1 .. n |-> [l \in V |-> Step(strings[k], l)]]
            F(h) == [k \in 0 .. n |->
                       IF k = 0 THEN InitStr(tl)
                       ELSE IF TooMany(h[k - 1]) \/ NoRoom(strings[k], h[k - 1]) THEN h[k - 1]
                            ELSE Added(strings[k], h[k - 1])]
            up == CHOOSE h : h = F(h)
<1>1. n \in Nat /\ \A k \in 1 .. n : strings[k] \in Named
  OBVIOUS
<1>2. InitStr(tl) \in V
  BY InitStrSound DEF Sound
<1>3. ASSUME NEW k \in 1 .. n, NEW l \in V PROVE Step(strings[k], l) \in V
  <2>1. strings[k] \in Named
    BY <1>1
  <2>2. CASE TooMany(l) \/ NoRoom(strings[k], l)
    BY <2>2 DEF Step
  <2>3. CASE ~(TooMany(l) \/ NoRoom(strings[k], l))
    <3>1. Sound(Added(strings[k], l))
      BY <2>1, <2>3, AddedSound
    <3>. QED BY <2>3, <3>1 DEF Step, Sound
  <2>. QED BY <2>2, <2>3
<1>. HIDE DEF V
<1>4. step \in [1 .. n -> [V -> V]]
  BY <1>3
<1>5. PICK h : Computes(h, n, V, InitStr(tl), step)
  <2>1. n \in Nat
    BY <1>1
  <2>. HIDE DEF step, n
  <2>. QED BY <1>2, <1>4, <2>1, RecursionExists
<1>values. /\ h \in [0 .. n -> V] /\ h[0] = InitStr(tl)
       /\ \A k \in 1 .. n : h[k] = step[k][h[k - 1]]
  BY <1>5 DEF Computes
<1>6. \A k \in 1 .. n : h[k] = Step(strings[k], h[k - 1])
  <2>1. SUFFICES ASSUME NEW k \in 1 .. n PROVE h[k] = Step(strings[k], h[k - 1])
    OBVIOUS
  <2>2. h[k - 1] \in V
    BY <1>1, <1>values
  <2>. QED BY <1>values, <2>2
<1>7. h = F(h)
  <2>1. h = [k \in 0 .. n |-> h[k]]
    BY <1>values
  <2>2. ASSUME NEW k \in 0 .. n PROVE h[k] = F(h)[k]
    BY <1>1, <1>values, <1>6 DEF Step
  <2>. QED BY <2>1, <2>2
<1>8. up = F(up)
  BY <1>7
<1>9. Repacked(strings, tl) = up[n]
  BY DEF Repacked
<1>. HIDE DEF up
<1>10. up[0] = InitStr(tl) /\ \A k \in 1 .. n : up[k] = Step(strings[k], up[k - 1])
  <2>1. SUFFICES \A k \in 0 .. n :
                   up[k] = IF k = 0 THEN InitStr(tl) ELSE Step(strings[k], up[k - 1])
    BY <1>1
  <2>. QED BY <1>8 DEF Step
<1>11. \A k \in 0 .. n : up[k] = h[k]
  <2>. DEFINE Same == {k \in 0 .. n : up[k] = h[k]}
  <2>1. 0 \in Same
    BY <1>1, <1>values, <1>10
  <2>2. \A k \in 1 .. n : k - 1 \in Same => k \in Same
    BY <1>6, <1>10
  <2>3. \A k \in 0 .. n : k \in Same
    <3>. HIDE DEF Same
    <3>. QED BY <1>1, <2>1, <2>2, CountUp
  <2>. QED BY <2>3
<1>12. Repacked(strings, tl) = h[n]
  BY <1>1, <1>9, <1>11
<1>. QED BY <1>values, <1>6, <1>12 DEF V, Packing

(* What the first k strings take.                                          *)
Counting(c, strings) ==
  /\ c \in [0 .. Len(strings) -> Nat]
  /\ c[0] = 0
  /\ \A k \in 1 .. Len(strings) : c[k] = c[k - 1] + Len(strings[k]) + 1
  /\ CellsUsed(strings) = c[Len(strings)]

LEMMA CellsUsedIs ==
  ASSUME NEW strings \in Seq(Named)
  PROVE  \E c : Counting(c, strings)
<1>. DEFINE n == Len(strings)
            step == [k \in 1 .. n |-> [m \in Nat |-> m + Len(strings[k]) + 1]]
            F(h) == [k \in 0 .. n |-> IF k = 0 THEN 0 ELSE h[k - 1] + Len(strings[k]) + 1]
            up == CHOOSE h : h = F(h)
<1>1. n \in Nat /\ \A k \in 1 .. n : Len(strings[k]) \in Nat
  <2>1. ASSUME NEW k \in 1 .. n PROVE Len(strings[k]) \in Nat
    <3>1. strings[k] \in Named
      OBVIOUS
    <3>. QED BY <3>1 DEF Named
  <2>. QED BY <2>1
<1>2. step \in [1 .. n -> [Nat -> Nat]]
  BY <1>1
<1>3. PICK h : Computes(h, n, Nat, 0, step)
  <2>1. n \in Nat
    BY <1>1
  <2>. HIDE DEF step, n
  <2>. QED BY <1>2, <2>1, RecursionExists
<1>4. /\ h \in [0 .. n -> Nat] /\ h[0] = 0
      /\ \A k \in 1 .. n : h[k] = step[k][h[k - 1]]
  BY <1>3 DEF Computes
<1>5. \A k \in 1 .. n : h[k] = h[k - 1] + Len(strings[k]) + 1
  <2>1. SUFFICES ASSUME NEW k \in 1 .. n PROVE h[k] = h[k - 1] + Len(strings[k]) + 1
    OBVIOUS
  <2>2. h[k - 1] \in Nat
    <3>1. k - 1 \in 0 .. n
      BY <1>1
    <3>. HIDE DEF n
    <3>. QED BY <1>4, <3>1
  <2>. QED BY <1>4, <2>2
<1>6. h = F(h)
  <2>1. h = [k \in 0 .. n |-> h[k]]
    BY <1>4
  <2>2. ASSUME NEW k \in 0 .. n PROVE h[k] = F(h)[k]
    BY <1>1, <1>4, <1>5
  <2>. QED BY <2>1, <2>2
<1>7. up = F(up)
  BY <1>6
<1>8. CellsUsed(strings) = up[n]
  BY DEF CellsUsed
<1>. HIDE DEF up
<1>9. \A k \in 0 .. n : up[k] = h[k]
  <2>. DEFINE Same == {k \in 0 .. n : up[k] = h[k]}
  <2>1. 0 \in Same
    BY <1>1, <1>4, <1>7
  <2>2. ASSUME NEW k \in 1 .. n, k - 1 \in Same PROVE k \in Same
    <3>1. k \in 0 .. n /\ k # 0 /\ up[k - 1] = h[k - 1]
      BY <1>1, <2>2
    <3>2. up[k] = up[k - 1] + Len(strings[k]) + 1
      BY <1>7, <3>1
    <3>3. up[k] = h[k]
      BY <1>5, <3>1, <3>2
    <3>. QED BY <3>1, <3>3
  <2>3. \A k \in 0 .. n : k \in Same
    <3>. HIDE DEF Same
    <3>. QED BY <1>1, <2>1, <2>2, CountUp
  <2>. QED BY <2>3
<1>. QED BY <1>1, <1>4, <1>5, <1>8, <1>9 DEF Counting

LEMMA RepackedSound ==
  ASSUME NEW sl, Sound(sl), NEW tl \in Lists, tl.strbuf[STRINGBYTES - 1] = NUL
  PROVE  LET r == Repacked(Strings(sl), tl) IN
         /\ Sound(r) /\ Strings(r) = Strings(sl) /\ r.strcnt = sl.strcnt
         /\ r.strp = CellsUsed(Strings(sl)) /\ r.strp <= sl.strp
<1>. DEFINE strings == Strings(sl)  ptr == sl.strptrs  n == sl.strcnt  top == sl.strp
            buf == sl.strbuf
            place(k) == IF k < n THEN ptr[k] ELSE top
<1>1. /\ strings \in Seq(Named) /\ Len(strings) = n /\ n \in Nat
      /\ \A k \in 1 .. n : strings[k] = StringAt(buf, ptr[k - 1])
      /\ Shape(ptr, n, top, buf)
  BY StringsAre DEF Sound
<1>2. n < MAXSTRINGS /\ top \in Nat /\ top < STRINGBYTES /\ STRINGBYTES \in Nat /\ MAXSTRINGS \in Nat
  BY <1>1, SizeAssumption DEF Shape
<1>. HIDE DEF strings, ptr, n, top, buf
<1>3. PICK h : Packing(h, strings, tl)
  BY <1>1, RepackedIs
<1>4. PICK c : Counting(c, strings)
  BY <1>1, CellsUsedIs
<1>5. /\ h[0] = InitStr(tl) /\ c[0] = 0
      /\ Repacked(strings, tl) = h[n] /\ CellsUsed(strings) = c[n]
  BY <1>1, <1>3, <1>4 DEF Packing, Counting
<1>6. ASSUME NEW k \in 1 .. n
      PROVE  /\ h[k] = Step(strings[k], h[k - 1]) /\ c[k] = c[k - 1] + Len(strings[k]) + 1
             /\ Sound(h[k - 1]) /\ strings[k] \in Named
             /\ Len(strings[k]) \in Nat /\ place(k - 1) \in Nat /\ place(k) \in Nat
             /\ place(k - 1) + Len(strings[k]) + 1 <= place(k) /\ place(k) <= top
  <2>1. h[k] = Step(strings[k], h[k - 1]) /\ c[k] = c[k - 1] + Len(strings[k]) + 1
    BY <1>1, <1>3, <1>4 DEF Packing, Counting
  <2>2. Sound(h[k - 1])
    <3>1. k - 1 \in 0 .. Len(strings)
      BY <1>1
    <3>. QED BY <1>3, <3>1 DEF Packing
  <2>3. strings[k] \in Named /\ Len(strings[k]) \in Nat
    BY <1>1 DEF Named
  <2>. DEFINE i == k - 1  p == ptr[i]
  <2>4. /\ i \in 0 .. n - 1 /\ i + 1 = k /\ strings[k] = StringAt(buf, p)
    BY <1>1
  <2>. HIDE DEF i
  <2>5. /\ Len(strings[k]) = StringEnd(buf, p) - p
        /\ p \in 0 .. top - 1 /\ StringEnd(buf, p) \in 0 .. top - 1
        /\ StringEnd(buf, p) < IF i + 1 < n THEN ptr[i + 1] ELSE top
    BY <1>1, <2>4, StringOf
  <2>6. place(i) = p /\ StringEnd(buf, p) < place(k)
    <3>1. i < n /\ i + 1 = k
      BY <1>1, <2>4
    <3>2. place(k) = IF i + 1 < n THEN ptr[i + 1] ELSE top
      BY <3>1
    <3>. QED BY <2>5, <3>1, <3>2
  <2>7. place(k) \in Nat /\ place(k) <= top
    <3>1. CASE k < n
      <4>1. k \in 0 .. n - 1
        BY <1>1, <3>1
      <4>2. ptr[k] \in 0 .. top - 1
        BY <1>1, <4>1 DEF Shape
      <4>. QED BY <1>2, <3>1, <4>2
    <3>2. CASE ~(k < n)
      BY <1>2, <3>2
    <3>. QED BY <3>1, <3>2
  <2>8. place(i) \in Nat /\ place(i) + Len(strings[k]) + 1 <= place(k)
    <3>. HIDE DEF place, p
    <3>. QED BY <1>2, <2>5, <2>6, <2>7
  <2>9. place(k - 1) = place(i)
    BY DEF i
  <2>. HIDE DEF place
  <2>. QED BY <2>1, <2>2, <2>3, <2>7, <2>8, <2>9
<1>7. place(0) \in Nat /\ place(n) = top
  <2>1. CASE 0 < n
    <3>1. 0 \in 0 .. n - 1
      BY <1>1, <2>1
    <3>2. ptr[0] \in 0 .. top - 1
      BY <1>1, <3>1 DEF Shape
    <3>. QED BY <1>1, <2>1, <3>2
  <2>2. CASE ~(0 < n)
    BY <1>1, <1>2, <2>2
  <2>. QED BY <2>1, <2>2
<1>. HIDE DEF place
<1>. DEFINE Good(k) == /\ h[k].strcnt = k /\ h[k].strp = c[k] /\ h[k].strp <= place(k)
                       /\ Strings(h[k]) = SubSeq(strings, 1, k)
            S == {k \in 0 .. n : Good(k)}
<1>8. Good(0)
  <2>1. h[0].strcnt = 0 /\ h[0].strp = 0 /\ Strings(h[0]) = <<>>
    BY <1>5, InitStrSound
  <2>. QED BY <1>1, <1>5, <1>7, <2>1
<1>9. ASSUME NEW k \in 1 .. n, Good(k - 1) PROVE Good(k)
  <2>. DEFINE d == h[k - 1]  s == strings[k]
  <2>1. d.strp \in Nat /\ d.strcnt = k - 1 /\ d.strp = c[k - 1] /\ d.strp <= place(k - 1)
    BY <1>6, <1>9 DEF Sound, Lists
  <2>2. ~TooMany(d)
    BY <1>1, <1>2, <2>1 DEF TooMany
  <2>3. /\ Len(s) \in Nat /\ place(k - 1) \in Nat /\ place(k) \in Nat
        /\ place(k - 1) + Len(s) + 1 <= place(k) /\ place(k) <= top
        /\ s \in Named /\ Sound(d) /\ h[k] = Step(s, d) /\ c[k] = c[k - 1] + Len(s) + 1
    BY <1>6
  <2>. HIDE DEF d, s
  <2>4. d.strp + Len(s) + 1 <= place(k) /\ d.strp + Len(s) + 1 < STRINGBYTES
    BY <1>2, <2>1, <2>3
  <2>5. ~NoRoom(s, d)
    BY <1>2, <2>1, <2>3, <2>4 DEF NoRoom
  <2>6. h[k] = Added(s, d)
    BY <2>2, <2>3, <2>5 DEF Step
  <2>7. /\ Strings(h[k]) = Append(Strings(d), s)
        /\ h[k].strcnt = d.strcnt + 1 /\ h[k].strp = d.strp + Len(s) + 1
    BY <2>2, <2>3, <2>5, <2>6, AddedSound
  <2>8. Strings(h[k]) = SubSeq(strings, 1, k)
    <3>1. Strings(d) = SubSeq(strings, 1, k - 1) /\ s = strings[k]
      BY <1>9 DEF d, s
    <3>. QED BY <1>1, <2>7, <3>1
  <2>. QED BY <2>1, <2>3, <2>4, <2>7, <2>8
<1>10. Good(n)
  <2>1. 0 \in S /\ \A k \in 1 .. n : k - 1 \in S => k \in S
    <3>. HIDE DEF Good
    <3>. QED BY <1>1, <1>8, <1>9
  <2>2. \A k \in 0 .. n : k \in S
    <3>. HIDE DEF S
    <3>. QED BY <1>1, <2>1, CountUp
  <2>3. n \in S
    <3>. HIDE DEF S
    <3>. QED BY <1>1, <2>2
  <2>. HIDE DEF Good
  <2>. QED BY <2>3
<1>11. Sound(h[n])
  <2>1. Len(strings) \in 0 .. Len(strings)
    BY <1>1
  <2>. QED BY <1>1, <1>3, <2>1 DEF Packing
<1>12. Strings(h[n]) = strings
  BY <1>1, <1>10
<1>. QED BY <1>5, <1>7, <1>10, <1>11, <1>12 DEF strings, n, top

LEMMA Collected ==
  ASSUME NEW sl, Sound(sl)
  PROVE  LET g == GarbageCollect(sl) IN
         /\ Sound(g) /\ Strings(g) = Strings(sl) /\ g.strcnt = sl.strcnt
         /\ g.strp = CellsUsed(Strings(sl)) /\ g.strp <= sl.strp
<1>. DEFINE r == Repacked(Strings(sl), Blank)
<1>1. /\ Sound(r) /\ Strings(r) = Strings(sl) /\ r.strcnt = sl.strcnt
      /\ r.strp = CellsUsed(Strings(sl)) /\ r.strp <= sl.strp
  BY BlankIs, RepackedSound
<1>2. sl \in Lists /\ sl.strbuf[STRINGBYTES - 1] = NUL
  BY DEF Sound, Shape
<1>3. GarbageCollect(sl) = Repacked(Strings(r), sl)
  BY DEF GarbageCollect
<1>. HIDE DEF r
<1>. DEFINE g == Repacked(Strings(r), sl)
<1>4. /\ Sound(g) /\ Strings(g) = Strings(r) /\ g.strcnt = r.strcnt
      /\ g.strp = CellsUsed(Strings(r))
  BY <1>1, <1>2, RepackedSound
<1>. HIDE DEF g
<1>5. g.strp = r.strp
  BY <1>1, <1>4
<1>. QED BY <1>1, <1>3, <1>4, <1>5 DEF g

(* A string is added unless the strings themselves leave no room for it.   *)
Fits(s, sl) ==
  sl.strcnt < MAXSTRINGS - 1 /\ CellsUsed(Strings(sl)) + Len(s) + 1 < STRINGBYTES

LEMMA NewStrIs ==
  ASSUME NEW sl, Sound(sl), NEW s \in Named
  PROVE  /\ Sound(NewStr(s, sl))
         /\ Strings(NewStr(s, sl)) =
              IF Fits(s, sl) THEN Append(Strings(sl), s) ELSE Strings(sl)
<1>. DEFINE g == GarbageCollect(sl)
            packed == IF NoRoom(s, sl) THEN g ELSE sl
            used == CellsUsed(Strings(sl))
<1>1. /\ Sound(g) /\ Strings(g) = Strings(sl) /\ g.strcnt = sl.strcnt
      /\ g.strp = used /\ g.strp <= sl.strp
  BY Collected
<1>2. /\ Len(s) \in Nat /\ sl.strcnt \in Nat /\ sl.strp \in Nat /\ used \in Nat
      /\ MAXSTRINGS \in Nat /\ STRINGBYTES \in Nat /\ used <= sl.strp
  BY <1>1, SizeAssumption DEF Named, Sound, Lists
<1>3. NewStr(s, sl) = IF TooMany(sl) THEN sl
                      ELSE IF NoRoom(s, packed) THEN packed ELSE Added(s, packed)
  BY DEF NewStr
<1>. HIDE DEF g, used
<1>4. /\ Sound(packed) /\ Strings(packed) = Strings(sl)
      /\ TooMany(packed) <=> TooMany(sl)
      /\ NoRoom(s, packed) <=> ~(used + Len(s) + 1 < STRINGBYTES)
  <2>1. CASE NoRoom(s, sl)
    BY <1>1, <1>2, <2>1 DEF TooMany, NoRoom
  <2>2. CASE ~NoRoom(s, sl)
    BY <1>1, <1>2, <2>2 DEF NoRoom
  <2>. QED BY <2>1, <2>2
<1>5. Fits(s, sl) <=> ~TooMany(packed) /\ ~NoRoom(s, packed)
  BY <1>2, <1>4 DEF Fits, TooMany, used
<1>. HIDE DEF packed
<1>6. CASE Fits(s, sl)
  <2>1. NewStr(s, sl) = Added(s, packed)
    BY <1>3, <1>4, <1>5, <1>6
  <2>2. /\ Sound(Added(s, packed))
        /\ Strings(Added(s, packed)) = Append(Strings(packed), s)
    BY <1>4, <1>5, <1>6, AddedSound
  <2>. QED BY <1>4, <1>6, <2>1, <2>2
<1>7. CASE ~Fits(s, sl)
  BY <1>3, <1>4, <1>5, <1>7
<1>. QED BY <1>6, <1>7

(* The vector without its entry hit.                                       *)
Shorter(ptu, ptr, n, hit) ==
  /\ ptu \in [0 .. MAXSTRINGS - 1 -> Int]
  /\ \A i \in 0 .. n - 1 : ptu[i] = ptr[IF i < hit THEN i ELSE i + 1]

LEMMA Shortened ==
  ASSUME NEW ptr, NEW n, NEW top, NEW buf, Shape(ptr, n, top, buf),
         NEW hit \in 0 .. n - 1, NEW ptu, Shorter(ptu, ptr, n, hit)
  PROVE  Shape(ptu, n - 1, top, buf)
<1>. DEFINE from(i) == IF i < hit THEN i ELSE i + 1
<1>1. /\ n \in Nat /\ n \in 0 .. MAXSTRINGS - 1 /\ hit \in Nat /\ n - 1 \in Nat
      /\ ptu \in [0 .. MAXSTRINGS - 1 -> Int] /\ MAXSTRINGS \in Nat
  BY SizeAssumption DEF Shape, Shorter
<1>2. ASSUME NEW i \in 0 .. (n - 1) - 1
      PROVE  from(i) \in 0 .. n - 1 /\ ptu[i] = ptr[from(i)]
  <2>1. i \in 0 .. n - 1
    BY <1>1
  <2>. QED BY <1>1, <2>1 DEF Shorter
<1>3. ASSUME NEW i \in 0 .. (n - 1) - 1, NEW j \in 0 .. (n - 1) - 1, i < j
      PROVE  from(i) < from(j)
  BY <1>1, <1>3
<1>4. ptu[n - 1] = NULL
  <2>1. ~(n - 1 < hit) /\ (n - 1) + 1 = n /\ n - 1 \in 0 .. n - 1
    BY <1>1
  <2>2. ptu[n - 1] = ptr[n]
    BY <2>1 DEF Shorter
  <2>. QED BY <2>2 DEF Shape
<1>. HIDE DEF from
<1>5. ASSUME NEW i \in 0 .. (n - 1) - 1
      PROVE  ptu[i] \in 0 .. top - 1 /\ buf[ptu[i]] # NUL /\ EndsBefore(buf, ptu[i], top)
  BY <1>2 DEF Shape
<1>6. ASSUME NEW i \in 0 .. (n - 1) - 1, NEW j \in 0 .. (n - 1) - 1, i < j
      PROVE  EndsBefore(buf, ptu[i], ptu[j])
  <2>1. from(i) < from(j) /\ from(i) \in 0 .. n - 1 /\ from(j) \in 0 .. n - 1
    BY <1>2, <1>3, <1>6
  <2>2. EndsBefore(buf, ptr[from(i)], ptr[from(j)])
    BY <2>1 DEF Shape
  <2>. QED BY <1>2, <2>2
<1>7. /\ top \in Nat /\ buf \in Buffers /\ top < STRINGBYTES /\ buf[STRINGBYTES - 1] = NUL
      /\ n - 1 < MAXSTRINGS
  BY <1>1 DEF Shape
<1>. QED BY <1>1, <1>4, <1>5, <1>6, <1>7 DEF Shape

(* new is old without its j-th string.                                     *)
Without(new, old, j) ==
  /\ j \in 1 .. Len(old) /\ Len(new) = Len(old) - 1
  /\ \A i \in 1 .. Len(old) - 1 : new[i] = old[IF i < j THEN i ELSE i + 1]

Absent(name, strings) == \A k \in 1 .. Len(strings) : strings[k][1] # name

LEMMA DeleteStrIs ==
  ASSUME NEW sl, Sound(sl), NEW name
  PROVE  /\ Sound(DeleteStr(name, sl))
         /\ \/ Absent(name, Strings(sl)) /\ DeleteStr(name, sl) = sl
            \/ \E j \in 1 .. Len(Strings(sl)) :
                  /\ Strings(sl)[j][1] = name
                  /\ Without(Strings(DeleteStr(name, sl)), Strings(sl), j)
<1>. DEFINE ptr == sl.strptrs  n == sl.strcnt  top == sl.strp  buf == sl.strbuf
            strings == Strings(sl)
            S == Hits(name, sl)
<1>1. /\ Shape(ptr, n, top, buf) /\ n \in Nat /\ n < MAXSTRINGS /\ top \in Nat /\ buf \in Buffers
      /\ ptr \in [0 .. MAXSTRINGS - 1 -> Int] /\ MAXSTRINGS \in Nat
      /\ strings = [i \in 1 .. n |-> StringAt(buf, ptr[i - 1])]
      /\ strings \in Seq(Named) /\ Len(strings) = n
  BY StringsAre, SizeAssumption DEF Sound, Shape
<1>2. S = {i \in 0 .. n - 1 : buf[ptr[i]] = name}
  BY DEF Hits
<1>. HIDE DEF ptr, n, top, buf, strings, S
<1>3. \A i \in 1 .. n : i - 1 \in 0 .. n - 1 /\ strings[i][1] = buf[ptr[i - 1]]
  <2>1. SUFFICES ASSUME NEW i \in 1 .. n
                 PROVE  i - 1 \in 0 .. n - 1 /\ strings[i][1] = buf[ptr[i - 1]]
    OBVIOUS
  <2>2. i - 1 \in 0 .. n - 1
    BY <1>1
  <2>3. StringAt(buf, ptr[i - 1])[1] = buf[ptr[i - 1]]
    <3>. DEFINE m == i - 1
    <3>1. m \in 0 .. n - 1
      BY <2>2
    <3>. HIDE DEF m
    <3>2. Shape(ptr, n, top, buf)
      BY <1>1
    <3>3. StringAt(buf, ptr[m])[1] = buf[ptr[m]]
      BY <3>1, <3>2, StringOf
    <3>. QED BY <3>3 DEF m
  <2>. QED BY <1>1, <2>2, <2>3
<1>4. CASE S = {}
  <2>1. DeleteStr(name, sl) = sl
    BY <1>4 DEF DeleteStr, S
  <2>2. Absent(name, strings)
    BY <1>1, <1>2, <1>3, <1>4 DEF Absent
  <2>. QED BY <2>1, <2>2 DEF strings
<1>5. CASE S # {}
  <2>. DEFINE hit == Least(S)
              end == Least({i \in hit .. MAXSTRINGS - 1 : sl.strptrs[i] = NULL})
              new == DeleteStr(name, sl)
              ptu == new.strptrs
  <2>1. hit \in S /\ hit \in 0 .. n - 1 /\ buf[ptr[hit]] = name
    <3>1. S \subseteq Nat
      BY <1>1, <1>2
    <3>2. Least(S) \in S
      BY <1>5, <3>1, LeastIs
    <3>. QED BY <1>2, <3>2
  <2>2. end = n
    <3>. DEFINE N == {i \in hit .. MAXSTRINGS - 1 : ptr[i] = NULL}
    <3>1. N \subseteq Nat /\ n \in N
      BY <1>1, <2>1 DEF Shape
    <3>2. ASSUME NEW i \in N PROVE ~(i < n)
      <4>1. SUFFICES ASSUME i < n PROVE FALSE
        OBVIOUS
      <4>2. i \in 0 .. n - 1 /\ ptr[i] = NULL
        BY <1>1, <2>1, <4>1
      <4>3. ptr[i] \in 0 .. top - 1
        BY <1>1, <4>2 DEF Shape
      <4>. QED BY <1>1, <4>2, <4>3, NullIs
    <3>3. Least(N) \in N /\ Least(N) <= n
      <4>. HIDE DEF N
      <4>. QED BY <3>1, LeastIs
    <3>4. Least(N) = n
      <4>1. Least(N) \in Nat /\ ~(Least(N) < n) /\ Least(N) <= n
        <5>. HIDE DEF N
        <5>. QED BY <3>1, <3>2, <3>3
      <4>. HIDE DEF N
      <4>. QED BY <1>1, <4>1
    <3>. QED BY <3>4 DEF ptr
  <2>3. /\ new = [strptrs |-> ptu, strcnt |-> n - 1, strp |-> top, strbuf |-> buf]
        /\ ptu = [i \in 0 .. MAXSTRINGS - 1 |-> IF i \in hit .. n - 1 THEN ptr[i + 1] ELSE ptr[i]]
    <3>. HIDE DEF hit
    <3>1. new = [strptrs |-> [i \in 0 .. MAXSTRINGS - 1 |->
                               IF i \in hit .. end - 1 THEN sl.strptrs[i + 1] ELSE sl.strptrs[i]],
                 strcnt |-> sl.strcnt - 1, strp |-> sl.strp, strbuf |-> sl.strbuf]
      BY <1>5 DEF DeleteStr, S, hit
    <3>. HIDE DEF new, end
    <3>. QED BY <2>2, <3>1 DEF ptr, n, top, buf
  <2>. HIDE DEF hit, end, new, ptu
  <2>4. Shorter(ptu, ptr, n, hit)
    <3>1. ASSUME NEW i \in 0 .. MAXSTRINGS - 1 PROVE ptu[i] \in Int
      <4>1. CASE i \in hit .. n - 1
        <5>1. i + 1 \in 0 .. MAXSTRINGS - 1
          BY <1>1, <2>1, <4>1
        <5>. QED BY <1>1, <2>3, <4>1, <5>1
      <4>2. CASE i \notin hit .. n - 1
        BY <1>1, <2>3, <4>2
      <4>. QED BY <4>1, <4>2
    <3>2. ASSUME NEW i \in 0 .. n - 1 PROVE ptu[i] = ptr[IF i < hit THEN i ELSE i + 1]
      <4>1. i \in 0 .. MAXSTRINGS - 1 /\ (i \in hit .. n - 1 <=> ~(i < hit))
        BY <1>1, <2>1
      <4>. QED BY <2>3, <4>1
    <3>3. ptu \in [0 .. MAXSTRINGS - 1 -> Int]
      BY <2>3, <3>1
    <3>. QED BY <3>2, <3>3 DEF Shorter
  <2>5. Shape(ptu, n - 1, top, buf)
    BY <1>1, <2>1, <2>4, Shortened
  <2>6. /\ new.strptrs = ptu /\ new.strcnt = n - 1 /\ new.strp = top /\ new.strbuf = buf
        /\ n - 1 \in Nat /\ ptu \in [0 .. MAXSTRINGS - 1 -> Int]
    BY <1>1, <2>1, <2>3, <2>4 DEF Shorter
  <2>7. Sound(new)
    <3>1. new \in Lists
      <4>. DEFINE m == n - 1
      <4>1. m \in Nat /\ new = [strptrs |-> ptu, strcnt |-> m, strp |-> top, strbuf |-> buf]
        BY <2>3, <2>6
      <4>. HIDE DEF m
      <4>. QED BY <1>1, <2>6, <4>1 DEF Lists
    <3>. QED BY <2>5, <2>6, <3>1 DEF Sound
  <2>8. /\ Strings(new) = [i \in 1 .. n - 1 |-> StringAt(buf, ptu[i - 1])]
        /\ Len(Strings(new)) = n - 1
    BY <2>6, <2>7, StringsAre
  <2>9. ASSUME NEW i \in 1 .. n - 1
        PROVE  Strings(new)[i] = strings[IF i < hit + 1 THEN i ELSE i + 1]
    <3>1. i - 1 \in 0 .. n - 1 /\ i \in 1 .. n /\ i + 1 \in 1 .. n
      BY <1>1
    <3>2. ptu[i - 1] = ptr[IF i - 1 < hit THEN i - 1 ELSE (i - 1) + 1]
      BY <2>4, <3>1 DEF Shorter
    <3>3. CASE i - 1 < hit
      BY <1>1, <2>1, <2>8, <3>1, <3>2, <3>3
    <3>4. CASE ~(i - 1 < hit)
      <4>1. (i - 1) + 1 = (i + 1) - 1 /\ ~(i < hit + 1)
        BY <1>1, <2>1, <3>4
      <4>2. strings[i + 1] = StringAt(buf, ptr[(i + 1) - 1])
        BY <1>1, <3>1
      <4>. QED BY <2>8, <3>2, <3>4, <4>1, <4>2
    <3>. QED BY <3>3, <3>4
  <2>10. /\ hit + 1 \in 1 .. Len(strings) /\ strings[hit + 1][1] = name
    <3>1. hit + 1 \in 1 .. n /\ (hit + 1) - 1 = hit
      BY <1>1, <2>1
    <3>2. strings[hit + 1][1] = buf[ptr[hit]]
      BY <1>3, <3>1
    <3>. QED BY <1>1, <2>1, <3>1, <3>2
  <2>11. Without(Strings(new), strings, hit + 1)
    BY <1>1, <2>8, <2>9, <2>10 DEF Without
  <2>. QED BY <2>7, <2>10, <2>11 DEF new, strings
<1>. QED BY <1>4, <1>5

-----------------------------------------------------------------------------
(* The environment as a map.                                               *)

Unique(strings) ==
  \A i, j \in 1 .. Len(strings) : strings[i][1] = strings[j][1] => i = j

View(strings, name) ==
  IF Absent(name, strings) THEN Unset
  ELSE Tail(strings[CHOOSE k \in 1 .. Len(strings) : strings[k][1] = name])

LEMMA ViewIs ==
  ASSUME NEW strings, Unique(strings), NEW k \in 1 .. Len(strings)
  PROVE  View(strings, strings[k][1]) = Tail(strings[k])
<1>. DEFINE name == strings[k][1]
            j == CHOOSE i \in 1 .. Len(strings) : strings[i][1] = name
<1>1. j \in 1 .. Len(strings) /\ strings[j][1] = name
  OBVIOUS
<1>. HIDE DEF j
<1>2. j = k
  BY <1>1 DEF Unique
<1>. QED BY <1>2 DEF View, Absent, j

LEMMA StringTail ==
  ASSUME NEW ptr, NEW n, NEW top, NEW buf, Shape(ptr, n, top, buf), NEW i \in 0 .. n - 1
  PROVE  StringAt(buf, ptr[i] + 1) = Tail(StringAt(buf, ptr[i]))
<1>. DEFINE p == ptr[i]  s == StringAt(buf, p)  e == StringEnd(buf, p)
<1>1. /\ buf \in Buffers /\ top \in Nat /\ top < STRINGBYTES /\ STRINGBYTES \in Nat
  BY SizeAssumption DEF Shape
<1>2. /\ s \in Named /\ Len(s) = e - p /\ p \in 0 .. top - 1 /\ e \in 0 .. top - 1
      /\ buf[e] = NUL
  BY StringOf
<1>. HIDE DEF p, e, s
<1>3. s \in Seq(Chars) /\ Len(s) \in Nat /\ Len(s) > 0
  BY <1>2 DEF Named
<1>4. p \in Nat /\ p + 1 \in Nat /\ e \in p + 1 .. STRINGBYTES - 1 /\ e \in p .. STRINGBYTES - 1
  BY <1>1, <1>2, <1>3
<1>5. /\ StringEnd(buf, p) \in p .. e /\ \A q \in p .. StringEnd(buf, p) - 1 : buf[q] # NUL
      /\ \A k \in 1 .. Len(StringAt(buf, p)) : StringAt(buf, p)[k] = buf[p + k - 1]
  BY <1>1, <1>2, <1>4, EndIs, StringIs
<1>6. /\ StringEnd(buf, p + 1) \in p + 1 .. e /\ buf[StringEnd(buf, p + 1)] = NUL
      /\ StringAt(buf, p + 1) \in Seq(Chars)
      /\ Len(StringAt(buf, p + 1)) = StringEnd(buf, p + 1) - (p + 1)
      /\ \A k \in 1 .. Len(StringAt(buf, p + 1)) : StringAt(buf, p + 1)[k] = buf[p + 1 + k - 1]
  BY <1>1, <1>2, <1>4, EndIs, StringIs
<1>7. StringEnd(buf, p) = e /\ StringAt(buf, p) = s
  BY DEF e, s
<1>8. StringEnd(buf, p + 1) = e
  <2>1. StringEnd(buf, p + 1) \notin p .. e - 1
    BY <1>5, <1>6, <1>7
  <2>. QED BY <1>4, <1>6, <2>1
<1>9. Len(StringAt(buf, p + 1)) = Len(Tail(s)) /\ Tail(s) \in Seq(Chars)
  BY <1>2, <1>3, <1>4, <1>6, <1>8
<1>10. ASSUME NEW k \in 1 .. Len(StringAt(buf, p + 1))
       PROVE  StringAt(buf, p + 1)[k] = Tail(s)[k]
  <2>1. Len(StringAt(buf, p + 1)) = Len(s) - 1
    BY <1>3, <1>9
  <2>2. k + 1 \in 1 .. Len(s) /\ Tail(s)[k] = s[k + 1]
    BY <1>3, <2>1
  <2>3. s[k + 1] = buf[p + (k + 1) - 1] /\ StringAt(buf, p + 1)[k] = buf[p + 1 + k - 1]
    BY <1>5, <1>6, <1>7, <2>2
  <2>4. p + (k + 1) - 1 = p + 1 + k - 1
    BY <1>4
  <2>. QED BY <2>2, <2>3, <2>4
<1>11. StringAt(buf, p + 1) = Tail(s)
  BY <1>6, <1>9, <1>10, SameSeq
<1>. QED BY <1>11 DEF s, p

LEMMA GetIs ==
  ASSUME NEW sl, Sound(sl), Unique(Strings(sl)), NEW name
  PROVE  /\ Get(sl, name) = View(Strings(sl), name)
         /\ ValuePtr(name, sl) \in {NULL} \cup Places
<1>. DEFINE ptr == sl.strptrs  n == sl.strcnt  top == sl.strp  buf == sl.strbuf
            strings == Strings(sl)
            met == {i \in Walk(sl) : sl.strbuf[sl.strptrs[i]] = name}
<1>1. /\ Shape(ptr, n, top, buf)
      /\ strings = [i \in 1 .. n |-> StringAt(buf, ptr[i - 1])]
      /\ Walk(sl) = 0 .. n - 1 /\ Len(strings) = n /\ n \in Nat
  BY StringsAre DEF Sound
<1>2. met = {i \in 0 .. n - 1 : buf[ptr[i]] = name}
  BY <1>1
<1>3. ValuePtr(name, sl) = IF met = {} THEN NULL ELSE ptr[Least(met)] + 1
  BY DEF ValuePtr
<1>4. Get(sl, name) = IF ValuePtr(name, sl) = NULL THEN Unset
                      ELSE StringAt(buf, ValuePtr(name, sl))
  BY DEF Get
<1>. HIDE DEF ptr, n, top, buf, strings, met
<1>5. Shape(ptr, n, top, buf) /\ n \in Nat
  BY <1>1
<1>6. ASSUME NEW i \in 0 .. n - 1
      PROVE  /\ strings[i + 1] = StringAt(buf, ptr[i]) /\ StringAt(buf, ptr[i])[1] = buf[ptr[i]]
             /\ i + 1 \in 1 .. n
  <2>1. i + 1 \in 1 .. n /\ (i + 1) - 1 = i
    BY <1>5
  <2>2. strings[i + 1] = StringAt(buf, ptr[i])
    BY <1>1, <2>1
  <2>3. StringAt(buf, ptr[i])[1] = buf[ptr[i]]
    BY <1>5, StringOf
  <2>. QED BY <2>1, <2>2, <2>3
<1>7. CASE met = {}
  <2>1. ASSUME NEW k \in 1 .. n, strings[k][1] = name PROVE FALSE
    <3>. DEFINE i == k - 1
    <3>1. i \in 0 .. n - 1 /\ i + 1 = k
      BY <1>5
    <3>. HIDE DEF i
    <3>2. buf[ptr[i]] = name
      BY <1>6, <2>1, <3>1
    <3>. QED BY <1>2, <1>7, <3>1, <3>2
  <2>2. Absent(name, strings)
    BY <1>1, <2>1 DEF Absent
  <2>. QED BY <1>3, <1>4, <1>7, <2>2 DEF View, strings
<1>8. CASE met # {}
  <2>. DEFINE i == Least(met)
  <2>1. met \subseteq Nat
    BY <1>2, <1>5
  <2>2. i \in met
    BY <1>8, <2>1, LeastIs
  <2>. HIDE DEF i
  <2>3. i \in 0 .. n - 1 /\ buf[ptr[i]] = name
    BY <1>2, <2>2
  <2>4. ptr[i] \in 0 .. top - 1 /\ top \in Nat /\ top < STRINGBYTES
    BY <1>5, <2>3 DEF Shape
  <2>5. ValuePtr(name, sl) = ptr[i] + 1
    BY <1>3, <1>8 DEF i
  <2>6. ptr[i] + 1 \in Places /\ ptr[i] + 1 # NULL
    <3>1. ptr[i] + 1 \in Nat
      BY <2>4
    <3>. QED BY <2>4, <3>1, SizeAssumption, NullIs DEF Places
  <2>7. strings[i + 1] = StringAt(buf, ptr[i]) /\ strings[i + 1][1] = name /\ i + 1 \in 1 .. Len(strings)
    BY <1>1, <1>6, <2>3
  <2>8. View(strings, strings[i + 1][1]) = Tail(strings[i + 1])
    BY <2>7, ViewIs DEF strings
  <2>9. StringAt(buf, ptr[i] + 1) = Tail(StringAt(buf, ptr[i]))
    BY <1>5, <2>3, StringTail
  <2>10. Get(sl, name) = Tail(strings[i + 1])
    BY <1>4, <2>5, <2>6, <2>7, <2>9
  <2>. QED BY <2>5, <2>6, <2>7, <2>8, <2>10 DEF strings
<1>. QED BY <1>7, <1>8

LEMMA ViewWithout ==
  ASSUME NEW old, Unique(old), Len(old) \in Nat, NEW j, NEW new, Without(new, old, j)
  PROVE  /\ Unique(new) /\ Absent(old[j][1], new)
         /\ \A other : other # old[j][1] => View(new, other) = View(old, other)
<1>. DEFINE n == Len(old)
            from(i) == IF i < j THEN i ELSE i + 1
<1>1. /\ n \in Nat /\ j \in 1 .. n /\ Len(new) = n - 1 /\ n - 1 \in Nat
      /\ \A i \in 1 .. n - 1 : new[i] = old[from(i)]
      /\ \A i, k \in 1 .. n : old[i][1] = old[k][1] => i = k
  BY DEF Without, Unique
<1>. HIDE DEF n
<1>2. ASSUME NEW i \in 1 .. n - 1 PROVE from(i) \in 1 .. n /\ from(i) # j
  BY <1>1
<1>3. ASSUME NEW i \in 1 .. n - 1, NEW k \in 1 .. n - 1, from(i) = from(k) PROVE i = k
  BY <1>1, <1>3
<1>4. ASSUME NEW k \in 1 .. n, k # j
      PROVE  \E i \in 1 .. n - 1 : from(i) = k
  <2>. DEFINE i == IF k < j THEN k ELSE k - 1
  <2>1. i \in 1 .. n - 1 /\ from(i) = k
    BY <1>1, <1>4
  <2>. QED BY <2>1
<1>. HIDE DEF from
<1>5. Unique(new)
  BY <1>1, <1>2, <1>3 DEF Unique
<1>6. Absent(old[j][1], new)
  BY <1>1, <1>2 DEF Absent
<1>7. ASSUME NEW other, other # old[j][1] PROVE View(new, other) = View(old, other)
  <2>1. CASE Absent(other, old)
    <3>1. Absent(other, new)
      BY <1>1, <1>2, <2>1 DEF Absent, n
    <3>. QED BY <2>1, <3>1 DEF View
  <2>2. CASE ~Absent(other, old)
    <3>1. PICK k \in 1 .. n : old[k][1] = other
      BY <2>2 DEF Absent, n
    <3>2. PICK i \in 1 .. n - 1 : from(i) = k
      BY <1>4, <1>7, <3>1
    <3>3. new[i] = old[k] /\ i \in 1 .. Len(new) /\ k \in 1 .. Len(old)
      BY <1>1, <3>1, <3>2 DEF n
    <3>4. View(new, new[i][1]) = Tail(new[i]) /\ View(old, old[k][1]) = Tail(old[k])
      BY <1>5, <3>3, ViewIs
    <3>. QED BY <3>1, <3>3, <3>4
  <2>. QED BY <2>1, <2>2
<1>. QED BY <1>5, <1>6, <1>7

LEMMA ViewAdded ==
  ASSUME NEW old \in Seq(Named), Unique(old), NEW s \in Named, Absent(s[1], old)
  PROVE  /\ Unique(Append(old, s)) /\ View(Append(old, s), s[1]) = Tail(s)
         /\ \A other : other # s[1] => View(Append(old, s), other) = View(old, other)
<1>. DEFINE n == Len(old)  new == Append(old, s)
<1>1. /\ n \in Nat /\ Len(new) = n + 1 /\ new[n + 1] = s
      /\ \A i \in 1 .. n : new[i] = old[i]
      /\ \A i, k \in 1 .. n : old[i][1] = old[k][1] => i = k
      /\ \A i \in 1 .. n : old[i][1] # s[1]
  BY DEF Unique, Absent
<1>. HIDE DEF n, new
<1>2. Unique(new)
  <2>1. SUFFICES ASSUME NEW i \in 1 .. n + 1, NEW k \in 1 .. n + 1, new[i][1] = new[k][1]
                 PROVE  i = k
    BY <1>1 DEF Unique
  <2>2. i \in 1 .. n \/ i = n + 1
    BY <1>1
  <2>3. k \in 1 .. n \/ k = n + 1
    BY <1>1
  <2>. QED BY <1>1, <2>1, <2>2, <2>3
<1>3. View(new, s[1]) = Tail(s)
  <2>1. n + 1 \in 1 .. Len(new)
    BY <1>1
  <2>2. View(new, new[n + 1][1]) = Tail(new[n + 1])
    BY <1>2, <2>1, ViewIs
  <2>. QED BY <1>1, <2>2
<1>4. ASSUME NEW other, other # s[1] PROVE View(new, other) = View(old, other)
  <2>1. CASE Absent(other, old)
    <3>1. ASSUME NEW i \in 1 .. n + 1 PROVE new[i][1] # other
      <4>1. i \in 1 .. n \/ i = n + 1
        BY <1>1
      <4>. QED BY <1>1, <1>4, <2>1, <4>1 DEF Absent, n
    <3>2. Absent(other, new)
      BY <1>1, <3>1 DEF Absent
    <3>. QED BY <2>1, <3>2 DEF View
  <2>2. CASE ~Absent(other, old)
    <3>1. PICK k \in 1 .. n : old[k][1] = other
      BY <2>2 DEF Absent, n
    <3>2. new[k] = old[k] /\ k \in 1 .. Len(new) /\ k \in 1 .. Len(old)
      BY <1>1, <3>1 DEF n
    <3>3. View(new, new[k][1]) = Tail(new[k]) /\ View(old, old[k][1]) = Tail(old[k])
      BY <1>2, <3>2, ViewIs
    <3>. QED BY <3>1, <3>2, <3>3
  <2>. QED BY <2>1, <2>2
<1>. QED BY <1>2, <1>3, <1>4 DEF new

(* A list that nothing is wrong with.                                      *)
Tidy(sl) == Sound(sl) /\ Unique(Strings(sl))

LEMMA Deleted ==
  ASSUME NEW sl, Tidy(sl), NEW name
  PROVE  LET new == DeleteStr(name, sl) IN
         /\ Tidy(new) /\ Absent(name, Strings(new)) /\ Get(new, name) = Unset
         /\ \A other : other # name => Get(new, other) = Get(sl, other)
<1>. DEFINE new == DeleteStr(name, sl)
<1>1. Sound(sl) /\ Unique(Strings(sl)) /\ Len(Strings(sl)) \in Nat
  BY StringsAre DEF Tidy
<1>2. Sound(new)
  BY <1>1, DeleteStrIs
<1>3. /\ Unique(Strings(new)) /\ Absent(name, Strings(new))
      /\ \A other : other # name => View(Strings(new), other) = View(Strings(sl), other)
  <2>1. CASE Absent(name, Strings(sl)) /\ new = sl
    BY <1>1, <2>1
  <2>2. CASE \E j \in 1 .. Len(Strings(sl)) :
               /\ Strings(sl)[j][1] = name
               /\ Without(Strings(new), Strings(sl), j)
    <3>1. PICK j : /\ Strings(sl)[j][1] = name
                   /\ Without(Strings(new), Strings(sl), j)
      BY <2>2
    <3>. QED BY <1>1, <3>1, ViewWithout
  <2>. QED BY <1>1, <2>1, <2>2, DeleteStrIs
<1>. HIDE DEF new
<1>4. \A other : /\ Get(new, other) = View(Strings(new), other)
                 /\ Get(sl, other) = View(Strings(sl), other)
  BY <1>1, <1>2, <1>3, GetIs
<1>5. Get(new, name) = Unset
  BY <1>3, <1>4 DEF View
<1>6. \A other : other # name => Get(new, other) = Get(sl, other)
  BY <1>3, <1>4
<1>. QED BY <1>2, <1>3, <1>5, <1>6 DEF Tidy, new

LEMMA Replaced ==
  ASSUME NEW sl, Tidy(sl), NEW name \in Chars, NEW value \in Seq(Chars)
  PROVE  LET new == ReplaceStr(name, value, sl)
             others == DeleteStr(name, sl) IN
         /\ Tidy(new)
         /\ \A other : other # name => Get(new, other) = Get(sl, other)
         /\ Get(new, name) =
              IF \/ others.strcnt >= MAXSTRINGS - 1
                 \/ CellsUsed(Strings(others)) + Len(value) + 2 >= STRINGBYTES
              THEN Unset ELSE value
<1>. DEFINE others == DeleteStr(name, sl)
            s == <<name>> \o value
            new == NewStr(s, others)
<1>1. /\ Tidy(others) /\ Absent(name, Strings(others)) /\ Get(others, name) = Unset
      /\ \A other : other # name => Get(others, other) = Get(sl, other)
  BY Deleted
<1>2. s \in Named /\ s[1] = name /\ Tail(s) = value /\ Len(s) = Len(value) + 1 /\ Len(value) \in Nat
  <2>1. s \in Seq(Chars) /\ Len(s) = Len(value) + 1 /\ Len(value) \in Nat /\ s[1] = name
    OBVIOUS
  <2>2. Tail(s) \in Seq(Chars) /\ Len(Tail(s)) = Len(value)
    BY <2>1
  <2>3. \A i \in 1 .. Len(value) : Tail(s)[i] = value[i]
    OBVIOUS
  <2>. HIDE DEF s
  <2>4. Tail(s) = value
    BY <2>2, <2>3, SameSeq
  <2>5. s # <<>>
    BY <2>1
  <2>. QED BY <2>1, <2>4, <2>5 DEF Named
<1>3. ReplaceStr(name, value, sl) = new
  BY DEF ReplaceStr
<1>. HIDE DEF others, s
<1>4. /\ Sound(new)
      /\ Strings(new) = IF Fits(s, others) THEN Append(Strings(others), s) ELSE Strings(others)
  BY <1>1, <1>2, NewStrIs DEF Tidy
<1>5. /\ Sound(others) /\ Unique(Strings(others)) /\ Strings(others) \in Seq(Named)
      /\ others.strcnt \in Nat
  BY <1>1, StringsAre DEF Tidy
<1>6. CellsUsed(Strings(others)) \in Nat
  <2>. DEFINE strings == Strings(others)
  <2>1. strings \in Seq(Named) /\ Len(strings) \in 0 .. Len(strings)
    BY <1>5
  <2>. HIDE DEF strings
  <2>2. PICK c : Counting(c, strings)
    BY <2>1, CellsUsedIs
  <2>3. CellsUsed(strings) \in Nat
    BY <2>1, <2>2 DEF Counting
  <2>. QED BY <2>3 DEF strings
<1>7. Fits(s, others) <=> ~(others.strcnt >= MAXSTRINGS - 1
                           \/ CellsUsed(Strings(others)) + Len(value) + 2 >= STRINGBYTES)
  <2>. DEFINE c == others.strcnt  u == CellsUsed(Strings(others))
  <2>1. Fits(s, others) <=> c < MAXSTRINGS - 1 /\ u + Len(s) + 1 < STRINGBYTES
    BY DEF Fits
  <2>2. /\ c \in Nat /\ u \in Nat /\ MAXSTRINGS \in Nat /\ STRINGBYTES \in Nat
        /\ Len(s) = Len(value) + 1 /\ Len(value) \in Nat
    BY <1>2, <1>5, <1>6, SizeAssumption
  <2>. HIDE DEF c, u
  <2>3. /\ c < MAXSTRINGS - 1 <=> ~(c >= MAXSTRINGS - 1)
        /\ u + Len(s) + 1 < STRINGBYTES <=> ~(u + Len(value) + 2 >= STRINGBYTES)
    BY <2>2
  <2>. QED BY <2>1, <2>3 DEF c, u
<1>. HIDE DEF new
<1>8. \A other : Get(others, other) = View(Strings(others), other)
  BY <1>5, GetIs
<1>9. CASE Fits(s, others)
  <2>1. Strings(new) = Append(Strings(others), s)
    BY <1>4, <1>9
  <2>2. /\ Unique(Strings(new)) /\ View(Strings(new), name) = value
        /\ \A other : other # name => View(Strings(new), other) = View(Strings(others), other)
    <3>. DEFINE old == Strings(others)
    <3>1. old \in Seq(Named) /\ Unique(old) /\ s \in Named /\ Absent(s[1], old)
      BY <1>1, <1>2, <1>5
    <3>. HIDE DEF old
    <3>2. /\ Unique(Append(old, s)) /\ View(Append(old, s), s[1]) = Tail(s)
          /\ \A other : other # s[1] => View(Append(old, s), other) = View(old, other)
      BY <3>1, ViewAdded
    <3>. QED BY <1>2, <2>1, <3>2 DEF old
  <2>3. \A other : Get(new, other) = View(Strings(new), other)
    BY <1>4, <2>2, GetIs
  <2>4. Tidy(new)
    BY <1>4, <2>2 DEF Tidy
  <2>5. Get(new, name) = value /\ \A other : other # name => Get(new, other) = Get(sl, other)
    BY <1>1, <1>8, <2>2, <2>3
  <2>. QED BY <1>3, <1>7, <1>9, <2>4, <2>5 DEF others
<1>10. CASE ~Fits(s, others)
  <2>1. Strings(new) = Strings(others)
    BY <1>4, <1>10
  <2>2. Unique(Strings(new))
    BY <1>5, <2>1
  <2>3. \A other : Get(new, other) = View(Strings(new), other)
    BY <1>4, <2>2, GetIs
  <2>4. Tidy(new)
    BY <1>4, <2>2 DEF Tidy
  <2>5. Get(new, name) = Unset /\ \A other : other # name => Get(new, other) = Get(sl, other)
    BY <1>1, <1>8, <2>1, <2>3
  <2>. QED BY <1>3, <1>7, <1>10, <2>4, <2>5 DEF others
<1>. QED BY <1>9, <1>10

-----------------------------------------------------------------------------
(* The environment: a tidy list, and the C globals in step with it.        *)

EnvOK(env, globals) ==
  Tidy(env) /\ \A n \in VARIABLE_NAMES : Get(env, n) \in {Unset, globals[n]}

Plain == {l \in Lists : Tidy(l) /\ \A n \in VARIABLE_NAMES : Get(l, n) = Unset}

LEMMA EmptyPlain ==
  ASSUME NEW sl \in Lists, sl.strbuf[STRINGBYTES - 1] = NUL
  PROVE  InitStr(sl) \in Plain
<1>. DEFINE l == InitStr(sl)
<1>1. Sound(l) /\ Strings(l) = <<>>
  BY InitStrSound
<1>. HIDE DEF l
<1>2. Unique(Strings(l)) /\ \A n : Absent(n, Strings(l))
  BY <1>1 DEF Unique, Absent
<1>3. \A n : Get(l, n) = View(Strings(l), n)
  BY <1>1, <1>2, GetIs
<1>4. \A n : Get(l, n) = Unset
  BY <1>2, <1>3 DEF View
<1>. QED BY <1>1, <1>2, <1>4 DEF Plain, Tidy, Sound, l

LEMMA DefaultsPlain ==
  ASSUME NEW sl \in Lists, sl.strbuf[STRINGBYTES - 1] = NUL
  PROVE  WithDefaults(sl) \in Plain
<1>. DEFINE n == Len(Defaults)
            add(k, l) == ReplaceStr(Defaults[k][1], Defaults[k][2], l)
            step == [k \in 1 .. n |-> [l \in Plain |-> add(k, l)]]
            F(h) == [k \in 0 .. n |->
                       IF k = 0 THEN InitStr(sl)
                       ELSE ReplaceStr(Defaults[k][1], Defaults[k][2], h[k - 1])]
            up == CHOOSE h : h = F(h)
<1>1. n \in Nat /\ InitStr(sl) \in Plain
  BY DefaultsAssumption, EmptyPlain
<1>2. ASSUME NEW k \in 1 .. n, NEW l \in Plain PROVE add(k, l) \in Plain
  <2>. DEFINE name == Defaults[k][1]  value == Defaults[k][2]
  <2>1. Defaults[k] \in Chars \X Seq(Chars) /\ name \notin VARIABLE_NAMES
    BY DefaultsAssumption
  <2>2. name \in Chars /\ value \in Seq(Chars)
    BY <2>1
  <2>3. Tidy(l) /\ \A v \in VARIABLE_NAMES : Get(l, v) = Unset
    BY DEF Plain
  <2>. HIDE DEF name, value
  <2>. DEFINE new == ReplaceStr(name, value, l)
  <2>4. Tidy(new) /\ \A other : other # name => Get(new, other) = Get(l, other)
    BY <2>2, <2>3, Replaced
  <2>. HIDE DEF new
  <2>5. new \in Plain
    BY <2>1, <2>3, <2>4 DEF Plain, Tidy, Sound
  <2>. QED BY <2>5 DEF new, name, value
<1>3. step \in [1 .. n -> [Plain -> Plain]]
  <2>. HIDE DEF add
  <2>. QED BY <1>2
<1>4. PICK h : Computes(h, n, Plain, InitStr(sl), step)
  <2>. HIDE DEF step, n
  <2>. QED BY <1>1, <1>3, RecursionExists
<1>5. /\ h \in [0 .. n -> Plain] /\ h[0] = InitStr(sl)
      /\ \A k \in 1 .. n : h[k] = step[k][h[k - 1]]
  BY <1>4 DEF Computes
<1>6. ASSUME NEW k \in 1 .. n
      PROVE  h[k] = ReplaceStr(Defaults[k][1], Defaults[k][2], h[k - 1])
  <2>1. h[k - 1] \in Plain
    <3>1. k - 1 \in 0 .. n
      BY <1>1
    <3>. HIDE DEF n
    <3>. QED BY <1>5, <3>1
  <2>. QED BY <1>5, <2>1
<1>7. h = F(h)
  <2>1. h = [k \in 0 .. n |-> h[k]]
    BY <1>5
  <2>2. ASSUME NEW k \in 0 .. n PROVE h[k] = F(h)[k]
    BY <1>1, <1>5, <1>6
  <2>. QED BY <2>1, <2>2
<1>8. up = F(up)
  BY <1>7
<1>9. WithDefaults(sl) = up[n]
  BY DEF WithDefaults
<1>. HIDE DEF up
<1>10. \A k \in 0 .. n : up[k] = h[k]
  <2>. DEFINE Same == {k \in 0 .. n : up[k] = h[k]}
  <2>1. 0 \in Same
    BY <1>1, <1>5, <1>8
  <2>2. \A k \in 1 .. n : k - 1 \in Same => k \in Same
    BY <1>6, <1>8
  <2>3. \A k \in 0 .. n : k \in Same
    <3>. HIDE DEF Same
    <3>. QED BY <1>1, <2>1, <2>2, CountUp
  <2>. QED BY <2>3
<1>11. n \in 0 .. n
  BY <1>1
<1>. HIDE DEF n
<1>. QED BY <1>5, <1>9, <1>10, <1>11

LEMMA PlainEnvOK ==
  ASSUME NEW l \in Plain, NEW globals
  PROVE  EnvOK(l, globals)
BY DEF Plain, EnvOK

LEMMA SetEnvIs ==
  ASSUME NEW name \in Chars, NEW value \in Seq(Chars), NEW override,
         EnvOK(environ, mirror), SetEnv(name, value, override)
  PROVE  /\ EnvOK(environ', mirror')
         /\ \A other : other # name => Get(environ', other) = Get(environ, other)
         /\ value # <<>> => Honoured(name, value, override)
<1>. DEFINE others == DeleteStr(name, environ)
            full == \/ others.strcnt >= MAXSTRINGS - 1
                    \/ CellsUsed(Strings(others)) + Len(value) + 2 >= STRINGBYTES
<1>1. Tidy(environ) /\ \A n \in VARIABLE_NAMES : Get(environ, n) \in {Unset, mirror[n]}
  BY DEF EnvOK
<1>2. CASE Denied(name, override)
  <2>1. environ' = environ /\ mirror' = mirror
    BY <1>2 DEF SetEnv, envVars
  <2>2. name \in READONLY_NAMES /\ override # 1
    BY <1>2 DEF Denied
  <2>. QED BY <1>1, <2>1, <2>2 DEF EnvOK, Honoured
<1>3. CASE ~Denied(name, override)
  <2>1. \A n \in VARIABLE_NAMES : mirror'[n] = IF n = name THEN value ELSE mirror[n]
    BY <1>3 DEF SetEnv, Mirrored
  <2>2. environ' = IF value = <<>> THEN others ELSE ReplaceStr(name, value, environ)
    BY <1>3 DEF SetEnv
  <2>3. /\ Tidy(environ')
        /\ \A other : other # name => Get(environ', other) = Get(environ, other)
        /\ Get(environ', name) = IF value = <<>> \/ full THEN Unset ELSE value
    <3>1. CASE value = <<>>
      BY <1>1, <2>2, <3>1, Deleted
    <3>2. CASE value # <<>>
      BY <1>1, <2>2, <3>2, Replaced
    <3>. QED BY <3>1, <3>2
  <2>. HIDE DEF full
  <2>4. \A n \in VARIABLE_NAMES : Get(environ', n) \in {Unset, mirror'[n]}
    BY <1>1, <2>1, <2>3
  <2>5. ASSUME value # <<>> PROVE Honoured(name, value, override)
    <3>1. ~(name \in READONLY_NAMES /\ override # 1)
      BY <1>3 DEF Denied
    <3>. QED BY <2>3, <2>4, <2>5, <3>1 DEF Honoured, full
  <2>. QED BY <2>3, <2>4, <2>5 DEF EnvOK
<1>. QED BY <1>2, <1>3

-----------------------------------------------------------------------------
(* The scan of a path variable: from wherever its pointer is, it stays in  *)
(* the buffer, and a path takes it forward.                                *)

LEMMA NulIs == NUL # SPACE /\ NUL # SEMICOLON /\ SPACE # SEMICOLON
BY DEF NUL, SPACE, SEMICOLON

LEMMA SkipSpaceIs ==
  ASSUME NEW buf \in Buffers, buf[STRINGBYTES - 1] = NUL, NEW p \in Places
  PROVE  /\ SkipSpace(buf, p) \in p .. STRINGBYTES - 1
         /\ buf[SkipSpace(buf, p)] # SPACE
<1>. DEFINE S == {q \in p .. STRINGBYTES - 1 : buf[q] # SPACE}
<1>1. S \subseteq Nat /\ STRINGBYTES - 1 \in S
  BY SizeAssumption, NulIs DEF Places
<1>2. Least(S) \in S
  BY <1>1, LeastIs
<1>. QED BY <1>2 DEF SkipSpace

Somewhere == {NULL} \cup Places

LEMMA ScanIs ==
  ASSUME NEW buf \in Buffers, buf[STRINGBYTES - 1] = NUL, NEW p \in Somewhere
  PROVE  LET v == EnvGetVar(buf, p) IN
         /\ v.next \in Somewhere /\ v.next >= p
         /\ v.path # NoPath => v.path \in Seq(Chars) /\ v.next > p
<1>. DEFINE v == EnvGetVar(buf, p)
            from == SkipSpace(buf, p)
            S == {q \in from .. STRINGBYTES - 1 : buf[q] \in Separators}
            to == Least(S)
            on == IF buf[to] = SEMICOLON THEN to + 1 ELSE to
<1>1. CASE p = NULL
  <2>1. v = [path |-> NoPath, next |-> p]
    BY <1>1 DEF EnvGetVar
  <2>. QED BY <1>1, <2>1, NullIs
<1>2. CASE p # NULL
  <2>1. p \in Places /\ p \in Nat /\ STRINGBYTES \in Nat
    BY <1>2, SizeAssumption DEF Somewhere, Places
  <2>2. from \in p .. STRINGBYTES - 1 /\ buf[from] # SPACE
    BY <2>1, SkipSpaceIs
  <2>3. v = IF buf[from] = NUL THEN [path |-> NoPath, next |-> from]
            ELSE [path |-> [i \in 1 .. to - from |-> buf[from + i - 1]],
                  next |-> SkipSpace(buf, on)]
    BY <1>2 DEF EnvGetVar
  <2>. HIDE DEF from, v, on
  <2>4. CASE buf[from] = NUL
    <3>1. v.next = from /\ v.path = NoPath
      BY <2>3, <2>4
    <3>. QED BY <2>1, <2>2, <3>1 DEF Somewhere, Places, v
  <2>5. CASE buf[from] # NUL
    <3>1. S \subseteq Nat /\ STRINGBYTES - 1 \in S
      BY <2>1, <2>2 DEF Separators
    <3>2. to \in S /\ \A q \in S : to <= q
      <4>. HIDE DEF S
      <4>. QED BY <3>1, LeastIs
    <3>. HIDE DEF to
    <3>3. to \in from .. STRINGBYTES - 1 /\ buf[to] \in Separators
      BY <3>2
    <3>4. \A q \in from .. to - 1 : buf[q] \notin Separators
      <4>1. SUFFICES ASSUME NEW q \in from .. to - 1 PROVE q \notin S /\ q \in from .. STRINGBYTES - 1
        OBVIOUS
      <4>2. q \in from .. STRINGBYTES - 1 /\ ~(to <= q)
        BY <2>1, <2>2, <3>3
      <4>. HIDE DEF S
      <4>. QED BY <3>2, <4>2
    <3>. HIDE DEF S
    <3>5. on \in to .. STRINGBYTES - 1 /\ on > p
      <4>1. CASE buf[to] = SEMICOLON
        <5>1. to # STRINGBYTES - 1
          BY <4>1, NulIs
        <5>. QED BY <2>1, <2>2, <3>3, <4>1, <5>1 DEF on
      <4>2. CASE buf[to] # SEMICOLON
        <5>1. to # from
          BY <2>2, <2>5, <3>3, <4>2 DEF Separators
        <5>. QED BY <2>1, <2>2, <3>3, <4>2, <5>1 DEF on
      <4>. QED BY <4>1, <4>2
    <3>6. on \in Places
      BY <2>1, <2>2, <3>3, <3>5 DEF Places
    <3>7. SkipSpace(buf, on) \in on .. STRINGBYTES - 1
      BY <3>6, SkipSpaceIs
    <3>8. v.next = SkipSpace(buf, on) /\ v.path = [i \in 1 .. to - from |-> buf[from + i - 1]]
      BY <2>3, <2>5
    <3>9. v.next \in Places /\ v.next > p
      BY <2>1, <3>5, <3>6, <3>7, <3>8 DEF Places
    <3>10. v.path \in Seq(Chars)
      <4>1. to - from \in Nat
        BY <2>1, <2>2, <3>3
      <4>2. ASSUME NEW i \in 1 .. to - from PROVE buf[from + i - 1] \in Chars
        <5>1. from + i - 1 \in from .. to - 1 /\ from + i - 1 \in Places
          BY <2>1, <2>2, <3>3 DEF Places
        <5>2. buf[from + i - 1] \in Cell /\ buf[from + i - 1] # NUL
          BY <3>4, <5>1 DEF Buffers, Separators
        <5>. QED BY <5>2 DEF Cell
      <4>. QED BY <3>8, <4>1, <4>2
    <3>11. v.next >= p
      BY <2>1, <3>9 DEF Places
    <3>. QED BY <3>9, <3>10, <3>11 DEF Somewhere, v
  <2>. QED BY <2>4, <2>5
<1>. QED BY <1>1, <1>2

-----------------------------------------------------------------------------
(* The pieces of a value, and make_bootfile()'s way through them.          *)

(* buf holds the string v from base on.                                    *)
Holds(buf, base, v) ==
  /\ buf \in Buffers /\ buf[STRINGBYTES - 1] = NUL
  /\ base \in Places /\ v = StringAt(buf, base)

(* A scan of v stops behind a separator or at its end; the pieces it has   *)
(* behind it then.                                                         *)
Stop(v, c) == c \in 0 .. Len(v) /\ (c \in Breaks(v) \/ c = Len(v))
Done(v, c) == {t \in Spans(v) : t[1] < c}

PiecesOf(values) == IF values = {} THEN <<>> ELSE Pieces(CHOOSE v \in values : TRUE)

(* The k-th piece of a value, or its last one.                             *)
Part(values, k) ==
  LET ps == PiecesOf(values)
  IN IF ps = <<>> \/ k = 0 THEN <<>> ELSE ps[LeastOf(k, Len(ps))]

(* p has k pieces of the value at base behind it, or all of them; the last *)
(* one is saved.                                                           *)
Reading(values, p, saved, k, base, buf) ==
  /\ saved = Part(values, k)
  /\ \/ values = {} /\ p = NULL
     \/ \E v \in values : \E c \in 0 .. Len(v) :
          /\ values = {v} /\ Holds(buf, base, v)
          /\ p = base + c /\ Stop(v, c)
          /\ Cardinality(Done(v, c)) = LeastOf(k, Cardinality(Spans(v)))

LEMMA BreaksAre ==
  ASSUME NEW v \in Seq(Chars)
  PROVE  /\ Len(v) \in Nat /\ 0 \in Breaks(v) /\ Len(v) + 1 \in Breaks(v)
         /\ \A q \in Breaks(v) : q \in 0 .. Len(v) + 1
         /\ \A i \in 1 .. Len(v) : i \in Breaks(v) <=> v[i] \in {SPACE, SEMICOLON}
         /\ \A i \in 1 .. Len(v) : v[i] # NUL /\ v[i] \in Chars
<1>1. Len(v) \in Nat /\ DOMAIN v = 1 .. Len(v) /\ \A i \in 1 .. Len(v) : v[i] \in Chars
  OBVIOUS
<1>2. \A i \in 1 .. Len(v) : v[i] # NUL
  BY <1>1, DefaultsAssumption
<1>3. \A i \in 1 .. Len(v) : i # 0 /\ i # Len(v) + 1
  BY <1>1
<1>4. \A i \in 1 .. Len(v) : i \in Breaks(v) <=> v[i] \in {SPACE, SEMICOLON}
  BY <1>1, <1>2, <1>3 DEF Breaks, Separators
<1>5. \A q \in Breaks(v) : q \in 0 .. Len(v) + 1
  BY <1>1 DEF Breaks
<1>. QED BY <1>1, <1>2, <1>4, <1>5 DEF Breaks

(* A span: two breaks with none between, and more than that.               *)
LEMMA SpanIs ==
  ASSUME NEW v \in Seq(Chars), NEW t \in Spans(v)
  PROVE  /\ t = <<t[1], t[2]>> /\ t[1] \in Breaks(v) /\ t[2] \in Breaks(v)
         /\ t[1] \in 0 .. Len(v) - 1 /\ t[2] \in t[1] + 1 .. Len(v) + 1
         /\ \A q \in Breaks(v) : q <= t[1] \/ q >= t[2]
         /\ t[1] + 1 < t[2] \/ (t[2] <= Len(v) /\ v[t[2]] = SEMICOLON)
<1>1. /\ t \in Breaks(v) \X Breaks(v)
      /\ t[1] < t[2] /\ \A q \in Breaks(v) : q <= t[1] \/ q >= t[2]
      /\ t[1] + 1 < t[2] \/ (t[2] <= Len(v) /\ v[t[2]] = SEMICOLON)
  BY DEF Spans
<1>2. t = <<t[1], t[2]>> /\ t[1] \in Breaks(v) /\ t[2] \in Breaks(v)
  BY <1>1
<1>3. Len(v) \in Nat /\ t[1] \in 0 .. Len(v) + 1 /\ t[2] \in 0 .. Len(v) + 1
  BY <1>2, BreaksAre
<1>. QED BY <1>1, <1>2, <1>3

LEMMA SpansFinite ==
  ASSUME NEW v \in Seq(Chars), NEW S \in SUBSET Spans(v)
  PROVE  IsFiniteSet(S) /\ Cardinality(S) \in Nat
<1>1. Len(v) \in Nat
  OBVIOUS
<1>2. IsFiniteSet(0 .. Len(v) + 1)
  BY <1>1, FS_Interval
<1>3. IsFiniteSet((0 .. Len(v) + 1) \X (0 .. Len(v) + 1))
  BY <1>2, FS_Product
<1>4. S \subseteq (0 .. Len(v) + 1) \X (0 .. Len(v) + 1)
  <2>1. SUFFICES ASSUME NEW t \in S PROVE t \in (0 .. Len(v) + 1) \X (0 .. Len(v) + 1)
    OBVIOUS
  <2>2. t = <<t[1], t[2]>> /\ t[1] \in Breaks(v) /\ t[2] \in Breaks(v)
    BY SpanIs
  <2>. QED BY <2>2, BreaksAre
<1>. QED BY <1>3, <1>4, FS_Subset, FS_CardinalityType

LEMMA SameSpan ==
  ASSUME NEW v \in Seq(Chars), NEW s \in Spans(v), NEW t \in Spans(v), s[1] = t[1]
  PROVE  s = t
<1>1. /\ s = <<s[1], s[2]>> /\ s[2] \in Breaks(v) /\ s[2] \in s[1] + 1 .. Len(v) + 1
      /\ s[1] \in 0 .. Len(v) - 1 /\ \A q \in Breaks(v) : q <= s[1] \/ q >= s[2]
  BY SpanIs
<1>2. /\ t = <<t[1], t[2]>> /\ t[2] \in Breaks(v) /\ t[2] \in t[1] + 1 .. Len(v) + 1
      /\ \A q \in Breaks(v) : q <= t[1] \/ q >= t[2]
  BY SpanIs
<1>3. s[2] >= t[2] /\ t[2] >= s[2]
  BY <1>1, <1>2
<1>4. s[2] = t[2]
  BY <1>1, <1>2, <1>3
<1>. QED BY <1>1, <1>2, <1>4

(* The k-th span is the one that has k - 1 spans before it.                *)
LEMMA NthIs ==
  ASSUME NEW v \in Seq(Chars), NEW s \in Spans(v), NEW k \in Nat,
         Cardinality({t \in Spans(v) : t[1] < s[1]}) = k
  PROVE  Nth(v, k + 1) = s /\ k + 1 \in 1 .. Cardinality(Spans(v))
<1>. DEFINE Before(r) == {t \in Spans(v) : t[1] < r[1]}
            r == Nth(v, k + 1)
<1>1. (k + 1) - 1 = k
  OBVIOUS
<1>2. r = CHOOSE x \in Spans(v) : Cardinality(Before(x)) = k
  BY <1>1 DEF Nth
<1>3. Cardinality(Before(s)) = k
  OBVIOUS
<1>. HIDE DEF r
<1>4. r \in Spans(v) /\ Cardinality(Before(r)) = k
  BY <1>2, <1>3
<1>5. s[1] \in Int /\ r[1] \in Int
  BY <1>4, SpanIs
<1>6. ASSUME NEW x \in Spans(v), NEW y \in Spans(v), x[1] < y[1], x[1] \in Int, y[1] \in Int,
             Cardinality(Before(x)) = k, Cardinality(Before(y)) = k
      PROVE  FALSE
  <2>1. Before(x) \subseteq Before(y)
    <3>1. \A t \in Spans(v) : t[1] \in Int
      BY SpanIs
    <3>. QED BY <1>6, <3>1
  <2>2. x \in Before(y) /\ x \notin Before(x)
    BY <1>6
  <2>3. IsFiniteSet(Before(y))
    BY SpansFinite
  <2>. HIDE DEF Before
  <2>4. Before(y) = Before(x)
    BY <1>6, <2>1, <2>3, FS_Subset
  <2>. QED BY <2>2, <2>4
<1>7. r[1] = s[1]
  BY <1>3, <1>4, <1>5, <1>6
<1>8. r = s
  BY <1>4, <1>7, SameSpan
<1>9. k + 1 <= Cardinality(Spans(v))
  <2>1. IsFiniteSet(Before(s)) /\ IsFiniteSet(Spans(v)) /\ Cardinality(Spans(v)) \in Nat
    BY SpansFinite
  <2>2. s \notin Before(s) /\ Before(s) \cup {s} \in SUBSET Spans(v)
    BY <1>5
  <2>. HIDE DEF Before
  <2>3. Cardinality(Before(s) \cup {s}) = k + 1
    BY <1>3, <2>1, <2>2, FS_AddElement
  <2>. QED BY <2>1, <2>2, <2>3, FS_Subset
<1>10. Cardinality(Spans(v)) \in Nat
  BY SpansFinite
<1>. QED BY <1>8, <1>9, <1>10 DEF r

LEMMA HoldsIs ==
  ASSUME NEW buf, NEW base, NEW v, Holds(buf, base, v)
  PROVE  /\ v \in Seq(Chars) /\ Len(v) \in Nat /\ base \in Nat /\ base + Len(v) \in 0 .. STRINGBYTES - 1
         /\ buf[base + Len(v)] = NUL /\ STRINGBYTES \in Nat
         /\ \A i \in 1 .. Len(v) : v[i] = buf[base + i - 1]
<1>1. /\ buf \in Buffers /\ base \in Nat /\ STRINGBYTES \in Nat /\ base \in 0 .. STRINGBYTES - 1
      /\ STRINGBYTES - 1 \in base .. STRINGBYTES - 1 /\ buf[STRINGBYTES - 1] = NUL
      /\ v = StringAt(buf, base)
  BY SizeAssumption DEF Holds, Places
<1>2. /\ v \in Seq(Chars) /\ Len(v) = StringEnd(buf, base) - base
      /\ \A i \in 1 .. Len(v) : v[i] = buf[base + i - 1]
  BY <1>1, StringIs
<1>3. StringEnd(buf, base) \in base .. STRINGBYTES - 1 /\ buf[StringEnd(buf, base)] = NUL
  BY <1>1, EndIs
<1>4. Len(v) \in Nat /\ base + Len(v) = StringEnd(buf, base)
  BY <1>1, <1>2, <1>3
<1>. QED BY <1>1, <1>2, <1>3, <1>4

(* Spaces are passed over, and no piece begins at one.                     *)
LEMMA SpacesSkipped ==
  ASSUME NEW buf, NEW base, NEW v, Holds(buf, base, v), NEW c \in 0 .. Len(v)
  PROVE  \E d \in c .. Len(v) :
           /\ SkipSpace(buf, base + c) = base + d
           /\ d < Len(v) => v[d + 1] # SPACE
           /\ d > c => v[d] = SPACE /\ d \in Breaks(v)
           /\ Done(v, d) = Done(v, c)
<1>. DEFINE S == {q \in base + c .. STRINGBYTES - 1 : buf[q] # SPACE}
            n == Len(v)
            d == SkipSpace(buf, base + c) - base
<1>1. /\ v \in Seq(Chars) /\ n \in Nat /\ base \in Nat /\ base + n \in 0 .. STRINGBYTES - 1
      /\ buf[base + n] = NUL /\ STRINGBYTES \in Nat
      /\ \A i \in 1 .. n : v[i] = buf[base + i - 1]
  BY HoldsIs
<1>2. base + n \in S /\ S \subseteq Nat
  BY <1>1, NulIs
<1>3. SkipSpace(buf, base + c) = Least(S)
  BY DEF SkipSpace
<1>4. Least(S) \in S /\ \A q \in S : Least(S) <= q
  <2>. HIDE DEF S
  <2>. QED BY <1>2, LeastIs
<1>5. d \in c .. n /\ SkipSpace(buf, base + c) = base + d /\ buf[base + d] # SPACE
  <2>1. Least(S) \in base + c .. base + n /\ buf[Least(S)] # SPACE
    BY <1>1, <1>2, <1>4
  <2>. HIDE DEF S
  <2>. QED BY <1>1, <1>3, <2>1
<1>6. \A i \in c + 1 .. d : v[i] = SPACE /\ i \in 1 .. n
  <2>1. SUFFICES ASSUME NEW i \in c + 1 .. d PROVE v[i] = SPACE /\ i \in 1 .. n
    OBVIOUS
  <2>. HIDE DEF d
  <2>2. i \in 1 .. n /\ base + i - 1 \in base + c .. STRINGBYTES - 1 /\ base + i - 1 < base + d
    BY <1>1, <1>5
  <2>3. base + i - 1 \notin S
    <3>. HIDE DEF S
    <3>. QED BY <1>1, <1>3, <1>4, <1>5, <2>2
  <2>. QED BY <1>1, <2>2, <2>3
<1>. HIDE DEF d
<1>7. d < n => v[d + 1] # SPACE
  <2>1. SUFFICES ASSUME d < n PROVE v[d + 1] # SPACE
    OBVIOUS
  <2>2. d + 1 \in 1 .. n /\ base + (d + 1) - 1 = base + d
    BY <1>1, <1>5, <2>1
  <2>. QED BY <1>1, <1>5, <2>2
<1>8. d > c => v[d] = SPACE /\ d \in Breaks(v)
  <2>1. SUFFICES ASSUME d > c PROVE v[d] = SPACE /\ d \in Breaks(v)
    OBVIOUS
  <2>2. d \in c + 1 .. d
    BY <1>1, <1>5, <2>1
  <2>3. v[d] = SPACE /\ d \in 1 .. n
    BY <1>6, <2>2
  <2>. QED BY <1>1, <2>3, BreaksAre
<1>9. Done(v, d) = Done(v, c)
  <2>1. SUFFICES ASSUME NEW t \in Spans(v), t[1] >= c, t[1] < d PROVE FALSE
    <3>1. \A t \in Spans(v) : t[1] \in Int
      BY <1>1, SpanIs
    <3>. QED BY <1>1, <1>5, <2>1, <3>1 DEF Done
  <2>2. /\ t[1] \in 0 .. n - 1 /\ t[2] \in t[1] + 1 .. n + 1
        /\ \A q \in Breaks(v) : q <= t[1] \/ q >= t[2]
        /\ t[1] + 1 < t[2] \/ (t[2] <= n /\ v[t[2]] = SEMICOLON)
    BY <1>1, SpanIs
  <2>3. t[1] + 1 \in c + 1 .. d
    BY <1>1, <1>5, <2>1, <2>2
  <2>4. v[t[1] + 1] = SPACE /\ t[1] + 1 \in 1 .. n
    BY <1>6, <2>3
  <2>5. t[1] + 1 \in Breaks(v)
    BY <1>1, <2>4, BreaksAre
  <2>6. t[2] = t[1] + 1
    BY <2>2, <2>5
  <2>. QED BY <2>2, <2>4, <2>6, NulIs
<1>. QED BY <1>5, <1>7, <1>8, <1>9

(* g is what env_get_var() answers from the stop c: the next piece, or the *)
(* end; the pointer is at a stop again, behind that piece.                 *)
Met(v, c, base, g) ==
  \E d \in 0 .. Len(v) :
    /\ Stop(v, d) /\ g.next = base + d
    /\ \/ g.path = NoPath /\ Done(v, c) = Spans(v) /\ Done(v, d) = Spans(v)
       \/ \E s \in Spans(v) :
            /\ g.path = SubSeq(v, s[1] + 1, s[2] - 1) /\ g.path \in Seq(Chars)
            /\ Done(v, c) = {t \in Spans(v) : t[1] < s[1]}
            /\ Done(v, d) = Done(v, c) \cup {s}

LEMMA PieceMet ==
  ASSUME NEW buf, NEW base, NEW v, Holds(buf, base, v), NEW c, Stop(v, c)
  PROVE  Met(v, c, base, EnvGetVar(buf, base + c))
<1>. DEFINE g == EnvGetVar(buf, base + c)
            n == Len(v)
            from == SkipSpace(buf, base + c)
            T == {q \in from .. STRINGBYTES - 1 : buf[q] \in Separators}
            to == Least(T)
            on == IF buf[to] = SEMICOLON THEN to + 1 ELSE to
<1>1. /\ v \in Seq(Chars) /\ n \in Nat /\ base \in Nat /\ base + n \in 0 .. STRINGBYTES - 1
      /\ buf[base + n] = NUL /\ STRINGBYTES \in Nat
      /\ \A i \in 1 .. n : v[i] = buf[base + i - 1]
  BY HoldsIs
<1>2. c \in 0 .. n /\ (c \in Breaks(v) \/ c = n)
  BY DEF Stop
<1>3. g = IF buf[from] = NUL THEN [path |-> NoPath, next |-> from]
          ELSE [path |-> [i \in 1 .. to - from |-> buf[from + i - 1]],
                next |-> SkipSpace(buf, on)]
  <2>1. base + c # NULL
    BY <1>1, <1>2, NullIs
  <2>. QED BY <2>1 DEF EnvGetVar
<1>4. PICK d \in c .. n :
        /\ from = base + d
        /\ d < n => v[d + 1] # SPACE
        /\ d > c => v[d] = SPACE /\ d \in Breaks(v)
        /\ Done(v, d) = Done(v, c)
  BY <1>2, SpacesSkipped
<1>. HIDE DEF g, from
<1>5. Stop(v, d) /\ d \in 0 .. n
  BY <1>1, <1>2, <1>4 DEF Stop
<1>6. CASE d = n
  <2>1. g.path = NoPath /\ g.next = base + d
    BY <1>1, <1>3, <1>4, <1>6
  <2>2. Done(v, d) = Spans(v)
    <3>1. \A t \in Spans(v) : t[1] \in 0 .. n - 1
      BY <1>1, SpanIs
    <3>. QED BY <1>1, <1>6, <3>1 DEF Done
  <2>. QED BY <1>4, <1>5, <2>1, <2>2 DEF Met, g
<1>7. CASE d # n
  <2>1. /\ d < n /\ d + 1 \in 1 .. n /\ base + (d + 1) - 1 = base + d /\ d \in Breaks(v)
        /\ v[d + 1] # SPACE /\ v[d + 1] # NUL /\ buf[base + d] = v[d + 1]
    <3>1. d < n /\ d + 1 \in 1 .. n /\ base + (d + 1) - 1 = base + d
      BY <1>1, <1>2, <1>4, <1>5, <1>7
    <3>2. d \in Breaks(v)
      BY <1>2, <1>4, <1>7
    <3>3. v[d + 1] # NUL
      BY <1>1, <3>1, BreaksAre
    <3>. QED BY <1>1, <1>4, <3>1, <3>2, <3>3
  <2>2. base + n \in T /\ T \subseteq Nat
    BY <1>1, <1>4, <1>5 DEF Separators
  <2>3. to \in T /\ \A q \in T : to <= q
    <3>. HIDE DEF T
    <3>. QED BY <2>2, LeastIs
  <2>. DEFINE e == to - base + 1
  <2>. HIDE DEF to
  <2>4. to \in base + d .. base + n /\ buf[to] \in Separators
    BY <1>1, <1>4, <1>5, <2>2, <2>3
  <2>5. e \in d + 1 .. n + 1 /\ to = base + e - 1
    BY <1>1, <1>4, <1>5, <2>4
  <2>. HIDE DEF e
  <2>0. /\ d \in Int /\ e \in Int /\ 0 <= d /\ d + 1 <= e /\ (e <= n \/ e = n + 1)
        /\ n \in Int /\ base \in Int /\ from = base + d /\ to = base + e - 1
    BY <1>1, <1>4, <1>5, <2>5
  <2>6. ASSUME NEW i \in d + 1 .. e - 1
        PROVE  i \in 1 .. n /\ i \notin Breaks(v)
    <3>1. i \in 1 .. n /\ base + i - 1 \in base + d .. STRINGBYTES - 1 /\ base + i - 1 < to
      BY <1>1, <1>4, <1>5, <2>0
    <3>2. base + i - 1 \notin T
      <4>. HIDE DEF T
      <4>. QED BY <1>1, <2>0, <2>3, <3>1
    <3>3. v[i] \notin Separators
      BY <1>1, <1>4, <3>1, <3>2
    <3>. QED BY <1>1, <3>1, <3>3, BreaksAre DEF Separators
  <2>7. e <= n => v[e] \in {SPACE, SEMICOLON} /\ buf[to] = v[e] /\ e \in 1 .. n
    <3>1. SUFFICES ASSUME e <= n PROVE v[e] \in {SPACE, SEMICOLON} /\ buf[to] = v[e] /\ e \in 1 .. n
      OBVIOUS
    <3>2. e \in 1 .. n
      BY <2>0, <3>1
    <3>3. buf[to] = v[e] /\ v[e] # NUL
      BY <1>1, <2>5, <3>2, BreaksAre
    <3>. QED BY <2>4, <3>2, <3>3 DEF Separators
  <2>8. e \in Breaks(v)
    <3>1. CASE e <= n
      BY <1>1, <2>7, <3>1, BreaksAre
    <3>2. CASE e = n + 1
      BY <1>1, <3>2, BreaksAre
    <3>. QED BY <2>0, <3>1, <3>2
  <2>. DEFINE s == <<d, e>>
  <2>9. s[1] = d /\ s[2] = e
    OBVIOUS
  <2>10. s \in Spans(v)
    <3>1. \A q \in Breaks(v) : q <= d \/ q >= e
      <4>1. SUFFICES ASSUME NEW q \in Breaks(v), ~(q <= d), ~(q >= e) PROVE FALSE
        OBVIOUS
      <4>2. q \in 0 .. n + 1
        BY <1>1, BreaksAre
      <4>3. q \in d + 1 .. e - 1
        BY <2>0, <4>1, <4>2
      <4>. QED BY <2>6, <4>1, <4>3
    <3>2. d + 1 < e \/ (e <= n /\ v[e] = SEMICOLON)
      <4>1. SUFFICES ASSUME e = d + 1 PROVE e <= n /\ v[e] = SEMICOLON
        BY <2>0
      <4>2. e <= n
        BY <2>0, <2>1, <4>1
      <4>. QED BY <2>1, <2>7, <4>1, <4>2
    <3>3. d \in Breaks(v) /\ e \in Breaks(v) /\ d < e
      BY <2>0, <2>1, <2>8
    <3>. QED BY <2>9, <3>1, <3>2, <3>3 DEF Spans
  <2>. HIDE DEF s
  <2>11. buf[from] # NUL
    BY <1>4, <2>1
  <2>12. /\ g.path = [i \in 1 .. to - from |-> buf[from + i - 1]]
         /\ g.next = SkipSpace(buf, on)
    BY <1>3, <2>11
  <2>13. g.path = SubSeq(v, d + 1, e - 1) /\ g.path \in Seq(Chars)
    <3>1. to - from = e - 1 - d /\ e - 1 - d \in Nat
      BY <2>0
    <3>2. ASSUME NEW i \in 1 .. e - 1 - d
          PROVE  buf[from + i - 1] = v[d + 1 + i - 1] /\ v[d + 1 + i - 1] \in Chars
      <4>1. d + 1 + i - 1 \in 1 .. n /\ base + (d + 1 + i - 1) - 1 = from + i - 1
        <5>. HIDE DEF n, T, on
        <5>. QED BY <2>0
      <4>. QED BY <1>1, <4>1, BreaksAre
    <3>3. \A i \in d + 1 .. e - 1 : v[i] \in Chars
      BY <1>1, <2>6, BreaksAre
    <3>4. /\ SubSeq(v, d + 1, e - 1) \in Seq(Chars)
          /\ Len(SubSeq(v, d + 1, e - 1)) = e - 1 - d
          /\ \A i \in 1 .. e - 1 - d : SubSeq(v, d + 1, e - 1)[i] = v[d + 1 + i - 1]
      <4>1. d + 1 \in Int /\ e - 1 \in Int
        BY <2>0
      <4>2. /\ SubSeq(v, d + 1, e - 1) \in Seq(Chars)
            /\ Len(SubSeq(v, d + 1, e - 1)) = IF d + 1 <= e - 1 THEN e - 1 - (d + 1) + 1 ELSE 0
            /\ \A i \in 1 .. e - 1 - (d + 1) + 1 : SubSeq(v, d + 1, e - 1)[i] = v[d + 1 + i - 1]
        BY <3>3, <4>1, SubSeqProperties
      <4>3. e - 1 - (d + 1) + 1 = e - 1 - d /\ (~(d + 1 <= e - 1) => e - 1 - d = 0)
        <5>. HIDE DEF n, T, on
        <5>. QED BY <2>0
      <4>. QED BY <4>2, <4>3
    <3>5. g.path \in Seq(Chars) /\ Len(g.path) = e - 1 - d
          /\ \A i \in 1 .. e - 1 - d : g.path[i] = v[d + 1 + i - 1]
      <4>. DEFINE F(i) == buf[from + i - 1]
      <4>1. g.path = [i \in 1 .. e - 1 - d |-> F(i)]
        BY <2>12, <3>1
      <4>2. \A i \in 1 .. e - 1 - d : F(i) = v[d + 1 + i - 1] /\ F(i) \in Chars
        BY <3>2
      <4>. HIDE DEF F, g
      <4>. QED BY <3>1, <4>1, <4>2
    <3>. HIDE DEF g
    <3>6. g.path = SubSeq(v, d + 1, e - 1)
      BY <3>4, <3>5, SameSeq
    <3>. QED BY <3>5, <3>6
  <2>14. ASSUME NEW x \in d + 1 .. e, x \in 0 .. n
         PROVE  Done(v, x) = Done(v, c) \cup {s}
    <3>1. \A t \in Spans(v) : t[1] \in 0 .. n - 1 /\ t[1] \in Breaks(v)
      BY <1>1, SpanIs
    <3>2. ASSUME NEW t \in Spans(v) PROVE t[1] < x <=> t[1] < d \/ t = s
      <4>1. t[1] \in Int /\ t[1] \notin d + 1 .. e - 1
        BY <2>6, <3>1
      <4>2. t[1] = d <=> t = s
        BY <1>1, <2>9, <2>10, SameSpan
      <4>. QED BY <2>0, <4>1, <4>2
    <3>3. Done(v, x) = Done(v, d) \cup {s}
      BY <2>10, <3>2 DEF Done
    <3>. QED BY <1>4, <3>3
  <2>15. \E x \in 0 .. n : Stop(v, x) /\ g.next = base + x /\ Done(v, x) = Done(v, c) \cup {s}
    <3>1. CASE e <= n /\ v[e] = SEMICOLON
      <4>1. on = base + e /\ e \in 0 .. n
        BY <2>0, <2>7, <3>1
      <4>. HIDE DEF on
      <4>2. PICK x \in e .. n :
              /\ SkipSpace(buf, base + e) = base + x
              /\ x > e => x \in Breaks(v)
              /\ Done(v, x) = Done(v, e)
        BY <4>1, SpacesSkipped
      <4>3. Stop(v, x) /\ x \in 0 .. n
        BY <1>1, <2>8, <4>1, <4>2 DEF Stop
      <4>4. Done(v, e) = Done(v, c) \cup {s}
        BY <2>0, <2>14, <4>1
      <4>. QED BY <2>12, <4>1, <4>2, <4>3, <4>4
    <3>2. CASE ~(e <= n /\ v[e] = SEMICOLON)
      <4>1. on = base + (e - 1) /\ e - 1 \in 0 .. n
        <5>1. buf[to] # SEMICOLON
          <6>1. CASE e <= n
            BY <2>7, <3>2, <6>1
          <6>2. CASE e = n + 1
            BY <1>1, <2>5, <6>2, NulIs
          <6>. QED BY <2>0, <6>1, <6>2
        <5>. QED BY <2>0, <5>1
      <4>. HIDE DEF on
      <4>2. PICK x \in e - 1 .. n :
              /\ SkipSpace(buf, base + (e - 1)) = base + x
              /\ x < n => v[x + 1] # SPACE
              /\ x > e - 1 => x \in Breaks(v)
              /\ Done(v, x) = Done(v, e - 1)
        BY <4>1, SpacesSkipped
      <4>3. e - 1 \in d + 1 .. e
        <5>1. e # d + 1
          <6>1. SUFFICES ASSUME e = d + 1 PROVE FALSE
            OBVIOUS
          <6>. QED BY <1>1, <2>1, <2>7, <3>2, <6>1
        <5>. QED BY <2>0, <5>1
      <4>4. Done(v, e - 1) = Done(v, c) \cup {s}
        BY <2>14, <4>1, <4>3
      <4>5. Stop(v, x) /\ x \in 0 .. n
        <5>1. CASE x > e - 1
          BY <1>1, <4>1, <4>2, <5>1 DEF Stop
        <5>2. CASE x = e - 1
          <6>1. x = n
            <7>1. SUFFICES ASSUME x < n PROVE FALSE
              BY <1>1, <4>1, <4>2
            <7>2. e <= n /\ x + 1 = e
              BY <2>0, <5>2, <7>1
            <7>. QED BY <2>7, <3>2, <4>2, <7>1, <7>2
          <6>. QED BY <1>1, <6>1 DEF Stop
        <5>. QED BY <1>1, <4>1, <4>2, <5>1, <5>2
      <4>. QED BY <2>12, <4>1, <4>2, <4>4, <4>5
    <3>. QED BY <3>1, <3>2
  <2>16. Done(v, c) = {t \in Spans(v) : t[1] < s[1]}
    BY <1>4, <2>9 DEF Done
  <2>17. g.path = SubSeq(v, s[1] + 1, s[2] - 1)
    BY <2>9, <2>13
  <2>. QED BY <2>10, <2>13, <2>15, <2>16, <2>17 DEF Met, g
<1>. QED BY <1>6, <1>7

LEMMA NoPathIs == NoPath \notin Seq(Chars)
<1>1. SUFFICES ASSUME NoPath \in Seq(Chars) PROVE FALSE
  OBVIOUS
<1>2. NoPath[1] \in Chars
  BY <1>1 DEF NoPath
<1>. QED BY <1>2, DefaultsAssumption DEF NoPath

LEMMA PartIs ==
  ASSUME NEW v \in Seq(Chars)
  PROVE  LET m == Cardinality(Spans(v)) IN
         /\ m \in Nat /\ Len(PiecesOf({v})) = m
         /\ Part({v}, 0) = <<>>
         /\ \A k \in Nat : k >= m => Part({v}, k + 1) = Part({v}, k)
         /\ \A j \in 1 .. m :
              Part({v}, j) = SubSeq(v, Nth(v, j)[1] + 1, Nth(v, j)[2] - 1)
<1>. DEFINE m == Cardinality(Spans(v))
            F(k) == SubSeq(v, Nth(v, k)[1] + 1, Nth(v, k)[2] - 1)
            ps == PiecesOf({v})
<1>1. m \in Nat
  BY SpansFinite
<1>2. ps = [k \in 1 .. m |-> F(k)]
  <2>1. (CHOOSE w \in {v} : TRUE) = v
    OBVIOUS
  <2>. QED BY <2>1 DEF PiecesOf, Pieces
<1>. HIDE DEF m, F, ps
<1>3. Len(ps) = m /\ (m = 0 => ps = <<>>) /\ (m # 0 => ps # <<>>)
  <2>1. Len(ps) = m /\ ps \in Seq({F(k) : k \in 1 .. m})
    BY <1>1, <1>2
  <2>. QED BY <1>1, <2>1
<1>4. \A k : Part({v}, k) = IF ps = <<>> \/ k = 0 THEN <<>> ELSE ps[LeastOf(k, m)]
  BY <1>3 DEF Part, ps
<1>5. Part({v}, 0) = <<>>
  BY <1>4
<1>6. ASSUME NEW k \in Nat, k >= m PROVE Part({v}, k + 1) = Part({v}, k)
  <2>1. CASE m = 0
    BY <1>3, <1>4, <2>1
  <2>2. CASE m # 0
    <3>1. LeastOf(k, m) = m /\ LeastOf(k + 1, m) = m /\ k # 0 /\ k + 1 # 0
      BY <1>1, <1>6, <2>2 DEF LeastOf
    <3>. QED BY <1>4, <3>1
  <2>. QED BY <2>1, <2>2
<1>7. ASSUME NEW j \in 1 .. m PROVE Part({v}, j) = F(j)
  <2>1. LeastOf(j, m) = j /\ j # 0 /\ m # 0
    BY <1>1 DEF LeastOf
  <2>. QED BY <1>2, <1>3, <1>4, <2>1
<1>. QED BY <1>1, <1>3, <1>5, <1>6, <1>7 DEF m, F, ps

(* A call of env_get_var() from where the scan stands: it answers the next *)
(* piece, or none after the last, and the scan stands where it should.     *)
LEMMA TurnIs ==
  ASSUME NEW values, NEW p, NEW saved, NEW k \in Nat, NEW base, NEW buf,
         Reading(values, p, saved, k, base, buf)
  PROVE  LET g == EnvGetVar(buf, p) IN
         /\ Len(PiecesOf(values)) \in Nat
         /\ g.path = NoPath <=> k >= Len(PiecesOf(values))
         /\ Reading(values, g.next, OrSaved(g.path, saved), k + 1, base, buf)
<1>. DEFINE g == EnvGetVar(buf, p)
<1>1. CASE values = {} /\ p = NULL
  <2>1. g = [path |-> NoPath, next |-> NULL]
    BY <1>1 DEF EnvGetVar
  <2>2. PiecesOf(values) = <<>> /\ \A j : Part(values, j) = <<>>
    BY <1>1 DEF PiecesOf, Part
  <2>3. g.path = NoPath /\ g.next = NULL
    BY <2>1
  <2>4. Len(PiecesOf(values)) = 0
    BY <2>2
  <2>5. saved = <<>>
    BY <2>2 DEF Reading
  <2>. HIDE DEF g
  <2>6. Reading(values, g.next, OrSaved(g.path, saved), k + 1, base, buf)
    BY <1>1, <2>2, <2>3, <2>5 DEF Reading, OrSaved
  <2>. QED BY <2>3, <2>4, <2>6 DEF g
<1>2. ASSUME NEW v \in values, NEW c \in 0 .. Len(v), values = {v}, Holds(buf, base, v),
             p = base + c, Stop(v, c),
             Cardinality(Done(v, c)) = LeastOf(k, Cardinality(Spans(v))), saved = Part({v}, k)
      PROVE  /\ Len(PiecesOf(values)) \in Nat
             /\ g.path = NoPath <=> k >= Len(PiecesOf(values))
             /\ Reading(values, g.next, OrSaved(g.path, saved), k + 1, base, buf)
  <2>. DEFINE m == Cardinality(Spans(v))
  <2>1. v \in Seq(Chars)
    BY <1>2, HoldsIs
  <2>2. /\ m \in Nat /\ Len(PiecesOf(values)) = m
        /\ k >= m => Part({v}, k + 1) = Part({v}, k)
        /\ \A j \in 1 .. m : Part({v}, j) = SubSeq(v, Nth(v, j)[1] + 1, Nth(v, j)[2] - 1)
    BY <1>2, <2>1, PartIs
  <2>3. PICK d \in 0 .. Len(v) :
          /\ Stop(v, d) /\ g.next = base + d
          /\ \/ g.path = NoPath /\ Done(v, c) = Spans(v) /\ Done(v, d) = Spans(v)
             \/ \E s \in Spans(v) :
                  /\ g.path = SubSeq(v, s[1] + 1, s[2] - 1) /\ g.path \in Seq(Chars)
                  /\ Done(v, c) = {t \in Spans(v) : t[1] < s[1]}
                  /\ Done(v, d) = Done(v, c) \cup {s}
    <3>1. Met(v, c, base, g)
      BY <1>2, PieceMet
    <3>. HIDE DEF g
    <3>. QED BY <3>1 DEF Met
  <2>. HIDE DEF g
  <2>4. ASSUME OrSaved(g.path, saved) = Part({v}, k + 1),
               Cardinality(Done(v, d)) = LeastOf(k + 1, m)
        PROVE  Reading(values, g.next, OrSaved(g.path, saved), k + 1, base, buf)
    BY <1>2, <2>3, <2>4 DEF Reading
  <2>5. CASE g.path = NoPath /\ Done(v, c) = Spans(v) /\ Done(v, d) = Spans(v)
    <3>1. k >= m /\ LeastOf(k + 1, m) = m
      BY <1>2, <2>2, <2>5 DEF LeastOf
    <3>2. OrSaved(g.path, saved) = Part({v}, k + 1)
      BY <1>2, <2>2, <2>5, <3>1 DEF OrSaved
    <3>. QED BY <2>2, <2>4, <2>5, <3>1, <3>2
  <2>6. ASSUME NEW s \in Spans(v),
               g.path = SubSeq(v, s[1] + 1, s[2] - 1), g.path \in Seq(Chars),
               Done(v, c) = {t \in Spans(v) : t[1] < s[1]},
               Done(v, d) = Done(v, c) \cup {s}
        PROVE  /\ g.path # NoPath /\ ~(k >= m)
               /\ Reading(values, g.next, OrSaved(g.path, saved), k + 1, base, buf)
    <3>. DEFINE done == Done(v, c)  j == Cardinality(done)
    <3>1. done \in SUBSET Spans(v) /\ IsFiniteSet(done) /\ j \in Nat
      BY <2>1, SpansFinite DEF Done
    <3>2. Nth(v, j + 1) = s /\ j + 1 \in 1 .. m
      BY <2>1, <2>6, <3>1, NthIs
    <3>3. s \notin done
      <4>1. s[1] \in Int
        BY <2>1, SpanIs
      <4>. QED BY <2>6, <4>1
    <3>. HIDE DEF done
    <3>4. Cardinality(done \cup {s}) = j + 1
      BY <3>1, <3>3, FS_AddElement
    <3>. HIDE DEF j, m
    <3>5. j = LeastOf(k, m)
      BY <1>2 DEF m, done, j
    <3>6. j = k /\ k < m /\ LeastOf(k + 1, m) = k + 1
      BY <2>2, <3>1, <3>2, <3>5 DEF LeastOf
    <3>7. g.path # NoPath
      BY <2>6, NoPathIs
    <3>8. OrSaved(g.path, saved) = Part({v}, k + 1)
      BY <2>2, <2>6, <3>2, <3>6, <3>7 DEF OrSaved
    <3>9. Cardinality(Done(v, d)) = LeastOf(k + 1, m)
      BY <2>6, <3>4, <3>6 DEF done
    <3>. QED BY <2>2, <2>4, <3>6, <3>7, <3>8, <3>9 DEF m
  <2>. QED BY <2>2, <2>3, <2>5, <2>6
<1>. QED BY <1>1, <1>2 DEF Reading

(* The scan starts in front of everything.                                 *)
LEMMA StartIs ==
  ASSUME NEW name, NEW buf, buf = environ.strbuf, EnvOK(environ, mirror)
  PROVE  Reading(ValueOf(name), ValuePtr(name, environ), <<>>, 0, ValuePtr(name, environ), buf)
<1>. DEFINE p == ValuePtr(name, environ)  v == StringAt(buf, p)
<1>1. Sound(environ) /\ Unique(Strings(environ))
  BY DEF EnvOK, Tidy
<1>2. p \in {NULL} \cup Places
  BY <1>1, GetIs
<1>3. buf \in Buffers /\ buf[STRINGBYTES - 1] = NUL
  BY <1>1 DEF Sound, Shape
<1>4. ValueOf(name) = IF p = NULL THEN {} ELSE {v}
  BY DEF ValueOf
<1>. HIDE DEF p
<1>5. CASE p = NULL
  BY <1>4, <1>5 DEF Reading, Part, PiecesOf, p
<1>6. CASE p # NULL
  <2>1. Holds(buf, p, v)
    BY <1>2, <1>3, <1>6 DEF Holds
  <2>2. v \in Seq(Chars) /\ Len(v) \in Nat /\ p \in Nat
    BY <2>1, HoldsIs
  <2>. HIDE DEF v
  <2>3. Stop(v, 0) /\ 0 \in 0 .. Len(v) /\ p = p + 0
    BY <2>2, BreaksAre DEF Stop
  <2>4. Done(v, 0) = {}
    <3>1. \A t \in Spans(v) : t[1] \in 0 .. Len(v) - 1
      BY <2>2, SpanIs
    <3>. QED BY <2>2, <3>1 DEF Done
  <2>5. Cardinality(Done(v, 0)) = LeastOf(0, Cardinality(Spans(v)))
    BY <2>2, <2>4, FS_EmptySet, SpansFinite DEF LeastOf
  <2>6. Part({v}, 0) = <<>>
    BY <2>2, PartIs
  <2>7. ValueOf(name) = {v}
    BY <1>4, <1>6
  <2>. HIDE DEF ValueOf
  <2>8. Reading({v}, p, <<>>, 0, p, buf)
    BY <2>1, <2>3, <2>5, <2>6 DEF Reading
  <2>. QED BY <2>7, <2>8 DEF p
<1>. QED BY <1>5, <1>6

(* A list in which the variable has not moved reads the same.              *)
LEMMA StaysRead ==
  ASSUME NEW values, NEW p, NEW saved, NEW k, NEW name,
         Sound(environ'), ValuePtr(name, environ') = ValuePtr(name, environ),
         Get(environ', name) = Get(environ, name),
         Reading(values, p, saved, k, ValuePtr(name, environ), environ.strbuf)
  PROVE  Reading(values, p, saved, k, ValuePtr(name, environ'), environ'.strbuf)
<1>. DEFINE base == ValuePtr(name, environ)
<1>1. CASE values = {} /\ p = NULL
  BY <1>1 DEF Reading
<1>2. ASSUME NEW v, Holds(environ.strbuf, base, v)
      PROVE  Holds(environ'.strbuf, base, v)
  <2>1. environ'.strbuf \in Buffers /\ environ'.strbuf[STRINGBYTES - 1] = NUL
    BY DEF Sound, Shape
  <2>2. base \in Places /\ base # NULL
    BY <1>2, NullIs DEF Holds, Places
  <2>3. StringAt(environ'.strbuf, base) = StringAt(environ.strbuf, base)
    BY <2>2 DEF Get
  <2>. QED BY <1>2, <2>1, <2>2, <2>3 DEF Holds
<1>. QED BY <1>1, <1>2 DEF Reading

-----------------------------------------------------------------------------
(* The kernel's environment.                                               *)

(* The strings copied, after each string of the list.                      *)
Copying(h, all) ==
  /\ h \in [0 .. Len(all) -> Seq(Named)]
  /\ h[0] = <<>>
  /\ \A k \in 1 .. Len(all) :
       h[k] = IF all[k][1] = "console" \/ Len(h[k - 1]) >= KERN_ENVP THEN h[k - 1]
              ELSE Append(h[k - 1], all[k])
  /\ Copied = h[Len(all)]

LEMMA CopiedIs ==
  ASSUME Strings(environ) \in Seq(Named)
  PROVE  \E h : Copying(h, Strings(environ))
<1>. DEFINE all == Strings(environ)
            n == Len(all)
            V == Seq(Named)
            on(k, c) == IF all[k][1] = "console" \/ Len(c) >= KERN_ENVP THEN c
                        ELSE Append(c, all[k])
            step == [k \in 1 .. n |-> [c \in V |-> on(k, c)]]
            F(h) == [k \in 0 .. n |-> IF k = 0 THEN <<>> ELSE on(k, h[k - 1])]
            up == CHOOSE h : h = F(h)
<1>0. Copied = up[n]
  BY DEF Copied
<1>1. all \in Seq(Named)
  OBVIOUS
<1>. HIDE DEF all
<1>2. n \in Nat /\ <<>> \in V
  BY <1>1
<1>3. ASSUME NEW k \in 1 .. n, NEW c \in V PROVE on(k, c) \in V
  <2>1. all[k] \in Named
    BY <1>1
  <2>. QED BY <2>1
<1>4. step \in [1 .. n -> [V -> V]]
  <2>. HIDE DEF on, V
  <2>. QED BY <1>3
<1>5. PICK h : Computes(h, n, V, <<>>, step)
  <2>. HIDE DEF step, n, V
  <2>. QED BY <1>2, <1>4, RecursionExists
<1>6. /\ h \in [0 .. n -> V] /\ h[0] = <<>>
      /\ \A k \in 1 .. n : h[k] = step[k][h[k - 1]]
  BY <1>5 DEF Computes
<1>7. ASSUME NEW k \in 1 .. n PROVE h[k] = on(k, h[k - 1])
  <2>1. h[k - 1] \in V
    <3>1. k - 1 \in 0 .. n
      BY <1>2
    <3>. HIDE DEF n, V
    <3>. QED BY <1>6, <3>1
  <2>. HIDE DEF V
  <2>. QED BY <1>6, <2>1
<1>8. h = F(h)
  <2>1. h = [k \in 0 .. n |-> h[k]]
    BY <1>6
  <2>2. ASSUME NEW k \in 0 .. n PROVE h[k] = F(h)[k]
    <3>1. k # 0 => k \in 1 .. n
      BY <1>2
    <3>. HIDE DEF n, on, V
    <3>. QED BY <1>6, <1>7, <3>1
  <2>. QED BY <2>1, <2>2
<1>9. up = F(up)
  BY <1>8
<1>. HIDE DEF up
<1>10. \A k \in 0 .. n : up[k] = h[k]
  <2>. DEFINE Same == {k \in 0 .. n : up[k] = h[k]}
  <2>1. 0 \in Same
    BY <1>2, <1>6, <1>9
  <2>2. \A k \in 1 .. n : k - 1 \in Same => k \in Same
    <3>1. \A k \in 1 .. n : k # 0 /\ k \in 0 .. n
      BY <1>2
    <3>. HIDE DEF n, on, V
    <3>. QED BY <1>7, <1>9, <3>1
  <2>3. \A k \in 0 .. n : k \in Same
    <3>. HIDE DEF Same
    <3>. QED BY <1>2, <2>1, <2>2, CountUp
  <2>. QED BY <2>3
<1>11. Copied = h[n]
  <2>1. n \in 0 .. n
    BY <1>2
  <2>. QED BY <1>0, <1>10, <2>1
<1>12. Copying(h, all)
  BY <1>6, <1>7, <1>11 DEF Copying
<1>. QED BY <1>12 DEF all

LEMMA CopiedSound ==
  ASSUME Tidy(environ)
  PROVE  Copied \in Seq(Named) /\ Unique(Copied) /\ Absent("console", Copied)
<1>. DEFINE all == Strings(environ)  n == Len(all)
<1>1. all \in Seq(Named) /\ n \in Nat /\ Unique(all)
  BY StringsAre DEF Tidy
<1>2. PICK h : Copying(h, all)
  BY <1>1, CopiedIs
<1>. HIDE DEF all
<1>. DEFINE From(c, k) == \A i \in 1 .. Len(c) : \E j \in 1 .. k : c[i] = all[j]
            Good(k) == /\ Unique(h[k]) /\ Absent("console", h[k]) /\ From(h[k], k)
            S == {k \in 0 .. n : Good(k)}
<1>3. Good(0)
  BY <1>2 DEF Copying, Unique, Absent
<1>4. ASSUME NEW k \in 1 .. n, Good(k - 1) PROVE Good(k)
  <2>. DEFINE c == h[k - 1]
  <2>1. k - 1 \in 0 .. n /\ \A j \in 1 .. k - 1 : j \in 1 .. k
    BY <1>1
  <2>2. c \in Seq(Named) /\ all[k] \in Named
    BY <1>1, <1>2, <2>1 DEF Copying
  <2>3. h[k] = IF all[k][1] = "console" \/ Len(c) >= KERN_ENVP THEN c ELSE Append(c, all[k])
    BY <1>2 DEF Copying
  <2>4. Unique(c) /\ Absent("console", c) /\ From(c, k - 1)
    BY <1>4
  <2>. HIDE DEF c
  <2>5. CASE h[k] = c
    BY <2>1, <2>4, <2>5
  <2>6. CASE all[k][1] # "console" /\ h[k] = Append(c, all[k])
    <3>1. Absent(all[k][1], c)
      <4>1. SUFFICES ASSUME NEW i \in 1 .. Len(c), c[i][1] = all[k][1] PROVE FALSE
        BY DEF Absent
      <4>2. PICK j \in 1 .. k - 1 : c[i] = all[j]
        BY <2>4
      <4>3. j \in 1 .. n /\ j # k /\ all[j][1] = all[k][1]
        BY <1>1, <4>1, <4>2
      <4>. QED BY <1>1, <4>3 DEF Unique
    <3>2. Unique(h[k])
      BY <2>2, <2>4, <2>6, <3>1, ViewAdded
    <3>3. /\ Len(h[k]) = Len(c) + 1 /\ Len(c) \in Nat /\ h[k][Len(c) + 1] = all[k]
          /\ \A i \in 1 .. Len(c) : h[k][i] = c[i]
      BY <2>2, <2>6
    <3>4. ASSUME NEW i \in 1 .. Len(h[k])
          PROVE  h[k][i][1] # "console" /\ \E j \in 1 .. k : h[k][i] = all[j]
      <4>1. CASE i \in 1 .. Len(c)
        <5>1. h[k][i] = c[i] /\ c[i][1] # "console"
          BY <2>4, <3>3, <4>1 DEF Absent
        <5>2. PICK j \in 1 .. k - 1 : c[i] = all[j]
          BY <2>4, <4>1
        <5>. QED BY <2>1, <5>1, <5>2
      <4>2. CASE i = Len(c) + 1
        <5>1. k \in 1 .. k
          BY <1>1
        <5>. QED BY <2>6, <3>3, <4>2, <5>1
      <4>. QED BY <3>3, <4>1, <4>2
    <3>. QED BY <3>2, <3>4 DEF Absent
  <2>. QED BY <2>3, <2>5, <2>6
<1>5. Good(n)
  <2>1. 0 \in S /\ \A k \in 1 .. n : k - 1 \in S => k \in S
    <3>. HIDE DEF Good
    <3>. QED BY <1>1, <1>3, <1>4
  <2>2. \A k \in 0 .. n : k \in S
    <3>. HIDE DEF S
    <3>. QED BY <1>1, <2>1, CountUp
  <2>. QED BY <1>1, <2>2
<1>6. Copied = h[n] /\ h[n] \in Seq(Named)
  <2>1. n \in 0 .. n
    BY <1>1
  <2>. QED BY <1>2, <2>1 DEF Copying
<1>. QED BY <1>5, <1>6

(* How many of the PROM's strings the table gets is counted by Place.      *)
LEMMA PlaceIs ==
  ASSUME NEW n \in Nat, Len(Strings(environ)) = n, Strings(environ) \in Seq(Named)
  PROVE  /\ Place(0) = 0 /\ Place(n) = Cardinality(PromsOwn)
         /\ \A k \in 0 .. n : Place(k) \in Nat
         /\ \A k \in 1 .. n : Place(k) = Place(k - 1) + (IF k \in PromsOwn THEN 1 ELSE 0)
<1>. DEFINE Own(k) == {j \in PromsOwn : j <= k}
<1>1. PromsOwn \subseteq 1 .. n /\ \A j \in PromsOwn : j \in Nat /\ 1 <= j /\ j <= n
  BY DEF PromsOwn
<1>2. ASSUME NEW k \in 0 .. n PROVE IsFiniteSet(Own(k)) /\ Cardinality(Own(k)) \in Nat
  <2>1. IsFiniteSet(1 .. n)
    BY FS_Interval
  <2>2. Own(k) \subseteq 1 .. n
    BY <1>1
  <2>3. IsFiniteSet(Own(k))
    BY <2>1, <2>2, FS_Subset
  <2>. HIDE DEF Own
  <2>. QED BY <2>3, FS_CardinalityType
<1>3. Place(0) = 0
  <2>1. \A j \in PromsOwn : ~ (j <= 0)
    BY <1>1
  <2>3. Own(0) = {}
    BY <2>1
  <2>2. Cardinality({}) = 0
    BY FS_EmptySet
  <2>. QED BY <2>2, <2>3 DEF Place
<1>4. Place(n) = Cardinality(PromsOwn)
  <2>1. Own(n) = PromsOwn
    BY <1>1
  <2>. QED BY <2>1 DEF Place
<1>5. ASSUME NEW k \in 1 .. n
      PROVE  Place(k) = Place(k - 1) + (IF k \in PromsOwn THEN 1 ELSE 0)
  <2>0. k - 1 \in 0 .. n
    OBVIOUS
  <2>1. CASE k \in PromsOwn
    <3>0. /\ \A j \in PromsOwn : j <= k <=> (j <= k - 1 \/ j = k)
          /\ ~ (k <= k - 1)
      BY <1>1
    <3>1. Own(k) = Own(k - 1) \cup {k} /\ k \notin Own(k - 1)
      BY <2>1, <3>0
    <3>2. IsFiniteSet(Own(k - 1))
      BY <1>2, <2>0
    <3>. HIDE DEF Own
    <3>3. Cardinality(Own(k)) = Cardinality(Own(k - 1)) + 1
      BY <3>1, <3>2, FS_AddElement
    <3>. QED BY <2>1, <3>3 DEF Place, Own
  <2>2. CASE k \notin PromsOwn
    <3>0. \A j \in PromsOwn : j <= k <=> (j <= k - 1 \/ j = k)
      BY <1>1
    <3>1. Own(k) = Own(k - 1)
      BY <2>2, <3>0
    <3>2. Cardinality(Own(k - 1)) \in Nat
      BY <1>2, <2>0
    <3>. HIDE DEF Own
    <3>3. Cardinality(Own(k)) = Cardinality(Own(k - 1)) + 0
      BY <3>1, <3>2
    <3>. QED BY <2>2, <3>3 DEF Place, Own
  <2>. QED BY <2>1, <2>2
<1>6. \A k \in 0 .. n : Place(k) \in Nat
  BY <1>2 DEF Place
<1>. QED BY <1>3, <1>4, <1>5, <1>6

(* The PROM's strings are copied in their order, as many as the table      *)
(* takes, and nothing else is.                                             *)
LEMMA CopiedInOrder ==
  ASSUME Tidy(environ)
  PROVE  /\ Cardinality(PromsOwn) \in Nat
         /\ Len(Copied) = LeastOf(Cardinality(PromsOwn), KERN_ENVP)
         /\ \A i \in PromsOwn : Place(i) <= KERN_ENVP =>
              Place(i) \in 1 .. Len(Copied) /\ Copied[Place(i)] = Strings(environ)[i]
         /\ \A q \in 1 .. Len(Copied) : \E i \in PromsOwn : Place(i) = q
<1>. DEFINE all == Strings(environ)  n == Len(all)
<1>1. all \in Seq(Named) /\ n \in Nat
  BY StringsAre DEF Tidy
<1>2. PICK h : Copying(h, all)
  BY <1>1, CopiedIs
<1>3. /\ Place(0) = 0 /\ Place(n) = Cardinality(PromsOwn)
      /\ \A k \in 0 .. n : Place(k) \in Nat
      /\ \A k \in 1 .. n : Place(k) = Place(k - 1) + (IF k \in PromsOwn THEN 1 ELSE 0)
  BY <1>1, PlaceIs
<1>4. /\ PromsOwn \subseteq 1 .. n
      /\ \A k \in 1 .. n : k \in PromsOwn <=> all[k][1] # "console"
  BY <1>1 DEF PromsOwn
<1>5. KERN_ENVP \in Nat
  BY EnvpAssumption
<1>. HIDE DEF all
<1>. DEFINE Fit(c, i) == Place(i) <= KERN_ENVP => Place(i) \in 1 .. Len(c) /\ c[Place(i)] = all[i]
            Good(k) == /\ Len(h[k]) = LeastOf(Place(k), KERN_ENVP)
                       /\ \A i \in PromsOwn : i <= k => Fit(h[k], i)
                       /\ \A q \in 1 .. Len(h[k]) : \E i \in PromsOwn : i <= k /\ Place(i) = q
            S == {k \in 0 .. n : Good(k)}
<1>6. Good(0)
  <2>1. h[0] = <<>> /\ Len(<<>>) = 0
    BY <1>2 DEF Copying
  <2>2. \A i \in PromsOwn : ~ (i <= 0)
    BY <1>1, <1>4
  <2>3. LeastOf(0, KERN_ENVP) = 0
    BY <1>5 DEF LeastOf
  <2>. QED BY <1>3, <2>1, <2>2, <2>3
<1>7. ASSUME NEW k \in 1 .. n, Good(k - 1) PROVE Good(k)
  <2>. DEFINE c == h[k - 1]  p == Place(k - 1)
  <2>1. k - 1 \in 0 .. n /\ k \in 0 .. n /\ k \in Nat
    BY <1>1
  <2>2. c \in Seq(Named) /\ all[k] \in Named
    BY <1>1, <1>2, <2>1 DEF Copying
  <2>3. h[k] = IF all[k][1] = "console" \/ Len(c) >= KERN_ENVP THEN c ELSE Append(c, all[k])
    BY <1>2 DEF Copying
  <2>4. /\ Len(c) = LeastOf(p, KERN_ENVP)
        /\ \A i \in PromsOwn : i <= k - 1 => Fit(c, i)
        /\ \A q \in 1 .. Len(c) : \E i \in PromsOwn : i <= k - 1 /\ Place(i) = q
    BY <1>7
  <2>5. /\ \A i \in PromsOwn : i <= k <=> (i <= k - 1 \/ i = k)
        /\ p \in Nat /\ Place(k) = p + (IF k \in PromsOwn THEN 1 ELSE 0)
    BY <1>1, <1>3, <1>4, <2>1
  <2>. HIDE DEF c, p
  <2>6. CASE k \notin PromsOwn
    <3>1. h[k] = c /\ Place(k) = p
      BY <1>4, <2>3, <2>5, <2>6
    <3>. QED BY <2>4, <2>5, <2>6, <3>1
  <2>7. CASE k \in PromsOwn /\ Len(c) >= KERN_ENVP
    <3>1. h[k] = c /\ Place(k) = p + 1
      BY <2>3, <2>5, <2>7
    <3>2. p >= KERN_ENVP /\ Len(c) = KERN_ENVP
      BY <1>5, <2>4, <2>5, <2>7 DEF LeastOf
    <3>3. LeastOf(p + 1, KERN_ENVP) = KERN_ENVP /\ ~ (p + 1 <= KERN_ENVP)
      BY <1>5, <2>5, <3>2 DEF LeastOf
    <3>. QED BY <2>4, <2>5, <3>1, <3>2, <3>3
  <2>8. CASE k \in PromsOwn /\ ~ (Len(c) >= KERN_ENVP)
    <3>1. h[k] = Append(c, all[k]) /\ Place(k) = p + 1
      BY <1>4, <2>3, <2>5, <2>8
    <3>2. Len(c) = p /\ p < KERN_ENVP
      BY <1>5, <2>4, <2>5, <2>8 DEF LeastOf
    <3>3. /\ Len(h[k]) = p + 1 /\ h[k][p + 1] = all[k]
          /\ \A q \in 1 .. p : h[k][q] = c[q]
      BY <2>2, <3>1, <3>2
    <3>4. LeastOf(p + 1, KERN_ENVP) = p + 1 /\ p + 1 \in 1 .. p + 1
      BY <1>5, <2>5, <3>2 DEF LeastOf
    <3>5. ASSUME NEW i \in PromsOwn, i <= k PROVE Fit(h[k], i)
      <4>1. CASE i = k
        BY <3>1, <3>3, <3>4, <4>1
      <4>2. CASE i <= k - 1
        <5>1. Fit(c, i)
          BY <2>4, <4>2
        <5>2. \A q \in 1 .. p : q \in 1 .. p + 1
          BY <2>5
        <5>. QED BY <3>2, <3>3, <5>1, <5>2
      <4>. QED BY <2>5, <3>5, <4>1, <4>2
    <3>6. ASSUME NEW q \in 1 .. p + 1 PROVE \E i \in PromsOwn : i <= k /\ Place(i) = q
      <4>1. CASE q = p + 1
        BY <2>5, <2>8, <3>1, <4>1
      <4>2. CASE q \in 1 .. p
        BY <2>4, <2>5, <3>2, <4>2
      <4>3. q = p + 1 \/ q \in 1 .. p
        BY <2>5
      <4>. QED BY <4>1, <4>2, <4>3
    <3>. HIDE DEF Fit
    <3>. QED BY <3>1, <3>3, <3>4, <3>5, <3>6
  <2>. QED BY <2>6, <2>7, <2>8
<1>8. Good(n)
  <2>1. 0 \in S /\ \A k \in 1 .. n : k - 1 \in S => k \in S
    <3>. HIDE DEF Good
    <3>. QED BY <1>1, <1>6, <1>7
  <2>2. \A k \in 0 .. n : k \in S
    <3>. HIDE DEF S
    <3>. QED BY <1>1, <2>1, CountUp
  <2>. QED BY <1>1, <2>2
<1>9. Copied = h[n] /\ n \in 0 .. n
  BY <1>1, <1>2 DEF Copying
<1>10. \A i \in PromsOwn : i <= n
  BY <1>1, <1>4
<1>. QED BY <1>3, <1>8, <1>9, <1>10 DEF all

(* Q begins with P, and what follows is neither console nor eaddr.         *)
Rest(P, Q, T) ==
  /\ Q \in Seq(T) /\ Len(P) <= Len(Q) /\ \A i \in 1 .. Len(P) : Q[i] = P[i]
  /\ \A i \in Len(P) + 1 .. Len(Q) : Q[i][1] \notin {"console", "eaddr"}

LEMMA RestJoined ==
  ASSUME NEW T, NEW P \in Seq(T), NEW Q, Rest(P, Q, T), NEW t \in Seq(T),
         \A i \in 1 .. Len(t) : t[i][1] \notin {"console", "eaddr"}
  PROVE  Rest(P, Q \o t, T)
<1>. DEFINE J == Q \o t
<1>1. /\ Q \in Seq(T) /\ Len(P) <= Len(Q) /\ \A i \in 1 .. Len(P) : Q[i] = P[i]
      /\ \A i \in Len(P) + 1 .. Len(Q) : Q[i][1] \notin {"console", "eaddr"}
  BY DEF Rest
<1>2. /\ J \in Seq(T) /\ Len(J) = Len(Q) + Len(t)
      /\ Len(P) \in Nat /\ Len(Q) \in Nat /\ Len(t) \in Nat
      /\ \A i \in 1 .. Len(Q) : J[i] = Q[i]
      /\ \A i \in Len(Q) + 1 .. Len(J) : J[i] = t[i - Len(Q)]
  BY <1>1
<1>. HIDE DEF J
<1>3. \A i \in 1 .. Len(P) : J[i] = P[i]
  <2>1. \A i \in 1 .. Len(P) : i \in 1 .. Len(Q)
    BY <1>1, <1>2
  <2>. QED BY <1>1, <1>2, <2>1
<1>4. ASSUME NEW i \in Len(P) + 1 .. Len(J) PROVE J[i][1] \notin {"console", "eaddr"}
  <2>1. CASE i \in Len(P) + 1 .. Len(Q)
    <3>1. i \in 1 .. Len(Q)
      BY <1>2, <2>1
    <3>. QED BY <1>1, <1>2, <2>1, <3>1
  <2>2. CASE i \in Len(Q) + 1 .. Len(J)
    <3>1. i - Len(Q) \in 1 .. Len(t)
      BY <1>2, <2>2
    <3>. QED BY <1>2, <2>2, <3>1
  <2>3. i \in Len(P) + 1 .. Len(Q) \/ i \in Len(Q) + 1 .. Len(J)
    BY <1>1, <1>2
  <2>. QED BY <2>1, <2>2, <2>3
<1>5. Len(P) <= Len(J)
  BY <1>1, <1>2
<1>. QED BY <1>2, <1>3, <1>4, <1>5 DEF Rest, J

Given == Named \cup
  { <<"console", "d">>, <<"eaddr", "mac">>, <<"ConsoleIn", "tty0">>, <<"ConsoleOut", "tty0">>,
    <<"OSLoadPartition", "p">>, <<"root", "dks0d1s0">>, <<"SystemPartition", "v">>,
    <<"OSLoadFilename", "unix">>, <<"showconfig", "1">> }

LEMMA OneGiven ==
  ASSUME NEW x \in Given, NEW t \in {<<>>, <<x>>}, x[1] \notin {"console", "eaddr"}
  PROVE  t \in Seq(Given) /\ \A i \in 1 .. Len(t) : t[i][1] \notin {"console", "eaddr"}
<1>1. CASE t = <<>>
  BY <1>1
<1>2. CASE t = <<x>>
  BY <1>2
<1>. QED BY <1>1, <1>2

LEMMA ForcedIs ==
  ASSUME Copied \in Seq(Named)
  PROVE  Rest(<< <<"console", "d">> >>
              \o (IF Absent("eaddr", Copied) THEN << <<"eaddr", "mac">> >> ELSE <<>>),
              Forced, Given)
<1>. DEFINE if(name, s) == IF \A i \in DOMAIN Copied : Copied[i][1] # name
                           THEN << <<name, s>> >> ELSE <<>>
            P == << <<"console", "d">> >> \o if("eaddr", "mac")
            A == if("ConsoleIn", "tty0")
            B == if("ConsoleOut", "tty0")
            C == << <<"OSLoadPartition", "p">>, <<"root", "dks0d1s0">>,
                    <<"SystemPartition", "v">>, <<"OSLoadFilename", "unix">>,
                    <<"showconfig", "1">> >>
<1>1. Forced = P \o A \o B \o C
  BY DEF Forced
<1>3. P = << <<"console", "d">> >>
          \o (IF Absent("eaddr", Copied) THEN << <<"eaddr", "mac">> >> ELSE <<>>)
  <2>1. DOMAIN Copied = 1 .. Len(Copied)
    OBVIOUS
  <2>. QED BY <2>1 DEF Absent
<1>4. P \in Seq(Given)
  <2>. DEFINE c == <<"console", "d">>  e == <<"eaddr", "mac">>
              t == IF Absent("eaddr", Copied) THEN <<e>> ELSE <<>>
  <2>1. c \in Given /\ e \in Given
    BY DEF Given
  <2>. HIDE DEF c, e
  <2>2. <<c>> \in Seq(Given) /\ <<e>> \in Seq(Given)
    BY <2>1
  <2>3. t \in Seq(Given)
    BY <2>2
  <2>4. P = <<c>> \o t
    BY <1>3 DEF c, e
  <2>. HIDE DEF t
  <2>. QED BY <2>2, <2>3, <2>4
<1>5. A \in Seq(Given) /\ \A i \in 1 .. Len(A) : A[i][1] \notin {"console", "eaddr"}
  <2>. DEFINE x == <<"ConsoleIn", "tty0">>
  <2>1. A \in {<<>>, <<x>>}
    OBVIOUS
  <2>2. x \in Given /\ x[1] \notin {"console", "eaddr"}
    BY DEF Given
  <2>. HIDE DEF A, x
  <2>. QED BY <2>1, <2>2, OneGiven
<1>6. B \in Seq(Given) /\ \A i \in 1 .. Len(B) : B[i][1] \notin {"console", "eaddr"}
  <2>. DEFINE x == <<"ConsoleOut", "tty0">>
  <2>1. B \in {<<>>, <<x>>}
    OBVIOUS
  <2>2. x \in Given /\ x[1] \notin {"console", "eaddr"}
    BY DEF Given
  <2>. HIDE DEF B, x
  <2>. QED BY <2>1, <2>2, OneGiven
<1>7. C \in Seq(Given) /\ \A i \in 1 .. Len(C) : C[i][1] \notin {"console", "eaddr"}
  <2>1. C \in Seq(Given)
    BY DEF Given
  <2>2. /\ Len(C) = 5 /\ C[1][1] = "OSLoadPartition" /\ C[2][1] = "root"
        /\ C[3][1] = "SystemPartition" /\ C[4][1] = "OSLoadFilename"
        /\ C[5][1] = "showconfig"
    OBVIOUS
  <2>. HIDE DEF C
  <2>3. ASSUME NEW i \in 1 .. Len(C) PROVE C[i][1] \notin {"console", "eaddr"}
    <3>1. i \in {1, 2, 3, 4, 5}
      BY <2>2
    <3>. QED BY <2>2, <3>1
  <2>. QED BY <2>1, <2>3
<1>. HIDE DEF P, A, B, C
<1>8. Rest(P, P, Given)
  BY <1>4 DEF Rest
<1>9. Rest(P, P \o A, Given)
  BY <1>4, <1>5, <1>8, RestJoined
<1>10. Rest(P, (P \o A) \o B, Given)
  BY <1>4, <1>6, <1>9, RestJoined
<1>11. Rest(P, ((P \o A) \o B) \o C, Given)
  BY <1>4, <1>7, <1>10, RestJoined
<1>. QED BY <1>1, <1>3, <1>11

(* What the kernel is handed when nothing is cut off: behind the copied    *)
(* strings the one console= string, and one eaddr= string, behind that one *)
(* or among the copied.                                                    *)
LEMMA HandedOver ==
  ASSUME Tidy(environ)
  PROVE  LET all == Copied \o Forced
             L == Len(Copied) IN
         /\ all \in Seq(Given) /\ L \in Nat
         /\ \A i \in 1 .. L : i \in 1 .. Len(all) /\ all[i] = Copied[i]
         /\ /\ L + 1 \in 1 .. Len(all) /\ all[L + 1] = <<"console", "d">>
            /\ \A i \in 1 .. Len(all) : all[i][1] = "console" <=> i = L + 1
         /\ \E e \in 1 .. Len(all) :
              /\ \A i \in 1 .. Len(all) : all[i][1] = "eaddr" <=> i = e
              /\ IF Absent("eaddr", Copied) THEN e = L + 2 ELSE e <= L
<1>. DEFINE P == << <<"console", "d">> >>
                 \o (IF Absent("eaddr", Copied) THEN << <<"eaddr", "mac">> >> ELSE <<>>)
            Q == Forced
            L == Len(Copied)
            all == Copied \o Forced
<1>1. Copied \in Seq(Named) /\ Unique(Copied) /\ Absent("console", Copied)
  BY CopiedSound
<1>2. /\ Q \in Seq(Given) /\ Len(P) <= Len(Q) /\ \A i \in 1 .. Len(P) : Q[i] = P[i]
      /\ \A i \in Len(P) + 1 .. Len(Q) : Q[i][1] \notin {"console", "eaddr"}
  BY <1>1, ForcedIs DEF Rest
<1>3. /\ P[1] = <<"console", "d">> /\ Len(P) \in {1, 2}
      /\ Absent("eaddr", Copied) => Len(P) = 2 /\ P[2] = <<"eaddr", "mac">>
      /\ ~Absent("eaddr", Copied) => Len(P) = 1
  OBVIOUS
<1>4. Copied \in Seq(Given)
  <2>1. Named \subseteq Given
    BY DEF Given
  <2>2. \A i \in 1 .. L : Copied[i] \in Given
    BY <1>1, <2>1
  <2>. QED BY <1>1, <2>2
<1>. HIDE DEF P, Q
<1>5. /\ all \in Seq(Given) /\ L \in Nat /\ Len(Q) \in Nat /\ Len(all) = L + Len(Q)
      /\ \A i \in 1 .. L : all[i] = Copied[i]
      /\ \A i \in 1 .. Len(Q) : all[L + i] = Q[i]
  BY <1>2, <1>4 DEF Q
<1>. HIDE DEF L, all
<1>6. \A i \in 1 .. L : all[i][1] # "console"
  BY <1>1, <1>5 DEF Absent, L
<1>7. ASSUME NEW i \in 1 .. Len(all), i \notin 1 .. L
      PROVE  \E k \in 1 .. Len(Q) : i = L + k /\ all[i] = Q[k]
  <2>. DEFINE k == i - L
  <2>1. k \in 1 .. Len(Q) /\ i = L + k
    BY <1>5, <1>7
  <2>. HIDE DEF k
  <2>. QED BY <1>5, <2>1
<1>8. /\ <<"console", "d">>[1] = "console" /\ <<"eaddr", "mac">>[1] = "eaddr"
  OBVIOUS
<1>9. Q[1] = <<"console", "d">> /\ \A k \in 2 .. Len(Q) : Q[k][1] # "console"
  <2>1. 1 \in 1 .. Len(P)
    BY <1>3
  <2>2. ASSUME NEW k \in 2 .. Len(Q) PROVE Q[k][1] # "console"
    <3>1. CASE k \in Len(P) + 1 .. Len(Q)
      BY <1>2, <3>1
    <3>2. CASE k \notin Len(P) + 1 .. Len(Q)
      <4>1. k = 2 /\ Len(P) = 2
        <5>1. Len(Q) \in Nat /\ (Len(P) = 1 \/ Len(P) = 2)
          BY <1>3, <1>5
        <5>2. CASE Len(P) = 1
          BY <3>2, <5>1, <5>2
        <5>3. CASE Len(P) = 2
          BY <3>2, <5>1, <5>3
        <5>. QED BY <5>1, <5>2, <5>3
      <4>2. Q[2] = <<"eaddr", "mac">>
        BY <1>2, <1>3, <4>1
      <4>. QED BY <1>8, <4>1, <4>2
    <3>. QED BY <3>1, <3>2
  <2>. QED BY <1>2, <1>3, <2>1, <2>2
<1>10. /\ L + 1 \in 1 .. Len(all) /\ all[L + 1] = <<"console", "d">>
       /\ \A i \in 1 .. Len(all) : all[i][1] = "console" <=> i = L + 1
  <2>1. L + 1 \in 1 .. Len(all) /\ all[L + 1] = <<"console", "d">>
    BY <1>2, <1>3, <1>5, <1>9
  <2>2. ASSUME NEW i \in 1 .. Len(all), i # L + 1 PROVE all[i][1] # "console"
    <3>1. CASE i \in 1 .. L
      BY <1>6, <3>1
    <3>2. CASE i \notin 1 .. L
      <4>1. PICK k \in 1 .. Len(Q) : i = L + k /\ all[i] = Q[k]
        BY <1>7, <3>2
      <4>2. k \in 2 .. Len(Q)
        BY <1>5, <2>2, <4>1
      <4>. QED BY <1>9, <4>1, <4>2
    <3>. QED BY <3>1, <3>2
  <2>. QED BY <1>8, <2>1, <2>2
<1>11. \E e \in 1 .. Len(all) :
         /\ \A i \in 1 .. Len(all) : all[i][1] = "eaddr" <=> i = e
         /\ IF Absent("eaddr", Copied) THEN e = L + 2 ELSE e <= L
  <2>1. CASE Absent("eaddr", Copied)
    <3>0. Len(P) = 2 /\ P[2] = <<"eaddr", "mac">>
      BY <1>3, <2>1
    <3>1. Len(P) = 2 /\ Q[2] = <<"eaddr", "mac">> /\ 2 \in 1 .. Len(Q)
      <4>1. 2 \in 1 .. Len(P) /\ 2 \in 1 .. Len(Q)
        BY <1>2, <1>5, <3>0
      <4>. QED BY <1>2, <3>0, <4>1
    <3>2. L + 2 \in 1 .. Len(all) /\ all[L + 2][1] = "eaddr"
      BY <1>5, <1>8, <3>1
    <3>3. ASSUME NEW i \in 1 .. Len(all), i # L + 2 PROVE all[i][1] # "eaddr"
      <4>1. CASE i \in 1 .. L
        BY <1>5, <2>1, <4>1 DEF Absent, L
      <4>2. CASE i \notin 1 .. L
        <5>1. PICK k \in 1 .. Len(Q) : i = L + k /\ all[i] = Q[k]
          BY <1>7, <4>2
        <5>2. k = 1 \/ k \in Len(P) + 1 .. Len(Q)
          BY <1>5, <3>1, <3>3, <5>1
        <5>. QED BY <1>2, <1>8, <1>9, <5>1, <5>2
      <4>. QED BY <4>1, <4>2
    <3>. QED BY <2>1, <3>2, <3>3
  <2>2. CASE ~Absent("eaddr", Copied)
    <3>1. PICK e \in 1 .. L : Copied[e][1] = "eaddr"
      BY <2>2 DEF Absent, L
    <3>2. e \in 1 .. Len(all) /\ all[e][1] = "eaddr"
      BY <1>5, <3>1
    <3>3. ASSUME NEW i \in 1 .. Len(all), i # e PROVE all[i][1] # "eaddr"
      <4>1. CASE i \in 1 .. L
        BY <1>1, <1>5, <3>1, <3>3, <4>1 DEF Unique, L
      <4>2. CASE i \notin 1 .. L
        <5>1. PICK k \in 1 .. Len(Q) : i = L + k /\ all[i] = Q[k]
          BY <1>7, <4>2
        <5>0. Len(P) = 1
          BY <1>3, <2>2
        <5>2. k = 1 \/ k \in Len(P) + 1 .. Len(Q)
          BY <1>5, <5>0, <5>1
        <5>. QED BY <1>2, <1>8, <1>9, <5>1, <5>2
      <4>. QED BY <4>1, <4>2
    <3>4. e <= L
      BY <1>5, <3>1
    <3>. QED BY <2>2, <3>2, <3>3, <3>4
  <2>. QED BY <2>1, <2>2
<1>12. \A i \in 1 .. L : i \in 1 .. Len(all) /\ all[i] = Copied[i]
  BY <1>5
<1>. QED BY <1>5, <1>10, <1>11, <1>12 DEF all, L

LEMMA KernEnvpHanded ==
  ASSUME Tidy(environ)
  PROVE  Handed(KernEnvp)
<1>. DEFINE all == Copied \o Forced
            L == Len(Copied)
            N == Cardinality(PromsOwn)
            m == LeastOf(Len(all), KERN_ENVP)
            e == SubSeq(all, 1, m)
            console == {i \in DOMAIN e : e[i][1] = "console"}
            eaddr == {i \in DOMAIN e : e[i][1] = "eaddr"}
<1>1. KernEnvp = e
  BY DEF KernEnvp
<1>2. /\ all \in Seq(Given) /\ L \in Nat
      /\ \A i \in 1 .. L : i \in 1 .. Len(all) /\ all[i] = Copied[i]
      /\ L + 1 \in 1 .. Len(all) /\ all[L + 1] = <<"console", "d">>
      /\ \A i \in 1 .. Len(all) : all[i][1] = "console" <=> i = L + 1
  BY HandedOver
<1>3. PICK a \in 1 .. Len(all) :
        /\ \A i \in 1 .. Len(all) : all[i][1] = "eaddr" <=> i = a
        /\ IF Absent("eaddr", Copied) THEN a = L + 2 ELSE a <= L
  BY HandedOver
<1>4. /\ N \in Nat /\ L = LeastOf(N, KERN_ENVP)
      /\ \A i \in PromsOwn : Place(i) <= KERN_ENVP =>
           Place(i) \in 1 .. L /\ Copied[Place(i)] = Strings(environ)[i]
      /\ \A q \in 1 .. L : \E i \in PromsOwn : Place(i) = q
  BY CopiedInOrder
<1>5. KERN_ENVP \in Nat /\ L <= KERN_ENVP /\ (L < KERN_ENVP => L = N)
      /\ (L < KERN_ENVP <=> N < KERN_ENVP)
  BY <1>4, EnvpAssumption DEF LeastOf
<1>. HIDE DEF all, N
<1>6. Len(all) \in Nat
  BY <1>2
<1>7. m \in Nat /\ m <= Len(all) /\ m <= KERN_ENVP /\ (m = Len(all) \/ m = KERN_ENVP)
  BY <1>5, <1>6 DEF LeastOf
<1>. HIDE DEF m
<1>8. DOMAIN e = 1 .. m /\ Len(e) = m /\ \A i \in 1 .. m : i \in 1 .. Len(all) /\ e[i] = all[i]
  BY <1>2, <1>6, <1>7
<1>. HIDE DEF e
<1>9. HasOwn("eaddr") <=> ~Absent("eaddr", Copied)
  <2>1. ASSUME HasOwn("eaddr") PROVE ~Absent("eaddr", Copied)
    <3>1. PICK i \in PromsOwn : Strings(environ)[i][1] = "eaddr" /\ Place(i) <= KERN_ENVP
      BY <2>1 DEF HasOwn
    <3>2. Place(i) \in 1 .. L /\ Copied[Place(i)][1] = "eaddr"
      BY <1>4, <3>1
    <3>. QED BY <3>2 DEF Absent
  <2>2. ASSUME ~Absent("eaddr", Copied) PROVE HasOwn("eaddr")
    <3>1. PICK q \in 1 .. L : Copied[q][1] = "eaddr"
      BY <2>2 DEF Absent
    <3>2. PICK i \in PromsOwn : Place(i) = q
      BY <1>4
    <3>3. Place(i) <= KERN_ENVP
      BY <1>2, <1>5, <3>2
    <3>4. Strings(environ)[i][1] = "eaddr"
      BY <1>4, <3>1, <3>2, <3>3
    <3>. QED BY <3>3, <3>4 DEF HasOwn
  <2>. QED BY <2>1, <2>2
<1>. HIDE DEF L
<1>10. L <= m /\ (L + 1 <= m <=> L + 1 <= KERN_ENVP)
  BY <1>2, <1>5, <1>6, <1>7
<1>11. ASSUME NEW i \in PromsOwn, Place(i) <= KERN_ENVP
       PROVE  Place(i) \in DOMAIN e /\ e[Place(i)] = Strings(environ)[i]
  <2>1. Place(i) \in 1 .. L /\ Copied[Place(i)] = Strings(environ)[i]
    BY <1>4, <1>11
  <2>2. Place(i) \in 1 .. m
    BY <1>2, <1>7, <1>10, <2>1
  <2>. QED BY <1>2, <1>8, <2>1, <2>2
<1>12. console = 1 .. m \cap {L + 1} /\ eaddr = 1 .. m \cap {a}
  BY <1>2, <1>3, <1>8
<1>13. ASSUME NEW x
       PROVE  Cardinality(1 .. m \cap {x}) = IF x \in 1 .. m THEN 1 ELSE 0
  <2>1. CASE x \in 1 .. m
    <3>1. 1 .. m \cap {x} = {x}
      BY <2>1
    <3>2. Cardinality({x}) = 1
      BY FS_Singleton
    <3>. QED BY <2>1, <3>1, <3>2
  <2>2. CASE x \notin 1 .. m
    <3>1. 1 .. m \cap {x} = {}
      BY <2>2
    <3>2. Cardinality({}) = 0
      BY FS_EmptySet
    <3>. QED BY <2>2, <3>1, <3>2
  <2>. QED BY <2>1, <2>2
<1>14. \A i \in console : e[i] = <<"console", "d">>
  <2>1. \A i \in console : i \in 1 .. m /\ i = L + 1
    BY <1>12
  <2>2. \A i \in 1 .. m : e[i] = all[i]
    BY <1>8
  <2>. QED BY <1>2, <2>1, <2>2
<1>15. Room \in Int /\ Room = KERN_ENVP - N
  BY <1>4, <1>5 DEF Room, N
<1>16. Cardinality(console) = IF Room >= 1 THEN 1 ELSE 0
  <2>1. L + 1 \in 1 .. m <=> Room >= 1
    BY <1>2, <1>4, <1>5, <1>7, <1>10, <1>15
  <2>2. Cardinality(console) = IF L + 1 \in 1 .. m THEN 1 ELSE 0
    BY <1>12, <1>13
  <2>. QED BY <2>1, <2>2
<1>17. Cardinality(eaddr) = IF HasOwn("eaddr") \/ Room >= 2 THEN 1 ELSE 0
  <2>1. a \in 1 .. m <=> (HasOwn("eaddr") \/ Room >= 2)
    <3>1. CASE Absent("eaddr", Copied)
      <4>1. a = L + 2 /\ ~HasOwn("eaddr") /\ L + 2 <= Len(all)
        BY <1>3, <1>6, <1>9, <3>1
      <4>2. L + 2 \in 1 .. m <=> L + 2 <= KERN_ENVP
        BY <1>2, <1>5, <1>6, <1>7, <4>1
      <4>3. L + 2 <= KERN_ENVP <=> Room >= 2
        BY <1>2, <1>4, <1>5, <1>15
      <4>. QED BY <4>1, <4>2, <4>3
    <3>2. CASE ~Absent("eaddr", Copied)
      <4>1. a <= L /\ a \in 1 .. Len(all)
        BY <1>3, <3>2
      <4>2. a \in 1 .. m
        BY <1>2, <1>6, <1>7, <1>10, <4>1
      <4>. QED BY <1>9, <3>2, <4>2
    <3>. QED BY <3>1, <3>2
  <2>2. Cardinality(eaddr) = IF a \in 1 .. m THEN 1 ELSE 0
    BY <1>12, <1>13
  <2>. QED BY <2>1, <2>2
<1>18. Handed(e)
  BY <1>7, <1>8, <1>11, <1>14, <1>16, <1>17 DEF Handed
<1>. QED BY <1>1, <1>18

-----------------------------------------------------------------------------
(* The inductive invariant: the environment is in order; the pointers of   *)
(* make_bootfile(), stale or not, are in strbuf; what has been scanned is  *)
(* paths.                                                                  *)

BootOK ==
  /\ sp \in Somewhere /\ osl \in Somewhere
  /\ savesp \in Seq(Chars) /\ saveosl \in Seq(Chars)
  /\ tried \in Seq(Seq(Chars))

IInv ==
  /\ EnvOK(environ, mirror)
  /\ BootOK

LEMMA InitIInv == Init => IInv
<1>1. SUFFICES ASSUME Init PROVE IInv
  OBVIOUS
<1>2. EnvOK(environ, mirror)
  <2>1. WithDefaults(Blank) \in Plain
    BY BlankIs, DefaultsPlain
  <2>2. EnvOK(WithDefaults(Blank), mirror)
    BY <2>1, PlainEnvOK
  <2>. QED BY <1>1, <2>2 DEF Init, InitEnv
<1>. QED BY <1>1, <1>2 DEF Init, IInv, BootOK, Somewhere

LEMMA PromptIInv == IInv /\ ToPrompt => IInv'
BY DEF IInv, ToPrompt, envVars, BootOK, Somewhere

(* make_bootfile() finds a path: where its pointers go, and the setenv.    *)
LEMMA BootfileIs ==
  ASSUME IInv, NEW from, NEW to, MakeBootfile(from, to)
  PROVE  /\ EnvOK(environ', mirror') /\ BootOK'
         /\ Honoured("kernname", tried'[Len(tried')], 0)
         /\ \A other : other # "kernname" => Get(environ', other) = Get(environ, other)
         /\ sp' >= sp /\ osl' >= osl /\ (sp' # sp \/ osl' # osl)
<1>. DEFINE buf == environ.strbuf
            p == EnvGetVar(buf, sp)
            f == EnvGetVar(buf, osl)
            newsp == OrSaved(p.path, savesp)
            newosl == OrSaved(f.path, saveosl)
            bootfile == newsp \o <<SLASH>> \o newosl
<1>1. /\ EnvOK(environ, mirror) /\ sp \in Somewhere /\ osl \in Somewhere
      /\ savesp \in Seq(Chars) /\ saveosl \in Seq(Chars) /\ tried \in Seq(Seq(Chars))
  BY DEF IInv, BootOK
<1>2. buf \in Buffers /\ buf[STRINGBYTES - 1] = NUL
  BY <1>1 DEF EnvOK, Tidy, Sound, Shape
<1>3. /\ p.path # NoPath \/ f.path # NoPath
      /\ sp' = p.next /\ osl' = f.next /\ savesp' = newsp /\ saveosl' = newosl
      /\ SetEnv("kernname", bootfile, 0) /\ tried' = Append(tried, bootfile)
  BY DEF MakeBootfile, NoPathLeft
<1>. HIDE DEF buf
<1>4. /\ p.next \in Somewhere /\ p.next >= sp
      /\ p.path # NoPath => p.path \in Seq(Chars) /\ p.next > sp
  BY <1>1, <1>2, ScanIs
<1>5. /\ f.next \in Somewhere /\ f.next >= osl
      /\ f.path # NoPath => f.path \in Seq(Chars) /\ f.next > osl
  BY <1>1, <1>2, ScanIs
<1>. HIDE DEF p, f
<1>6. newsp \in Seq(Chars) /\ newosl \in Seq(Chars)
  BY <1>1, <1>4, <1>5 DEF OrSaved
<1>. HIDE DEF newsp, newosl
<1>7. bootfile \in Seq(Chars) /\ bootfile # <<>>
  <2>1. <<SLASH>> \in Seq(Chars) /\ Len(<<SLASH>>) = 1
    BY UserAssumption
  <2>2. newsp \o <<SLASH>> \in Seq(Chars) /\ Len(newsp \o <<SLASH>>) = Len(newsp) + 1
    BY <1>6, <2>1
  <2>3. bootfile \in Seq(Chars) /\ Len(bootfile) = Len(newsp \o <<SLASH>>) + Len(newosl)
    BY <1>6, <2>2
  <2>4. Len(newsp) \in Nat /\ Len(newosl) \in Nat
    BY <1>6
  <2>5. Len(bootfile) > 0
    BY <2>2, <2>3, <2>4
  <2>. QED BY <2>3, <2>5
<1>. HIDE DEF bootfile
<1>8. "kernname" \in Chars
  BY UserAssumption
<1>9. /\ EnvOK(environ', mirror') /\ Honoured("kernname", bootfile, 0)
      /\ \A other : other # "kernname" => Get(environ', other) = Get(environ, other)
  BY <1>1, <1>3, <1>7, <1>8, SetEnvIs
<1>10. tried' \in Seq(Seq(Chars)) /\ tried'[Len(tried')] = bootfile
  BY <1>1, <1>3, <1>7
<1>11. BootOK'
  BY <1>3, <1>4, <1>5, <1>6, <1>10 DEF BootOK
<1>12. sp \in Int /\ osl \in Int
  BY <1>1, NullIs, SizeAssumption DEF Somewhere, Places
<1>13. sp' # sp \/ osl' # osl
  BY <1>3, <1>4, <1>5, <1>12
<1>. QED BY <1>3, <1>4, <1>5, <1>9, <1>10, <1>11, <1>13

LEMMA NextIInv == IInv /\ [Next]_vars => IInv'
<1>1. SUFFICES ASSUME IInv, [Next]_vars PROVE IInv'
  OBVIOUS
<1>2. ASSUME NEW to \in {"next", "boot"}, Start(to) PROVE IInv'
  <2>1. \A n : ValuePtr(n, environ) \in Somewhere
    <3>1. Sound(environ) /\ Unique(Strings(environ))
      BY <1>1 DEF IInv, EnvOK, Tidy
    <3>. QED BY <3>1, GetIs DEF Somewhere
  <2>2. BootOK'
    BY <1>2, <2>1 DEF Start, Rewind, BootOK
  <2>3. EnvOK(environ', mirror') /\ pc' # "run"
    BY <1>1, <1>2 DEF Start, IInv, envVars
  <2>. QED BY <2>2, <2>3 DEF IInv
<1>3. ASSUME NEW from, NEW to \in {"exec", "execonce"}, MakeBootfile(from, to) PROVE IInv'
  <2>1. EnvOK(environ', mirror') /\ BootOK'
    BY <1>1, <1>3, BootfileIs
  <2>2. pc' # "run"
    BY <1>3 DEF MakeBootfile
  <2>. QED BY <2>1, <2>2 DEF IInv
<1>4. CASE ToPrompt
  BY <1>1, <1>4, PromptIInv
<1>5. CASE ExecRuns
  BY <1>1, <1>5 DEF ExecRuns, IInv, BootOK, envVars, bootVars
<1>6. CASE pc = "exec" /\ pc' = "next" /\ UNCHANGED <<envVars, bootVars, envp>>
  BY <1>1, <1>6 DEF IInv, BootOK, envVars, bootVars
<1>7. ASSUME NEW c \in UserSets, NEW value \in {c[2], <<>>}, NEW override,
             SetEnv(c[1], value, override), UNCHANGED <<pc, bootVars, envp>>
      PROVE  IInv'
  <2>1. c[1] \in Chars /\ value \in Seq(Chars)
    <3>1. c[1] \in Chars /\ c[2] \in Seq(Chars)
      BY UserAssumption
    <3>2. <<>> \in Seq(Chars)
      OBVIOUS
    <3>. QED BY <1>7, <3>1, <3>2
  <2>2. EnvOK(environ', mirror')
    BY <1>1, <1>7, <2>1, SetEnvIs DEF IInv
  <2>. QED BY <1>1, <1>7, <2>2 DEF IInv, BootOK, bootVars
<1>8. CASE UserResetEnv
  <2>1. environ \in Lists /\ environ.strbuf[STRINGBYTES - 1] = NUL
    BY <1>1 DEF IInv, EnvOK, Tidy, Sound, Shape
  <2>2. EnvOK(environ', mirror')
    BY <1>8, <2>1, DefaultsPlain, PlainEnvOK DEF UserResetEnv, ResetEnv
  <2>. QED BY <1>1, <1>8, <2>2 DEF UserResetEnv, IInv, BootOK, bootVars
<1>9. CASE UNCHANGED vars
  BY <1>1, <1>9 DEF IInv, BootOK, vars
<1>10. CASE Boot
  BY <1>2, <1>3, <1>4, <1>10
     DEF Boot, StartAuto, BootCommand, NextBootfile, BootFirst, NoBootfileLeft
<1>11. CASE Exec
  BY <1>4, <1>5, <1>6, <1>7, <1>11 DEF Exec, ExecFails, ProgramSetsEnv, ProgramReturns
<1>12. CASE User
  BY <1>7, <1>8, <1>12 DEF User, UserSetEnv, UserUnsetEnv
<1>. QED BY <1>1, <1>9, <1>10, <1>11, <1>12 DEF Next

LEMMA Invariant == Spec => []IInv
BY InitIInv, NextIInv, PTL DEF Spec

-----------------------------------------------------------------------------
(* The order of the boot files: as long as no path variable has moved, the *)
(* scan of either one has as many pieces behind it as boot files were      *)
(* made.                                                                   *)

Scanning(values, p, saved) ==
  \E n \in PathNames :
    Reading(values, p, saved, Len(tried), ValuePtr(n, environ), environ.strbuf)

OrderInv ==
  ~moved =>
    /\ Len(tried) <= Turns /\ \A k \in DOMAIN tried : tried[k] = Expected(k)
    /\ pc \in {"next", "exec", "boot", "execonce"} =>
         Scanning(asked[1], sp, savesp) /\ Scanning(asked[2], osl, saveosl)

LEMMA TurnsIs ==
  LET a == Len(PiecesOf(asked[1]))
      b == Len(PiecesOf(asked[2]))
  IN Turns = IF a > b THEN a ELSE b
BY DEF Turns, PiecesAsked, PiecesOf

LEMMA ExpectedIs ==
  ASSUME NEW k \in Nat, k # 0
  PROVE  Expected(k) = Part(asked[1], k) \o <<SLASH>> \o Part(asked[2], k)
BY DEF Expected, PiecesAsked, Part, PiecesOf

LEMMA InitOrder == Init => OrderInv
<1>1. SUFFICES ASSUME Init PROVE OrderInv
  OBVIOUS
<1>2. asked[1] = {} /\ asked[2] = {} /\ tried = <<>> /\ pc = "idle"
  BY <1>1 DEF Init
<1>3. PiecesAsked(1) = <<>> /\ PiecesAsked(2) = <<>>
  BY <1>2 DEF PiecesAsked
<1>4. Turns = 0
  BY <1>3 DEF Turns
<1>. QED BY <1>2, <1>4 DEF OrderInv

LEMMA PromptOrder == ToPrompt => OrderInv'
<1>1. SUFFICES ASSUME ToPrompt PROVE OrderInv'
  OBVIOUS
<1>2. asked'[1] = {} /\ asked'[2] = {} /\ tried' = <<>> /\ pc' = "idle"
  BY <1>1 DEF ToPrompt
<1>3. PiecesAsked(1)' = <<>> /\ PiecesAsked(2)' = <<>>
  BY <1>2 DEF PiecesAsked
<1>4. Turns' = 0
  BY <1>3 DEF Turns
<1>. QED BY <1>2, <1>4 DEF OrderInv

(* Nothing of the scan or of what it reads changes.                        *)
LEMMA SameOrder ==
  ASSUME OrderInv, UNCHANGED <<environ, bootVars>>,
         pc' \in {"next", "exec", "boot", "execonce"} => pc \in {"next", "exec", "boot", "execonce"}
  PROVE  OrderInv'
BY DEF OrderInv, bootVars, Scanning, Turns, PiecesAsked, Expected

(* Nothing of the scan changes, and make_bootfile() is not at work.        *)
LEMMA IdleOrder ==
  ASSUME OrderInv, UNCHANGED <<pc, bootVars>>,
         pc \notin {"next", "exec", "boot", "execonce"}
  PROVE  OrderInv'
BY DEF OrderInv, bootVars, Turns, PiecesAsked, Expected

LEMMA StartOrder ==
  ASSUME IInv, NEW to, Start(to)
  PROVE  OrderInv'
<1>1. PICK part \in PathNames, file \in PathNames :
        /\ sp' = ValuePtr(part, environ) /\ osl' = ValuePtr(file, environ)
        /\ asked' = <<ValueOf(part), ValueOf(file)>>
        /\ savesp' = <<>> /\ saveosl' = <<>> /\ tried' = <<>>
  BY DEF Start, Rewind, FirstSet, PathNames
<1>2. environ' = environ
  BY DEF Start, envVars
<1>. DEFINE buf == environ.strbuf
<1>3. /\ Reading(asked'[1], sp', savesp', 0, ValuePtr(part, environ), buf)
      /\ Reading(asked'[2], osl', saveosl', 0, ValuePtr(file, environ), buf)
  <2>1. EnvOK(environ, mirror) /\ asked'[1] = ValueOf(part) /\ asked'[2] = ValueOf(file)
    BY <1>1 DEF IInv
  <2>2. /\ Reading(ValueOf(part), ValuePtr(part, environ), <<>>, 0, ValuePtr(part, environ), buf)
        /\ Reading(ValueOf(file), ValuePtr(file, environ), <<>>, 0, ValuePtr(file, environ), buf)
    BY <2>1, StartIs
  <2>. HIDE DEF buf
  <2>. QED BY <1>1, <2>1, <2>2
<1>4. Len(tried') = 0 /\ DOMAIN tried' = {}
  BY <1>1
<1>5. Scanning(asked[1], sp, savesp)' /\ Scanning(asked[2], osl, saveosl)'
  BY <1>2, <1>3, <1>4 DEF Scanning
<1>6. Len(PiecesOf(asked'[1])) \in Nat /\ Len(PiecesOf(asked'[2])) \in Nat
  <2>. HIDE DEF buf
  <2>. QED BY <1>3, TurnIs
<1>7. Turns' = IF Len(PiecesOf(asked'[1])) > Len(PiecesOf(asked'[2]))
               THEN Len(PiecesOf(asked'[1])) ELSE Len(PiecesOf(asked'[2]))
  BY DEF Turns, PiecesAsked, PiecesOf
<1>8. Len(tried') <= Turns'
  BY <1>4, <1>6, <1>7
<1>. QED BY <1>4, <1>5, <1>8 DEF OrderInv

(* A turn of the loop: both scans take a step, and the boot file is the    *)
(* next of the list.                                                       *)
LEMMA BootfileOrder ==
  ASSUME IInv, OrderInv, NEW from \in {"next", "boot"}, NEW to, MakeBootfile(from, to)
  PROVE  OrderInv'
<1>1. SUFFICES ASSUME ~moved' PROVE OrderInv'
  BY DEF OrderInv
<1>. DEFINE buf == environ.strbuf
            p == EnvGetVar(buf, sp)
            f == EnvGetVar(buf, osl)
            newsp == OrSaved(p.path, savesp)
            newosl == OrSaved(f.path, saveosl)
            k == Len(tried)
<1>2. /\ p.path # NoPath \/ f.path # NoPath
      /\ sp' = p.next /\ osl' = f.next /\ savesp' = newsp /\ saveosl' = newosl
      /\ tried' = Append(tried, newsp \o <<SLASH>> \o newosl) /\ asked' = asked
      /\ ~moved /\ \A n \in PathNames : ValuePtr(n, environ') = ValuePtr(n, environ)
      /\ pc = from
  BY <1>1 DEF MakeBootfile, NoPathLeft
<1>3. /\ Len(tried) <= Turns /\ \A j \in DOMAIN tried : tried[j] = Expected(j)
      /\ Scanning(asked[1], sp, savesp) /\ Scanning(asked[2], osl, saveosl)
  BY <1>2 DEF OrderInv
<1>4. k \in Nat /\ tried \in Seq(Seq(Chars)) /\ DOMAIN tried = 1 .. k
  BY DEF IInv, BootOK
<1>5. /\ Sound(environ')
      /\ \A n \in PathNames : Get(environ', n) = Get(environ, n)
  <2>1. EnvOK(environ', mirror') /\ \A n : n # "kernname" => Get(environ', n) = Get(environ, n)
    BY BootfileIs
  <2>2. \A n \in PathNames : n # "kernname"
    BY DEF PathNames
  <2>. QED BY <2>1, <2>2 DEF EnvOK, Tidy
<1>6. PICK part \in PathNames : Reading(asked[1], sp, savesp, k, ValuePtr(part, environ), buf)
  BY <1>3 DEF Scanning
<1>7. PICK file \in PathNames : Reading(asked[2], osl, saveosl, k, ValuePtr(file, environ), buf)
  BY <1>3 DEF Scanning
<1>. DEFINE a == Len(PiecesOf(asked[1]))  b == Len(PiecesOf(asked[2]))
<1>8. /\ a \in Nat /\ (p.path = NoPath <=> k >= a)
      /\ Reading(asked[1], p.next, newsp, k + 1, ValuePtr(part, environ), buf)
  <2>. HIDE DEF buf, k
  <2>. QED BY <1>4, <1>6, TurnIs
<1>9. /\ b \in Nat /\ (f.path = NoPath <=> k >= b)
      /\ Reading(asked[2], f.next, newosl, k + 1, ValuePtr(file, environ), buf)
  <2>. HIDE DEF buf, k
  <2>. QED BY <1>4, <1>7, TurnIs
<1>. HIDE DEF p, f, newsp, newosl
<1>10. k + 1 <= Turns /\ Turns' = Turns
  <2>1. Turns = IF a > b THEN a ELSE b
    BY TurnsIs
  <2>2. Turns' = Turns
    BY <1>2 DEF Turns, PiecesAsked
  <2>. HIDE DEF a, b, k
  <2>. QED BY <1>2, <1>4, <1>8, <1>9, <2>1, <2>2
<1>11. newsp = Part(asked[1], k + 1) /\ newosl = Part(asked[2], k + 1)
  BY <1>8, <1>9 DEF Reading
<1>. DEFINE bootfile == newsp \o <<SLASH>> \o newosl
<1>12. /\ Len(tried') = k + 1 /\ DOMAIN tried' = 1 .. k + 1
       /\ tried'[k + 1] = bootfile /\ \A j \in 1 .. k : tried'[j] = tried[j]
  <2>1. tried' = Append(tried, bootfile)
    BY <1>2
  <2>. HIDE DEF bootfile
  <2>. QED BY <1>4, <2>1
<1>13. ASSUME NEW j \in DOMAIN tried' PROVE tried'[j] = Expected(j)'
  <2>1. Expected(j)' = Expected(j)
    BY <1>2 DEF Expected, PiecesAsked
  <2>2. CASE j \in 1 .. k
    BY <1>3, <1>4, <1>12, <2>1, <2>2
  <2>3. CASE j = k + 1
    <3>1. j \in Nat /\ j # 0
      BY <1>4, <2>3
    <3>2. Expected(j) = bootfile
      BY <1>11, <2>3, <3>1, ExpectedIs
    <3>. QED BY <1>12, <2>1, <2>3, <3>2
  <2>4. j \in 1 .. k \/ j = k + 1
    <3>. HIDE DEF k
    <3>. QED BY <1>4, <1>12
  <2>. QED BY <2>2, <2>3, <2>4
<1>. HIDE DEF bootfile, k
<1>14. Scanning(asked[1], sp, savesp)'
  <2>1. Reading(asked[1], p.next, newsp, k + 1, ValuePtr(part, environ'), environ'.strbuf)
    BY <1>2, <1>5, <1>8, StaysRead DEF buf
  <2>. QED BY <1>2, <1>12, <2>1 DEF Scanning
<1>15. Scanning(asked[2], osl, saveosl)'
  <2>1. Reading(asked[2], f.next, newosl, k + 1, ValuePtr(file, environ'), environ'.strbuf)
    BY <1>2, <1>5, <1>9, StaysRead DEF buf
  <2>. QED BY <1>2, <1>12, <2>1 DEF Scanning
<1>. QED BY <1>10, <1>12, <1>13, <1>14, <1>15 DEF OrderInv

LEMMA NextOrder == IInv /\ OrderInv /\ [Next]_vars => OrderInv'
<1>1. SUFFICES ASSUME IInv, OrderInv, [Next]_vars PROVE OrderInv'
  OBVIOUS
<1>2. ASSUME NEW to, Start(to) PROVE OrderInv'
  BY <1>1, <1>2, StartOrder
<1>3. ASSUME NEW from \in {"next", "boot"}, NEW to, MakeBootfile(from, to) PROVE OrderInv'
  BY <1>1, <1>3, BootfileOrder
<1>4. CASE ToPrompt
  BY <1>4, PromptOrder
<1>5. CASE ExecRuns
  <2>1. UNCHANGED <<environ, bootVars>> /\ pc' = "run"
    BY <1>5 DEF ExecRuns, envVars
  <2>. QED BY <1>1, <2>1, SameOrder
<1>6. CASE pc = "exec" /\ pc' = "next" /\ UNCHANGED <<envVars, bootVars, envp>>
  <2>1. UNCHANGED <<environ, bootVars>> /\ pc = "exec"
    BY <1>6 DEF envVars
  <2>. QED BY <1>1, <2>1, SameOrder
<1>7. ASSUME pc \in {"idle", "run"}, UNCHANGED <<pc, bootVars, envp>> PROVE OrderInv'
  BY <1>1, <1>7, IdleOrder
<1>8. CASE UNCHANGED vars
  <2>1. UNCHANGED <<environ, bootVars>> /\ pc' = pc
    BY <1>8 DEF vars, bootVars
  <2>. QED BY <1>1, <2>1, SameOrder
<1>9. CASE Boot
  BY <1>2, <1>3, <1>4, <1>9
     DEF Boot, StartAuto, BootCommand, NextBootfile, BootFirst, NoBootfileLeft
<1>10. CASE Exec
  BY <1>4, <1>5, <1>6, <1>7, <1>10 DEF Exec, ExecFails, ProgramSetsEnv, ProgramReturns
<1>11. CASE User
  BY <1>7, <1>11 DEF User, UserSetEnv, UserUnsetEnv, UserResetEnv
<1>. QED BY <1>1, <1>8, <1>9, <1>10, <1>11 DEF Next

-----------------------------------------------------------------------------

(* Whatever setenv, unsetenv, resetenv and the boot sequence do to it, the *)
(* string list of env.c is in order: stringlist.c's "INVARIANT:            *)
(* strptrs[strcnt] == NULL", strings that do not overlap and that end      *)
(* below strp, no name twice, a NUL in the last cell.                      *)
THEOREM ListAlwaysOK == Spec => []ListOK
<1>1. IInv => ListOK
  <2>1. SUFFICES ASSUME IInv PROVE ListOK
    OBVIOUS
  <2>. DEFINE ptr == environ.strptrs  n == environ.strcnt  top == environ.strp  buf == environ.strbuf
  <2>2. Sound(environ) /\ Unique(Strings(environ))
    BY <2>1 DEF IInv, EnvOK, Tidy
  <2>3. /\ Shape(ptr, n, top, buf)
        /\ Strings(environ) = [i \in 1 .. n |-> StringAt(buf, ptr[i - 1])]
        /\ Len(Strings(environ)) = n /\ n \in Nat
    BY <2>2, StringsAre DEF Sound
  <2>4. ListOK = /\ n < MAXSTRINGS /\ ptr[n] = NULL
                 /\ \A i \in 0 .. n - 1 : ptr[i] # NULL
                 /\ \A i \in 0 .. n - 1 : StringEnd(buf, ptr[i]) < top
                 /\ \A i, j \in 0 .. n - 1 : i < j =>
                      /\ StringEnd(buf, ptr[i]) < ptr[j]
                      /\ buf[ptr[i]] # buf[ptr[j]]
                 /\ top < STRINGBYTES /\ buf[STRINGBYTES - 1] = NUL
    BY DEF ListOK
  <2>. DEFINE strings == Strings(environ)
  <2>5. Unique(strings) /\ Len(strings) = n /\ strings = [i \in 1 .. n |-> StringAt(buf, ptr[i - 1])]
    BY <2>2, <2>3
  <2>6. Shape(ptr, n, top, buf) /\ n \in Nat
    BY <2>3
  <2>. HIDE DEF ptr, n, top, buf, strings
  <2>7. /\ n < MAXSTRINGS /\ ptr[n] = NULL /\ top < STRINGBYTES /\ buf[STRINGBYTES - 1] = NUL
        /\ buf \in Buffers /\ top \in Nat /\ STRINGBYTES \in Nat
    BY <2>6, SizeAssumption DEF Shape
  <2>8. ASSUME NEW i \in 0 .. n - 1
        PROVE  /\ ptr[i] \in 0 .. top - 1 /\ StringEnd(buf, ptr[i]) \in 0 .. top - 1
               /\ StringAt(buf, ptr[i])[1] = buf[ptr[i]]
               /\ i + 1 \in 1 .. n /\ strings[i + 1] = StringAt(buf, ptr[i])
    <3>1. i + 1 \in 1 .. n /\ (i + 1) - 1 = i
      BY <2>6
    <3>2. strings[i + 1] = StringAt(buf, ptr[i])
      BY <2>5, <3>1
    <3>. QED BY <2>6, <3>1, <3>2, StringOf
  <2>9. \A i \in 0 .. n - 1 : ptr[i] # NULL /\ StringEnd(buf, ptr[i]) < top
    BY <2>7, <2>8, NullIs
  <2>10. ASSUME NEW i \in 0 .. n - 1, NEW j \in 0 .. n - 1, i < j
         PROVE  StringEnd(buf, ptr[i]) < ptr[j] /\ buf[ptr[i]] # buf[ptr[j]]
    <3>1. PICK e \in ptr[i] .. ptr[j] - 1 : buf[e] = NUL
      BY <2>6, <2>10 DEF Shape, EndsBefore
    <3>2. ptr[i] \in Nat /\ ptr[j] \in 0 .. top - 1 /\ e \in ptr[i] .. STRINGBYTES - 1
      BY <2>7, <2>8, <3>1
    <3>3. StringEnd(buf, ptr[i]) \in ptr[i] .. e
      BY <2>7, <3>1, <3>2, EndIs
    <3>4. StringEnd(buf, ptr[i]) < ptr[j]
      BY <3>1, <3>2, <3>3
    <3>5. strings[i + 1][1] = buf[ptr[i]] /\ strings[j + 1][1] = buf[ptr[j]]
      BY <2>8
    <3>6. i + 1 \in 1 .. Len(strings) /\ j + 1 \in 1 .. Len(strings) /\ i + 1 # j + 1
      BY <2>5, <2>8, <2>10
    <3>7. buf[ptr[i]] # buf[ptr[j]]
      BY <2>5, <3>5, <3>6 DEF Unique
    <3>. QED BY <3>4, <3>7
  <2>. QED BY <2>4, <2>7, <2>9, <2>10
<1>. QED BY <1>1, Invariant, PTL

(* setenv gives a variable its value or, only when the other variables     *)
(* fill the list, loses it; it changes no other variable; the C globals    *)
(* stay in step.                                                           *)
THEOREM SetEnvAlwaysHonoured == Spec => SetEnvHonoured
<1>. DEFINE A == /\ pc = pc' => \A c \in UserSets :
                      LET override == IF pc = "run" THEN 0 ELSE c[3]
                      IN SetEnv(c[1], c[2], override) => Honoured(c[1], c[2], override)
                 /\ NextBootfile \/ BootFirst => Honoured("kernname", tried'[Len(tried')], 0)
<1>1. IInv /\ [Next]_vars => [A]_vars
  <2>1. SUFFICES ASSUME IInv PROVE A
    OBVIOUS
  <2>2. ASSUME NEW c \in UserSets, NEW override, SetEnv(c[1], c[2], override)
        PROVE  Honoured(c[1], c[2], override)
    <3>1. c[1] \in Chars /\ c[2] \in Seq(Chars) /\ c[2] # <<>>
      BY UserAssumption
    <3>. QED BY <2>1, <2>2, <3>1, SetEnvIs DEF IInv
  <2>3. ASSUME NextBootfile \/ BootFirst PROVE Honoured("kernname", tried'[Len(tried')], 0)
    BY <2>1, <2>3, BootfileIs DEF NextBootfile, BootFirst
  <2>. QED BY <2>2, <2>3
<1>. QED BY <1>1, Invariant, PTL DEF Spec, SetEnvHonoured

(* Every turn of autoboot()'s loop takes one of the two pointers forward,  *)
(* neither back, and both stay inside strbuf: the loop ends.               *)
THEOREM ScanAlwaysAdvances == Spec => ScanAdvances
<1>1. IInv /\ [Next]_vars =>
        [NextBootfile => /\ sp' >= sp /\ osl' >= osl
                         /\ sp' # sp \/ osl' # osl
                         /\ sp' < STRINGBYTES /\ osl' < STRINGBYTES]_vars
  <2>1. SUFFICES ASSUME IInv, NextBootfile
                 PROVE  /\ sp' >= sp /\ osl' >= osl /\ (sp' # sp \/ osl' # osl)
                        /\ sp' < STRINGBYTES /\ osl' < STRINGBYTES
    OBVIOUS
  <2>2. /\ sp' >= sp /\ osl' >= osl /\ (sp' # sp \/ osl' # osl)
        /\ sp' \in Somewhere /\ osl' \in Somewhere
    BY <2>1, BootfileIs DEF NextBootfile, BootOK
  <2>3. \A q \in Somewhere : q < STRINGBYTES
    BY SizeAssumption DEF Somewhere, Places, NULL
  <2>. QED BY <2>2, <2>3
<1>. QED BY <1>1, Invariant, PTL DEF Spec, ScanAdvances

(* The environment a kernel is entered with, whatever the length of the    *)
(* table and of the list: the PROM's strings that fit, in their order;     *)
(* no console string but the forced one, there exactly if they leave room  *)
(* for one more; and one eaddr exactly if the PROM's own one fits or they  *)
(* leave room for two more.                                                *)
THEOREM KernelEnvAlwaysComplete == Spec => KernelEnvComplete
<1>1. IInv /\ [Next]_vars => [pc # "run" /\ pc' = "run" => Handed(envp')]_vars
  <2>1. SUFFICES ASSUME IInv, Next, pc # "run", pc' = "run" PROVE Handed(envp')
    OBVIOUS
  <2>2. ExecRuns
    <3>1. \/ StartAuto \/ BootCommand \/ NextBootfile \/ BootFirst \/ NoBootfileLeft
          \/ ExecRuns \/ ExecFails \/ ProgramSetsEnv \/ ProgramReturns
          \/ UserSetEnv \/ UserUnsetEnv \/ UserResetEnv
      BY <2>1 DEF Next, Boot, Exec, User
    <3>2. ~ (StartAuto \/ BootCommand \/ NextBootfile \/ BootFirst)
      BY <2>1 DEF StartAuto, BootCommand, Start, NextBootfile, BootFirst, MakeBootfile
    <3>3. ~ (NoBootfileLeft \/ ExecFails \/ ProgramReturns)
      BY <2>1 DEF NoBootfileLeft, ExecFails, ProgramReturns, ToPrompt
    <3>4. ~ (ProgramSetsEnv \/ UserSetEnv \/ UserUnsetEnv \/ UserResetEnv)
      BY <2>1 DEF ProgramSetsEnv, UserSetEnv, UserUnsetEnv, UserResetEnv
    <3>. QED BY <3>1, <3>2, <3>3, <3>4
  <2>3. Handed(KernEnvp)
    BY <2>1, KernEnvpHanded DEF IInv, EnvOK
  <2>. QED BY <2>2, <2>3 DEF ExecRuns
<1>. QED BY <1>1, Invariant, PTL DEF Spec, KernelEnvComplete

(* make_bootfile() yields the boot files of the two variables in their     *)
(* order, the last piece of a variable that has run out again, and stops   *)
(* after the longer one - as long as neither has moved in strbuf.          *)
THEOREM BootfilesAlwaysInOrder == Spec => []BootfilesInOrder
<1>1. IInv /\ OrderInv => BootfilesInOrder
  <2>1. SUFFICES ASSUME IInv, OrderInv, ~moved PROVE AsListed
    BY DEF BootfilesInOrder
  <2>2. ASSUME pc = "next", NoPathLeft PROVE Len(tried) = Turns
    <3>. DEFINE k == Len(tried)
                a == Len(PiecesOf(asked[1]))
                b == Len(PiecesOf(asked[2]))
    <3>1. PICK part \in PathNames :
            Reading(asked[1], sp, savesp, k, ValuePtr(part, environ), environ.strbuf)
      BY <2>1, <2>2 DEF OrderInv, Scanning
    <3>2. PICK file \in PathNames :
            Reading(asked[2], osl, saveosl, k, ValuePtr(file, environ), environ.strbuf)
      BY <2>1, <2>2 DEF OrderInv, Scanning
    <3>3. k \in Nat /\ k <= Turns
      BY <2>1 DEF IInv, BootOK, OrderInv
    <3>4. Turns = IF a > b THEN a ELSE b
      BY TurnsIs
    <3>. HIDE DEF k
    <3>5. a \in Nat /\ k >= a
      BY <2>2, <3>1, <3>3, TurnIs DEF NoPathLeft
    <3>6. b \in Nat /\ k >= b
      BY <2>2, <3>2, <3>3, TurnIs DEF NoPathLeft
    <3>. HIDE DEF a, b
    <3>7. k = Turns
      BY <3>3, <3>4, <3>5, <3>6
    <3>. QED BY <3>7 DEF k
  <2>. QED BY <2>1, <2>2 DEF OrderInv, AsListed
<1>2. Spec => []OrderInv
  BY InitOrder, NextOrder, Invariant, PTL DEF Spec
<1>. QED BY <1>1, <1>2, Invariant, PTL
===============================================================================
