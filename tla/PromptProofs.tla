----------------------------- MODULE PromptProofs ------------------------------
(***************************************************************************)
(* Proofs about the prompt, for lines, rings and environments of any size  *)
(* and whatever is typed: the buffers stay within their bounds, the ring   *)
(* keeps what is entered, the command parser gets it and a command gets    *)
(* its words.                                                              *)
(*                                                                         *)
(* First what expand() makes of a line that ends before its last two       *)
(* cells, then Sound, which every key keeps, and the theorems about lines. *)
(* Then the words of a text: where quotation marks are open, what          *)
(* get_word() reads from the start of a word, how many words are in front  *)
(* of a position, what a string list holds, and the loop of _argvize().    *)
(***************************************************************************)
EXTENDS PromptProps, WellFoundedInduction, SequenceTheorems, FiniteSetTheorems, TLAPS

(* A set of natural numbers that is not empty has a least one.             *)
LEMMA LeastNatural ==
  ASSUME NEW S, S \subseteq Nat, S # {}
  PROVE  \E i \in S : \A j \in S : i <= j
<1>. DEFINE Less == OpToRel(<, Nat)
<1>1. IsWellFoundedOn(Less, Nat)
  BY NatLessThanWellFounded
<1>2. PICK i \in S : \A j \in S : ~(<<j, i>> \in Less)
  <2>. HIDE DEF Less
  <2>. QED BY <1>1, WFMin
<1>3. \A j \in S : ~(j < i)
  BY <1>2 DEF OpToRel
<1>. QED BY <1>3

(* What holds of 0 and passes from each number to the next holds up to n.  *)
LEMMA CountUp ==
  ASSUME NEW n \in Nat, NEW S, 0 \in S, \A k \in 1 .. n : k - 1 \in S => k \in S
  PROVE  \A k \in 0 .. n : k \in S
<1>1. SUFFICES ASSUME NEW k \in 0 .. n, k \notin S PROVE FALSE
  OBVIOUS
<1>. DEFINE Missing == {m \in 0 .. n : m \notin S}
<1>2. PICK m \in Missing : \A j \in Missing : m <= j
  <2>1. Missing \subseteq Nat /\ Missing # {}
    BY <1>1
  <2>. QED BY <2>1, LeastNatural
<1>3. m \in 1 .. n /\ m - 1 \in 0 .. n /\ ~(m <= m - 1)
  OBVIOUS
<1>4. m - 1 \in S
  BY <1>2, <1>3
<1>. QED BY <1>3, <1>4

(* A function on 0 .. n given by its first value and by what each turn     *)
(* makes of the value before.                                              *)
Computes(h, n, V, b, turn) ==
  /\ h \in [0 .. n -> V] /\ h[0] = b
  /\ \A k \in 1 .. n : h[k] = turn[k][h[k - 1]]

LEMMA RecursionExists ==
  ASSUME NEW n \in Nat, NEW V, NEW b \in V, NEW turn \in [1 .. n -> [V -> V]]
  PROVE  \E h : Computes(h, n, V, b, turn)
<1>. DEFINE Upto(m, h) == h[0] = b /\ \A k \in 1 .. m : h[k] = turn[k][h[k - 1]]
            S == {m \in 0 .. n : \E h \in [0 .. m -> V] : Upto(m, h)}
<1>1. 0 \in S
  <2>1. Upto(0, [k \in 0 .. 0 |-> b]) /\ [k \in 0 .. 0 |-> b] \in [0 .. 0 -> V]
    OBVIOUS
  <2>. HIDE DEF Upto
  <2>. QED BY <2>1
<1>2. ASSUME NEW m \in 1 .. n, m - 1 \in S PROVE m \in S
  <2>1. PICK h \in [0 .. m - 1 -> V] : Upto(m - 1, h)
    BY <1>2
  <2>. DEFINE g == [k \in 0 .. m |-> IF k = m THEN turn[m][h[m - 1]] ELSE h[k]]
  <2>2. h[m - 1] \in V /\ turn[m] \in [V -> V]
    OBVIOUS
  <2>3. g \in [0 .. m -> V]
    <3>1. ASSUME NEW k \in 0 .. m PROVE g[k] \in V
      BY <2>2
    <3>. QED BY <3>1
  <2>4. Upto(m, g)
    <3>1. g[0] = b
      BY <2>1
    <3>2. ASSUME NEW k \in 1 .. m PROVE g[k] = turn[k][g[k - 1]]
      <4>1. k - 1 \in 0 .. m /\ k - 1 # m /\ g[k - 1] = h[k - 1]
        OBVIOUS
      <4>2. CASE k = m
        BY <4>1, <4>2
      <4>3. CASE k # m
        <5>1. k \in 1 .. m - 1 /\ g[k] = h[k]
          BY <4>3
        <5>2. h[k] = turn[k][h[k - 1]]
          BY <2>1, <5>1
        <5>. QED BY <4>1, <5>1, <5>2
      <4>. QED BY <4>2, <4>3
    <3>. QED BY <3>1, <3>2
  <2>. HIDE DEF Upto
  <2>. QED BY <2>3, <2>4
<1>. HIDE DEF S
<1>3. \A m \in 1 .. n : m - 1 \in S => m \in S
  BY <1>2
<1>4. \A m \in 0 .. n : m \in S
  BY <1>1, <1>3, CountUp
<1>5. n \in S
  BY <1>4
<1>. QED BY <1>5 DEF S, Computes

-----------------------------------------------------------------------------
(* What a cell of a line can hold, and what the functions of expand()      *)
(* answer: an offset they came to lies in the line.                        *)
AnyChar == Characters \cup {NUL}
Results == [ok : BOOLEAN, text : Seq(AnyChar), cp : Cells]

(* What is assumed of the sizes.                                           *)
LEMMA Sizes ==
  /\ LINESIZE \in Nat /\ LINESIZE > 3 /\ EDIT_HISTORY \in Nat /\ EDIT_HISTORY > 2
  /\ MAXSTRINGS \in Nat \ {0} /\ STRINGBYTES \in Nat /\ STRINGBYTES >= LINESIZE
  /\ Cells = 0 .. LINESIZE - 1
BY LineAssumption, PromptAssumption DEF Cells

LEMMA MarksAre == /\ NUL \in AnyChar /\ NUL # "$" /\ NUL # "\"" /\ NUL # "'" /\ NUL # "\\" /\ NUL # "}"
               /\ NUL # "{" /\ NUL \notin AlNum
BY DEF NUL, AnyChar, AlNum

(* The least element of a set of numbers.                                  *)
LEMMA LeastOf ==
  ASSUME NEW S, S \subseteq Nat, S # {}
  PROVE  Least(S) \in S /\ \A j \in S : Least(S) <= j
BY LeastNatural DEF Least

LEMMA LeastWhere ==
  ASSUME NEW S, S \subseteq Nat, NEW x \in S
  PROVE  Least(S) \in S /\ Least(S) <= x /\ \A j \in S : Least(S) <= j
BY LeastOf

(* A line ends before its last two cells, which hold NUL.                  *)
Line(m) == m \in [Cells -> AnyChar] /\ m[LINESIZE - 2] = NUL /\ m[LINESIZE - 1] = NUL

LEMMA MemOf ==
  ASSUME NEW m, Line(m), NEW i \in Int
  PROVE  /\ Mem(m, i) \in AnyChar
         /\ i >= LINESIZE - 2 => Mem(m, i) = NUL
         /\ i \in Cells => Mem(m, i) = m[i]
BY Sizes DEF Mem, Line, AnyChar

(* A C string has no NUL in it.                                            *)
LEMMA CStringOf ==
  ASSUME NEW text \in Seq(AnyChar)
  PROVE  /\ CString(text) \in Seq(AnyChar) /\ Len(CString(text)) <= Len(text)
         /\ \A i \in 1 .. Len(CString(text)) : CString(text)[i] # NUL /\ CString(text)[i] = text[i]
<1>. DEFINE S == {i \in 0 .. Len(text) : i < Len(text) => text[i + 1] = NUL}
            n == Least(S)
<1>1. Len(text) \in S /\ S \subseteq Nat
  OBVIOUS
<1>2. n \in S /\ \A j \in S : n <= j
  BY <1>1, LeastWhere
<1>3. n \in 0 .. Len(text)
  BY <1>2
<1>4. CString(text) = SubSeq(text, 1, n)
  BY DEF CString
<1>5. /\ SubSeq(text, 1, n) \in Seq(AnyChar) /\ Len(SubSeq(text, 1, n)) = n
      /\ \A i \in 1 .. n : SubSeq(text, 1, n)[i] = text[i]
  <2>. HIDE DEF n
  <2>1. n = 0 \/ n > 0 
    BY <1>3
  <2>. QED BY <1>3, <2>1
<1>6. ASSUME NEW i \in 1 .. n PROVE text[i] # NUL
  <2>1. i - 1 \in 0 .. Len(text) /\ i - 1 < n
    BY <1>3
  <2>2. i - 1 \notin S
    BY <2>1, <1>2, <1>3
  <2>3. i - 1 + 1 = i
    OBVIOUS
  <2>. QED BY <2>1, <2>2, <2>3
<1>. HIDE DEF S, n
<1>. QED BY <1>3, <1>4, <1>5, <1>6

(* What is put into a buffer leaves text in it.                            *)
LEMMA PutOf ==
  ASSUME NEW buf \in Seq(AnyChar), NEW text \in Seq(AnyChar)
  PROVE  Put(buf, text) \in Seq(AnyChar)
<1>. DEFINE room == LINESIZE - 1 - Len(buf)
            S == {Len(text), IF room > 0 THEN room ELSE 0}
            fits == Least(S)
<1>1. S \subseteq Nat /\ Len(text) \in S
  BY Sizes
<1>2. fits \in S /\ fits <= Len(text)
  BY <1>1, LeastWhere
<1>3. fits \in 0 .. Len(text)
  BY <1>1, <1>2
<1>4. Put(buf, text) = buf \o SubSeq(text, 1, fits)
  BY DEF Put
<1>. HIDE DEF fits
<1>5. SubSeq(text, 1, fits) \in Seq(AnyChar)
  BY <1>3
<1>. QED BY <1>4, <1>5

LEMMA ParsedOf ==
  ASSUME NEW text \in Seq(AnyChar), NEW cp \in Cells
  PROVE  /\ Parsed(text, cp) \in Results /\ Parsed(text, cp).ok /\ Parsed(text, cp).text = text
         /\ Parsed(text, cp).cp = cp
         /\ ParseError(cp) \in Results /\ ~ParseError(cp).ok /\ ParseError(cp).cp = cp
BY DEF Parsed, ParseError, Results

LEMMA ResultOf ==
  ASSUME NEW r \in Results
  PROVE  r.ok \in BOOLEAN /\ r.text \in Seq(AnyChar) /\ r.cp \in Cells
         /\ r.cp \in Nat /\ r.cp \in Int
<1>1. r.ok \in BOOLEAN /\ r.text \in Seq(AnyChar) /\ r.cp \in Cells
  BY DEF Results
<1>. QED BY <1>1, Sizes

(* The recursive function in GetQuote exists.                              *)
ComesTo(h, m, cp) ==
  h = [k \in 0 .. LINESIZE |-> k = 0 \/ ~(h[k - 1] /\ Mem(m, cp + k - 1) = "\\")]

LEMMA ComesToExists ==
  ASSUME NEW m, NEW cp
  PROVE  \E h \in [0 .. LINESIZE -> BOOLEAN] : ComesTo(h, m, cp)
<1>. DEFINE step == [k \in 1 .. LINESIZE |-> [b \in BOOLEAN |-> ~(b /\ Mem(m, cp + k - 1) = "\\")]]
<1>1. step \in [1 .. LINESIZE -> [BOOLEAN -> BOOLEAN]]
  OBVIOUS
<1>2. PICK h : Computes(h, LINESIZE, BOOLEAN, TRUE, step)
  <2>. HIDE DEF step
  <2>. QED BY <1>1, Sizes, RecursionExists
<1>3. h \in [0 .. LINESIZE -> BOOLEAN] /\ h[0] = TRUE
  BY <1>2 DEF Computes
<1>4. ASSUME NEW k \in 0 .. LINESIZE
      PROVE  h[k] = (k = 0 \/ ~(h[k - 1] /\ Mem(m, cp + k - 1) = "\\"))
  <2>1. CASE k = 0
    BY <1>3, <2>1
  <2>2. CASE k # 0
    <3>1. k \in 1 .. LINESIZE /\ k - 1 \in 0 .. LINESIZE
      BY <2>2, Sizes
    <3>2. h[k] = step[k][h[k - 1]]
      BY <1>2, <3>1 DEF Computes
    <3>3. h[k - 1] \in BOOLEAN
      BY <1>3, <3>1
    <3>4. step[k][h[k - 1]] = ~(h[k - 1] /\ Mem(m, cp + k - 1) = "\\")
      BY <3>1, <3>3
    <3>. QED BY <2>2, <3>2, <3>4
  <2>. QED BY <2>1, <2>2
<1>. QED
  <2>. HIDE DEF step
  <2>1. h = [k \in 0 .. LINESIZE |-> k = 0 \/ ~(h[k - 1] /\ Mem(m, cp + k - 1) = "\\")]
    BY <1>3, <1>4
  <2>. QED BY <1>3, <2>1 DEF ComesTo

(* get_quote() stops in the line: of the last two cells the loop comes to  *)
(* at least one, since only a backslash keeps it from the second.          *)
LEMMA QuoteOf ==
  ASSUME NEW m, Line(m), NEW cp \in Cells, Mem(m, cp) # NUL, NEW q, q # NUL
  PROVE  /\ GetQuote(m, cp, q) \in Results
         /\ GetQuote(m, cp, q).ok => GetQuote(m, cp, q).cp > cp + 1
<1>. DEFINE F(h) == [k \in 0 .. LINESIZE |-> k = 0 \/ ~(h[k - 1] /\ Mem(m, cp + k - 1) = "\\")]
            comes == CHOOSE h : h = F(h)
            S == {k \in 1 .. LINESIZE : comes[k] /\ Mem(m, cp + k) \in {q, NUL}}
            end == Least(S)
            text == [i \in 1 .. end - 1 |-> Mem(m, cp + i)]
<1>1. comes = F(comes)
  <2>1. \E h : h = F(h)
    BY ComesToExists DEF ComesTo
  <2>. HIDE DEF F
  <2>. QED BY <2>1
<1>2. /\ cp \in 0 .. LINESIZE - 3 /\ Mem(m, LINESIZE - 2) = NUL /\ Mem(m, LINESIZE - 1) = NUL
  BY Sizes, MemOf
<1>3. \E k \in S : cp + k \in Cells
  <2>. DEFINE a == LINESIZE - 2 - cp
              b == LINESIZE - 1 - cp
  <2>1. /\ a \in 1 .. LINESIZE /\ b \in 1 .. LINESIZE /\ b - 1 = a
        /\ cp + a = LINESIZE - 2 /\ cp + b = LINESIZE - 1
    BY <1>2, Sizes
  <2>2. Mem(m, cp + a) \in {q, NUL} /\ Mem(m, cp + b) \in {q, NUL} /\ cp + a \in Cells /\ cp + b \in Cells
    BY <2>1, <1>2, Sizes
  <2>3. comes[b] = (b = 0 \/ ~(comes[b - 1] /\ Mem(m, cp + b - 1) = "\\"))
    <3>1. b \in 0 .. LINESIZE
      BY <2>1
    <3>. HIDE DEF b, comes
    <3>. QED BY <3>1, <1>1
  <2>. HIDE DEF a, b, comes
  <2>4. comes[a] \/ comes[b]
    BY <2>1, <2>3
  <2>. QED BY <2>1, <2>2, <2>4
<1>4. end \in S /\ cp + end \in Cells
  <2>1. PICK k \in S : cp + k \in Cells
    BY <1>3
  <2>2. S \subseteq Nat
    <3>. HIDE DEF comes
    <3>. QED BY Sizes
  <2>. HIDE DEF S
  <2>3. end \in S /\ end <= k
    BY <2>1, <2>2, LeastWhere
  <2>4. end \in Nat /\ k \in Nat
    BY <2>1, <2>2, <2>3
  <2>. QED BY <2>1, <2>3, <2>4, Sizes
<1>5. end \in 1 .. LINESIZE /\ Mem(m, cp + end) \in {q, NUL}
  BY <1>4
<1>6. GetQuote(m, cp, q) = IF Mem(m, cp + end) = q THEN Parsed(text, cp + end + 1) ELSE ParseError(cp + end)
  BY DEF GetQuote
<1>. HIDE DEF end, comes, S
<1>7. text \in Seq(AnyChar)
  <2>1. \A i \in 1 .. end - 1 : Mem(m, cp + i) \in AnyChar
    BY <1>5, MemOf, Sizes
  <2>2. end - 1 \in Nat
    BY <1>5
  <2>. QED BY <2>1, <2>2
<1>. HIDE DEF text
<1>8. CASE Mem(m, cp + end) = q
  <2>1. cp + end + 1 \in Cells /\ cp + end + 1 > cp + 1
    BY <1>4, <1>5, <1>8, MemOf, Sizes
  <2>2. GetQuote(m, cp, q) = Parsed(text, cp + end + 1)
    BY <1>6, <1>8
  <2>. QED BY <2>1, <2>2, <1>7, ParsedOf
<1>9. CASE Mem(m, cp + end) # q
  <2>1. GetQuote(m, cp, q) = ParseError(cp + end)
    BY <1>6, <1>9
  <2>. QED BY <2>1, <1>4, <1>7, ParsedOf
<1>. QED BY <1>8, <1>9

(* get_var() stops in the line.                                            *)
LEMMA VarOf ==
  ASSUME NEW m, Line(m), NEW cp \in Cells, Mem(m, cp) # NUL
  PROVE  /\ GetVar(m, cp) \in Results
         /\ GetVar(m, cp).ok => GetVar(m, cp).cp > cp
<1>1. cp \in 0 .. LINESIZE - 3 /\ cp + 1 \in Cells /\ Mem(m, LINESIZE - 2) = NUL
  BY Sizes, MemOf
<1>2. CASE Mem(m, cp + 1) = "{"
  <2>. DEFINE r == GetQuote(m, cp + 1, "}")
  <2>1. Mem(m, cp + 1) # NUL /\ "}" # NUL
    BY <1>2, MarksAre
  <2>2. r \in Results /\ (r.ok => r.cp > (cp + 1) + 1)
    BY <1>1, <2>1, QuoteOf, Zenon
  <2>3. GetVar(m, cp) = r
    BY <1>2 DEF GetVar
  <2>. HIDE DEF r
  <2>4. r.cp \in Nat
    BY <2>2, ResultOf
  <2>5. r.ok => r.cp > cp
    BY <1>1, <2>2, <2>4
  <2>. QED BY <2>2, <2>3, <2>5
<1>3. CASE Mem(m, cp + 1) # "{"
  <2>. DEFINE S == {i \in cp + 1 .. cp + LINESIZE : Mem(m, i) \notin AlNum}
              end == Least(S)
              text == [i \in 1 .. end - cp - 1 |-> Mem(m, cp + i)]
  <2>1. LINESIZE - 2 \in S /\ S \subseteq Nat
    <3>1. LINESIZE - 2 \in cp + 1 .. cp + LINESIZE /\ cp + 1 \in Nat
      BY <1>1, Sizes
    <3>2. Mem(m, LINESIZE - 2) \notin AlNum
      BY <1>1, MarksAre
    <3>. QED BY <3>1, <3>2
  <2>2. end \in S /\ end <= LINESIZE - 2
    <3>. HIDE DEF S
    <3>. QED BY <2>1, LeastWhere
  <2>3. end \in cp + 1 .. LINESIZE - 2
    BY <2>2, Sizes
  <2>4. GetVar(m, cp) = Parsed(text, end)
    BY <1>3 DEF GetVar
  <2>. HIDE DEF S, end
  <2>5. text \in Seq(AnyChar)
    <3>1. \A i \in 1 .. end - cp - 1 : Mem(m, cp + i) \in AnyChar
      BY MemOf, Sizes
    <3>2. end - cp - 1 \in Nat
      BY <2>3, Sizes
    <3>. QED BY <3>1, <3>2
  <2>6. end \in Cells /\ end > cp
    BY <2>3, Sizes
  <2>. HIDE DEF text
  <2>. QED BY <2>4, <2>5, <2>6, ParsedOf
<1>. QED BY <1>2, <1>3

-----------------------------------------------------------------------------
DoubleMark == "\""

(* A turn that reads a character moves on.                                 *)
Moves(r, s) == r \in Results /\ (r.ok => r.cp > s.cp)

LEMMA PlainOf ==
  ASSUME NEW m, Line(m), NEW s \in Results, s.ok, Mem(m, s.cp) # NUL
  PROVE  Moves(Plain(m, s), s)
<1>1. s.text \in Seq(AnyChar) /\ s.cp \in 0 .. LINESIZE - 3 /\ s.cp + 1 \in Cells
  BY ResultOf, MemOf, Sizes
<1>2. Mem(m, s.cp) \in AnyChar
  BY <1>1, MemOf
<1>3. Put(s.text, <<Mem(m, s.cp)>>) \in Seq(AnyChar)
  <2>1. <<Mem(m, s.cp)>> \in Seq(AnyChar)
    BY <1>2
  <2>. QED BY <1>1, <2>1, PutOf
<1>4. s.cp + 1 > s.cp
  BY <1>1
<1>. QED BY <1>1, <1>3, <1>4, ParsedOf DEF Plain, Moves

LEMMA VariableOf ==
  ASSUME NEW m, Line(m), NEW s \in Results, s.ok, Mem(m, s.cp) # NUL
  PROVE  Moves(Variable(m, s), s)
<1>. DEFINE var == GetVar(m, s.cp)
            name == CString(var.text)
<1>1. s.text \in Seq(AnyChar) /\ s.cp \in Cells
  BY ResultOf
<1>2. var \in Results /\ (var.ok => var.cp > s.cp)
  BY <1>1, VarOf
<1>3. var.cp \in Cells
  BY <1>2, ResultOf
<1>4. Variable(m, s) = IF ~var.ok THEN var
                       ELSE IF name \notin DOMAIN Env THEN ParseError(var.cp)
                       ELSE Parsed(Put(s.text, Env[name]), var.cp)
  BY DEF Variable
<1>. HIDE DEF name, var
<1>5. ASSUME name \in DOMAIN Env PROVE Put(s.text, Env[name]) \in Seq(AnyChar)
  <2>1. Env[name] \in Seq(AnyChar)
    BY <1>5, PromptAssumption DEF AnyChar
  <2>. QED BY <1>1, <2>1, PutOf
<1>6. CASE ~var.ok
  BY <1>2, <1>4, <1>6 DEF Moves
<1>7. CASE var.ok /\ name \notin DOMAIN Env
  <2>1. Variable(m, s) = ParseError(var.cp)
    BY <1>4, <1>7
  <2>. QED BY <1>1, <1>3, <2>1, ParsedOf DEF Moves
<1>8. CASE var.ok /\ name \in DOMAIN Env
  <2>1. Variable(m, s) = Parsed(Put(s.text, Env[name]), var.cp)
    BY <1>4, <1>8
  <2>2. Put(s.text, Env[name]) \in Seq(AnyChar)
    BY <1>5, <1>8
  <2>. QED BY <1>2, <1>3, <1>8, <2>1, <2>2, ParsedOf DEF Moves
<1>. QED BY <1>6, <1>7, <1>8

(* The cases of a turn.                                                    *)
LEMMA MarkedOf ==
  ASSUME NEW buf \in Seq(AnyChar), NEW mark \in AnyChar, NEW text \in Seq(AnyChar)
  PROVE  Marked(buf, mark, text) \in Seq(AnyChar)
<1>1. <<mark>> \in Seq(AnyChar)
  OBVIOUS
<1>2. Put(buf, <<mark>>) \in Seq(AnyChar)
  BY <1>1, PutOf
<1>3. Put(Put(buf, <<mark>>), text) \in Seq(AnyChar)
  BY <1>2, PutOf
<1>. QED BY <1>1, <1>3, PutOf DEF Marked

LEMMA SingleQuoteOf ==
  ASSUME NEW m, Line(m), NEW s \in Results, s.ok, Mem(m, s.cp) = "'"
  PROVE  Moves(SingleQuote(m, s), s)
<1>. DEFINE mark == "'"
            quoted == GetQuote(m, s.cp, mark)
<1>1. s.text \in Seq(AnyChar) /\ s.cp \in Cells /\ s.cp \in Nat
  BY ResultOf
<1>2. mark # NUL /\ mark \in AnyChar
  <2>1. Mem(m, s.cp) \in AnyChar
    BY <1>1, ResultOf, MemOf, Zenon
  <2>. QED BY MarksAre, <2>1
<1>3. Mem(m, s.cp) # NUL
  BY <1>2
<1>4. SingleQuote(m, s) = IF ~quoted.ok THEN quoted
                          ELSE Parsed(Marked(s.text, mark, CString(quoted.text)), quoted.cp)
  BY DEF SingleQuote
<1>. HIDE DEF mark
<1>5. quoted \in Results /\ (quoted.ok => quoted.cp > s.cp + 1)
  BY <1>1, <1>2, <1>3, QuoteOf
<1>. HIDE DEF quoted
<1>6. quoted.cp \in Cells /\ quoted.cp \in Nat /\ quoted.text \in Seq(AnyChar)
  BY <1>5, ResultOf
<1>7. Marked(s.text, mark, CString(quoted.text)) \in Seq(AnyChar)
  BY <1>1, <1>2, <1>6, CStringOf, MarkedOf
<1>8. quoted.ok => quoted.cp > s.cp
  BY <1>1, <1>5, <1>6
<1>9. CASE ~quoted.ok
  BY <1>4, <1>5, <1>9 DEF Moves
<1>10. CASE quoted.ok
  BY <1>4, <1>6, <1>7, <1>8, <1>10, ParsedOf DEF Moves
<1>. QED BY <1>9, <1>10

(* The expansions of what can be between double quotes.                    *)
Inner == [0 .. LINESIZE - 1 -> [0 .. LINESIZE - 1 -> Results]]

LEMMA DoubleQuoteOf ==
  ASSUME NEW m, Line(m), NEW s \in Results, s.ok, Mem(m, s.cp) = DoubleMark, NEW inner \in Inner
  PROVE  Moves(DoubleQuote(m, inner, s), s)
<1>. DEFINE mark == DoubleMark
            quoted == GetQuote(m, s.cp, mark)
            text == inner[s.cp + 1][quoted.cp - 1]
<1>1. s.text \in Seq(AnyChar) /\ s.cp \in Cells /\ s.cp \in Nat
  BY ResultOf
<1>2. mark # NUL /\ mark \in AnyChar
  <2>1. Mem(m, s.cp) \in AnyChar
    BY <1>1, ResultOf, MemOf, Zenon
  <2>. QED BY MarksAre, <2>1 DEF DoubleMark
<1>3. Mem(m, s.cp) # NUL
  BY <1>2
<1>4. DoubleQuote(m, inner, s) = IF ~quoted.ok THEN quoted
                                 ELSE IF ~text.ok THEN ParseError(quoted.cp)
                                 ELSE Parsed(Marked(CString(s.text), mark, text.text), quoted.cp)
  BY DEF DoubleQuote, DoubleMark
<1>. HIDE DEF mark
<1>5. quoted \in Results /\ (quoted.ok => quoted.cp > s.cp + 1)
  BY <1>1, <1>2, <1>3, QuoteOf
<1>. HIDE DEF quoted
<1>6. quoted.cp \in Cells /\ quoted.cp \in Nat /\ quoted.text \in Seq(AnyChar)
  BY <1>5, ResultOf
<1>7. ASSUME quoted.ok PROVE text \in Results
  <2>1. quoted.cp - 1 \in 0 .. LINESIZE - 1 /\ s.cp + 1 \in 0 .. LINESIZE - 1
    BY <1>1, <1>5, <1>6, <1>7, Sizes
  <2>. QED BY <2>1 DEF Inner
<1>. HIDE DEF text
<1>8. ASSUME quoted.ok PROVE Marked(CString(s.text), mark, text.text) \in Seq(AnyChar)
  <2>1. text.text \in Seq(AnyChar) /\ CString(s.text) \in Seq(AnyChar)
    BY <1>1, <1>7, <1>8, ResultOf, CStringOf
  <2>. QED BY <1>2, <2>1, MarkedOf
<1>9. quoted.ok => quoted.cp > s.cp
  BY <1>1, <1>5, <1>6
<1>10. CASE ~quoted.ok
  BY <1>4, <1>5, <1>10 DEF Moves
<1>11. CASE quoted.ok /\ ~text.ok
  BY <1>4, <1>6, <1>9, <1>11, ParsedOf DEF Moves
<1>12. CASE quoted.ok /\ text.ok
  <2>1. DoubleQuote(m, inner, s) = Parsed(Marked(CString(s.text), mark, text.text), quoted.cp)
    BY <1>4, <1>12
  <2>. QED BY <1>6, <1>8, <1>9, <1>12, <2>1, ParsedOf DEF Moves
<1>. QED BY <1>10, <1>11, <1>12

LEMMA BackslashOf ==
  ASSUME NEW m, Line(m), NEW ignoreEsc, NEW s \in Results, s.ok, Mem(m, s.cp) = "\\"
  PROVE  Moves(Backslash(m, ignoreEsc, s), s)
<1>. DEFINE c == "\\"
            kept == Append(s.text, c)
            next == Mem(m, s.cp + 1)
            dollar == "$"
<1>1. s.text \in Seq(AnyChar) /\ s.cp \in Cells /\ s.cp \in Nat
  BY ResultOf
<1>2. c \in AnyChar /\ c # NUL
  <2>1. Mem(m, s.cp) \in AnyChar
    BY <1>1, ResultOf, MemOf, Zenon
  <2>. QED BY MarksAre, <2>1
<1>3. Mem(m, s.cp) # NUL
  BY <1>2
<1>4. Backslash(m, ignoreEsc, s) =
        IF Full(s.text) THEN Plain(m, s)
        ELSE IF ignoreEsc /\ next = dollar THEN Parsed(kept, s.cp + 1)
        ELSE Parsed(Put(kept, <<next>>), s.cp + 2)
  BY DEF Backslash
<1>. HIDE DEF c, dollar
<1>5. s.cp + 1 \in Cells /\ s.cp + 2 \in Cells /\ s.cp + 1 > s.cp /\ s.cp + 2 > s.cp
  BY <1>1, <1>3, MemOf, Sizes
<1>6. next \in AnyChar
  BY <1>5, MemOf, Sizes
<1>7. kept \in Seq(AnyChar) /\ <<next>> \in Seq(AnyChar)
  BY <1>1, <1>2, <1>6
<1>. HIDE DEF kept, next
<1>8. Put(kept, <<next>>) \in Seq(AnyChar)
  BY <1>7, PutOf
<1>9. Moves(Plain(m, s), s)
  BY <1>3, PlainOf
<1>10. Moves(Parsed(kept, s.cp + 1), s)
  BY <1>5, <1>7, ParsedOf DEF Moves
<1>11. Moves(Parsed(Put(kept, <<next>>), s.cp + 2), s)
  BY <1>5, <1>8, ParsedOf DEF Moves
<1>. QED BY <1>4, <1>9, <1>10, <1>11

LEMMA TurnOf ==
  ASSUME NEW m, Line(m), NEW ignoreEsc, NEW inner \in Inner, NEW s \in Results
  PROVE  /\ Turn(m, ignoreEsc, inner, s) \in Results
         /\ s.ok /\ Mem(m, s.cp) # NUL => Moves(Turn(m, ignoreEsc, inner, s), s)
         /\ ~s.ok \/ Mem(m, s.cp) = NUL => Turn(m, ignoreEsc, inner, s) = s
<1>1. CASE ~s.ok \/ Mem(m, s.cp) = NUL
  BY <1>1 DEF Turn
<1>2. CASE s.ok /\ Mem(m, s.cp) # NUL
  <2>1. \/ Turn(m, ignoreEsc, inner, s) = Variable(m, s)
        \/ Mem(m, s.cp) = DoubleMark /\ Turn(m, ignoreEsc, inner, s) = DoubleQuote(m, inner, s)
        \/ Mem(m, s.cp) = "'" /\ Turn(m, ignoreEsc, inner, s) = SingleQuote(m, s)
        \/ Mem(m, s.cp) = "\\" /\ Turn(m, ignoreEsc, inner, s) = Backslash(m, ignoreEsc, s)
        \/ Turn(m, ignoreEsc, inner, s) = Plain(m, s)
    BY <1>2 DEF Turn, DoubleMark
  <2>2. Moves(Turn(m, ignoreEsc, inner, s), s)
    BY <1>2, <2>1, VariableOf, DoubleQuoteOf, SingleQuoteOf, BackslashOf, PlainOf
  <2>. QED BY <1>2, <2>2 DEF Moves
<1>. QED BY <1>1, <1>2

(* The loop of expand(): every turn is in the line.                        *)
Reads(h, m, from, ignoreEsc, inner) ==
  h = [k \in 0 .. LINESIZE |->
         IF k = 0 THEN Parsed(<<>>, from) ELSE Turn(m, ignoreEsc, inner, h[k - 1])]

LEMMA ReadsExists ==
  ASSUME NEW m, Line(m), NEW from \in Cells, NEW ignoreEsc, NEW inner \in Inner
  PROVE  \E h : Reads(h, m, from, ignoreEsc, inner) /\ h \in [0 .. LINESIZE -> Results]
<1>. DEFINE begin == Parsed(<<>>, from)
            step == [k \in 1 .. LINESIZE |-> [s \in Results |-> Turn(m, ignoreEsc, inner, s)]]
<1>1. begin \in Results
  <2>1. <<>> \in Seq(AnyChar)
    OBVIOUS
  <2>. QED BY <2>1, ParsedOf
<1>2. step \in [1 .. LINESIZE -> [Results -> Results]]
  BY TurnOf
<1>. HIDE DEF begin
<1>3. PICK h : Computes(h, LINESIZE, Results, begin, step)
  <2>. HIDE DEF step
  <2>. QED BY <1>1, <1>2, Sizes, RecursionExists
<1>4. h \in [0 .. LINESIZE -> Results] /\ h[0] = begin
  BY <1>3 DEF Computes
<1>5. ASSUME NEW k \in 0 .. LINESIZE
      PROVE  h[k] = IF k = 0 THEN begin ELSE Turn(m, ignoreEsc, inner, h[k - 1])
  <2>1. CASE k = 0
    BY <1>4, <2>1
  <2>2. CASE k # 0
    <3>1. k \in 1 .. LINESIZE /\ k - 1 \in 0 .. LINESIZE
      BY <2>2, Sizes
    <3>2. h[k] = step[k][h[k - 1]]
      BY <1>3, <3>1 DEF Computes
    <3>3. h[k - 1] \in Results
      BY <1>4, <3>1
    <3>4. step[k][h[k - 1]] = Turn(m, ignoreEsc, inner, h[k - 1])
      BY <3>1, <3>3
    <3>. QED BY <2>2, <3>2, <3>4
  <2>. QED BY <2>1, <2>2
<1>6. h = [k \in 0 .. LINESIZE |-> IF k = 0 THEN begin ELSE Turn(m, ignoreEsc, inner, h[k - 1])]
  <2>. HIDE DEF step
  <2>. QED BY <1>4, <1>5
<1>. QED BY <1>4, <1>6 DEF Reads, begin

(* Text that get_word() can read: a C string that fits its buffer.         *)
Readable(text) ==
  /\ text \in Seq(AnyChar) /\ Len(text) <= LINESIZE - 2
  /\ \A i \in 1 .. Len(text) : text[i] # NUL

Expands(r, m) == r \in Results /\ (r.ok => Readable(r.text) /\ Mem(m, r.cp) = NUL)

(* After k turns the loop has ended or has read k characters.              *)
HasRead(s, m, k) == s \in Results /\ (s.ok /\ Mem(m, s.cp) # NUL => s.cp >= k)

(* The turns of expand() come to a NUL of the line or to an error, and     *)
(* what they leave is readable.                                            *)
LEMMA ExpandFromOf ==
  ASSUME NEW m, Line(m), NEW from \in Cells, NEW ignoreEsc, NEW inner \in Inner
  PROVE  Expands(ExpandFrom(m, from, ignoreEsc, inner), m)
<1>. DEFINE F(h) == [k \in 0 .. LINESIZE |->
                       IF k = 0 THEN Parsed(<<>>, from) ELSE Turn(m, ignoreEsc, inner, h[k - 1])]
            after == CHOOSE h : h = F(h)
            last == after[LINESIZE]
            r == ExpandFrom(m, from, ignoreEsc, inner)
<1>1. after = F(after)
  <2>1. PICK h : Reads(h, m, from, ignoreEsc, inner)
    BY ReadsExists
  <2>2. h = F(h)
    BY <2>1 DEF Reads
  <2>. HIDE DEF F
  <2>. QED BY <2>2
<1>2. r = IF ~last.ok THEN last
          ELSE IF Full(last.text) THEN ParseError(last.cp)
          ELSE Parsed(CString(last.text), last.cp)
  BY DEF ExpandFrom
<1>. DEFINE S == {k \in 0 .. LINESIZE : HasRead(after[k], m, k)}
<1>3. after[0] = Parsed(<<>>, from)
  <2>1. 0 \in 0 .. LINESIZE
    BY Sizes
  <2>. HIDE DEF after
  <2>. QED BY <1>1, <2>1
<1>4. \A k \in 1 .. LINESIZE : after[k] = Turn(m, ignoreEsc, inner, after[k - 1])
  <2>1. \A k \in 1 .. LINESIZE : k \in 0 .. LINESIZE /\ k # 0
    BY Sizes
  <2>. HIDE DEF after
  <2>. QED BY <1>1, <2>1
<1>. HIDE DEF after, F, r
<1>5. 0 \in S
  <2>1. <<>> \in Seq(AnyChar) /\ 0 \in 0 .. LINESIZE /\ from \in Nat
    BY Sizes
  <2>2. Parsed(<<>>, from) \in Results /\ Parsed(<<>>, from).cp = from
    BY <2>1, ParsedOf
  <2>3. after[0] \in Results /\ after[0].cp = from
    BY <1>3, <2>2
  <2>. QED BY <2>1, <2>3 DEF HasRead
<1>6. ASSUME NEW k \in 1 .. LINESIZE, k - 1 \in S PROVE k \in S
  <2>. DEFINE s == after[k - 1]
              t == after[k]
  <2>1. HasRead(s, m, k - 1)
    BY <1>6
  <2>0. t = Turn(m, ignoreEsc, inner, s)
    BY <1>4
  <2>2. k \in 0 .. LINESIZE
    BY Sizes
  <2>. HIDE DEF s, t
  <2>3. t \in Results
    BY <2>0, <2>1, TurnOf DEF HasRead
  <2>4. ASSUME t.ok, Mem(m, t.cp) # NUL PROVE t.cp >= k
    <3>1. s.ok /\ Mem(m, s.cp) # NUL
      BY <2>0, <2>1, <2>4, TurnOf DEF HasRead
    <3>2. t.cp > s.cp
      BY <2>0, <2>1, <2>4, <3>1, TurnOf DEF Moves, HasRead
    <3>3. t.cp \in Int /\ s.cp \in Int
      BY <2>1, <2>3, ResultOf DEF HasRead
    <3>. QED BY <2>1, <3>1, <3>2, <3>3 DEF HasRead
  <2>5. HasRead(t, m, k)
    BY <2>3, <2>4 DEF HasRead
  <2>. QED BY <2>2, <2>5 DEF t
<1>7. LINESIZE \in S
  <2>1. \A k \in 1 .. LINESIZE : k - 1 \in S => k \in S
    BY <1>6
  <2>. HIDE DEF S
  <2>2. \A k \in 0 .. LINESIZE : k \in S
    BY <1>5, <2>1, Sizes, CountUp
  <2>. QED BY <2>2, Sizes
<1>8. HasRead(last, m, LINESIZE)
  BY <1>7
<1>. HIDE DEF last, S
<1>9. last.text \in Seq(AnyChar) /\ last.cp \in Cells /\ last.cp \in Nat
  BY <1>8, ResultOf DEF HasRead
<1>10. last.ok => Mem(m, last.cp) = NUL
  BY <1>8, <1>9, Sizes DEF HasRead
<1>. SUFFICES Expands(r, m)
  BY DEF r
<1>11. CASE ~last.ok
  BY <1>2, <1>8, <1>11 DEF Expands, HasRead
<1>12. CASE last.ok /\ Full(last.text)
  <2>1. r = ParseError(last.cp)
    BY <1>2, <1>12
  <2>. QED BY <1>9, <2>1, ParsedOf DEF Expands
<1>13. CASE last.ok /\ ~Full(last.text)
  <2>1. r = Parsed(CString(last.text), last.cp)
    BY <1>2, <1>13
  <2>2. Len(last.text) <= LINESIZE - 2
    BY <1>9, <1>13, Sizes DEF Full
  <2>3. Readable(CString(last.text))
    <3>. DEFINE text == CString(last.text)
    <3>1. /\ text \in Seq(AnyChar) /\ Len(text) <= Len(last.text)
          /\ \A i \in 1 .. Len(text) : text[i] # NUL
      BY <1>9, CStringOf
    <3>. HIDE DEF text
    <3>2. Len(text) <= LINESIZE - 2
      BY <1>9, <2>2, <3>1, Sizes
    <3>3. Readable(text)
      BY <3>1, <3>2 DEF Readable
    <3>. QED BY <3>3 DEF text
  <2>. QED BY <1>9, <1>10, <1>13, <2>1, <2>3, ParsedOf DEF Readable, Expands
<1>. QED BY <1>11, <1>12, <1>13

LEMMA EndedAtOf ==
  ASSUME NEW m, Line(m), NEW end
  PROVE  Line(EndedAt(m, end))
BY Sizes DEF Line, EndedAt, AnyChar

(* So it is with the text between double quotes, however deep.             *)
LEMMA NestedOf ==
  ASSUME NEW m, Line(m)
  PROVE  Nested(m) \in Inner
<1>. DEFINE Offsets == 0 .. LINESIZE - 1
            Level(depth, inner) ==
              [from \in Offsets |-> [end \in Offsets |->
                 IF depth = 0 THEN ParseError(from)
                 ELSE ExpandFrom(EndedAt(m, end), from, TRUE, inner)]]
            F(h) == [depth \in 0 .. LINESIZE |->
              [from \in Offsets |-> [end \in Offsets |->
                 IF depth = 0 THEN ParseError(from)
                 ELSE ExpandFrom(EndedAt(m, end), from, TRUE, h[depth - 1])]]]
            nested == CHOOSE h : h = F(h)
            step == [k \in 1 .. LINESIZE |-> [inner \in Inner |-> Level(k, inner)]]
<1>0. Offsets = Cells
  BY Sizes
<1>1. Level(0, 0) \in Inner
  <2>1. \A from \in Offsets : ParseError(from) \in Results
    <3>1. <<>> \in Seq(AnyChar)
      OBVIOUS
    <3>. HIDE DEF Offsets
    <3>. QED BY <1>0, <3>1, ParsedOf
  <2>. QED BY <2>1 DEF Inner
<1>2. ASSUME NEW k \in 1 .. LINESIZE, NEW inner \in Inner PROVE Level(k, inner) \in Inner
  <2>1. k # 0
    BY Sizes
  <2>2. ASSUME NEW from \in Offsets, NEW end \in Offsets
        PROVE  ExpandFrom(EndedAt(m, end), from, TRUE, inner) \in Results
    <3>. HIDE DEF Offsets
    <3>. QED BY <1>0, <2>2, EndedAtOf, ExpandFromOf DEF Expands
  <2>. QED BY <2>1, <2>2 DEF Inner
<1>3. step \in [1 .. LINESIZE -> [Inner -> Inner]]
  <2>. HIDE DEF Level
  <2>. QED BY <1>2
<1>4. PICK h : Computes(h, LINESIZE, Inner, Level(0, 0), step)
  <2>. HIDE DEF step, Level
  <2>. QED BY <1>1, <1>3, Sizes, RecursionExists
<1>5. h \in [0 .. LINESIZE -> Inner] /\ h[0] = Level(0, 0)
  <2>. HIDE DEF Level, step
  <2>. QED BY <1>4 DEF Computes
<1>6. ASSUME NEW k \in 0 .. LINESIZE PROVE h[k] = Level(k, h[k - 1])
  <2>1. CASE k = 0
    BY <1>5, <2>1
  <2>2. CASE k # 0
    <3>1. k \in 1 .. LINESIZE /\ k - 1 \in 0 .. LINESIZE
      BY <2>2, Sizes
    <3>. HIDE DEF Level
    <3>2. h[k] = step[k][h[k - 1]]
      <4>. HIDE DEF step
      <4>. QED BY <1>4, <3>1 DEF Computes
    <3>3. h[k - 1] \in Inner
      BY <1>5, <3>1
    <3>. QED BY <3>1, <3>2, <3>3
  <2>. QED BY <2>1, <2>2
<1>7. h = F(h)
  <2>1. h = [k \in 0 .. LINESIZE |-> Level(k, h[k - 1])]
    <3>. HIDE DEF Level, step, F
    <3>. QED BY <1>5, <1>6
  <2>. QED BY <2>1
<1>8. nested = F(nested)
  <2>. HIDE DEF F
  <2>. QED BY <1>7
<1>9. ASSUME NEW g, g = F(g) PROVE \A k \in 0 .. LINESIZE : g[k] \in Inner
  <2>. DEFINE S == {k \in 0 .. LINESIZE : g[k] \in Inner}
  <2>1. \A k \in 0 .. LINESIZE : g[k] = Level(k, g[k - 1])
    BY <1>9
  <2>2. 0 \in S
    <3>1. 0 \in 0 .. LINESIZE
      BY Sizes
    <3>2. Level(0, g[0 - 1]) = Level(0, 0)
      OBVIOUS
    <3>. HIDE DEF Level
    <3>. QED BY <1>1, <2>1, <3>1, <3>2
  <2>3. \A k \in 1 .. LINESIZE : k - 1 \in S => k \in S
    <3>1. \A k \in 1 .. LINESIZE : k \in 0 .. LINESIZE
      BY Sizes
    <3>. HIDE DEF Level
    <3>. QED BY <1>2, <2>1, <3>1
  <2>. HIDE DEF S
  <2>4. \A k \in 0 .. LINESIZE : k \in S
    BY <2>2, <2>3, Sizes, CountUp
  <2>. QED BY <2>4 DEF S
<1>10. Nested(m) = nested[LINESIZE]
  BY DEF Nested
<1>11. LINESIZE \in 0 .. LINESIZE
  BY Sizes
<1>. HIDE DEF nested, F
<1>. QED BY <1>8, <1>9, <1>10, <1>11

LEMMA ExpandOf ==
  ASSUME NEW m, Line(m)
  PROVE  Expands(Expand(m), m)
<1>1. 0 \in Cells
  BY Sizes
<1>. QED BY <1>1, NestedOf, ExpandFromOf DEF Expand

-----------------------------------------------------------------------------
LEMMA EndIsNul == EndOfString = NUL /\ NUL \in AnyChar
BY DEF EndOfString, NUL, AnyChar

(* A line the editor can leave behind: it ends before its last two cells.  *)
Storable == {f \in [Cells -> AnyChar] : \A i \in LINESIZE - 3 .. LINESIZE - 1 : f[i] = NUL}

(* The inductive invariant: the lines of the ring, and where the line that *)
(* is edited ends.                                                         *)
Sound ==
  /\ lines \in [Slots -> Storable] /\ ecurrent \in Slots /\ current \in Slots
  /\ bufp \in 0 .. LINESIZE - 3 /\ bufc \in 0 .. bufp
  /\ pc = "line" => rvalp \in Slots
  /\ expanded \in Results

LEMMA StoredIs ==
  ASSUME NEW line \in Storable
  PROVE  /\ line \in [Cells -> AnyChar] /\ Line(line)
         /\ \A i \in LINESIZE - 3 .. LINESIZE - 1 : line[i] = NUL
<1>1. line \in [Cells -> AnyChar] /\ \A i \in LINESIZE - 3 .. LINESIZE - 1 : line[i] = NUL
  BY DEF Storable
<1>. QED BY <1>1, Sizes DEF Line

(* The ring.                                                               *)
LEMMA SlotsAre ==
  /\ 0 \in Slots
  /\ \A s \in Slots : After(s) \in Slots /\ Before(s) \in Slots /\ After(s) # s /\ Before(s) # s
                      /\ After(s) # Before(s) /\ Before(After(s)) = s
<1>1. Slots = 0 .. EDIT_HISTORY - 1 /\ EDIT_HISTORY \in Nat /\ EDIT_HISTORY > 2
  BY Sizes DEF Slots
<1>2. ASSUME NEW s \in Slots
      PROVE  After(s) = IF s = EDIT_HISTORY - 1 THEN 0 ELSE s + 1
  BY <1>1 DEF After
<1>. QED BY <1>1, <1>2 DEF Before

(* A string ends at its first NUL.                                         *)
LEMMA StrLenOf ==
  ASSUME NEW line \in Storable
  PROVE  /\ StrLen(line) \in 0 .. LINESIZE - 3 /\ line[StrLen(line)] = NUL
         /\ \A i \in 0 .. StrLen(line) - 1 : line[i] # NUL
<1>. DEFINE P(n) == line[n] = EndOfString /\ \A i \in 0 .. n - 1 : line[i] # EndOfString
            S == {n \in Cells : line[n] = EndOfString}
<1>1. LINESIZE - 3 \in S /\ S \subseteq Nat
  BY StoredIs, EndIsNul, Sizes
<1>2. Least(S) \in S /\ Least(S) <= LINESIZE - 3 /\ \A j \in S : Least(S) <= j
  <2>. HIDE DEF S
  <2>. QED BY <1>1, LeastWhere
<1>3. Least(S) \in Cells /\ P(Least(S))
  <2>. DEFINE n == Least(S)
  <2>1. n \in Cells /\ line[n] = EndOfString
    BY <1>2
  <2>2. ASSUME NEW i \in 0 .. n - 1 PROVE line[i] # EndOfString
    <3>1. i \in Cells /\ ~(n <= i)
      BY <2>1, Sizes
    <3>. QED BY <1>2, <3>1
  <2>. QED BY <2>1, <2>2
<1>4. StrLen(line) \in Cells /\ P(StrLen(line))
  BY <1>3 DEF StrLen
<1>. DEFINE n == StrLen(line)
<1>5. n <= LINESIZE - 3
  <2>1. \A i \in 0 .. n - 1 : i \notin S
    BY <1>4
  <2>2. n \in Nat /\ LINESIZE - 3 \in Nat
    BY <1>4, Sizes
  <2>. HIDE DEF S, n
  <2>. QED BY <1>1, <2>1, <2>2
<1>. QED BY <1>4, <1>5, EndIsNul, Sizes

LEMMA StrLenIs ==
  ASSUME NEW line, NEW n \in Cells, line[n] = NUL, \A i \in 0 .. n - 1 : line[i] # NUL
  PROVE  StrLen(line) = n
<1>. DEFINE P(k) == line[k] = EndOfString /\ \A i \in 0 .. k - 1 : line[i] # EndOfString
<1>1. P(n)
  BY EndIsNul
<1>2. ASSUME NEW k \in Cells, P(k) PROVE k = n
  <2>1. ~(n \in 0 .. k - 1) /\ ~(k \in 0 .. n - 1)
    BY <1>1, <1>2
  <2>. QED BY <2>1, Sizes
<1>3. StrLen(line) = CHOOSE k \in Cells : P(k)
  BY DEF StrLen
<1>. HIDE DEF P
<1>. QED BY <1>1, <1>2, <1>3

-----------------------------------------------------------------------------
LEMMA SoundInit == Init => Sound
<1>. SUFFICES ASSUME Init PROVE Sound
  OBVIOUS
<1>1. [c \in Cells |-> EndOfString] \in Storable
  BY EndIsNul, Sizes DEF Storable
<1>2. expanded \in Results
  <2>1. 0 \in Cells /\ <<>> \in Seq(AnyChar)
    BY Sizes
  <2>. QED BY <2>1, ParsedOf DEF Init, NoText
<1>3. lines \in [Slots -> Storable] /\ ecurrent = 0 /\ current = 0 /\ bufp = 0 /\ bufc = 0 /\ pc = "prompt"
  BY <1>1 DEF Init, LinesInit
<1>. QED BY <1>2, <1>3, SlotsAre, Sizes DEF Sound

(* What a key does to the line that is edited.                             *)
Kept == rvalp' = rvalp /\ ecurrent' = ecurrent /\ expanded' = expanded

LEMMA Edited ==
  ASSUME Sound, Kept, pc' = "edit", NEW f \in Storable, Rewrite(f), current' = current,
         bufp' \in 0 .. LINESIZE - 3, bufc' \in 0 .. bufp'
  PROVE  Sound'
<1>1. lines' = [lines EXCEPT ![current] = f] /\ lines \in [Slots -> Storable] /\ current \in Slots
  BY DEF Sound, Rewrite
<1>2. lines' \in [Slots -> Storable] /\ lines'[current] = f
  BY <1>1
<1>3. ecurrent' \in Slots /\ current' \in Slots /\ expanded' \in Results
  BY DEF Sound, Kept
<1>. QED BY <1>2, <1>3 DEF Sound

(* The line that is edited.                                                *)
LEMMA LineIs ==
  ASSUME Sound, pc = "edit"
  PROVE  /\ lines[current] \in Storable /\ lines[current] \in [Cells -> AnyChar]
         /\ \A i \in LINESIZE - 3 .. LINESIZE - 1 : lines[current][i] = NUL
         /\ bufp \in 0 .. LINESIZE - 3 /\ bufc \in 0 .. bufp
         /\ Cells = 0 .. LINESIZE - 1 /\ LINESIZE \in Nat /\ LINESIZE > 3
<1>1. lines[current] \in Storable
  BY DEF Sound
<1>. QED BY <1>1, StoredIs, Sizes DEF Sound

LEMMA ByteIsChar == Keys \subseteq Received /\ Received \subseteq AnyChar
BY LineAssumption, PromptAssumption DEF AnyChar

LEMMA InsertSound ==
  ASSUME Sound, Kept, NEW c \in Keys, Insert(c)
  PROVE  Sound'
<1>. DEFINE line == lines[current]
            f == [i \in Cells |->
                    IF i = bufc THEN c
                    ELSE IF i \in bufc + 1 .. bufp THEN line[i - 1]
                    ELSE IF i = bufp + 1 /\ bufc # bufp THEN EndOfString
                    ELSE line[i]]
<1>1. /\ pc = "edit" /\ pc' = "edit" /\ current' = current /\ bufp < LINESIZE - 3
      /\ Rewrite(f) /\ bufc' = bufc + 1 /\ bufp' = bufp + 1
  BY DEF Insert, InLine, Key, HasRoom
<1>2. c \in AnyChar
  BY ByteIsChar
<1>3. f \in [Cells -> AnyChar]
  BY <1>1, <1>2, LineIs, EndIsNul
<1>4. \A i \in LINESIZE - 3 .. LINESIZE - 1 : f[i] = NUL
  BY <1>1, LineIs, EndIsNul
<1>6. f \in Storable
  <2>. HIDE DEF f
  <2>. QED BY <1>3, <1>4 DEF Storable
<1>7. bufp' \in 0 .. LINESIZE - 3 /\ bufc' \in 0 .. bufp'
  BY <1>1, LineIs
<1>. HIDE DEF f
<1>. QED BY <1>1, <1>6, <1>7, Edited

LEMMA QuoteSound ==
  ASSUME Sound, Kept, NEW c \in Received, Quote(c)
  PROVE  Sound'
<1>. DEFINE f == [lines[current] EXCEPT ![bufp] = c]
<1>1. /\ pc = "edit" /\ pc' = "edit" /\ current' = current /\ bufp < LINESIZE - 3
      /\ Rewrite(f) /\ bufc' = bufc + 1 /\ bufp' = bufp + 1
  BY DEF Quote, InLine, Key, HasRoom, Write
<1>2. c \in AnyChar
  BY ByteIsChar
<1>3. f \in [Cells -> AnyChar] /\ \A i \in LINESIZE - 3 .. LINESIZE - 1 : f[i] = NUL
  BY <1>1, <1>2, LineIs
<1>5. bufp' \in 0 .. LINESIZE - 3 /\ bufc' \in 0 .. bufp'
  BY <1>1, LineIs
<1>. HIDE DEF f
<1>6. f \in Storable
  BY <1>3 DEF Storable
<1>. QED BY <1>1, <1>5, <1>6, Edited

(* ^D and ^H: the cells behind one of the line move down.                  *)
LEMMA ClosedSound ==
  ASSUME Sound, Kept, pc = "edit", pc' = "edit", current' = current, NEW from \in 0 .. bufp - 1,
         Rewrite(Closed(from)), bufp' = bufp - 1, bufc' \in 0 .. bufp'
  PROVE  Sound'
<1>. DEFINE f == Closed(from)
<1>1. f \in [Cells -> AnyChar] /\ \A i \in LINESIZE - 3 .. LINESIZE - 1 : f[i] = NUL
  <2>1. ASSUME NEW i \in Cells PROVE f[i] \in AnyChar
    <3>1. i \in from .. bufp - 2 => i + 1 \in Cells
      BY LineIs
    <3>. QED BY <3>1, LineIs, EndIsNul DEF Closed
  <2>2. f \in [Cells -> AnyChar]
    BY <2>1 DEF Closed
  <2>3. \A i \in LINESIZE - 3 .. LINESIZE - 1 : f[i] = NUL
    BY LineIs, EndIsNul DEF Closed
  <2>. QED BY <2>2, <2>3
<1>3. bufp' \in 0 .. LINESIZE - 3
  BY LineIs
<1>. HIDE DEF f
<1>4. f \in Storable
  BY <1>1 DEF Storable
<1>5. Rewrite(f)
  BY DEF f
<1>. QED BY <1>3, <1>4, <1>5, Edited

LEMMA DeleteAtSound ==
  ASSUME Sound, Kept, DeleteAt
  PROVE  Sound'
<1>1. /\ pc = "edit" /\ pc' = "edit" /\ current' = current /\ bufc # bufp
      /\ Rewrite(Closed(bufc)) /\ bufp' = bufp - 1 /\ bufc' = bufc
  BY DEF DeleteAt, InLine, Key
<1>2. bufc \in 0 .. bufp - 1 /\ bufc' \in 0 .. bufp'
  BY <1>1, LineIs
<1>. QED BY <1>1, <1>2, ClosedSound

LEMMA DeleteBeforeSound ==
  ASSUME Sound, Kept, DeleteBefore
  PROVE  Sound'
<1>1. /\ pc = "edit" /\ pc' = "edit" /\ current' = current /\ bufc > 0
      /\ Rewrite(Closed(bufc - 1)) /\ bufp' = bufp - 1 /\ bufc' = bufc - 1
  BY DEF DeleteBefore, InLine, Key
<1>2. bufc - 1 \in 0 .. bufp - 1 /\ bufc' \in 0 .. bufp'
  BY <1>1, LineIs
<1>. QED BY <1>1, <1>2, ClosedSound

LEMMA MoveCursorSound ==
  ASSUME Sound, Kept, MoveCursor
  PROVE  Sound'
<1>1. pc = "edit" /\ pc' = "edit" /\ current' = current /\ lines' = lines /\ bufp' = bufp
  BY DEF MoveCursor, InLine, Key
<1>2. bufc' \in 0 .. bufp
  BY <1>1, LineIs DEF MoveCursor
<1>. QED BY <1>1, <1>2 DEF Sound, Kept

LEMMA KillToEndSound ==
  ASSUME Sound, Kept, KillToEnd
  PROVE  Sound'
<1>. DEFINE f == [i \in Cells |-> IF i \in bufc + 1 .. bufp THEN EndOfString ELSE lines[current][i]]
<1>1. /\ pc = "edit" /\ pc' = "edit" /\ current' = current
      /\ Rewrite(f) /\ bufp' = bufc /\ bufc' = bufc
  BY DEF KillToEnd, InLine, Key
<1>2. f \in [Cells -> AnyChar] /\ \A i \in LINESIZE - 3 .. LINESIZE - 1 : f[i] = NUL
  BY <1>1, LineIs, EndIsNul
<1>4. bufp' \in 0 .. LINESIZE - 3 /\ bufc' \in 0 .. bufp'
  BY <1>1, LineIs
<1>. HIDE DEF f
<1>5. f \in Storable
  BY <1>2 DEF Storable
<1>. QED BY <1>1, <1>4, <1>5, Edited

LEMMA RedrawSound ==
  ASSUME Sound, Kept, Redraw
  PROVE  Sound'
<1>. DEFINE f == [lines[current] EXCEPT ![bufp] = EndOfString]
<1>1. /\ pc = "edit" /\ pc' = "edit" /\ current' = current
      /\ Rewrite(f) /\ bufp' = bufp /\ bufc' = bufp
  BY DEF Redraw, InLine, Key, Write
<1>2. f \in [Cells -> AnyChar] /\ \A i \in LINESIZE - 3 .. LINESIZE - 1 : f[i] = NUL
  BY <1>1, LineIs, EndIsNul
<1>4. bufp' \in 0 .. LINESIZE - 3 /\ bufc' \in 0 .. bufp'
  BY <1>1, LineIs
<1>. HIDE DEF f
<1>5. f \in Storable
  BY <1>2 DEF Storable
<1>. QED BY <1>1, <1>4, <1>5, Edited

LEMMA KillLineSound ==
  ASSUME Sound, Kept, KillLine
  PROVE  Sound'
<1>1. pc' = "edit" /\ current' = current /\ lines' = lines /\ bufp' = 0 /\ bufc' = 0
  BY DEF KillLine, InLine, Key
<1>. QED BY <1>1, Sizes DEF Sound, Kept

LEMMA ShowSound ==
  ASSUME Sound, Kept, NEW slot \in Slots, Show(slot)
  PROVE  Sound'
<1>1. /\ pc' = "edit" /\ current' = slot /\ lines' = lines
      /\ bufp' = StrLen(lines[slot]) /\ bufc' = StrLen(lines[slot])
  BY DEF Show, Key
<1>2. lines[slot] \in Storable
  BY DEF Sound
<1>3. bufp' \in 0 .. LINESIZE - 3 /\ bufc' \in 0 .. bufp'
  BY <1>1, <1>2, StrLenOf, Sizes
<1>. QED BY <1>1, <1>3 DEF Sound, Kept

LEMMA UpDownSound ==
  ASSUME Sound, Kept, Up \/ Down
  PROVE  Sound'
<1>1. After(current) \in Slots /\ Before(current) \in Slots
  BY SlotsAre DEF Sound
<1>. QED BY <1>1, ShowSound DEF Up, Down

LEMMA PressKeySound ==
  ASSUME Sound, PressKey, expanded' = expanded
  PROVE  Sound'
<1>1. Kept
  BY DEF PressKey, Insert, Quote, DeleteAt, DeleteBefore, MoveCursor, KillToEnd, Redraw, KillLine,
         Up, Down, Show, InLine, Key, Kept
<1>. QED BY <1>1, InsertSound, QuoteSound, DeleteAtSound, DeleteBeforeSound, MoveCursorSound,
            KillToEndSound, RedrawSound, KillLineSound, UpDownSound DEF PressKey

-----------------------------------------------------------------------------
(* The line that a newline ends.                                           *)
EndedLines == [lines EXCEPT ![current][bufp] = EndOfString]

LEMMA TypedIs ==
  ASSUME Sound, pc = "edit"
  PROVE  /\ Typed \in Seq(AnyChar) /\ Len(Typed) = bufp
         /\ \A i \in 1 .. bufp : Typed[i] = lines[current][i - 1]
         /\ \A i \in 0 .. bufp - 1 : Typed[i + 1] = lines[current][i]
<1>1. bufp \in Nat /\ \A i \in 1 .. bufp : i - 1 \in Cells /\ i - 1 \in 0 .. bufp - 1
  BY LineIs
<1>2. \A i \in 1 .. bufp : lines[current][i - 1] \in AnyChar
  BY <1>1, LineIs
<1>3. \A i \in 0 .. bufp - 1 : i + 1 \in 1 .. bufp /\ (i + 1) - 1 = i
  BY <1>1
<1>4. Typed = [i \in 1 .. bufp |-> lines[current][i - 1]]
  BY DEF Typed
<1>. QED BY <1>1, <1>2, <1>3, <1>4

(* The string in a line.                                                   *)
LEMMA StrIs ==
  ASSUME NEW line, NEW text, NEW n \in Cells, line[n] = NUL, text = [i \in 1 .. n |-> line[i - 1]],
         \A i \in 0 .. n - 1 : line[i] # NUL
  PROVE  Str(line) = text
<1>1. StrLen(line) = n
  BY StrLenIs
<1>. QED BY <1>1 DEF Str

(* The test for an empty line.                                             *)
LEMMA EmptyIs ==
  ASSUME NEW line \in Storable
  PROVE  line[0] = NUL <=> Str(line) = <<>>
<1>. DEFINE n == StrLen(line)
<1>1. n \in Nat /\ line[n] = NUL /\ \A i \in 0 .. n - 1 : line[i] # NUL
  BY StrLenOf, Sizes
<1>2. Str(line) = [i \in 1 .. n |-> line[i - 1]]
  BY DEF Str
<1>. HIDE DEF n
<1>3. Str(line) = <<>> <=> n = 0
  <2>1. n = 0 => Str(line) = <<>>
    BY <1>2
  <2>2. DOMAIN Str(line) = 1 .. n /\ DOMAIN <<>> = 1 .. 0
    BY <1>2
  <2>3. Str(line) = <<>> => 1 .. n = 1 .. 0
    BY <2>2
  <2>4. 1 .. n = 1 .. 0 => n = 0
    BY <1>1
  <2>. QED BY <2>1, <2>3, <2>4
<1>4. line[0] = NUL <=> n = 0
  BY <1>1
<1>. QED BY <1>3, <1>4

(* What is entered is the string that is left when the line is ended.      *)
LEMMA EndedIs ==
  ASSUME Sound, pc = "edit"
  PROVE  /\ EndedLines \in [Slots -> Storable]
         /\ \A s \in Slots : s # current => EndedLines[s] = lines[s]
         /\ Str(EndedLines[current]) = Entered
         /\ EndedLines[current][0] = NUL <=> Entered = <<>>
         /\ Entered # <<>> => lines[current][0] # NUL
<1>. DEFINE f == [lines[current] EXCEPT ![bufp] = EndOfString]
            S == {i \in 0 .. Len(Typed) : i < Len(Typed) => Typed[i + 1] = NUL}
            n == Least(S)
<1>1. bufp \in Cells /\ bufp \in Nat
  BY LineIs
<1>2. f \in [Cells -> AnyChar]
  BY <1>1, LineIs, EndIsNul
<1>3. \A i \in LINESIZE - 3 .. LINESIZE - 1 : f[i] = NUL
  BY <1>1, LineIs, EndIsNul
<1>4. f[bufp] = NUL /\ \A i \in 0 .. bufp - 1 : f[i] = lines[current][i]
  BY <1>1, LineIs, EndIsNul
<1>5. EndedLines = [lines EXCEPT ![current] = f]
  BY DEF EndedLines
<1>. HIDE DEF f
<1>6. f \in Storable
  BY <1>2, <1>3 DEF Storable
<1>7. lines \in [Slots -> Storable] /\ current \in Slots
  BY DEF Sound
<1>8. EndedLines \in [Slots -> Storable] /\ EndedLines[current] = f
      /\ \A s \in Slots : s # current => EndedLines[s] = lines[s]
  BY <1>5, <1>6, <1>7
<1>9. /\ Typed \in Seq(AnyChar) /\ Len(Typed) = bufp
      /\ \A i \in 1 .. bufp : Typed[i] = lines[current][i - 1]
      /\ \A i \in 0 .. bufp - 1 : Typed[i + 1] = lines[current][i]
  BY TypedIs
<1>10. Entered = SubSeq(Typed, 1, n)
  BY DEF Entered, CString
<1>. HIDE DEF Typed
<1>11. S = {i \in 0 .. bufp : i < bufp => lines[current][i] = NUL}
  <2>1. \A i \in 0 .. bufp : i < bufp => i \in 0 .. bufp - 1
    BY <1>1
  <2>. QED BY <1>9, <2>1
<1>. HIDE DEF S
<1>12. n \in S /\ \A i \in S : n <= i
  <2>1. bufp \in S /\ S \subseteq Nat
    BY <1>1, <1>11
  <2>. QED BY <2>1, LeastWhere
<1>. HIDE DEF n
<1>13. n \in 0 .. bufp /\ n \in Nat /\ (n < bufp => lines[current][n] = NUL)
  BY <1>1, <1>11, <1>12
<1>14. n \in Cells /\ f[n] = NUL
  <2>1. n \in Cells
    BY <1>1, <1>13, Sizes
  <2>2. n = bufp \/ (n < bufp /\ n \in 0 .. bufp - 1)
    BY <1>1, <1>13
  <2>. QED BY <1>4, <1>13, <2>1, <2>2
<1>15. ASSUME NEW i \in 0 .. n - 1 PROVE f[i] # NUL /\ f[i] = lines[current][i]
  <2>1. i \in 0 .. bufp - 1 /\ i \in 0 .. bufp /\ i < bufp /\ ~(n <= i)
    BY <1>1, <1>13
  <2>2. i \notin S
    BY <1>12, <2>1
  <2>. QED BY <1>4, <1>11, <2>1, <2>2
<1>16. SubSeq(Typed, 1, n) = [i \in 1 .. n |-> f[i - 1]]
  <2>1. SubSeq(Typed, 1, n) = [i \in 1 .. n |-> Typed[i]]
    BY <1>9, <1>13
  <2>2. ASSUME NEW i \in 1 .. n PROVE Typed[i] = f[i - 1]
    <3>1. i - 1 \in 0 .. n - 1 /\ i \in 1 .. bufp
      BY <1>1, <1>13
    <3>. QED BY <1>9, <1>15, <3>1
  <2>. QED BY <2>1, <2>2
<1>17. Str(f) = Entered
  BY <1>10, <1>14, <1>15, <1>16, StrIs
<1>18. f[0] = NUL <=> Entered = <<>>
  BY <1>6, <1>17, EmptyIs
<1>19. ASSUME f[0] # NUL PROVE lines[current][0] # NUL
  <2>1. n # 0 /\ 0 \in 0 .. n - 1
    BY <1>13, <1>14, <1>19
  <2>. QED BY <1>15, <2>1
<1>. QED BY <1>8, <1>17, <1>18, <1>19

(* What a newline makes of the lines.                                      *)
LEMMA ReturnIs ==
  ASSUME Sound, Return
  PROVE  /\ pc = "edit" /\ pc' = "line" /\ rvalp' = current
         /\ current' = current /\ bufp' = bufp /\ bufc' = bufc
         /\ Entered = <<>> => lines' = EndedLines /\ ecurrent' = ecurrent
         /\ Entered # <<>> =>
              Remember(EndedLines, IF Again(Entered) THEN Before(ecurrent) ELSE current)
<1>1. pc = "edit"
  BY DEF Return
<1>2. Str(EndedLines[current]) = Entered
  BY <1>1, EndedIs
<1>. QED BY <1>2 DEF Return, EndedLines

LEMMA RememberIs ==
  ASSUME NEW ended \in [Slots -> Storable], NEW from \in Slots, ecurrent \in Slots, Remember(ended, from)
  PROVE  /\ ecurrent' = After(ecurrent) /\ ecurrent' \in Slots /\ ecurrent' # ecurrent
         /\ lines' \in [Slots -> Storable]
         /\ lines'[ecurrent] = ended[from]
         /\ lines'[ecurrent'][0] = NUL
         /\ \A s \in Slots : s # ecurrent /\ s # ecurrent' => lines'[s] = ended[s]
<1>. DEFINE next == After(ecurrent)
            kept == [ended EXCEPT ![ecurrent] = ended[from]]
            cleared == [kept[next] EXCEPT ![0] = EndOfString]
<1>1. next \in Slots /\ next # ecurrent /\ ecurrent' = next
  BY SlotsAre DEF Remember
<1>2. lines' = [kept EXCEPT ![next] = cleared]
  BY DEF Remember
<1>. HIDE DEF next
<1>3. kept \in [Slots -> Storable] /\ kept[ecurrent] = ended[from]
      /\ \A s \in Slots : s # ecurrent => kept[s] = ended[s]
  OBVIOUS
<1>. HIDE DEF kept
<1>4. cleared \in Storable /\ cleared[0] = NUL
  <2>1. kept[next] \in [Cells -> AnyChar] /\ \A i \in LINESIZE - 3 .. LINESIZE - 1 : kept[next][i] = NUL
    BY <1>1, <1>3, StoredIs
  <2>2. 0 \in Cells
    BY Sizes
  <2>3. cleared \in [Cells -> AnyChar] /\ cleared[0] = NUL
    BY <2>1, <2>2, EndIsNul
  <2>4. \A i \in LINESIZE - 3 .. LINESIZE - 1 : cleared[i] = NUL
    BY <2>1, <2>2, EndIsNul, Sizes
  <2>. HIDE DEF cleared
  <2>. QED BY <2>3, <2>4 DEF Storable
<1>. HIDE DEF cleared
<1>5. /\ lines' \in [Slots -> Storable] /\ lines'[next] = cleared /\ lines'[ecurrent] = kept[ecurrent]
      /\ \A s \in Slots : s # next => lines'[s] = kept[s]
  BY <1>1, <1>2, <1>3, <1>4
<1>. QED BY <1>1, <1>3, <1>4, <1>5 DEF next

(* The line that is remembered is one of the ring.                         *)
LEMMA FromIsSlot ==
  ASSUME Sound
  PROVE  (IF Again(Entered) THEN Before(ecurrent) ELSE current) \in Slots
BY SlotsAre DEF Sound

LEMMA ReturnSound ==
  ASSUME Sound, Return, expanded' = expanded
  PROVE  Sound'
<1>1. /\ pc' = "line" /\ rvalp' = current /\ current' = current /\ bufp' = bufp /\ bufc' = bufc
      /\ pc = "edit" /\ current \in Slots /\ ecurrent \in Slots
  BY ReturnIs DEF Sound
<1>2. lines' \in [Slots -> Storable] /\ ecurrent' \in Slots
  <2>1. CASE Entered = <<>>
    BY <1>1, <2>1, ReturnIs, EndedIs
  <2>2. CASE Entered # <<>>
    <3>1. EndedLines \in [Slots -> Storable]
      BY <1>1, EndedIs
    <3>. QED BY <1>1, <2>2, <3>1, ReturnIs, RememberIs, FromIsSlot
  <2>. QED BY <2>1, <2>2
<1>. QED BY <1>1, <1>2 DEF Sound

LEMMA ArrivesSound ==
  ASSUME Sound, LineArrives
  PROVE  Sound'
<1>1. PICK line \in Arrived : lines' = [lines EXCEPT ![0] = line]
  BY DEF LineArrives
<1>2. line \in Storable
  BY <1>1, PromptAssumption DEF Storable, AnyChar
<1>3. lines' \in [Slots -> Storable]
  BY <1>1, <1>2 DEF Sound
<1>. QED BY <1>3, SlotsAre DEF Sound, LineArrives

(* expand() reads the line up to a NUL of it.                              *)
LEMMA SplitSound ==
  ASSUME Sound, Split
  PROVE  Sound' /\ Expands(expanded', lines[rvalp])
<1>1. rvalp \in Slots /\ lines[rvalp] \in Storable
  BY DEF Sound, Split
<1>2. expanded' = Expand(lines[rvalp])
  BY DEF Split
<1>3. Expands(expanded', lines[rvalp])
  BY <1>1, <1>2, StoredIs, ExpandOf
<1>. QED BY <1>3 DEF Sound, Split, lineVars, Expands

(* Every step keeps Sound.                                                 *)
LEMMA SoundStep == Sound /\ [Next]_vars => Sound'
<1>. SUFFICES ASSUME Sound, [Next]_vars PROVE Sound'
  OBVIOUS
<1>1. CASE Edit
  <2>1. CASE EditGets
    BY <1>1, <2>1, Sizes DEF Edit, EditGets, Sound, ring
  <2>2. CASE PressKey
    BY <1>1, <2>2, PressKeySound DEF Edit
  <2>3. CASE Return
    BY <1>1, <2>3, ReturnSound DEF Edit
  <2>. QED BY <1>1, <2>1, <2>2, <2>3 DEF Edit
<1>2. CASE LineArrives
  BY <1>2, ArrivesSound
<1>3. CASE Split
  BY <1>3, SplitSound
<1>4. CASE Dispatch
  <2>1. NoText \in Results
    <3>1. 0 \in Cells /\ <<>> \in Seq(AnyChar)
      BY Sizes
    <3>. QED BY <3>1, ParsedOf DEF NoText
  <2>. QED BY <1>4, <2>1 DEF Dispatch, Sound, lineVars
<1>5. CASE UNCHANGED vars
  BY <1>5 DEF vars, lineVars, Sound
<1>. QED BY <1>1, <1>2, <1>3, <1>4, <1>5 DEF Next

(* The cursor stays in the line and the line in its array, every line of   *)
(* the ring ends before its last two cells, and expand() stops inside the  *)
(* line it reads.                                                          *)
THEOREM LinesAreSound == Spec => []LinesSound
<1>1. Sound => LinesSound
  <2>. SUFFICES ASSUME Sound PROVE LinesSound
    OBVIOUS
  <2>1. pc = "edit" => 0 <= bufc /\ bufc <= bufp /\ bufp <= LINESIZE - 3
    BY LineIs
  <2>3. ASSUME NEW s \in Slots
        PROVE  Ends(lines[s]) /\ lines[s][LINESIZE - 2] = EndOfString /\ lines[s][LINESIZE - 1] = EndOfString
    <3>1. lines[s] \in Storable
      BY DEF Sound
    <3>. QED BY <3>1, StoredIs, EndIsNul, Sizes DEF Ends
  <2>4. expanded.cp < LINESIZE
    <3>1. expanded.cp \in Cells
      BY ResultOf DEF Sound
    <3>. QED BY <3>1, Sizes
  <2>. QED BY <2>1, <2>3, <2>4 DEF LinesSound
<1>. QED BY <1>1, SoundInit, SoundStep, PTL DEF Spec

-----------------------------------------------------------------------------
(* Only Return hands a line over.                                          *)
LEMMA OnlyReturn ==
  ASSUME Next, Returned
  PROVE  Return
BY DEF Next, Returned, Edit, EditGets, PressKey, Insert, Quote, DeleteAt, DeleteBefore, MoveCursor,
       KillToEnd, Redraw, KillLine, Up, Down, Show, InLine, Key, LineArrives, Split, Dispatch

(* What a Return leaves in the ring, with what it stands for.              *)
LEMMA EnteredIs ==
  ASSUME Sound, Return, Entered # <<>>
  PROVE  /\ ecurrent' = After(ecurrent) /\ ecurrent' \in Slots /\ ecurrent' # ecurrent
         /\ Before(ecurrent') = ecurrent /\ Str(lines'[ecurrent]) = Meant
         /\ Str(lines'[ecurrent']) = <<>>
         /\ \A s \in Slots : s # ecurrent /\ s # ecurrent' => lines'[s] = EndedLines[s]
<1>. DEFINE prev == Before(ecurrent)
            from == IF Again(Entered) THEN prev ELSE current
<1>1. pc = "edit" /\ Remember(EndedLines, from) /\ from \in Slots /\ ecurrent \in Slots /\ current \in Slots
  BY ReturnIs, FromIsSlot DEF Sound
<1>2. EndedLines \in [Slots -> Storable]
  BY <1>1, EndedIs
<1>3. /\ ecurrent' = After(ecurrent) /\ ecurrent' \in Slots /\ ecurrent' # ecurrent
      /\ lines' \in [Slots -> Storable] /\ lines'[ecurrent] = EndedLines[from]
      /\ lines'[ecurrent'][0] = NUL
      /\ \A s \in Slots : s # ecurrent /\ s # ecurrent' => lines'[s] = EndedLines[s]
  <2>. HIDE DEF from
  <2>. QED BY <1>1, <1>2, RememberIs
<1>4. Before(ecurrent') = ecurrent /\ prev \in Slots /\ prev # ecurrent /\ prev # ecurrent'
  BY <1>1, <1>3, SlotsAre
<1>5. Str(lines'[ecurrent']) = <<>>
  BY <1>3, EmptyIs
<1>6. Previous = Str(EndedLines[prev])
  BY <1>3, <1>4 DEF Previous
<1>7. Again(Entered) <=> Entered = BangBang /\ Previous # <<>>
  <2>1. Previous # <<>> <=> EndedLines[prev][0] # NUL
    BY <1>2, <1>4, <1>6, EmptyIs
  <2>2. EndedLines[prev][0] = NUL <=> lines[prev][0] = NUL
    <3>1. CASE prev = current
      <4>1. EndedLines[current][0] # NUL
        BY <1>1, EndedIs
      <4>2. lines[current][0] # NUL
        BY <1>1, EndedIs
      <4>. QED BY <3>1, <4>1, <4>2
    <3>2. CASE prev # current
      BY <1>1, <1>4, <3>2, EndedIs
    <3>. QED BY <3>1, <3>2
  <2>. QED BY <2>1, <2>2, EndIsNul DEF Again, Empty
<1>8. Str(lines'[ecurrent]) = Meant
  <2>1. Str(EndedLines[current]) = Entered
    BY <1>1, EndedIs
  <2>. QED BY <1>3, <1>6, <1>7, <2>1 DEF Meant
<1>. QED BY <1>3, <1>4, <1>5, <1>8

(* A Return adds the line it stands for, up to the first NUL that ^V put   *)
(* into it, to the ring as its newest and loses none but the oldest; a     *)
(* line with nothing before that NUL adds nothing.                         *)
THEOREM WhatIsEnteredIsRemembered == Spec => Remembered
<1>1. ASSUME Sound, Next, Returned
      PROVE  IF Entered = <<>>
             THEN ecurrent' = ecurrent /\ \A s \in Slots \ {current} : lines'[s] = lines[s]
             ELSE /\ Before(ecurrent') = ecurrent /\ Str(lines'[ecurrent]) = Meant
                  /\ \A s \in Slots \ {ecurrent, ecurrent', current} : lines'[s] = lines[s]
                  /\ current \notin {ecurrent, ecurrent'} => Str(lines'[current]) = Entered
  <2>1. Return /\ pc = "edit" /\ current \in Slots
    BY <1>1, OnlyReturn, ReturnIs DEF Sound
  <2>2. CASE Entered = <<>>
    BY <1>1, <2>1, <2>2, ReturnIs, EndedIs
  <2>3. CASE Entered # <<>>
    BY <1>1, <2>1, <2>3, EnteredIs, EndedIs
  <2>. QED BY <2>2, <2>3
<1>2. Sound /\ [Next]_vars =>
        [Returned => IF Entered = <<>>
             THEN ecurrent' = ecurrent /\ \A s \in Slots \ {current} : lines'[s] = lines[s]
             ELSE /\ Before(ecurrent') = ecurrent /\ Str(lines'[ecurrent]) = Meant
                  /\ \A s \in Slots \ {ecurrent, ecurrent', current} : lines'[s] = lines[s]
                  /\ current \notin {ecurrent, ecurrent'} => Str(lines'[current]) = Entered]_vars
  BY <1>1
<1>. QED BY <1>2, SoundInit, SoundStep, PTL DEF Spec, Remembered

(* The command parser gets the line that a Return stands for, up to the    *)
(* first NUL that ^V put into it - except that a recalled line comes out   *)
(* of its own place in the ring, cleared when it was the oldest and with a *)
(* "!!" in it left as typed.                                               *)
THEOREM WhatIsEnteredIsRun == Spec => RunsEntered
<1>1. ASSUME Sound, Next, Returned
      PROVE  Str(lines'[rvalp']) =
               IF current = After(ecurrent) THEN <<>>
               ELSE IF current # ecurrent THEN Entered
               ELSE Meant
  <2>1. Return /\ pc = "edit" /\ rvalp' = current /\ current \in Slots /\ ecurrent \in Slots
    BY <1>1, OnlyReturn, ReturnIs DEF Sound
  <2>2. Str(EndedLines[current]) = Entered
    BY <1>1, <2>1, EndedIs
  <2>3. CASE Entered = <<>>
    <3>1. Str(lines'[rvalp']) = <<>>
      BY <1>1, <2>1, <2>2, <2>3, ReturnIs
    <3>2. Entered # BangBang
      BY <2>3 DEF BangBang
    <3>. QED BY <2>3, <3>1, <3>2 DEF Meant
  <2>4. CASE Entered # <<>>
    <3>1. CASE current = After(ecurrent)
      BY <1>1, <2>1, <2>4, <3>1, EnteredIs
    <3>2. CASE current # After(ecurrent) /\ current # ecurrent
      BY <1>1, <2>1, <2>2, <2>4, <3>2, EnteredIs
    <3>3. CASE current = ecurrent
      BY <1>1, <2>1, <2>4, <3>3, EnteredIs
    <3>. QED BY <3>1, <3>2, <3>3
  <2>. QED BY <2>3, <2>4
<1>2. Sound /\ [Next]_vars =>
        [Returned => Str(lines'[rvalp']) =
                       IF current = After(ecurrent) THEN <<>>
                       ELSE IF current # ecurrent THEN Entered
                       ELSE Meant]_vars
  BY <1>1
<1>. QED BY <1>2, SoundInit, SoundStep, PTL DEF Spec, RunsEntered

-----------------------------------------------------------------------------
(* The characters that mean something to get_word().                       *)
LEMMA SignsAre ==
  /\ NUL \notin Quotes /\ NUL \notin Blanks /\ None \notin Quotes
  /\ \A c \in Blanks : c \notin Quotes
  /\ NUL # None
BY DEF NUL, None, Quotes, Blanks

Open == Quotes \cup {None}
NextMark(q, c) ==
  IF q # None THEN IF c = q THEN None ELSE q
  ELSE IF c \in Quotes THEN c ELSE None

LEMMA NextMarkOf ==
  ASSUME NEW q \in Open, NEW c
  PROVE  NextMark(q, c) \in Open
BY DEF NextMark, Open

(* What OpenMark is, character after character.                            *)
LEMMA OpenMarkIs ==
  ASSUME NEW text \in Seq(AnyChar)
  PROVE  /\ OpenMark(text) \in [0 .. Len(text) -> Open] /\ OpenMark(text)[0] = None
         /\ \A i \in 1 .. Len(text) : OpenMark(text)[i] = NextMark(OpenMark(text)[i - 1], text[i])
<1>. DEFINE n == Len(text)
            F(h) == [i \in 0 .. n |->
                       IF i = 0 THEN None
                       ELSE IF h[i - 1] # None
                         THEN IF text[i] = h[i - 1] THEN None ELSE h[i - 1]
                         ELSE IF text[i] \in Quotes THEN text[i] ELSE None]
            G(h) == [i \in 0 .. n |-> IF i = 0 THEN None ELSE NextMark(h[i - 1], text[i])]
            mark == CHOOSE h : h = F(h)
            turn == [k \in 1 .. n |-> [q \in Open |-> NextMark(q, text[k])]]
<1>0. n \in Nat
  OBVIOUS
<1>1. turn \in [1 .. n -> [Open -> Open]] /\ None \in Open
  BY NextMarkOf DEF Open
<1>2. PICK h : Computes(h, n, Open, None, turn)
  <2>. HIDE DEF turn, n
  <2>. QED BY <1>0, <1>1, RecursionExists
<1>. HIDE DEF n
<1>3. ASSUME NEW k \in 0 .. n
      PROVE  h[k] = IF k = 0 THEN None ELSE NextMark(h[k - 1], text[k])
  <2>1. CASE k = 0
    BY <1>2, <2>1 DEF Computes
  <2>2. CASE k # 0
    <3>1. k \in 1 .. n /\ k - 1 \in 0 .. n
      BY <1>0, <2>2
    <3>2. h[k] = turn[k][h[k - 1]] /\ h[k - 1] \in Open
      BY <1>2, <3>1 DEF Computes
    <3>. QED BY <2>2, <3>1, <3>2
  <2>. QED BY <2>1, <2>2
<1>4. h = G(h)
  <2>. HIDE DEF turn
  <2>. QED BY <1>2, <1>3 DEF Computes
<1>5. \A g : F(g) = G(g)
  BY DEF NextMark
<1>6. mark = G(mark)
  <2>. HIDE DEF F, G
  <2>. QED BY <1>4, <1>5
<1>7. OpenMark(text) = mark
  BY DEF OpenMark, n
<1>. HIDE DEF mark, F
<1>8. mark[0] = None /\ \A i \in 1 .. n : mark[i] = NextMark(mark[i - 1], text[i])
  <2>1. 0 \in 0 .. n /\ \A i \in 1 .. n : i \in 0 .. n /\ i # 0
    BY <1>0
  <2>. QED BY <1>6, <2>1
<1>9. \A k \in 0 .. n : mark[k] \in Open
  <2>. DEFINE S == {k \in 0 .. n : mark[k] \in Open}
  <2>1. 0 \in S
    BY <1>0, <1>1, <1>8
  <2>2. \A k \in 1 .. n : k - 1 \in S => k \in S
    BY <1>8, NextMarkOf
  <2>. HIDE DEF S
  <2>3. \A k \in 0 .. n : k \in S
    BY <1>0, <2>1, <2>2, CountUp
  <2>. QED BY <2>3 DEF S
<1>10. mark \in [0 .. n -> Open]
  BY <1>6, <1>9
<1>. QED BY <1>7, <1>8, <1>10 DEF n

(* C strings.                                                              *)
Strs == {w \in Seq(AnyChar) : \A c \in 1 .. Len(w) : w[c] # NUL}

LEMMA LongerStr ==
  /\ <<>> \in Strs /\ Len(<<>>) = 0
  /\ \A w \in Strs, c \in AnyChar : c # NUL => Append(w, c) \in Strs /\ Len(Append(w, c)) = Len(w) + 1
<1>1. <<>> \in Strs /\ Len(<<>>) = 0
  BY DEF Strs
<1>2. ASSUME NEW w \in Strs, NEW c \in AnyChar, c # NUL
      PROVE  Append(w, c) \in Strs /\ Len(Append(w, c)) = Len(w) + 1
  <2>1. w \in Seq(AnyChar) /\ Len(w) \in Nat /\ \A k \in 1 .. Len(w) : w[k] # NUL
    BY DEF Strs
  <2>. DEFINE v == Append(w, c)
  <2>2. /\ v \in Seq(AnyChar) /\ Len(v) = Len(w) + 1 /\ v[Len(w) + 1] = c
        /\ \A k \in 1 .. Len(w) : v[k] = w[k]
    BY <2>1
  <2>. HIDE DEF v
  <2>3. ASSUME NEW k \in 1 .. Len(v) PROVE v[k] # NUL
    <3>1. k \in 1 .. Len(w) \/ k = Len(w) + 1
      BY <2>1, <2>2
    <3>. QED BY <1>2, <2>1, <2>2, <3>1
  <2>4. v \in Strs
    BY <2>2, <2>3 DEF Strs
  <2>. QED BY <2>2, <2>4 DEF v
<1>. QED BY <1>1, <1>2

(* What is known of a text and its marks.                                  *)
LEMMA TextIs ==
  ASSUME NEW text, Readable(text)
  PROVE  /\ text \in Seq(AnyChar) /\ Len(text) \in Nat /\ Len(text) <= LINESIZE - 2 /\ LINESIZE \in Nat
         /\ \A i \in 1 .. Len(text) : text[i] \in AnyChar /\ text[i] # NUL
         /\ OpenMark(text)[0] = None
         /\ \A i \in 0 .. Len(text) : OpenMark(text)[i] \in Open
         /\ \A i \in 1 .. Len(text) : OpenMark(text)[i] = NextMark(OpenMark(text)[i - 1], text[i])
<1>1. text \in Seq(AnyChar) /\ Len(text) <= LINESIZE - 2 /\ \A i \in 1 .. Len(text) : text[i] # NUL
  BY DEF Readable
<1>2. \A i \in 1 .. Len(text) : text[i] \in AnyChar
  BY <1>1
<1>3. Len(text) \in Nat
  BY <1>1
<1>. QED BY <1>1, <1>2, <1>3, OpenMarkIs, Sizes

LEMMA AtIs ==
  ASSUME NEW text, Readable(text), NEW i \in Nat \ {0}
  PROVE  /\ At(text, i) \in AnyChar
         /\ i \in 1 .. Len(text) => At(text, i) = text[i]
         /\ i > Len(text) => At(text, i) = NUL
<1>1. NUL \in AnyChar
  BY DEF AnyChar
<1>2. Len(text) \in Nat /\ \A k \in 1 .. Len(text) : text[k] \in AnyChar
  BY TextIs
<1>. QED BY <1>1, <1>2 DEF At

(* A blank outside quotation marks leaves none open.                       *)
LEMMA PartIs ==
  ASSUME NEW text, Readable(text), NEW i \in Parts(text)
  PROVE  /\ i \in 1 .. Len(text) /\ text[i] \in Blanks
         /\ OpenMark(text)[i - 1] = None /\ OpenMark(text)[i] = None
<1>1. i \in 1 .. Len(text) /\ text[i] \in Blanks /\ OpenMark(text)[i - 1] = None
  BY DEF Parts, Positions
<1>2. OpenMark(text)[i] = NextMark(None, text[i])
  BY <1>1, TextIs
<1>3. text[i] \notin Quotes
  BY <1>1, SignsAre
<1>. QED BY <1>1, <1>2, <1>3 DEF NextMark

LEMMA FirstIs ==
  ASSUME NEW text, Readable(text), NEW i \in Firsts(text)
  PROVE  /\ i \in 1 .. Len(text) /\ i \notin Parts(text)
         /\ OpenMark(text)[i - 1] = None
<1>1. i \in 1 .. Len(text) /\ i \notin Parts(text) /\ (i = 1 \/ i - 1 \in Parts(text))
  BY DEF Firsts, Positions
<1>2. CASE i = 1
  <2>1. i - 1 = 0
    BY <1>2
  <2>. QED BY <1>1, <2>1, TextIs
<1>3. CASE i - 1 \in Parts(text)
  BY <1>1, <1>3, PartIs
<1>. QED BY <1>1, <1>2, <1>3

LEMMA EndOfIs ==
  ASSUME NEW text, Readable(text), NEW i \in Firsts(text)
  PROVE  /\ EndOf(text, i) \in i + 1 .. Len(text) + 1
         /\ EndOf(text, i) \in Parts(text) \/ EndOf(text, i) = Len(text) + 1
         /\ \A j \in i .. EndOf(text, i) - 1 : j \notin Parts(text)
<1>. DEFINE n == Len(text)
            P == Parts(text)
            S == {j \in i .. n + 1 : j \in P \cup {n + 1}}
            e == EndOf(text, i)
<1>1. n \in Nat /\ i \in 1 .. n /\ i \notin P
  BY FirstIs, TextIs
<1>. HIDE DEF n, P
<1>2. S \subseteq Nat /\ n + 1 \in S
  BY <1>1
<1>3. Least(S) \in S /\ \A j \in S : Least(S) <= j
  <2>. HIDE DEF S
  <2>. QED BY <1>2, LeastWhere
<1>4. e = Least(S)
  BY DEF EndOf, n, P
<1>. HIDE DEF e
<1>5. e \in i .. n + 1 /\ (e \in P \/ e = n + 1)
  BY <1>3, <1>4
<1>6. e # i
  BY <1>1, <1>5
<1>7. ASSUME NEW j \in i .. e - 1 PROVE j \notin P
  <2>1. j \in i .. n + 1 /\ ~(e <= j)
    BY <1>1, <1>5
  <2>. QED BY <1>3, <1>4, <2>1
<1>8. e \in i + 1 .. n + 1
  BY <1>1, <1>5, <1>6
<1>. QED BY <1>5, <1>7, <1>8 DEF e, n, P

(* up is the characters of a word, position by position.                   *)
Spells(up, text, i) ==
  /\ up[i] = <<>>
  /\ \A j \in i + 1 .. EndOf(text, i) :
       up[j] = IF j - 1 \in Marks(text) THEN up[j - 1] ELSE Append(up[j - 1], text[j - 1])
  /\ \A j \in i .. EndOf(text, i) : up[j] \in Strs /\ Len(up[j]) <= j - i

LEMMA CharsAre ==
  ASSUME NEW text, Readable(text), NEW i \in Firsts(text)
  PROVE  \E up : Spells(up, text, i) /\ Chars(text, i) = up[EndOf(text, i)]
<1>. DEFINE e == EndOf(text, i)
            V == Strs
            M == Marks(text)
            F(h) == [j \in i .. e |->
                       IF j = i THEN <<>>
                       ELSE IF j - 1 \in M THEN h[j - 1] ELSE Append(h[j - 1], text[j - 1])]
            up == CHOOSE h : h = F(h)
            d == e - i
            turn == [k \in 1 .. d |-> [w \in V |->
                       IF i + k - 1 \in M THEN w ELSE Append(w, text[i + k - 1])]]
<1>1. /\ i \in Nat /\ e \in i + 1 .. Len(text) + 1 /\ Len(text) \in Nat
      /\ \A j \in i .. e - 1 : j \in 1 .. Len(text) /\ text[j] \in AnyChar /\ text[j] # NUL
  <2>1. e \in i + 1 .. Len(text) + 1 /\ Len(text) \in Nat /\ i \in 1 .. Len(text)
    BY EndOfIs, FirstIs, TextIs
  <2>. HIDE DEF e
  <2>. QED BY <2>1, TextIs
<1>. HIDE DEF e, M
<1>2. d \in Nat /\ \A k \in 1 .. d : text[i + k - 1] \in AnyChar /\ text[i + k - 1] # NUL
  <2>1. \A k \in 1 .. d : i + k - 1 \in i .. e - 1
    BY <1>1
  <2>. QED BY <1>1, <2>1
<1>. HIDE DEF d
<1>3. turn \in [1 .. d -> [V -> V]] /\ <<>> \in V
  <2>. HIDE DEF d
  <2>. QED BY <1>2, LongerStr
<1>4. PICK h : Computes(h, d, V, <<>>, turn)
  <2>. HIDE DEF turn, V
  <2>. QED BY <1>2, <1>3, RecursionExists
<1>. DEFINE g == [j \in i .. e |-> h[j - i]]
<1>5. g = F(g)
  <2>1. ASSUME NEW j \in i .. e
        PROVE  g[j] = IF j = i THEN <<>>
                      ELSE IF j - 1 \in M THEN g[j - 1] ELSE Append(g[j - 1], text[j - 1])
    <3>1. CASE j = i
      <4>1. g[j] = h[0]
        BY <1>1, <3>1
      <4>. QED BY <1>4, <3>1, <4>1 DEF Computes
    <3>2. CASE j # i
      <4>. DEFINE k == j - i
      <4>1. /\ k \in 1 .. d /\ i + k - 1 = j - 1 /\ j - 1 \in i .. e
            /\ g[j] = h[k] /\ g[j - 1] = h[k - 1]
        <5>1. (j - 1) - i = k - 1 /\ j - 1 \in i .. e
          BY <1>1, <3>2
        <5>2. g[j - 1] = h[(j - 1) - i]
          BY <5>1
        <5>. QED BY <1>1, <3>2, <5>1, <5>2 DEF d
      <4>. HIDE DEF k
      <4>2. h[k] = turn[k][h[k - 1]] /\ h[k - 1] \in V
        <5>1. k - 1 \in 0 .. d
          BY <1>2, <4>1
        <5>. HIDE DEF turn, V
        <5>. QED BY <1>4, <4>1, <5>1 DEF Computes
      <4>3. h[k] = IF i + k - 1 \in M THEN h[k - 1] ELSE Append(h[k - 1], text[i + k - 1])
        <5>. HIDE DEF V
        <5>. QED BY <4>1, <4>2
      <4>. HIDE DEF g
      <4>. QED BY <3>2, <4>1, <4>3
    <3>. QED BY <3>1, <3>2
  <2>2. g = [j \in i .. e |-> g[j]]
    OBVIOUS
  <2>. HIDE DEF g
  <2>. QED BY <2>1, <2>2
<1>6. up = F(up)
  <2>. HIDE DEF F, g
  <2>. QED BY <1>5
<1>7. Chars(text, i) = up[e]
  BY DEF Chars, e, M
<1>. HIDE DEF up
<1>8. /\ up[i] = <<>>
      /\ \A j \in i + 1 .. e :
           up[j] = IF j - 1 \in M THEN up[j - 1] ELSE Append(up[j - 1], text[j - 1])
  <2>1. i \in i .. e /\ \A j \in i + 1 .. e : j \in i .. e /\ j # i
    BY <1>1
  <2>. QED BY <1>6, <2>1
<1>. HIDE DEF F
<1>9. \A j \in i .. e : up[j] \in Strs /\ Len(up[j]) <= j - i
  <2>. DEFINE S == {k \in 0 .. d : up[i + k] \in Strs /\ Len(up[i + k]) <= k}
  <2>1. 0 \in S
    <3>1. i + 0 = i /\ 0 \in 0 .. d
      BY <1>1, <1>2
    <3>2. up[i + 0] = <<>>
      BY <1>8, <3>1
    <3>3. up[i + 0] \in Strs /\ Len(up[i + 0]) <= 0
      BY <3>2, LongerStr
    <3>. QED BY <3>1, <3>3
  <2>2. ASSUME NEW k \in 1 .. d, k - 1 \in S PROVE k \in S
    <3>1. i + k \in i + 1 .. e /\ (i + k) - 1 = i + k - 1 /\ i + (k - 1) = i + k - 1 /\ k \in 0 .. d
      BY <1>1, <1>2 DEF d
    <3>2. up[i + k - 1] \in Strs /\ Len(up[i + k - 1]) <= k - 1
      BY <2>2, <3>1
    <3>3. up[i + k] = up[i + k - 1] \/ up[i + k] = Append(up[i + k - 1], text[i + k - 1])
      BY <1>8, <3>1
    <3>4. text[i + k - 1] \in AnyChar /\ text[i + k - 1] # NUL
      BY <1>2
    <3>. DEFINE w == up[i + k - 1]
                c == text[i + k - 1]
                v == up[i + k]
    <3>0. v = w \/ v = Append(w, c)
      BY <3>3
    <3>. HIDE DEF w, c, v
    <3>5. w \in Strs /\ Len(w) \in Nat /\ Append(w, c) \in Strs /\ Len(Append(w, c)) = Len(w) + 1
      <4>1. w \in Strs /\ c \in AnyChar /\ c # NUL
        BY <3>2, <3>4 DEF w, c
      <4>2. Len(w) \in Nat
        BY <4>1 DEF Strs
      <4>. QED BY <4>1, <4>2, LongerStr
    <3>6. up[i + k] \in Strs /\ Len(up[i + k]) <= k
      <4>1. Len(w) <= k - 1
        BY <3>2 DEF w
      <4>2. v \in Strs /\ (Len(v) = Len(w) \/ Len(v) = Len(w) + 1)
        BY <3>0, <3>5
      <4>3. k \in Int /\ Len(w) \in Nat
        BY <3>1, <3>5
      <4>4. Len(v) <= k
        <5>. DEFINE lw == Len(w)
                    lv == Len(v)
        <5>1. lw \in Nat /\ lw <= k - 1 /\ (lv = lw \/ lv = lw + 1)
          BY <4>1, <4>2, <4>3
        <5>. HIDE DEF lw, lv
        <5>2. lv <= k
          BY <4>3, <5>1
        <5>. QED BY <5>2 DEF lv
      <4>. QED BY <4>2, <4>4 DEF v
    <3>. QED BY <3>1, <3>6
  <2>3. \A k \in 1 .. d : k - 1 \in S => k \in S
    BY <2>2
  <2>. HIDE DEF S
  <2>4. \A k \in 0 .. d : k \in S
    BY <1>2, <2>1, <2>3, CountUp
  <2>5. ASSUME NEW j \in i .. e PROVE up[j] \in Strs /\ Len(up[j]) <= j - i
    <3>1. j - i \in 0 .. d /\ i + (j - i) = j
      BY <1>1 DEF d
    <3>2. j - i \in S
      BY <2>4, <3>1
    <3>3. up[i + (j - i)] \in Strs /\ Len(up[i + (j - i)]) <= j - i
      BY <3>2 DEF S
    <3>. QED BY <3>1, <3>3
  <2>. QED BY <2>5
<1>10. Spells(up, text, i)
  BY <1>8, <1>9 DEF Spells, e, M
<1>. QED BY <1>7, <1>10 DEF e

-----------------------------------------------------------------------------
(* The states of get_word()'s loops.                                       *)
Readings == [word : Seq(AnyChar), i : Nat \ {0}, quote : Open]

LEMMA ReadingOf ==
  ASSUME NEW w \in Seq(AnyChar), NEW i \in Nat \ {0}, NEW q \in Open
  PROVE  /\ Reading(w, i, q) \in Readings
         /\ Reading(w, i, q).word = w /\ Reading(w, i, q).i = i /\ Reading(w, i, q).quote = q
BY DEF Reading, Readings

(* Without a mark that is open a turn ends the word or takes a character;  *)
(* with one it closes it, takes a character or stops at the end.           *)
LEMMA ReadPlain ==
  ASSUME NEW text, NEW w, NEW p
  PROVE  ReadTurn(text, Reading(w, p, None)) =
           IF At(text, p) = NUL \/ At(text, p) \in Blanks \/ Len(w) >= LINESIZE - 1
           THEN Reading(w, p, None)
           ELSE IF At(text, p) \in Quotes THEN Reading(w, p + 1, At(text, p))
           ELSE Reading(Append(w, At(text, p)), p + 1, None)
BY DEF ReadTurn, Reading

LEMMA ReadQuoted ==
  ASSUME NEW text, NEW w, NEW p, NEW q, q # None
  PROVE  ReadTurn(text, Reading(w, p, q)) =
           IF At(text, p) = q THEN Reading(w, p + 1, None)
           ELSE IF At(text, p) = NUL \/ Len(w) >= LINESIZE - 2 THEN Reading(w, p, None)
           ELSE Reading(Append(w, At(text, p)), p + 1, q)
BY DEF ReadTurn, Reading

LEMMA ReadTurnOf ==
  ASSUME NEW text, Readable(text), NEW s \in Readings
  PROVE  ReadTurn(text, s) \in Readings
<1>. DEFINE w == s.word
            p == s.i
            q == s.quote
            c == At(text, p)
<1>1. w \in Seq(AnyChar) /\ p \in Nat \ {0} /\ q \in Open /\ s = Reading(w, p, q)
  BY DEF Readings, Reading
<1>. HIDE DEF w, p, q
<1>2. c \in AnyChar
  BY <1>1, AtIs
<1>3. None \in Open /\ (c \in Quotes => c \in Open)
  BY DEF Open
<1>4. \/ ReadTurn(text, s) = Reading(w, p, q)
      \/ ReadTurn(text, s) = Reading(w, p, None)
      \/ ReadTurn(text, s) = Reading(w, p + 1, None)
      \/ ReadTurn(text, s) = Reading(Append(w, c), p + 1, q)
      \/ c \in Quotes /\ ReadTurn(text, s) = Reading(w, p + 1, c)
  <2>1. CASE q = None
    <3>1. ReadTurn(text, Reading(w, p, None)) =
            IF c = NUL \/ c \in Blanks \/ Len(w) >= LINESIZE - 1 THEN Reading(w, p, None)
            ELSE IF c \in Quotes THEN Reading(w, p + 1, c)
            ELSE Reading(Append(w, c), p + 1, None)
      BY ReadPlain
    <3>. HIDE DEF c
    <3>. QED BY <1>1, <2>1, <3>1
  <2>2. CASE q # None
    <3>1. ReadTurn(text, Reading(w, p, q)) =
            IF c = q THEN Reading(w, p + 1, None)
            ELSE IF c = NUL \/ Len(w) >= LINESIZE - 2 THEN Reading(w, p, None)
            ELSE Reading(Append(w, c), p + 1, q)
      BY <2>2, ReadQuoted
    <3>. HIDE DEF c
    <3>. QED BY <1>1, <3>1
  <2>. QED BY <2>1, <2>2
<1>. HIDE DEF c
<1>5. p + 1 \in Nat \ {0} /\ Append(w, c) \in Seq(AnyChar)
  BY <1>1, <1>2
<1>6. /\ Reading(w, p, q) \in Readings /\ Reading(w, p, None) \in Readings
      /\ Reading(w, p + 1, None) \in Readings /\ Reading(Append(w, c), p + 1, q) \in Readings
      /\ (c \in Quotes => Reading(w, p + 1, c) \in Readings)
  <2>. DEFINE next == p + 1
              more == Append(w, c)
  <2>1. next \in Nat \ {0} /\ more \in Seq(AnyChar)
    BY <1>5
  <2>. HIDE DEF next, more
  <2>2. /\ Reading(w, p, q) \in Readings /\ Reading(w, p, None) \in Readings
        /\ Reading(w, next, None) \in Readings /\ Reading(more, next, q) \in Readings
        /\ (c \in Quotes => Reading(w, next, c) \in Readings)
    BY <1>1, <1>3, <2>1, ReadingOf
  <2>. QED BY <2>2 DEF next, more
<1>. QED BY <1>4, <1>6

(* The turns of get_word().                                                *)
TurnsOf(h, text, i) ==
  /\ h[0] = Reading(<<>>, i, None)
  /\ \A k \in 1 .. 2 * LINESIZE : h[k] = ReadTurn(text, h[k - 1])

LEMMA WordFromIs ==
  ASSUME NEW text, Readable(text), NEW i \in Nat \ {0}
  PROVE  \E h : /\ TurnsOf(h, text, i)
                /\ WordFrom(text, i) = [word |-> h[2 * LINESIZE].word,
                                        next |-> SkipBlanks(text, h[2 * LINESIZE].i)]
<1>. DEFINE n == 2 * LINESIZE
            begin == Reading(<<>>, i, None)
            F(h) == [k \in 0 .. n |-> IF k = 0 THEN begin ELSE ReadTurn(text, h[k - 1])]
            after == CHOOSE h : h = F(h)
            turn == [k \in 1 .. n |-> [s \in Readings |-> ReadTurn(text, s)]]
<1>1. n \in Nat
  BY Sizes
<1>2. begin \in Readings
  <2>1. <<>> \in Seq(AnyChar) /\ None \in Open
    BY DEF Open
  <2>. QED BY <2>1, ReadingOf
<1>3. turn \in [1 .. n -> [Readings -> Readings]]
  <2>. HIDE DEF n
  <2>. QED BY ReadTurnOf
<1>4. WordFrom(text, i) = [word |-> after[n].word, next |-> SkipBlanks(text, after[n].i)]
  BY DEF WordFrom
<1>. HIDE DEF n, begin
<1>5. PICK h : Computes(h, n, Readings, begin, turn)
  <2>. HIDE DEF turn
  <2>. QED BY <1>1, <1>2, <1>3, RecursionExists
<1>6. h \in [0 .. n -> Readings] /\ h[0] = begin
  BY <1>5 DEF Computes
<1>7. ASSUME NEW k \in 0 .. n PROVE h[k] = IF k = 0 THEN begin ELSE ReadTurn(text, h[k - 1])
  <2>1. CASE k = 0
    BY <1>6, <2>1
  <2>2. CASE k # 0
    <3>1. k \in 1 .. n /\ k - 1 \in 0 .. n
      BY <1>1, <2>2
    <3>2. h[k] = turn[k][h[k - 1]] /\ h[k - 1] \in Readings
      BY <1>5, <1>6, <3>1 DEF Computes
    <3>. QED BY <2>2, <3>1, <3>2
  <2>. QED BY <2>1, <2>2
<1>8. h = F(h)
  <2>. HIDE DEF turn
  <2>. QED BY <1>6, <1>7
<1>9. after = F(after)
  <2>. HIDE DEF F
  <2>. QED BY <1>8
<1>. HIDE DEF after
<1>10. after[0] = begin /\ \A k \in 1 .. n : after[k] = ReadTurn(text, after[k - 1])
  <2>1. 0 \in 0 .. n /\ \A k \in 1 .. n : k \in 0 .. n /\ k # 0
    BY <1>1
  <2>. QED BY <1>9, <2>1
<1>. HIDE DEF F
<1>11. TurnsOf(after, text, i)
  BY <1>10 DEF TurnsOf, begin, n
<1>. QED BY <1>4, <1>11 DEF n

(* Inside a word a turn takes what the word has at its position.           *)
LEMMA TakesNext ==
  ASSUME NEW text, Readable(text), NEW i \in Firsts(text), NEW up, Spells(up, text, i),
         NEW p \in i .. EndOf(text, i) - 1
  PROVE  ReadTurn(text, Reading(up[p], p, OpenMark(text)[p - 1]))
           = Reading(up[p + 1], p + 1, OpenMark(text)[p])
<1>. DEFINE w == up[p]
            c == text[p]
            q == OpenMark(text)[p - 1]
            r == OpenMark(text)[p]
<1>1. /\ i \in 1 .. Len(text) /\ EndOf(text, i) \in i + 1 .. Len(text) + 1
      /\ p \notin Parts(text) /\ Len(text) \in Nat /\ Len(text) <= LINESIZE - 2 /\ LINESIZE \in Nat
  BY FirstIs, EndOfIs, TextIs
<1>2. p \in 1 .. Len(text) /\ p + 1 \in i + 1 .. EndOf(text, i) /\ (p + 1) - 1 = p
      /\ p \in i .. EndOf(text, i) /\ p - 1 \in 0 .. Len(text)
  BY <1>1
<1>3. At(text, p) = c /\ c # NUL /\ c \in AnyChar /\ r = NextMark(q, c) /\ q \in Open
  BY <1>1, <1>2, AtIs, TextIs
<1>4. w \in Seq(AnyChar) /\ Len(w) <= p - i
  BY <1>2 DEF Spells, Strs
<1>5. up[p + 1] = IF p \in Marks(text) THEN w ELSE Append(w, c)
  BY <1>2 DEF Spells
<1>6. p \in Marks(text) <=> r # q
  BY <1>2 DEF Marks, Positions
<1>7. q = None => c \notin Blanks
  BY <1>1, <1>2 DEF Parts, Positions
<1>8. ~(Len(w) >= LINESIZE - 2) /\ ~(Len(w) >= LINESIZE - 1)
  <2>1. Len(w) \in Nat
    BY <1>4
  <2>. HIDE DEF w
  <2>. QED BY <1>1, <1>2, <1>4, <2>1
<1>. HIDE DEF w, c, q, r
<1>quoted. q # None =>
       ReadTurn(text, Reading(w, p, q)) =
         IF c = q THEN Reading(w, p + 1, None)
         ELSE IF c = NUL \/ Len(w) >= LINESIZE - 2 THEN Reading(w, p, None)
         ELSE Reading(Append(w, c), p + 1, q)
  <2>. DEFINE a == At(text, p)
  <2>1. a = c
    BY <1>3
  <2>2. ASSUME q # None
        PROVE  ReadTurn(text, Reading(w, p, q)) =
                 IF a = q THEN Reading(w, p + 1, None)
                 ELSE IF a = NUL \/ Len(w) >= LINESIZE - 2 THEN Reading(w, p, None)
                 ELSE Reading(Append(w, a), p + 1, q)
    BY <2>2, ReadQuoted
  <2>. HIDE DEF a
  <2>. QED BY <2>1, <2>2
<1>9. CASE q # None /\ c = q
  <2>1. r = None /\ p \in Marks(text)
    BY <1>3, <1>6, <1>9 DEF NextMark
  <2>2. ReadTurn(text, Reading(w, p, q)) = Reading(w, p + 1, None)
    BY <1>9, <1>quoted
  <2>. QED BY <1>5, <2>1, <2>2 DEF w, q, r
<1>10. CASE q # None /\ c # q
  <2>1. r = q /\ p \notin Marks(text)
    BY <1>3, <1>6, <1>10 DEF NextMark
  <2>2. ReadTurn(text, Reading(w, p, q)) = Reading(Append(w, c), p + 1, q)
    BY <1>3, <1>8, <1>10, <1>quoted
  <2>. QED BY <1>5, <2>1, <2>2 DEF w, q, r
<1>11. CASE q = None /\ c \in Quotes
  <2>1. r = c /\ p \in Marks(text)
    BY <1>3, <1>6, <1>11, SignsAre DEF NextMark
  <2>2. ReadTurn(text, Reading(w, p, q)) = Reading(w, p + 1, c)
    BY <1>3, <1>7, <1>8, <1>11, ReadPlain, Zenon
  <2>. QED BY <1>5, <2>1, <2>2 DEF w, q, r
<1>12. CASE q = None /\ c \notin Quotes
  <2>1. r = None /\ p \notin Marks(text)
    BY <1>3, <1>6, <1>12 DEF NextMark
  <2>2. ReadTurn(text, Reading(w, p, q)) = Reading(Append(w, c), p + 1, None)
    BY <1>3, <1>7, <1>8, <1>12, ReadPlain, Zenon
  <2>. QED BY <1>5, <2>1, <2>2 DEF w, q, r
<1>. QED BY <1>9, <1>10, <1>11, <1>12

(* At the end of a word the turns stay, but for a mark left open.          *)
StaysAt(s, text, w, e) ==
  \E q \in Open : s = Reading(w, e, q) /\ (e \in Parts(text) => q = None)

LEMMA StaysThere ==
  ASSUME NEW text, Readable(text), NEW w, NEW e, e \in Parts(text) \/ e = Len(text) + 1,
         NEW s, StaysAt(s, text, w, e)
  PROVE  StaysAt(ReadTurn(text, s), text, w, e)
<1>1. PICK q \in Open : s = Reading(w, e, q) /\ (e \in Parts(text) => q = None)
  BY DEF StaysAt
<1>2. None \in Open
  BY DEF Open
<1>3. CASE e \in Parts(text)
  <2>1. e \in Nat \ {0} /\ e \in 1 .. Len(text) /\ text[e] \in Blanks
    BY <1>3, PartIs, TextIs
  <2>2. At(text, e) \in Blanks
    BY <2>1, AtIs
  <2>3. ReadTurn(text, s) = Reading(w, e, None)
    BY <1>1, <1>3, <2>2, ReadPlain, Zenon
  <2>. QED BY <1>2, <2>3 DEF StaysAt
<1>4. CASE e \notin Parts(text)
  <2>1. e = Len(text) + 1 /\ e \in Nat \ {0} /\ e > Len(text)
    BY <1>4, TextIs
  <2>2. At(text, e) = NUL
    BY <2>1, AtIs
  <2>3. ReadTurn(text, s) = Reading(w, e, None)
    <3>1. CASE q = None
      BY <1>1, <2>2, <3>1, ReadPlain, Zenon
    <3>2. CASE q # None
      <4>1. q # NUL
        BY <3>2, SignsAre DEF Open
      <4>. QED BY <1>1, <2>2, <3>2, <4>1, ReadQuoted, Zenon
    <3>. QED BY <3>1, <3>2
  <2>. QED BY <1>2, <2>3 DEF StaysAt
<1>. QED BY <1>3, <1>4

(* get_word() gets the word that starts there.                             *)
LEMMA WordIs ==
  ASSUME NEW text, Readable(text), NEW i \in Firsts(text)
  PROVE  /\ WordFrom(text, i).word = Chars(text, i)
         /\ WordFrom(text, i).next = SkipBlanks(text, EndOf(text, i))
<1>. DEFINE e == EndOf(text, i)
            mark == OpenMark(text)
            n == 2 * LINESIZE
<1>1. /\ i \in Nat \ {0} /\ Len(text) \in Nat /\ i \in 1 .. Len(text) /\ e \in i + 1 .. Len(text) + 1
      /\ (e \in Parts(text) \/ e = Len(text) + 1) /\ mark[i - 1] = None
      /\ Len(text) <= LINESIZE - 2 /\ LINESIZE \in Nat /\ n \in Nat
  BY FirstIs, EndOfIs, TextIs
<1>2. PICK up : Spells(up, text, i) /\ Chars(text, i) = up[e]
  BY CharsAre
<1>3. PICK h : /\ TurnsOf(h, text, i)
               /\ WordFrom(text, i) = [word |-> h[n].word, next |-> SkipBlanks(text, h[n].i)]
  BY <1>1, WordFromIs
<1>. DEFINE Inside(k) == h[k] = Reading(up[i + k], i + k, mark[i + k - 1])
            There(k) == StaysAt(h[k], text, up[e], e)
            S == {k \in 0 .. n : (k <= e - i => Inside(k)) /\ (k >= e - i => There(k))}
<1>4. ASSUME NEW k \in 0 .. n, k = e - i, Inside(k) PROVE There(k)
  <2>1. i + k = e /\ i + k - 1 = e - 1 /\ e - 1 \in 0 .. Len(text)
    <3>. HIDE DEF e, mark, n
    <3>. QED BY <1>1, <1>4
  <2>2. h[k] = Reading(up[e], e, mark[e - 1])
    BY <1>4, <2>1
  <2>3. mark[e - 1] \in Open /\ (e \in Parts(text) => mark[e - 1] = None)
    BY <2>1, TextIs, PartIs
  <2>. QED BY <2>2, <2>3 DEF StaysAt
<1>5. 0 \in S
  <2>1. i + 0 = i /\ i + 0 - 1 = i - 1 /\ 0 \in 0 .. n /\ ~(0 >= e - i) /\ up[i] = <<>>
    <3>1. up[i] = <<>>
      BY <1>2 DEF Spells
    <3>. HIDE DEF e, mark, n
    <3>. QED BY <1>1, <3>1
  <2>2. h[0] = Reading(<<>>, i, None)
    BY <1>3 DEF TurnsOf
  <2>3. Inside(0)
    BY <1>1, <2>1, <2>2
  <2>. QED BY <2>1, <2>3
<1>6. ASSUME NEW k \in 1 .. n, k - 1 \in S PROVE k \in S
  <2>1. h[k] = ReadTurn(text, h[k - 1]) /\ k \in 0 .. n /\ k - 1 \in 0 .. n
    BY <1>1, <1>3 DEF TurnsOf
  <2>2. ASSUME k <= e - i PROVE Inside(k)
    <3>. DEFINE p == i + k - 1
    <3>1. p \in i .. e - 1 /\ p + 1 = i + k /\ i + (k - 1) = p /\ i + (k - 1) - 1 = p - 1 /\ k - 1 <= e - i
      <4>. HIDE DEF e, mark, n
      <4>. QED BY <1>1, <2>2
    <3>2. h[k - 1] = Reading(up[p], p, mark[p - 1])
      BY <1>6, <3>1
    <3>. HIDE DEF p
    <3>3. h[k] = Reading(up[p + 1], p + 1, mark[p])
      BY <1>2, <2>1, <3>1, <3>2, TakesNext
    <3>. QED BY <3>1, <3>3 DEF p
  <2>3. ASSUME k >= e - i PROVE There(k)
    <3>1. CASE k = e - i
      <4>1. Inside(k)
        <5>1. k <= e - i
          <6>. HIDE DEF e, mark, n
          <6>. QED BY <1>1, <3>1
        <5>. QED BY <2>2, <5>1
      <4>. QED BY <1>4, <2>1, <3>1, <4>1
    <3>2. CASE k # e - i
      <4>1. k - 1 >= e - i
        <5>. HIDE DEF e, mark, n
        <5>. QED BY <1>1, <2>3, <3>2
      <4>2. There(k - 1)
        BY <1>6, <4>1
      <4>. QED BY <1>1, <2>1, <4>2, StaysThere
    <3>. QED BY <3>1, <3>2
  <2>. QED BY <2>1, <2>2, <2>3
<1>7. There(n)
  <2>1. \A k \in 1 .. n : k - 1 \in S => k \in S
    BY <1>6
  <2>. HIDE DEF S
  <2>2. \A k \in 0 .. n : k \in S
    <3>. HIDE DEF n
    <3>. QED BY <1>1, <1>5, <2>1, CountUp
  <2>3. n \in 0 .. n /\ n >= e - i
    <3>1. n = LINESIZE + LINESIZE
      BY <1>1
    <3>. HIDE DEF e, mark, n
    <3>. QED BY <1>1, <3>1
  <2>. QED BY <2>2, <2>3 DEF S
<1>8. h[n].word = up[e] /\ h[n].i = e
  BY <1>7 DEF StaysAt, Reading
<1>9. WordFrom(text, i).word = h[n].word /\ WordFrom(text, i).next = SkipBlanks(text, h[n].i)
  BY <1>3
<1>. QED BY <1>2, <1>8, <1>9

(* At the end of the text there is none.                                   *)
LEMMA NoWord ==
  ASSUME NEW text, Readable(text)
  PROVE  WordFrom(text, Len(text) + 1).word = <<>>
<1>. DEFINE i == Len(text) + 1
            n == 2 * LINESIZE
            begin == Reading(<<>>, i, None)
<1>1. i \in Nat \ {0} /\ i > Len(text) /\ n \in Nat
  BY TextIs
<1>2. At(text, i) = NUL
  BY <1>1, AtIs
<1>. HIDE DEF i
<1>3. PICK h : /\ TurnsOf(h, text, i)
               /\ WordFrom(text, i) = [word |-> h[n].word, next |-> SkipBlanks(text, h[n].i)]
  BY <1>1, WordFromIs
<1>. DEFINE S == {k \in 0 .. n : h[k] = begin}
<1>4. 0 \in S
  BY <1>1, <1>3 DEF TurnsOf
<1>5. ReadTurn(text, begin) = begin
  BY <1>2, ReadPlain, Zenon
<1>6. \A k \in 1 .. n : k - 1 \in S => k \in S
  <2>1. \A k \in 1 .. n : h[k] = ReadTurn(text, h[k - 1]) /\ k \in 0 .. n
    BY <1>1, <1>3 DEF TurnsOf
  <2>. HIDE DEF begin, n
  <2>. QED BY <1>5, <2>1
<1>7. h[n] = begin
  <2>. HIDE DEF S, begin
  <2>1. \A k \in 0 .. n : k \in S
    <3>. HIDE DEF n
    <3>. QED BY <1>1, <1>4, <1>6, CountUp
  <2>2. n \in 0 .. n
    <3>. HIDE DEF n
    <3>. QED BY <1>1
  <2>. QED BY <2>1, <2>2 DEF S
<1>8. h[n].word = <<>>
  BY <1>7 DEF Reading
<1>9. WordFrom(text, i).word = h[n].word
  BY <1>3
<1>. QED BY <1>8, <1>9 DEF i

-----------------------------------------------------------------------------
(* Passing over blanks from a place between words comes to the next word.  *)
LEMMA SkipIs ==
  ASSUME NEW text, Readable(text), NEW i \in 1 .. Len(text) + 1, OpenMark(text)[i - 1] = None,
         i \in {1, Len(text) + 1} \cup Parts(text) \cup Firsts(text)
  PROVE  /\ SkipBlanks(text, i) \in Firsts(text) \cup {Len(text) + 1}
         /\ SkipBlanks(text, i) \in i .. Len(text) + 1
         /\ \A j \in i .. SkipBlanks(text, i) - 1 : j \notin Firsts(text)
<1>. DEFINE n == Len(text)
            mark == OpenMark(text)
            S == {j \in i .. n + 1 : At(text, j) \notin Blanks}
            s == SkipBlanks(text, i)
<1>1. n \in Nat /\ i \in 1 .. n + 1
  BY TextIs
<1>2. S \subseteq Nat /\ n + 1 \in S
  <2>1. At(text, n + 1) = NUL
    BY <1>1, AtIs
  <2>. HIDE DEF n
  <2>. QED BY <1>1, <2>1, SignsAre
<1>3. Least(S) \in S /\ \A j \in S : Least(S) <= j
  <2>. HIDE DEF S
  <2>. QED BY <1>2, LeastWhere
<1>4. s = Least(S)
  BY DEF SkipBlanks
<1>. HIDE DEF s, n, mark
<1>5. s \in i .. n + 1 /\ At(text, s) \notin Blanks
  BY <1>3, <1>4
<1>6. \A j \in i .. s - 1 : j \in 1 .. n /\ text[j] \in Blanks
  <2>1. SUFFICES ASSUME NEW j \in i .. s - 1 PROVE j \in 1 .. n /\ text[j] \in Blanks
    OBVIOUS
  <2>2. j \in i .. n + 1 /\ ~(s <= j) /\ j \in 1 .. n
    BY <1>1, <1>5
  <2>3. At(text, j) \in Blanks
    BY <1>3, <1>4, <2>2
  <2>. QED BY <2>2, <2>3, AtIs DEF n
<1>. DEFINE d == s - i
            T == {k \in 0 .. d : mark[i + k - 1] = None}
<1>7. d \in Nat
  BY <1>1, <1>5
<1>8. 0 \in T
  <2>1. i + 0 - 1 = i - 1 /\ 0 \in 0 .. d
    BY <1>1, <1>7
  <2>. QED BY <2>1 DEF mark
<1>9. \A k \in 1 .. d : k - 1 \in T => k \in T
  <2>1. SUFFICES ASSUME NEW k \in 1 .. d, k - 1 \in T PROVE k \in T
    OBVIOUS
  <2>. DEFINE j == i + k - 1
  <2>2. j \in i .. s - 1 /\ i + (k - 1) - 1 = j - 1 /\ k \in 0 .. d
    BY <1>1, <1>5
  <2>3. mark[j - 1] = None
    BY <2>1, <2>2
  <2>4. j \in 1 .. n /\ text[j] \in Blanks
    BY <1>6, <2>2
  <2>. HIDE DEF j, d
  <2>5. mark[j] = NextMark(None, text[j])
    BY <2>3, <2>4, TextIs DEF mark, n
  <2>6. mark[j] = None
    BY <2>4, <2>5, SignsAre DEF NextMark
  <2>. QED BY <2>2, <2>6 DEF j
<1>10. \A k \in 0 .. d : k \in T
  <2>. HIDE DEF T, d
  <2>. QED BY <1>7, <1>8, <1>9, CountUp
<1>11. \A j \in i .. s : mark[j - 1] = None
  <2>1. SUFFICES ASSUME NEW j \in i .. s PROVE mark[j - 1] = None
    OBVIOUS
  <2>2. j - i \in 0 .. d /\ i + (j - i) - 1 = j - 1
    BY <1>1, <1>5
  <2>3. mark[i + (j - i) - 1] = None
    BY <1>10, <2>2
  <2>. QED BY <2>2, <2>3
<1>12. \A j \in i .. s - 1 : j \in Parts(text)
  <2>1. \A j \in i .. s - 1 : j \in i .. s
    BY <1>1, <1>5
  <2>. QED BY <1>6, <1>11, <2>1 DEF Parts, Positions, n, mark
<1>13. \A j \in i .. s - 1 : j \notin Firsts(text)
  BY <1>12, FirstIs
<1>14. ASSUME s # n + 1 PROVE s \in Firsts(text)
  <2>1. s \in 1 .. n
    BY <1>1, <1>5, <1>14
  <2>2. At(text, s) = text[s]
    BY <2>1, AtIs DEF n
  <2>3. s \notin Parts(text)
    BY <1>5, <2>2, PartIs
  <2>4. CASE s = i
    <3>1. i \notin Parts(text) /\ i # n + 1
      BY <1>14, <2>3, <2>4
    <3>2. CASE i \in Firsts(text)
      BY <2>4, <3>2
    <3>3. CASE i = 1
      BY <2>1, <2>3, <2>4, <3>3 DEF Firsts, Positions, n
    <3>. QED BY <3>1, <3>2, <3>3 DEF n
  <2>5. CASE s # i
    <3>1. s - 1 \in i .. s - 1
      BY <1>1, <1>5, <2>5
    <3>2. s - 1 \in Parts(text)
      BY <1>12, <3>1
    <3>. QED BY <2>1, <2>3, <3>2 DEF Firsts, Positions, n
  <2>. QED BY <2>4, <2>5
<1>. QED BY <1>5, <1>13, <1>14 DEF s, n

(* The words in front of a position.                                       *)
Under(text, i) == {j \in Firsts(text) : j < i}

LEMMA FirstsAre ==
  ASSUME NEW text, Readable(text)
  PROVE  /\ Firsts(text) \subseteq 1 .. Len(text) /\ IsFiniteSet(Firsts(text))
         /\ Cardinality(Firsts(text)) \in Nat
         /\ \A i : IsFiniteSet(Under(text, i)) /\ Rank(text, i) = Cardinality(Under(text, i))
                   /\ Rank(text, i) \in Nat
<1>1. Firsts(text) \subseteq 1 .. Len(text) /\ Len(text) \in Nat
  BY FirstIs, TextIs
<1>2. IsFiniteSet(1 .. Len(text))
  BY <1>1, FS_Interval
<1>3. IsFiniteSet(Firsts(text))
  BY <1>1, <1>2, FS_Subset
<1>4. ASSUME NEW i PROVE IsFiniteSet(Under(text, i)) /\ Rank(text, i) = Cardinality(Under(text, i))
  <2>1. Under(text, i) \in SUBSET Firsts(text)
    BY DEF Under
  <2>2. Rank(text, i) = Cardinality(Under(text, i))
    BY DEF Rank, Under
  <2>. QED BY <1>3, <2>1, <2>2, FS_Subset
<1>. QED BY <1>1, <1>3, <1>4, FS_CardinalityType

LEMMA RankSame ==
  ASSUME NEW text, Readable(text), NEW i \in Nat, NEW f \in Nat, i <= f,
         \A j \in i .. f - 1 : j \notin Firsts(text)
  PROVE  Rank(text, f) = Rank(text, i)
<1>1. Under(text, f) = Under(text, i)
  <2>1. ASSUME NEW j \in Firsts(text) PROVE j < f <=> j < i
    <3>1. j \in Nat
      BY FirstsAre
    <3>2. j \notin i .. f - 1
      BY <2>1
    <3>. QED BY <3>1, <3>2
  <2>. QED BY <2>1 DEF Under
<1>. QED BY <1>1, FirstsAre

LEMMA RankNext ==
  ASSUME NEW text, Readable(text), NEW f \in Firsts(text), NEW g \in Nat, f < g,
         \A j \in f + 1 .. g - 1 : j \notin Firsts(text)
  PROVE  Rank(text, g) = Rank(text, f) + 1
<1>1. Under(text, g) = Under(text, f) \cup {f} /\ f \notin Under(text, f)
  <2>0. f \in Nat
    BY FirstsAre
  <2>1. ASSUME NEW j \in Firsts(text) PROVE j < g <=> j < f \/ j = f
    <3>1. j \in Nat
      BY FirstsAre
    <3>2. j \notin f + 1 .. g - 1
      BY <2>1
    <3>. QED BY <2>0, <3>1, <3>2
  <2>2. ~(f < f)
    BY <2>0
  <2>. QED BY <2>1, <2>2 DEF Under
<1>2. IsFiniteSet(Under(text, f))
  BY FirstsAre
<1>3. Cardinality(Under(text, g)) = Cardinality(Under(text, f)) + 1
  BY <1>1, <1>2, FS_AddElement
<1>. QED BY <1>3, FirstsAre

LEMMA RankGrows ==
  ASSUME NEW text, Readable(text), NEW f \in Firsts(text), NEW g \in Firsts(text), f < g
  PROVE  Rank(text, f) < Rank(text, g)
<1>0. f \in Nat /\ g \in Nat
  BY FirstsAre
<1>1. Under(text, f) \cup {f} \in SUBSET Under(text, g) /\ f \notin Under(text, f)
  <2>1. \A j \in Firsts(text) : j < f => j < g
    BY <1>0, FirstsAre
  <2>2. ~(f < f)
    BY <1>0
  <2>. QED BY <2>1, <2>2 DEF Under
<1>2. IsFiniteSet(Under(text, f)) /\ IsFiniteSet(Under(text, g))
  BY FirstsAre
<1>3. Cardinality(Under(text, f) \cup {f}) = Cardinality(Under(text, f)) + 1
  BY <1>1, <1>2, FS_AddElement
<1>4. Cardinality(Under(text, f) \cup {f}) <= Cardinality(Under(text, g))
  BY <1>1, <1>2, FS_Subset
<1>5. Rank(text, f) + 1 <= Rank(text, g)
  BY <1>3, <1>4, FirstsAre
<1>6. Rank(text, f) \in Nat /\ Rank(text, g) \in Nat
  BY FirstsAre
<1>. QED BY <1>5, <1>6

LEMMA RankEnds ==
  ASSUME NEW text, Readable(text)
  PROVE  /\ Rank(text, 1) = 0
         /\ Rank(text, Len(text) + 1) = Cardinality(Firsts(text))
         /\ \A i : Rank(text, i) <= Cardinality(Firsts(text))
         /\ \A f \in Firsts(text) : Rank(text, f) < Cardinality(Firsts(text))
<1>0. Len(text) \in Nat /\ Firsts(text) \subseteq 1 .. Len(text)
  BY FirstsAre, TextIs
<1>1. Under(text, 1) = {}
  BY <1>0 DEF Under
<1>2. Under(text, Len(text) + 1) = Firsts(text)
  BY <1>0 DEF Under
<1>3. ASSUME NEW i PROVE Rank(text, i) <= Cardinality(Firsts(text))
  <2>1. Under(text, i) \in SUBSET Firsts(text)
    BY DEF Under
  <2>. QED BY <2>1, FirstsAre, FS_Subset
<1>4. ASSUME NEW f \in Firsts(text) PROVE Rank(text, f) < Cardinality(Firsts(text))
  <2>1. Under(text, f) \in SUBSET Firsts(text)
    BY DEF Under
  <2>2. f \notin Under(text, f)
    BY <1>0 DEF Under
  <2>3. Rank(text, f) # Cardinality(Firsts(text))
    <3>1. Under(text, f) # Firsts(text)
      BY <2>2
    <3>. QED BY <2>1, <3>1, FirstsAre, FS_Subset
  <2>4. Rank(text, f) \in Nat /\ Cardinality(Firsts(text)) \in Nat
    BY FirstsAre
  <2>. QED BY <1>3, <2>3, <2>4
<1>. QED BY <1>1, <1>2, <1>3, <1>4, FirstsAre, FS_EmptySet

(* The words of a text, by where they start.                               *)
LEMMA WordsAre ==
  ASSUME NEW text, Readable(text)
  PROVE  /\ WordsOf(text) = [k \in 1 .. Cardinality(Firsts(text)) |-> WordsOf(text)[k]]
         /\ \A f \in Firsts(text) :
              /\ Rank(text, f) + 1 \in 1 .. Cardinality(Firsts(text))
              /\ WordsOf(text)[Rank(text, f) + 1] = Chars(text, f)
<1>. DEFINE N == Cardinality(Firsts(text))
<1>0. N \in Nat
  BY FirstsAre
<1>1. WordsOf(text) = [k \in 1 .. N |->
                         Chars(text, CHOOSE i \in Firsts(text) : Rank(text, i) = k - 1)]
  BY DEF WordsOf
<1>. HIDE DEF N
<1>2. ASSUME NEW f \in Firsts(text)
      PROVE  Rank(text, f) + 1 \in 1 .. N /\ WordsOf(text)[Rank(text, f) + 1] = Chars(text, f)
  <2>. DEFINE r == Rank(text, f)
              g == CHOOSE i \in Firsts(text) : Rank(text, i) = r
  <2>1. r \in Nat /\ r < N
    BY FirstsAre, RankEnds DEF N
  <2>2. g \in Firsts(text) /\ Rank(text, g) = r
    OBVIOUS
  <2>3. g = f
    <3>1. f \in Nat /\ g \in Nat
      BY <2>2, FirstsAre
    <3>2. ~(f < g) /\ ~(g < f)
      BY <2>1, <2>2, RankGrows
    <3>. HIDE DEF g
    <3>. QED BY <3>1, <3>2
  <2>. HIDE DEF r
  <2>4. r + 1 \in 1 .. N /\ (r + 1) - 1 = r
    BY <1>0, <2>1
  <2>5. WordsOf(text)[r + 1] = Chars(text, g)
    BY <1>1, <2>4
  <2>. QED BY <2>3, <2>4, <2>5 DEF r
<1>3. WordsOf(text) = [k \in 1 .. N |-> WordsOf(text)[k]]
  BY <1>1
<1>. QED BY <1>2, <1>3 DEF N

(* From one word get_word() comes to the next.                             *)
LEMMA NextWord ==
  ASSUME NEW text, Readable(text), NEW f \in Firsts(text)
  PROVE  LET g == SkipBlanks(text, EndOf(text, f)) IN
         /\ g \in Firsts(text) \cup {Len(text) + 1}
         /\ g \in f + 1 .. Len(text) + 1 /\ g >= EndOf(text, f)
         /\ EndOf(text, f) <= Len(text) => g > EndOf(text, f)
         /\ Rank(text, g) = Rank(text, f) + 1
<1>. DEFINE e == EndOf(text, f)
            n == Len(text)
            g == SkipBlanks(text, e)
<1>1. /\ f \in 1 .. n /\ n \in Nat /\ e \in f + 1 .. n + 1 /\ (e \in Parts(text) \/ e = n + 1)
      /\ \A j \in f .. e - 1 : j \notin Parts(text)
  BY FirstIs, EndOfIs, TextIs
<1>2. \A j \in f + 1 .. e - 1 : j \notin Firsts(text)
  <2>1. SUFFICES ASSUME NEW j \in f + 1 .. e - 1 PROVE j \notin Firsts(text)
    OBVIOUS
  <2>. HIDE DEF e, n
  <2>2. j - 1 \in f .. e - 1 /\ j # 1
    BY <1>1
  <2>. QED BY <1>1, <2>2 DEF Firsts
<1>3. CASE e \in Parts(text)
  <2>1. e \in 1 .. n /\ text[e] \in Blanks /\ OpenMark(text)[e - 1] = None
    BY <1>3, PartIs
  <2>2. e \in 1 .. Len(text) + 1
    <3>. HIDE DEF e
    <3>. QED BY <1>1, <2>1
  <2>3. /\ g \in Firsts(text) \cup {n + 1} /\ g \in e .. n + 1
        /\ \A j \in e .. g - 1 : j \notin Firsts(text)
    <3>. HIDE DEF e
    <3>. QED BY <1>3, <2>1, <2>2, SkipIs
  <2>4. g # e
    <3>1. CASE g = n + 1
      <4>. HIDE DEF e, n, g
      <4>. QED BY <1>1, <2>1, <3>1
    <3>2. CASE g \in Firsts(text)
      BY <1>3, <3>2, FirstIs
    <3>. QED BY <2>3, <3>1, <3>2
  <2>. HIDE DEF e, n, g
  <2>5. g \in Nat /\ f < g /\ g > e /\ g >= e /\ g \in f + 1 .. n + 1
    BY <1>1, <2>3, <2>4
  <2>6. \A j \in f + 1 .. g - 1 : j \notin Firsts(text)
    <3>1. \A j \in f + 1 .. g - 1 : j \in f + 1 .. e - 1 \/ j \in e .. g - 1
      BY <1>1, <2>5
    <3>. QED BY <1>2, <2>3, <3>1
  <2>7. Rank(text, g) = Rank(text, f) + 1
    BY <2>5, <2>6, RankNext
  <2>. QED BY <2>3, <2>5, <2>7 DEF e, n, g
<1>4. CASE e \notin Parts(text)
  <2>1. e = n + 1
    BY <1>1, <1>4
  <2>2. g = n + 1
    <3>1. SkipBlanks(text, n + 1) = n + 1
      <4>. DEFINE S == {j \in n + 1 .. n + 1 : At(text, j) \notin Blanks}
      <4>1. At(text, n + 1) = NUL
        BY <1>1, AtIs
      <4>2. S = {n + 1}
        <5>. HIDE DEF n
        <5>. QED BY <1>1, <4>1, SignsAre
      <4>3. SkipBlanks(text, n + 1) = Least(S)
        BY DEF SkipBlanks
      <4>. HIDE DEF S, n
      <4>. QED BY <1>1, <4>2, <4>3, LeastWhere
    <3>. QED BY <2>1, <3>1
  <2>. HIDE DEF e, n, g
  <2>3. g \in Nat /\ f < g /\ g >= e /\ g \in f + 1 .. n + 1 /\ g - 1 = e - 1 /\ ~(e <= n)
    BY <1>1, <2>1, <2>2
  <2>4. \A j \in f + 1 .. g - 1 : j \notin Firsts(text)
    BY <1>2, <2>3
  <2>5. Rank(text, g) = Rank(text, f) + 1
    BY <2>3, <2>4, RankNext
  <2>. QED BY <2>2, <2>3, <2>5 DEF e, n, g
<1>. QED BY <1>3, <1>4

-----------------------------------------------------------------------------
(* The string list that arguments are added to, one behind the other.      *)
Bytes == 0 .. STRINGBYTES - 1
Entries == 0 .. MAXSTRINGS - 1
Lists == [strptrs : [Entries -> Int], strcnt : Nat, strp : Nat, strbuf : [Bytes -> AnyChar]]

(* The string w lies at p, below top.                                      *)
Lies(w, p, buf, top) ==
  /\ p \in Nat /\ p + Len(w) < top /\ buf[p + Len(w)] = NUL
  /\ \A c \in 1 .. Len(w) : buf[p + c - 1] = w[c]

Holds(sl, ws) ==
  /\ sl \in Lists /\ ws \in Seq(Strs) /\ Len(ws) < MAXSTRINGS
  /\ sl.strcnt = Len(ws) /\ sl.strp < STRINGBYTES /\ sl.strptrs[Len(ws)] = NULL
  /\ \A k \in 1 .. Len(ws) : Lies(ws[k], sl.strptrs[k - 1], sl.strbuf, sl.strp)

LEMMA LiesIs ==
  ASSUME NEW w \in Strs, NEW p, NEW buf, NEW top \in Nat, top < STRINGBYTES, Lies(w, p, buf, top)
  PROVE  StringAt(buf, p) = w
<1>. DEFINE n == Len(w)
            S == {q \in p .. STRINGBYTES - 1 : buf[q] = NUL}
<1>1. /\ w \in Seq(AnyChar) /\ n \in Nat /\ \A c \in 1 .. n : w[c] # NUL
      /\ p \in Nat /\ p + n < top /\ buf[p + n] = NUL /\ \A c \in 1 .. n : buf[p + c - 1] = w[c]
      /\ STRINGBYTES \in Nat
  BY Sizes DEF Strs, Lies
<1>2. w = [c \in 1 .. n |-> w[c]]
  BY <1>1
<1>. HIDE DEF n
<1>3. S \subseteq Nat /\ p + n \in S
  BY <1>1
<1>4. \A q \in p .. p + n - 1 : buf[q] # NUL
  <2>1. SUFFICES ASSUME NEW q \in p .. p + n - 1 PROVE buf[q] # NUL
    OBVIOUS
  <2>2. q - p + 1 \in 1 .. n /\ p + (q - p + 1) - 1 = q
    BY <1>1
  <2>3. buf[p + (q - p + 1) - 1] # NUL
    BY <1>1, <2>2
  <2>. QED BY <2>2, <2>3
<1>5. Least(S) = p + n
  <2>1. Least(S) \in S /\ Least(S) <= p + n
    <3>. HIDE DEF S
    <3>. QED BY <1>3, LeastWhere
  <2>2. Least(S) \in Nat /\ Least(S) >= p /\ buf[Least(S)] = NUL
    BY <1>3, <2>1
  <2>3. Least(S) \notin p .. p + n - 1
    BY <1>4, <2>2
  <2>. HIDE DEF S
  <2>. QED BY <1>1, <2>1, <2>2, <2>3
<1>6. StringEnd(buf, p) - p = n
  <2>1. StringEnd(buf, p) = p + n
    BY <1>5 DEF StringEnd
  <2>. QED BY <1>1, <2>1
<1>7. StringAt(buf, p) = [c \in 1 .. n |-> buf[p + c - 1]]
  BY <1>6 DEF StringAt
<1>. QED BY <1>1, <1>2, <1>7

LEMMA StringsAre ==
  ASSUME NEW sl, NEW ws, Holds(sl, ws)
  PROVE  Strings(sl) = ws
<1>. DEFINE n == Len(ws)
            S == {i \in 0 .. MAXSTRINGS - 1 : sl.strptrs[i] = NULL}
<1>1. /\ ws \in Seq(Strs) /\ n \in Nat /\ n < MAXSTRINGS /\ MAXSTRINGS \in Nat /\ sl.strptrs[n] = NULL
      /\ sl.strp \in Nat /\ sl.strp < STRINGBYTES
      /\ \A k \in 1 .. n : ws[k] \in Strs /\ Lies(ws[k], sl.strptrs[k - 1], sl.strbuf, sl.strp)
  BY Sizes DEF Holds, Lists
<1>2. ws = [k \in 1 .. n |-> ws[k]]
  BY <1>1
<1>. HIDE DEF n
<1>3. S \subseteq Nat /\ n \in S
  BY <1>1
<1>4. \A i \in 0 .. n - 1 : i \notin S
  <2>1. SUFFICES ASSUME NEW i \in 0 .. n - 1 PROVE sl.strptrs[i] # NULL
    OBVIOUS
  <2>2. i + 1 \in 1 .. n /\ (i + 1) - 1 = i
    BY <1>1
  <2>3. Lies(ws[i + 1], sl.strptrs[(i + 1) - 1], sl.strbuf, sl.strp)
    BY <1>1, <2>2
  <2>4. sl.strptrs[i] \in Nat
    BY <2>2, <2>3 DEF Lies
  <2>. QED BY <2>4 DEF NULL
<1>5. Least(S) = n
  <2>1. Least(S) \in S /\ Least(S) <= n
    <3>. HIDE DEF S
    <3>. QED BY <1>3, LeastWhere
  <2>2. Least(S) \in Nat /\ Least(S) \notin 0 .. n - 1
    BY <1>3, <1>4, <2>1
  <2>. HIDE DEF S
  <2>. QED BY <1>1, <2>1, <2>2
<1>6. Walk(sl) = 0 .. n - 1
  BY <1>5 DEF Walk
<1>7. Cardinality(Walk(sl)) = n
  BY <1>1, <1>6, FS_Interval
<1>8. Strings(sl) = [k \in 1 .. n |-> StringAt(sl.strbuf, sl.strptrs[k - 1])]
  BY <1>7 DEF Strings
<1>9. \A k \in 1 .. n : StringAt(sl.strbuf, sl.strptrs[k - 1]) = ws[k]
  BY <1>1, LiesIs
<1>. QED BY <1>2, <1>8, <1>9

LEMMA NoneHeld ==
  /\ Holds(InitStr(Blank), <<>>) /\ InitStr(Blank).strp = 0
<1>. DEFINE sl == InitStr(Blank)
<1>1. /\ sl = [strptrs |-> sl.strptrs, strcnt |-> 0, strp |-> 0, strbuf |-> sl.strbuf]
      /\ sl.strcnt = 0 /\ sl.strp = 0 /\ sl.strbuf = [i \in Bytes |-> NUL]
      /\ sl.strptrs = [[i \in Entries |-> NULL] EXCEPT ![0] = NULL]
  BY DEF InitStr, Blank, Bytes, Entries
<1>. HIDE DEF sl
<1>2. NULL \in Int /\ NUL \in AnyChar /\ 0 \in Entries /\ MAXSTRINGS > 0 /\ STRINGBYTES > 0
  BY Sizes DEF NULL, AnyChar, Entries
<1>3. sl.strptrs \in [Entries -> Int] /\ sl.strptrs[0] = NULL
  BY <1>1, <1>2
<1>4. sl.strbuf \in [Bytes -> AnyChar]
  BY <1>1, <1>2
<1>5. <<>> \in Seq(Strs) /\ Len(<<>>) = 0
  OBVIOUS
<1>6. sl \in Lists
  BY <1>1, <1>3, <1>4 DEF Lists
<1>7. Holds(sl, <<>>)
  BY <1>1, <1>2, <1>3, <1>5, <1>6 DEF Holds
<1>. QED BY <1>1, <1>7 DEF sl

(* A string that fits is added behind the others.                          *)
LEMMA AddedHolds ==
  ASSUME NEW sl, NEW ws, Holds(sl, ws), NEW w \in Strs, ~TooMany(sl), ~NoRoom(w, sl)
  PROVE  Holds(Added(w, sl), Append(ws, w)) /\ Added(w, sl).strp = sl.strp + Len(w) + 1
<1>. DEFINE n == Len(ws)
            m == Len(w)
            top == sl.strp
            buf == sl.strbuf
            ptr == sl.strptrs
            bug == Added(w, sl).strbuf
            ptu == Added(w, sl).strptrs
            more == Append(ws, w)
<1>1. /\ n \in Nat /\ m \in Nat /\ top \in Nat /\ MAXSTRINGS \in Nat /\ STRINGBYTES \in Nat
      /\ n < MAXSTRINGS - 1 /\ top + m + 1 < STRINGBYTES
      /\ ptr \in [Entries -> Int] /\ buf \in [Bytes -> AnyChar] /\ sl.strcnt = n
      /\ \A k \in 1 .. n : Lies(ws[k], ptr[k - 1], buf, top)
      /\ w \in Seq(AnyChar) /\ \A c \in 1 .. m : w[c] \in AnyChar
      /\ ws \in Seq(Strs)
  BY Sizes DEF Holds, Lists, TooMany, NoRoom, Strs
<1>2. /\ ptu = [ptr EXCEPT ![n] = top, ![n + 1] = NULL]
      /\ Added(w, sl).strcnt = n + 1 /\ Added(w, sl).strp = top + m + 1
  BY <1>1 DEF Added
<1>3. bug = [q \in Bytes |-> IF q - top \in 0 .. m - 1 THEN w[q - top + 1]
                              ELSE IF q = top + m THEN NUL ELSE buf[q]]
  <2>1. DOMAIN buf = Bytes
    BY <1>1
  <2>. QED BY <2>1 DEF Added
<1>. HIDE DEF bug, ptu, buf, ptr
<1>4. more \in Seq(Strs) /\ Len(more) = n + 1 /\ more[n + 1] = w /\ \A k \in 1 .. n : more[k] = ws[k]
  BY <1>1
<1>. HIDE DEF n, m, top, more
<1>5. n \in Entries /\ n + 1 \in Entries /\ n + 1 < MAXSTRINGS /\ NULL \in Int
  BY <1>1 DEF Entries, NULL
<1>6. ptu \in [Entries -> Int] /\ ptu[n + 1] = NULL /\ ptu[n] = top
      /\ \A k \in 1 .. n : ptu[k - 1] = ptr[k - 1]
  <2>1. \A k \in 1 .. n : k - 1 \in Entries /\ k - 1 # n /\ k - 1 # n + 1
    BY <1>1 DEF Entries
  <2>2. n # n + 1 /\ top \in Int
    BY <1>1
  <2>. QED BY <1>1, <1>2, <1>5, <2>1, <2>2
<1>7. bug \in [Bytes -> AnyChar]
  <2>1. ASSUME NEW q \in Bytes PROVE bug[q] \in AnyChar
    <3>1. q \in Int /\ NUL \in AnyChar /\ buf[q] \in AnyChar
      BY <1>1, <2>1 DEF Bytes, AnyChar
    <3>2. ASSUME q - top \in 0 .. m - 1 PROVE w[q - top + 1] \in AnyChar
      <4>1. q - top + 1 \in 1 .. m
        BY <1>1, <3>1, <3>2
      <4>. QED BY <1>1, <4>1
    <3>. QED BY <1>3, <3>1, <3>2
  <2>. QED BY <1>3, <2>1
<1>8. \A q \in 0 .. top - 1 : bug[q] = buf[q]
  <2>1. \A q \in 0 .. top - 1 : q \in Bytes /\ q - top \notin 0 .. m - 1 /\ q # top + m
    BY <1>1 DEF Bytes
  <2>. QED BY <1>3, <2>1
<1>9. ASSUME NEW k \in 1 .. n PROVE Lies(more[k], ptu[k - 1], bug, top + m + 1)
  <2>. DEFINE v == ws[k]
              p == ptr[k - 1]
  <2>0. v \in Seq(AnyChar)
    BY <1>1 DEF Strs, n
  <2>1. more[k] = v /\ ptu[k - 1] = p
    BY <1>4, <1>6
  <2>2. Lies(v, p, buf, top)
    BY <1>1
  <2>. HIDE DEF v, p
  <2>3. p \in Nat /\ Len(v) \in Nat /\ p + Len(v) < top /\ buf[p + Len(v)] = NUL
        /\ \A c \in 1 .. Len(v) : buf[p + c - 1] = v[c]
    BY <2>0, <2>2 DEF Lies
  <2>4. p + Len(v) \in 0 .. top - 1 /\ \A c \in 1 .. Len(v) : p + c - 1 \in 0 .. top - 1
    BY <1>1, <2>3
  <2>5. p + Len(v) < top + m + 1
    BY <1>1, <2>3
  <2>6. Lies(v, p, bug, top + m + 1)
    BY <1>8, <2>3, <2>4, <2>5 DEF Lies
  <2>. QED BY <2>1, <2>6
<1>10. Lies(w, top, bug, top + m + 1)
  <2>1. top + m \in Bytes /\ (top + m) - top \notin 0 .. m - 1
    BY <1>1 DEF Bytes
  <2>2. ASSUME NEW c \in 1 .. m PROVE bug[top + c - 1] = w[c]
    <3>. DEFINE q == top + c - 1
    <3>1. q \in Bytes /\ q - top \in 0 .. m - 1 /\ q - top + 1 = c
      BY <1>1 DEF Bytes
    <3>. HIDE DEF q
    <3>. QED BY <1>3, <3>1 DEF q
  <2>3. bug[top + m] = NUL
    BY <1>3, <2>1
  <2>4. top + m < top + m + 1
    BY <1>1
  <2>. QED BY <1>1, <2>2, <2>3, <2>4 DEF Lies, m
<1>11. ASSUME NEW k \in 1 .. n + 1 PROVE Lies(more[k], ptu[k - 1], bug, top + m + 1)
  <2>1. CASE k \in 1 .. n
    BY <1>9, <2>1
  <2>2. CASE k = n + 1
    <3>1. k - 1 = n
      BY <1>1, <2>2
    <3>. QED BY <1>4, <1>6, <1>10, <2>2, <3>1
  <2>. QED BY <1>1, <2>1, <2>2
<1>12. top + m + 1 \in Nat /\ top + m + 1 < STRINGBYTES
  BY <1>1
<1>13. Holds(Added(w, sl), more)
  <2>. DEFINE till == top + m + 1
              N == n + 1
              al == Added(w, sl)
  <2>1. /\ al = [strptrs |-> ptu, strcnt |-> N, strp |-> till, strbuf |-> bug]
        /\ al.strcnt = N /\ al.strp = till /\ al.strptrs = ptu /\ al.strbuf = bug
        /\ till \in Nat /\ till < STRINGBYTES /\ Len(more) = N /\ N < MAXSTRINGS
        /\ more \in Seq(Strs) /\ ptu \in [Entries -> Int] /\ ptu[N] = NULL
        /\ bug \in [Bytes -> AnyChar]
        /\ \A k \in 1 .. N : Lies(more[k], ptu[k - 1], bug, till)
    BY <1>1, <1>2, <1>4, <1>5, <1>6, <1>7, <1>11, <1>12 DEF ptu, bug, Added
  <2>. HIDE DEF till, N, al
  <2>2. al \in Lists
    BY <1>1, <2>1 DEF Lists
  <2>3. Holds(al, more)
    BY <2>1, <2>2 DEF Holds
  <2>. QED BY <2>3 DEF al
<1>. QED BY <1>2, <1>13 DEF more, top, m

LEMMA NewStrHolds ==
  ASSUME NEW sl, NEW ws, Holds(sl, ws), NEW w \in Strs, ~NoRoom(w, sl)
  PROVE  /\ Len(ws) >= MAXSTRINGS - 1 => NewStr(w, sl) = sl
         /\ Len(ws) < MAXSTRINGS - 1 =>
              Holds(NewStr(w, sl), Append(ws, w)) /\ NewStr(w, sl).strp = sl.strp + Len(w) + 1
<1>1. NewStr(w, sl) = IF TooMany(sl) THEN sl ELSE Added(w, sl)
  BY DEF NewStr
<1>2. TooMany(sl) <=> Len(ws) >= MAXSTRINGS - 1
  BY DEF TooMany, Holds
<1>3. Len(ws) \in Nat /\ MAXSTRINGS \in Nat
  BY Sizes DEF Holds
<1>4. ASSUME Len(ws) < MAXSTRINGS - 1 PROVE ~TooMany(sl)
  BY <1>2, <1>3, <1>4
<1>. QED BY <1>1, <1>2, <1>4, AddedHolds

-----------------------------------------------------------------------------
LEMMA CharsStr ==
  ASSUME NEW text, Readable(text), NEW f \in Firsts(text)
  PROVE  /\ Chars(text, f) \in Strs /\ Len(Chars(text, f)) \in Nat
         /\ Len(Chars(text, f)) <= EndOf(text, f) - f
<1>1. PICK up : Spells(up, text, f) /\ Chars(text, f) = up[EndOf(text, f)]
  BY CharsAre
<1>2. EndOf(text, f) \in f .. EndOf(text, f)
  <2>. DEFINE e == EndOf(text, f)
  <2>1. f \in 1 .. Len(text) /\ e \in f + 1 .. Len(text) + 1 /\ Len(text) \in Nat
    BY FirstIs, EndOfIs, TextIs
  <2>. HIDE DEF e
  <2>2. e \in f .. e
    BY <2>1
  <2>. QED BY <2>2 DEF e
<1>3. Chars(text, f) \in Strs /\ Len(Chars(text, f)) <= EndOf(text, f) - f
  BY <1>1, <1>2 DEF Spells
<1>4. Chars(text, f) \in Seq(AnyChar)
  BY <1>3 DEF Strs
<1>. QED BY <1>3, <1>4

(* How far _argvize() has come: on to the next word, with those so far in  *)
(* the list as long as it has room, or to a word without characters.       *)
Room(k) == IF k < MAXSTRINGS - 1 THEN k ELSE MAXSTRINGS - 1
Front(words, k) == [j \in 1 .. k |-> words[j]]

GoneOn(s, text) ==
  /\ s.i \in {1, Len(text) + 1} \cup Firsts(text) /\ s.argc = Rank(text, s.i)
  /\ \A k \in 1 .. s.argc : WordsOf(text)[k] # <<>>
  /\ Holds(s.argv, Front(WordsOf(text), Room(s.argc)))
  /\ s.i <= Len(text) => s.argv.strp <= s.i - 1

Dropped(s, text) ==
  /\ s.i = Len(text) + 1 /\ s.argc = 0 /\ s.argv \in Lists
  /\ \E k \in 1 .. Cardinality(Firsts(text)) : WordsOf(text)[k] = <<>>

LEMMA FrontNext ==
  ASSUME NEW words, NEW k \in Nat, Front(words, k) \in Seq(Strs), words[k + 1] \in Strs
  PROVE  Len(Front(words, k)) = k /\ Append(Front(words, k), words[k + 1]) = Front(words, k + 1)
<1>. DEFINE u == Front(words, k)
            w == words[k + 1]
            v == Append(u, w)
<1>1. u = [j \in 1 .. k |-> words[j]]
  BY DEF Front
<1>2. Len(u) = k
  BY <1>1
<1>. HIDE DEF u, w
<1>3. v \in Seq(Strs) /\ Len(v) = k + 1 /\ v[k + 1] = w /\ \A j \in 1 .. k : v[j] = u[j]
  BY <1>2 DEF u, w
<1>4. v = [j \in 1 .. k + 1 |-> v[j]]
  <2>. HIDE DEF v
  <2>. QED BY <1>3
<1>. HIDE DEF v
<1>5. \A j \in 1 .. k + 1 : v[j] = words[j]
  <2>1. \A j \in 1 .. k + 1 : j \in 1 .. k \/ j = k + 1
    OBVIOUS
  <2>. QED BY <1>1, <1>3, <2>1 DEF w
<1>6. v = Front(words, k + 1)
  BY <1>4, <1>5 DEF Front
<1>. QED BY <1>2, <1>6 DEF u, v, w

LEMMA RoomOf ==
  ASSUME NEW k \in Nat
  PROVE  /\ Room(k) \in Nat /\ Room(k) <= k
         /\ k < MAXSTRINGS - 1 => Room(k) = k /\ Room(k + 1) = k + 1
         /\ k >= MAXSTRINGS - 1 => Room(k) = MAXSTRINGS - 1 /\ Room(k + 1) = MAXSTRINGS - 1
BY Sizes DEF Room

(* A turn of _argvize(): on to the next word, or to the end.               *)
LEMMA SplitOn ==
  ASSUME NEW text, Readable(text), NEW s, GoneOn(s, text), s.i <= Len(text)
  PROVE  LET t == SplitTurn(text, s) IN
         ((GoneOn(t, text) /\ t.i > s.i) \/ Dropped(t, text)) /\ t.argv \in Lists
<1>. DEFINE i == s.i
            n == Len(text)
            N == Cardinality(Firsts(text))
            f == SkipBlanks(text, i)
            t == SplitTurn(text, s)
            got == WordFrom(text, f)
            words == WordsOf(text)
            r == s.argc
            ws == Front(words, Room(r))
<1>1. /\ i \in {1, n + 1} \cup Firsts(text) /\ r = Rank(text, i) /\ i <= n
      /\ (\A k \in 1 .. r : words[k] # <<>>) /\ Holds(s.argv, ws) /\ s.argv.strp <= i - 1
  BY DEF GoneOn
<1>2. n \in Nat /\ n <= LINESIZE - 2 /\ i \in 1 .. n /\ r \in Nat /\ s.argv \in Lists /\ s.argv.strp \in Nat
  <2>1. n \in Nat /\ n <= LINESIZE - 2
    BY TextIs
  <2>2. i \in 1 .. n
    <3>1. \A j \in Firsts(text) : j \in 1 .. n
      BY FirstIs
    <3>. HIDE DEF i, n
    <3>. QED BY <1>1, <2>1, <3>1
  <2>. QED BY <1>1, <2>1, <2>2, FirstsAre DEF Holds, Lists
<1>3. i \in 1 .. n + 1 /\ OpenMark(text)[i - 1] = None
  <2>1. CASE i = 1
    <3>1. i - 1 = 0
      BY <2>1
    <3>. QED BY <1>2, <3>1, TextIs
  <2>2. CASE i \in Firsts(text)
    BY <1>2, <2>2, FirstIs
  <2>3. i # n + 1
    <3>. HIDE DEF i, n
    <3>. QED BY <1>1, <1>2
  <2>. QED BY <1>1, <2>1, <2>2, <2>3
<1>4. /\ f \in Firsts(text) \cup {n + 1} /\ f \in i .. n + 1
      /\ \A j \in i .. f - 1 : j \notin Firsts(text)
  BY <1>1, <1>3, SkipIs
<1>5. Rank(text, f) = r
  <2>1. i \in Nat /\ f \in Nat /\ i <= f
    <3>. HIDE DEF i, n, f
    <3>. QED BY <1>2, <1>4
  <2>. QED BY <1>1, <1>4, <2>1, RankSame
<1>6. t = IF got.word = <<>> THEN Splitting(n + 1, 0, s.argv)
          ELSE Splitting(got.next, r + 1, NewStr(got.word, s.argv))
  <2>1. ~(i > n)
    <3>. HIDE DEF i, n
    <3>. QED BY <1>2
  <2>. QED BY <2>1 DEF SplitTurn, GetWord
<1>. HIDE DEF t, got, r, i, n, words, f
<1>7. CASE f \notin Firsts(text)
  <2>1. f = n + 1
    BY <1>4, <1>7
  <2>2. got.word = <<>>
    BY <2>1, NoWord DEF got, n
  <2>3. t.i = n + 1 /\ t.argc = 0 /\ t.argv = s.argv
    BY <1>6, <2>2 DEF Splitting
  <2>4. i = 1
    <3>1. i \in i .. f - 1
      BY <1>2, <2>1
    <3>2. i \notin Firsts(text)
      BY <1>4, <3>1
    <3>. QED BY <1>1, <1>2, <3>2
  <2>5. r = 0 /\ Rank(text, n + 1) = 0
    BY <1>1, <1>5, <2>1, <2>4, RankEnds
  <2>6. ~(n + 1 <= n) /\ n + 1 > i /\ (\A k \in 1 .. 0 : words[k] # <<>>)
    BY <1>2
  <2>7. GoneOn(t, text)
    BY <1>1, <2>3, <2>5, <2>6 DEF GoneOn, n, r, words
  <2>. QED BY <1>2, <2>3, <2>6, <2>7 DEF t, i
<1>8. CASE f \in Firsts(text)
  <2>. DEFINE w == Chars(text, f)
              e == EndOf(text, f)
              g == SkipBlanks(text, e)
  <2>1. got.word = w /\ got.next = g
    BY <1>8, WordIs DEF got
  <2>2. r + 1 \in 1 .. N /\ words[r + 1] = w
    BY <1>5, <1>8, WordsAre DEF words
  <2>3. w \in Strs /\ Len(w) \in Nat /\ Len(w) <= e - f
    BY <1>8, CharsStr
  <2>4. /\ g \in Firsts(text) \cup {n + 1} /\ g \in f + 1 .. n + 1 /\ g >= e
        /\ (e <= n => g > e) /\ Rank(text, g) = r + 1
    BY <1>5, <1>8, NextWord DEF n
  <2>5. e \in f + 1 .. n + 1
    BY <1>8, EndOfIs DEF n
  <2>. HIDE DEF w, e, g, N
  <2>6. CASE w = <<>>
    <3>1. t.i = n + 1 /\ t.argc = 0 /\ t.argv = s.argv
      BY <1>6, <2>1, <2>6 DEF Splitting
    <3>2. Dropped(t, text)
      BY <1>2, <2>2, <2>6, <3>1 DEF Dropped, n, words, N
    <3>. QED BY <1>2, <3>1, <3>2 DEF t
  <2>7. CASE w # <<>>
    <3>. DEFINE sl == NewStr(w, s.argv)
    <3>1. t.i = g /\ t.argc = r + 1 /\ t.argv = sl
      BY <1>6, <2>1, <2>7 DEF Splitting
    <3>2. s.argv.strp + Len(w) + 1 <= e /\ e <= STRINGBYTES - 1 /\ g > i /\ (g <= n => e <= g - 1)
      <4>. DEFINE lw == Len(w)
                  strp == s.argv.strp
      <4>1. lw \in Nat /\ lw <= e - f /\ strp \in Nat /\ strp <= i - 1
        BY <1>1, <1>2, <2>3
      <4>. HIDE DEF lw, strp
      <4>2. i \in Nat /\ f \in Nat /\ f >= i /\ e \in Nat /\ e <= n + 1 /\ g \in Nat /\ g > f
        BY <1>2, <1>4, <2>4, <2>5
      <4>3. strp + lw + 1 <= e
        BY <4>1, <4>2
      <4>4. e <= STRINGBYTES - 1
        BY <1>2, <4>2, Sizes
      <4>5. g > i
        BY <4>2
      <4>6. g <= n => e <= g - 1
        BY <1>2, <2>4, <4>2
      <4>. QED BY <4>3, <4>4, <4>5, <4>6 DEF lw, strp
    <3>3. ~NoRoom(w, s.argv)
      <4>. DEFINE used == s.argv.strp + Len(w) + 1
      <4>1. used \in Nat /\ used <= e
        BY <1>2, <2>3, <3>2
      <4>2. e \in Int /\ STRINGBYTES \in Int
        BY <1>2, <1>4, <2>5, Sizes
      <4>. HIDE DEF used
      <4>3. ~(used >= STRINGBYTES)
        BY <3>2, <4>1, <4>2
      <4>. QED BY <4>3 DEF NoRoom, used
    <3>4. \A k \in 1 .. r + 1 : words[k] # <<>>
      <4>1. \A k \in 1 .. r + 1 : k \in 1 .. r \/ k = r + 1
        BY <1>2
      <4>. QED BY <1>1, <2>2, <2>7, <4>1
    <3>5. Holds(sl, Front(words, Room(r + 1))) /\ (g <= n => sl.strp <= g - 1)
      <4>0. ws \in Seq(Strs)
        BY <1>1 DEF Holds
      <4>1. CASE r < MAXSTRINGS - 1
        <5>1. Room(r) = r /\ Room(r + 1) = r + 1
          BY <1>2, <4>1, RoomOf
        <5>2. ws = Front(words, r)
          BY <5>1
        <5>3. Len(ws) = r /\ Append(ws, w) = Front(words, r + 1)
          BY <1>2, <2>2, <2>3, <4>0, <5>2, FrontNext
        <5>. HIDE DEF ws, sl
        <5>4. Holds(sl, Append(ws, w)) /\ sl.strp = s.argv.strp + Len(w) + 1
          BY <1>1, <2>3, <3>3, <4>1, <5>3, NewStrHolds DEF sl
        <5>5. sl.strp <= e /\ sl.strp \in Int /\ e \in Int /\ g \in Int
          BY <1>2, <1>4, <2>3, <2>4, <2>5, <3>2, <5>4
        <5>6. g <= n => sl.strp <= g - 1
          BY <3>2, <5>5
        <5>. QED BY <5>1, <5>3, <5>4, <5>6
      <4>2. CASE ~(r < MAXSTRINGS - 1)
        <5>1. Room(r) = MAXSTRINGS - 1 /\ Room(r + 1) = MAXSTRINGS - 1 /\ MAXSTRINGS - 1 \in Nat
          BY <1>2, <4>2, RoomOf, Sizes
        <5>2. Len(ws) = MAXSTRINGS - 1
          BY <5>1 DEF Front
        <5>. HIDE DEF ws, sl
        <5>3. Len(ws) >= MAXSTRINGS - 1
          BY <5>1, <5>2
        <5>4. sl = s.argv
          BY <1>1, <2>3, <3>3, <5>3, NewStrHolds DEF sl
        <5>5. g <= n => s.argv.strp <= g - 1
          <6>. DEFINE strp == s.argv.strp
          <6>1. strp \in Nat /\ strp <= i - 1
            BY <1>1, <1>2
          <6>. HIDE DEF strp
          <6>2. i \in Int /\ g \in Int
            BY <1>2, <1>4, <2>4
          <6>3. strp <= g - 1
            BY <3>2, <6>1, <6>2
          <6>. QED BY <6>3 DEF strp
        <5>6. Front(words, Room(r + 1)) = ws
          BY <5>1 DEF ws
        <5>. QED BY <1>1, <5>4, <5>5, <5>6
      <4>. QED BY <4>1, <4>2
    <3>. HIDE DEF sl
    <3>6. GoneOn(t, text)
      BY <2>4, <3>1, <3>4, <3>5 DEF GoneOn, words, n
    <3>. QED BY <3>1, <3>2, <3>5, <3>6 DEF t, i, Holds
  <2>. QED BY <2>6, <2>7
<1>. QED BY <1>7, <1>8

(* What the turns of _argvize() go through.                                *)
Splittings(text) ==
  {s \in [i : Nat, argc : Nat, argv : Lists] : GoneOn(s, text) \/ Dropped(s, text)}

LEMMA SplitTurnOf ==
  ASSUME NEW text, Readable(text), NEW s \in Splittings(text)
  PROVE  /\ SplitTurn(text, s) \in Splittings(text)
         /\ SplitTurn(text, s).i > s.i \/ SplitTurn(text, s).i = Len(text) + 1
<1>. DEFINE n == Len(text)
            t == SplitTurn(text, s)
<1>1. n \in Nat /\ s.i \in Nat /\ (GoneOn(s, text) \/ Dropped(s, text))
  BY TextIs DEF Splittings
<1>2. CASE s.i > n
  <2>1. t = s
    BY <1>2 DEF SplitTurn
  <2>2. s.i = n + 1
    <3>1. \A j \in Firsts(text) : j \in 1 .. n
      BY FirstIs
    <3>2. s.i \in {1, n + 1} \cup Firsts(text)
      BY <1>1 DEF GoneOn, Dropped
    <3>. DEFINE i == s.i
    <3>3. i \in Nat /\ i > n /\ i \in {1, n + 1} \cup Firsts(text)
      BY <1>1, <1>2, <3>2
    <3>. HIDE DEF i, n
    <3>4. i = n + 1
      BY <1>1, <3>1, <3>3
    <3>. QED BY <3>4 DEF i
  <2>. QED BY <2>1, <2>2
<1>3. CASE ~(s.i > n)
  <2>1. s.i <= n
    <3>. DEFINE i == s.i
    <3>1. i \in Nat /\ ~(i > n)
      BY <1>1, <1>3
    <3>. HIDE DEF i, n
    <3>2. i <= n
      BY <1>1, <3>1
    <3>. QED BY <3>2 DEF i
  <2>2. GoneOn(s, text)
    <3>1. s.i # n + 1
      <4>. HIDE DEF n
      <4>. QED BY <1>1, <2>1
    <3>. QED BY <1>1, <3>1 DEF Dropped
  <2>3. ((GoneOn(t, text) /\ t.i > s.i) \/ Dropped(t, text)) /\ t.argv \in Lists
    BY <2>1, <2>2, SplitOn
  <2>4. t.i \in Nat /\ t.argc \in Nat
    <3>1. CASE Dropped(t, text)
      BY <1>1, <3>1 DEF Dropped
    <3>2. CASE GoneOn(t, text)
      <4>1. t.i \in {1, n + 1} \cup Firsts(text) /\ t.argc = Rank(text, t.i)
        BY <3>2 DEF GoneOn
      <4>2. Firsts(text) \subseteq Nat /\ 1 \in Nat /\ n + 1 \in Nat
        BY <1>1, FirstsAre
      <4>. QED BY <4>1, <4>2, FirstsAre
    <3>. QED BY <2>3, <3>1, <3>2
  <2>5. t = [i |-> t.i, argc |-> t.argc, argv |-> t.argv]
    BY <1>3 DEF SplitTurn, Splitting
  <2>. HIDE DEF t, n
  <2>6. t \in Splittings(text)
    BY <2>3, <2>4, <2>5 DEF Splittings
  <2>7. t.i > s.i \/ t.i = n + 1
    BY <2>3 DEF Dropped, n
  <2>. QED BY <2>6, <2>7 DEF t, n
<1>. QED BY <1>2, <1>3

LEMMA SplitBegins ==
  ASSUME NEW text, Readable(text)
  PROVE  Splitting(1, 0, InitStr(Blank)) \in Splittings(text)
<1>. DEFINE al == InitStr(Blank)
            s == Splitting(1, 0, al)
            words == WordsOf(text)
<1>1. Holds(al, <<>>) /\ al.strp = 0
  BY NoneHeld
<1>. HIDE DEF al, words
<1>2. s = [i |-> 1, argc |-> 0, argv |-> al] /\ s.i = 1 /\ s.argc = 0 /\ s.argv = al
  BY DEF Splitting
<1>. HIDE DEF s
<1>3. Front(words, Room(0)) = <<>>
  <2>1. Room(0) = 0
    BY RoomOf
  <2>2. [j \in 1 .. 0 |-> words[j]] = <<>>
    OBVIOUS
  <2>. QED BY <2>1, <2>2 DEF Front
<1>4. Rank(text, 1) = 0
  BY RankEnds
<1>5. al \in Lists
  BY <1>1 DEF Holds
<1>6. GoneOn(s, text)
  <2>1. \A k \in 1 .. 0 : words[k] # <<>>
    OBVIOUS
  <2>2. al.strp <= 1 - 1
    BY <1>1
  <2>. QED BY <1>1, <1>2, <1>3, <1>4, <2>1, <2>2 DEF GoneOn, words
<1>. QED BY <1>2, <1>5, <1>6 DEF Splittings, s, al

(* The loop of _argvize() comes to the end of the text.                    *)
LEMMA ArgvizeIs ==
  ASSUME NEW text, Readable(text)
  PROVE  \E s \in Splittings(text) :
           s.i = Len(text) + 1 /\ Argvize(text) = [argc |-> s.argc, argv |-> s.argv]
<1>. DEFINE n == Len(text)
            V == Splittings(text)
            begin == Splitting(1, 0, InitStr(Blank))
            F(h) == [k \in 0 .. n |-> IF k = 0 THEN begin ELSE SplitTurn(text, h[k - 1])]
            after == CHOOSE h : h = F(h)
            turn == [k \in 1 .. n |-> [s \in V |-> SplitTurn(text, s)]]
<1>1. n \in Nat
  BY TextIs
<1>2. begin \in V /\ begin.i = 1
  BY SplitBegins DEF Splitting
<1>3. turn \in [1 .. n -> [V -> V]]
  <2>. HIDE DEF n, V
  <2>. QED BY SplitTurnOf DEF V
<1>4. Argvize(text) = [argc |-> after[n].argc, argv |-> after[n].argv]
  BY DEF Argvize
<1>. HIDE DEF n, begin, V
<1>5. PICK h : Computes(h, n, V, begin, turn)
  <2>. HIDE DEF turn
  <2>. QED BY <1>1, <1>2, <1>3, RecursionExists
<1>6. h \in [0 .. n -> V] /\ h[0] = begin
  BY <1>5 DEF Computes
<1>7. ASSUME NEW k \in 0 .. n PROVE h[k] = IF k = 0 THEN begin ELSE SplitTurn(text, h[k - 1])
  <2>1. CASE k = 0
    BY <1>6, <2>1
  <2>2. CASE k # 0
    <3>1. k \in 1 .. n /\ k - 1 \in 0 .. n
      BY <1>1, <2>2
    <3>2. h[k] = turn[k][h[k - 1]] /\ h[k - 1] \in V
      BY <1>5, <1>6, <3>1 DEF Computes
    <3>. QED BY <2>2, <3>1, <3>2
  <2>. QED BY <2>1, <2>2
<1>8. h = F(h)
  <2>. HIDE DEF turn
  <2>. QED BY <1>6, <1>7
<1>9. after = F(after)
  <2>. HIDE DEF F
  <2>. QED BY <1>8
<1>. HIDE DEF after
<1>10. after[0] = begin /\ \A k \in 1 .. n : after[k] = SplitTurn(text, after[k - 1])
  <2>1. 0 \in 0 .. n /\ \A k \in 1 .. n : k \in 0 .. n /\ k # 0
    BY <1>1
  <2>. QED BY <1>9, <2>1
<1>. HIDE DEF F
<1>. DEFINE S == {k \in 0 .. n : after[k] \in V /\ (after[k].i >= k + 1 \/ after[k].i = n + 1)}
<1>11. 0 \in S
  BY <1>1, <1>2, <1>10
<1>12. ASSUME NEW k \in 1 .. n, k - 1 \in S PROVE k \in S
  <2>. DEFINE s == after[k - 1]
              t == after[k]
  <2>1. s \in V /\ (s.i >= (k - 1) + 1 \/ s.i = n + 1) /\ t = SplitTurn(text, s) /\ k \in 0 .. n
    BY <1>1, <1>10, <1>12
  <2>. HIDE DEF s, t
  <2>2. t \in V /\ (t.i > s.i \/ t.i = n + 1)
    BY <2>1, SplitTurnOf DEF V, n
  <2>. DEFINE si == s.i
              ti == t.i
  <2>3. si \in Nat /\ ti \in Nat
    BY <2>1, <2>2 DEF V, Splittings
  <2>4. ti <= n + 1
    <3>1. t.i \in {1, n + 1} \cup Firsts(text)
      BY <2>2 DEF V, Splittings, GoneOn, Dropped, n
    <3>2. \A j \in Firsts(text) : j \in 1 .. n
      BY FirstIs DEF n
    <3>3. ti \in {1, n + 1} \cup Firsts(text)
      BY <3>1
    <3>. HIDE DEF ti
    <3>. QED BY <1>1, <3>2, <3>3
  <2>5. (si >= (k - 1) + 1 \/ si = n + 1) /\ (ti > si \/ ti = n + 1)
    BY <2>1, <2>2
  <2>. HIDE DEF si, ti
  <2>6. ti >= k + 1 \/ ti = n + 1
    BY <1>1, <2>3, <2>4, <2>5
  <2>. QED BY <2>1, <2>2, <2>6 DEF t, ti
<1>13. n \in S
  <2>1. \A k \in 1 .. n : k - 1 \in S => k \in S
    BY <1>12
  <2>. HIDE DEF S
  <2>2. \A k \in 0 .. n : k \in S
    BY <1>1, <1>11, <2>1, CountUp
  <2>. QED BY <1>1, <2>2
<1>. DEFINE last == after[n]
<1>14. last \in V /\ (last.i >= n + 1 \/ last.i = n + 1)
  BY <1>13
<1>. HIDE DEF last, S
<1>15. last.i = n + 1
  <2>1. last.i \in {1, n + 1} \cup Firsts(text)
    BY <1>14 DEF V, Splittings, GoneOn, Dropped, n
  <2>2. \A j \in Firsts(text) : j \in 1 .. n
    BY FirstIs DEF n
  <2>. DEFINE i == last.i
  <2>3. i \in {1, n + 1} \cup Firsts(text) /\ (i >= n + 1 \/ i = n + 1)
    BY <1>14, <2>1
  <2>. HIDE DEF i
  <2>4. i = n + 1
    BY <1>1, <2>2, <2>3
  <2>. QED BY <2>4 DEF i
<1>. QED BY <1>4, <1>14, <1>15 DEF V, n, last

(* What ArgvRight says of a text and of what _argvize() makes of it.       *)
SplitRight(text, av) ==
  LET words == WordsOf(text)
      held == Strings(av.argv) IN
  IF \E k \in DOMAIN words : words[k] = <<>> THEN av.argc = 0
  ELSE /\ av.argc = Len(words)
       /\ Len(held) <= Len(words)
       /\ Len(words) < MAXSTRINGS => held = words
       /\ held = SubSeq(words, 1, Len(held))

LEMMA ArgvizeRight ==
  ASSUME NEW text, Readable(text)
  PROVE  SplitRight(text, Argvize(text))
<1>. DEFINE words == WordsOf(text)
            N == Cardinality(Firsts(text))
            av == Argvize(text)
            held == Strings(av.argv)
<1>1. PICK s \in Splittings(text) : s.i = Len(text) + 1 /\ av = [argc |-> s.argc, argv |-> s.argv]
  BY ArgvizeIs
<1>2. av.argc = s.argc /\ av.argv = s.argv
  BY <1>1
<1>3. words = [k \in 1 .. N |-> words[k]] /\ N \in Nat
  BY WordsAre, FirstsAre
<1>4. DOMAIN words = 1 .. N /\ Len(words) = N
  <2>. HIDE DEF words, N
  <2>. QED BY <1>3
<1>5. CASE Dropped(s, text)
  <2>1. s.argc = 0 /\ \E k \in 1 .. N : words[k] = <<>>
    BY <1>5 DEF Dropped
  <2>2. \E k \in DOMAIN words : words[k] = <<>>
    BY <1>4, <2>1
  <2>3. av.argc = 0
    BY <1>2, <2>1
  <2>. QED BY <2>2, <2>3 DEF SplitRight
<1>6. CASE GoneOn(s, text)
  <2>1. s.argc = N /\ (\A k \in 1 .. N : words[k] # <<>>) /\ Holds(s.argv, Front(words, Room(N)))
    <3>1. s.argc = N
      BY <1>1, <1>6, RankEnds DEF GoneOn
    <3>. QED BY <1>6, <3>1 DEF GoneOn
  <2>2. held = Front(words, Room(N))
    BY <1>2, <2>1, StringsAre
  <2>3. Room(N) \in Nat /\ Room(N) <= N /\ (N < MAXSTRINGS => Room(N) = N)
    <3>. HIDE DEF N
    <3>. QED BY <1>3, Sizes DEF Room
  <2>4. av.argc = N
    BY <1>2, <2>1
  <2>. HIDE DEF words, N, held, av
  <2>. DEFINE m == Room(N)
  <2>5. m \in Nat /\ m <= N /\ held = [j \in 1 .. m |-> words[j]] /\ (N < MAXSTRINGS => m = N)
    BY <2>2, <2>3 DEF Front
  <2>. HIDE DEF m
  <2>6. Len(held) = m
    BY <2>5
  <2>7. N < MAXSTRINGS => held = words
    BY <1>3, <2>5
  <2>8. SubSeq(words, 1, m) = [j \in 1 .. m |-> words[j]]
    BY <1>3, <1>4, <2>5
  <2>9. ~ \E k \in DOMAIN words : words[k] = <<>>
    BY <1>4, <2>1
  <2>10. /\ av.argc = Len(words) /\ Len(held) <= Len(words)
         /\ (Len(words) < MAXSTRINGS => held = words)
         /\ held = SubSeq(words, 1, Len(held))
    BY <1>4, <2>4, <2>5, <2>6, <2>7, <2>8
  <2>. QED BY <2>9, <2>10 DEF SplitRight, words, av, held
<1>. QED BY <1>1, <1>5, <1>6 DEF Splittings

(* The words a command gets are those of the line it was expanded to, in   *)
(* order, however many there are: _argvize() counts them all, hands over   *)
(* as many as its string list takes, and drops a line with an empty word.  *)
THEOREM ArgvIsRight == Spec => []ArgvRight
<1>. DEFINE Right == pc = "argv" /\ expanded.ok => SplitRight(expanded.text, argv)
<1>1. Right <=> ArgvRight
  BY DEF ArgvRight, SplitRight
<1>2. Init => Right
  BY DEF Init
<1>3. Sound /\ Right /\ [Next]_vars => Right'
  <2>. SUFFICES ASSUME Sound, Right, [Next]_vars, pc' = "argv", expanded'.ok
       PROVE  SplitRight(expanded'.text, argv')
    OBVIOUS
  <2>1. CASE Edit
    BY <2>1 DEF Edit, EditGets, PressKey, Return, Insert, Quote, DeleteAt, DeleteBefore, MoveCursor,
                KillToEnd, Redraw, KillLine, Up, Down, Show, InLine, Key
  <2>2. CASE LineArrives
    BY <2>2 DEF LineArrives
  <2>3. CASE Split
    <3>1. Readable(expanded'.text)
      BY <2>3, SplitSound DEF Expands
    <3>2. argv' = Argvize(expanded'.text)
      BY <2>3 DEF Split
    <3>. QED BY <3>1, <3>2, ArgvizeRight
  <2>4. CASE Dispatch
    BY <2>4 DEF Dispatch
  <2>5. CASE UNCHANGED vars
    BY <2>5 DEF vars
  <2>. QED BY <2>1, <2>2, <2>3, <2>4, <2>5 DEF Next
<1>. HIDE DEF Right
<1>. QED BY <1>1, <1>2, <1>3, SoundInit, SoundStep, PTL DEF Spec
=============================================================================
