----------------------------- MODULE CommandLine ------------------------------
(***************************************************************************)
(* From a line to an argument vector: expand() of libsc/lib/expand.c and   *)
(* _argvize() of libsc/lib/parser.c, over the string lists of StringList.  *)
(*                                                                         *)
(* A line is memory: the characters at the offsets from its start on, for  *)
(* a backslash takes the loops of expand() past the NUL that ends it.      *)
(* Text that was written may then hold a NUL, and counts up to it.         *)
(***************************************************************************)
EXTENDS StringList

CONSTANTS
  BUFSIZE,       (* LINESIZE, the size of the static buffers               *)
  Env            (* what getenv() finds: values by name                    *)

Blanks == {" "}
Quotes == {"'", "\""}
AlNum  == {"a", "v"}

Mem(m, i) == IF i \in DOMAIN m THEN m[i] ELSE NUL
EndedAt(m, end) == [i \in DOMAIN m |-> IF i < end THEN m[i] ELSE NUL]

CString(text) ==
  SubSeq(text, 1, Least({i \in 0 .. Len(text) : i < Len(text) => text[i + 1] = NUL}))

(* Text copied to the end of a buffer as long as its last cell is free.    *)
Put(buf, text) ==
  LET room == BUFSIZE - 1 - Len(buf)
      fits == Least({Len(text), IF room > 0 THEN room ELSE 0}) IN
  buf \o SubSeq(text, 1, fits)

(* Each function answers with the offset it came to; parse_error() does    *)
(* not come back.                                                          *)
Parsed(text, cp)  == [ok |-> TRUE, text |-> text, cp |-> cp]
ParseError(cp) == [ok |-> FALSE, text |-> <<>>, cp |-> cp]

(* What is quoted from the mark at cp on: the loop comes to the k-th       *)
(* character behind the mark unless a backslash it came to is in front of  *)
(* it, and ends at a closing mark or a NUL.                                *)
GetQuote(m, cp, q) ==
  LET comesTo[k \in 0 .. BUFSIZE] ==
        k = 0 \/ ~(comesTo[k - 1] /\ Mem(m, cp + k - 1) = "\\")
      end == Least({k \in 1 .. BUFSIZE : comesTo[k] /\ Mem(m, cp + k) \in {q, NUL}})
  IN IF Mem(m, cp + end) = q
     THEN Parsed([i \in 1 .. end - 1 |-> Mem(m, cp + i)], cp + end + 1)
     ELSE ParseError(cp + end)

GetVar(m, cp) ==
  IF Mem(m, cp + 1) = "{" THEN GetQuote(m, cp + 1, "}")
  ELSE LET end == Least({i \in cp + 1 .. cp + BUFSIZE : Mem(m, i) \notin AlNum})
       IN Parsed([i \in 1 .. end - cp - 1 |-> Mem(m, cp + i)], end)

(* The cases of expand() for the character at s.cp, with s.text in its     *)
(* buffer.                                                                 *)
Full(buf) == Len(buf) >= BUFSIZE - 1

Plain(m, s) == Parsed(Put(s.text, <<Mem(m, s.cp)>>), s.cp + 1)

Variable(m, s) ==
  LET var == GetVar(m, s.cp)
      name == CString(var.text) IN
  IF ~var.ok THEN var
  ELSE IF name \notin DOMAIN Env THEN ParseError(var.cp)
  ELSE Parsed(Put(s.text, Env[name]), var.cp)

Marked(buf, mark, text) == Put(Put(Put(buf, <<mark>>), text), <<mark>>)

SingleQuote(m, s) ==
  LET quoted == GetQuote(m, s.cp, "'") IN
  IF ~quoted.ok THEN quoted
  ELSE Parsed(Marked(s.text, "'", CString(quoted.text)), quoted.cp)

(* Text between double quotes is expanded by itself: inner is what         *)
(* expand() makes of the memory from one offset up to another.             *)
DoubleQuote(m, inner, s) ==
  LET quoted == GetQuote(m, s.cp, "\"")
      text == inner[s.cp + 1][quoted.cp - 1] IN
  IF ~quoted.ok THEN quoted
  ELSE IF ~text.ok THEN ParseError(quoted.cp)
  ELSE Parsed(Marked(CString(s.text), "\"", text.text), quoted.cp)

(* With ignoreEsc a backslash does not keep the "$" behind it, though it   *)
(* is copied.                                                              *)
Backslash(m, ignoreEsc, s) ==
  LET kept == Append(s.text, "\\")
      next == Mem(m, s.cp + 1) IN
  IF Full(s.text) THEN Plain(m, s)
  ELSE IF ignoreEsc /\ next = "$" THEN Parsed(kept, s.cp + 1)
  ELSE Parsed(Put(kept, <<next>>), s.cp + 2)

Turn(m, ignoreEsc, inner, s) ==
  LET c == Mem(m, s.cp) IN
  IF ~s.ok \/ c = NUL THEN s
  ELSE CASE c = "$"  -> Variable(m, s)
         [] c = "\"" -> DoubleQuote(m, inner, s)
         [] c = "'"  -> SingleQuote(m, s)
         [] c = "\\" -> Backslash(m, ignoreEsc, s)
         [] OTHER    -> Plain(m, s)

(* Every turn but the last moves on, so BUFSIZE of them come to the NUL.   *)
ExpandFrom(m, from, ignoreEsc, inner) ==
  LET after[k \in 0 .. BUFSIZE] ==
        IF k = 0 THEN Parsed(<<>>, from) ELSE Turn(m, ignoreEsc, inner, after[k - 1])
      last == after[BUFSIZE]
  IN IF ~last.ok THEN last
     ELSE IF Full(last.text) THEN ParseError(last.cp)
     ELSE Parsed(CString(last.text), last.cp)

(* The text between double quotes lies within the text it is quoted in,    *)
(* so the expansions are less than BUFSIZE deep.                           *)
Nested(m) ==
  LET Offsets == 0 .. BUFSIZE - 1
      nested[depth \in 0 .. BUFSIZE] ==
        [from \in Offsets |-> [end \in Offsets |->
           IF depth = 0 THEN ParseError(from)
           ELSE ExpandFrom(EndedAt(m, end), from, TRUE, nested[depth - 1])]]
  IN nested[BUFSIZE]

Expand(m) == ExpandFrom(m, 0, FALSE, Nested(m))

-----------------------------------------------------------------------------
At(text, i) == IF i <= Len(text) THEN text[i] ELSE NUL
SkipBlanks(text, i) == Least({j \in i .. Len(text) + 1 : At(text, j) \notin Blanks})

(* A turn of the loops of get_word(): at position i of the text, with the  *)
(* word so far and the quotation mark that is open, or None.  expand()     *)
(* leaves too little text for a word that fills its buffer.                *)
None == "none"
Reading(word, i, quote) == [word |-> word, i |-> i, quote |-> quote]

ReadTurn(text, s) ==
  LET c == At(text, s.i)
      take == Reading(Append(s.word, c), s.i + 1, s.quote) IN
  IF s.quote # None
  THEN IF c = s.quote THEN Reading(s.word, s.i + 1, None)
       ELSE IF c = NUL \/ Len(s.word) >= BUFSIZE - 2 THEN Reading(s.word, s.i, None)
       ELSE take
  ELSE IF c = NUL \/ c \in Blanks \/ Len(s.word) >= BUFSIZE - 1 THEN s
  ELSE IF c \in Quotes THEN Reading(s.word, s.i + 1, c)
  ELSE take

WordFrom(text, i) ==
  LET after[k \in 0 .. 2 * BUFSIZE] ==
        IF k = 0 THEN Reading(<<>>, i, None) ELSE ReadTurn(text, after[k - 1])
      last == after[2 * BUFSIZE]
  IN [word |-> last.word, next |-> SkipBlanks(text, last.i)]

\* Mutant: blanks in front of a word are not passed over.
GetWordThere(text, i) == WordFrom(text, i)

GetWord(text, i) == WordFrom(text, SkipBlanks(text, i))

(* _argvize(): argc counts the words that were tried, whether or not the   *)
(* list had room for them, and a word without characters ends it with 0.   *)
Splitting(i, argc, argv) == [i |-> i, argc |-> argc, argv |-> argv]

SplitTurn(text, s) ==
  LET got == GetWord(text, s.i) IN
  IF s.i > Len(text) THEN s
  ELSE IF got.word = <<>> THEN Splitting(Len(text) + 1, 0, s.argv)
  ELSE Splitting(got.next, s.argc + 1, NewStr(got.word, s.argv))

Argvize(text) ==
  LET after[k \in 0 .. Len(text)] ==
        IF k = 0 THEN Splitting(1, 0, InitStr(Blank)) ELSE SplitTurn(text, after[k - 1])
      last == after[Len(text)]
  IN [argc |-> last.argc, argv |-> last.argv]
=============================================================================
