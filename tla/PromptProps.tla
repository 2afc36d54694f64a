----------------------------- MODULE PromptProps ------------------------------
(***************************************************************************)
(* What the user may rely on at the prompt, stated over Prompt.            *)
(***************************************************************************)
EXTENDS Prompt

Ends(line) == \E n \in 0 .. LINESIZE - 3 : line[n] = EndOfString

(* The cursor is in the line, the line and its NUL in the array, with      *)
(* every line of the ring ended before its last two cells, which nothing   *)
(* has ever written.  expand(), which a backslash at the end of a line     *)
(* carries past the NUL, needs one of the two: it stops inside the line.   *)
LinesSound ==
  /\ pc = "edit" => 0 <= bufc /\ bufc <= bufp /\ bufp <= LINESIZE - 3
  /\ \A s \in Slots : Ends(lines[s]) /\ lines[s][LINESIZE - 2] = EndOfString
                                     /\ lines[s][LINESIZE - 1] = EndOfString
  /\ expanded.cp < LINESIZE

(* What a Return enters: the line as a C string, which ends at the first   *)
(* NUL that ^V has put into it.                                            *)
Entered == CString(Typed)

(* What it stands for: itself, or the line before.                         *)
Previous == Str(lines'[Before(ecurrent)])
Meant == IF Entered = BangBang /\ Previous # <<>> THEN Previous ELSE Entered

Returned == pc = "edit" /\ pc' = "line"

(* What is entered becomes the newest line of the ring, whichever line of  *)
(* it was recalled and edited, and no line is lost but the oldest; a line  *)
(* without characters, or one that starts with a quoted NUL, is not        *)
(* remembered.                                                             *)
Remembered ==
  [][Returned =>
       IF Entered = <<>>
       THEN ecurrent' = ecurrent /\ \A s \in Slots \ {current} : lines'[s] = lines[s]
       ELSE /\ Before(ecurrent') = ecurrent /\ Str(lines'[ecurrent]) = Meant
            /\ \A s \in Slots \ {ecurrent, ecurrent', current} : lines'[s] = lines[s]
            /\ current \notin {ecurrent, ecurrent'} => Str(lines'[current]) = Entered]_vars

(* The command parser gets the line that was entered, with these           *)
(* exceptions: what lies behind a quoted NUL is dropped; and a recalled    *)
(* line is handed over where it lies in the ring: the oldest, whose place  *)
(* is cleared for the next line, comes out empty, and a "!!" written over  *)
(* a recalled line is not replaced.                                        *)
RunsEntered ==
  [][Returned =>
       Str(lines'[rvalp']) =
         IF current = After(ecurrent) THEN <<>>
         ELSE IF current # ecurrent THEN Entered
         ELSE Meant]_vars

-----------------------------------------------------------------------------
(* The words of a text, by what is quoted where: OpenMark(text)[i] is the  *)
(* quotation mark that is open behind the i-th character.                  *)
OpenMark(text) ==
  LET mark[i \in 0 .. Len(text)] ==
        IF i = 0 THEN None
        ELSE IF mark[i - 1] # None
          THEN IF text[i] = mark[i - 1] THEN None ELSE mark[i - 1]
          ELSE IF text[i] \in Quotes THEN text[i] ELSE None
  IN mark

Positions(text) == 1 .. Len(text)
Parts(text)  == {i \in Positions(text) : text[i] \in Blanks /\ OpenMark(text)[i - 1] = None}
Marks(text)  == {i \in Positions(text) : OpenMark(text)[i] # OpenMark(text)[i - 1]}
Firsts(text) == {i \in Positions(text) \ Parts(text) : i = 1 \/ i - 1 \in Parts(text)}
EndOf(text, i) == Least({j \in i .. Len(text) + 1 : j \in Parts(text) \cup {Len(text) + 1}})

(* The characters from position i up to the end of its word.               *)
Chars(text, i) ==
  LET upTo[j \in i .. EndOf(text, i)] ==
        IF j = i THEN <<>>
        ELSE IF j - 1 \in Marks(text) THEN upTo[j - 1] ELSE Append(upTo[j - 1], text[j - 1])
  IN upTo[EndOf(text, i)]

Rank(text, i) == Cardinality({j \in Firsts(text) : j < i})

WordsOf(text) ==
  [k \in 1 .. Cardinality(Firsts(text)) |->
     Chars(text, CHOOSE i \in Firsts(text) : Rank(text, i) = k - 1)]

(* The words a command gets are those of the expanded line, in order and   *)
(* with their quotation marks taken off; with a word that has nothing in   *)
(* it the line is dropped.  argc counts the words of the line, but argv    *)
(* holds those of them that the string list takes.                         *)
ArgvRight ==
  pc = "argv" /\ expanded.ok =>
    LET words == WordsOf(expanded.text)
        held == Strings(argv.argv) IN
    IF \E k \in DOMAIN words : words[k] = <<>> THEN argv.argc = 0
    ELSE /\ argv.argc = Len(words)
         /\ Len(held) <= Len(words)
         /\ Len(words) < MAXSTRINGS => held = words
         /\ held = SubSeq(words, 1, Len(held))
=============================================================================
