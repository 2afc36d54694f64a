------------------------------ MODULE LineEdit -------------------------------
(***************************************************************************)
(* edit_gets() of libsc/lib/stdio.c: a line editor over a ring of lines.   *)
(* The line being typed is lines[ecurrent] (elinebuf->current); ^P and ^N  *)
(* move to earlier lines, which are then edited in place.                  *)
(*                                                                         *)
(* A line is an array of LINESIZE characters.  It is a string only up to   *)
(* its first NUL, and while it is edited only bufp says where it ends: the *)
(* keys leave old characters behind bufp, and not all of them write a NUL; *)
(* and ^V can put a NUL in front of bufp.                                  *)
(* bufp and bufc are offsets into lines[current], the array that buf       *)
(* points to.  Echo to the terminal is left out.                           *)
(***************************************************************************)
EXTENDS Integers, Sequences

CONSTANTS
  LINESIZE,      (* characters of a line                                   *)
  EDIT_HISTORY,  (* lines of the ring                                      *)
  Keys,          (* the characters isprint() accepts                       *)
  Received       (* what getc() can return: any byte, NUL among them       *)

ASSUME LineAssumption ==
  /\ LINESIZE \in Nat /\ LINESIZE > 3
  /\ EDIT_HISTORY \in Nat /\ EDIT_HISTORY > 2
  /\ Keys \subseteq Received
  /\ "\\0" \in Received \ Keys

VARIABLES
  lines,         (* elinebuf->lines                                        *)
  ecurrent,      (* elinebuf->current                                      *)
  current,       (* the line that is edited                                *)
  bufp, bufc,    (* its end and the cursor                                 *)
  rvalp,         (* the line edit_gets() returned, or NoLine               *)
  pc             (* "prompt", "edit" (in edit_gets()), "line" (it returned *)
                 (* rvalp), "argv" (the line is split into words)          *)

ring == <<lines, ecurrent>>

EndOfString == "\\0"
NoLine == -1
Slots == 0 .. EDIT_HISTORY - 1
Cells == 0 .. LINESIZE - 1

StrLen(line) == CHOOSE n \in Cells : /\ line[n] = EndOfString
                                     /\ \A i \in 0 .. n - 1 : line[i] # EndOfString
Str(line) == [i \in 1 .. StrLen(line) |-> line[i - 1]]

After(slot) == (slot + 1) % EDIT_HISTORY
Before(slot) == IF slot = 0 THEN EDIT_HISTORY - 1 ELSE slot - 1

Empty(slot) == lines[slot][0] = EndOfString

(* What is on the line, NULs that were quoted included.                    *)
Typed == [i \in 1 .. bufp |-> lines[current][i - 1]]

LinesInit ==
  /\ lines = [s \in Slots |-> [c \in Cells |-> EndOfString]]
  /\ ecurrent = 0 /\ current = 0 /\ bufp = 0 /\ bufc = 0 /\ rvalp = NoLine

-----------------------------------------------------------------------------
EditGets ==
  /\ pc = "prompt" /\ pc' = "edit"
  /\ current' = ecurrent /\ bufp' = 0 /\ bufc' = 0 /\ rvalp' = NoLine
  /\ UNCHANGED ring

Key == pc = "edit" /\ UNCHANGED <<pc, rvalp, ecurrent>>

InLine == Key /\ UNCHANGED current

(* The line with f of it in place of its cells.                            *)
Rewrite(f) == lines' = [lines EXCEPT ![current] = f]
Write(i, c) == Rewrite([lines[current] EXCEPT ![i] = c])

\* Mutant: room is left for the NUL, not for the newline the comment counts in.
RoomForNul == bufp < LINESIZE - 1

HasRoom == bufp < LINESIZE - 3

Insert(c) ==
  /\ InLine /\ HasRoom
  /\ Rewrite([i \in Cells |->
                LET line == lines[current] IN
                IF i = bufc THEN c
                ELSE IF i \in bufc + 1 .. bufp THEN line[i - 1]
                ELSE IF i = bufp + 1 /\ bufc # bufp THEN EndOfString
                ELSE line[i]])
  /\ bufc' = bufc + 1 /\ bufp' = bufp + 1

(* ^V puts the next byte at the end, wherever the cursor is and whatever   *)
(* the byte is.                                                            *)
Quote(c) ==
  /\ InLine /\ HasRoom
  /\ Write(bufp, c)
  /\ bufp' = bufp + 1 /\ bufc' = bufc + 1

(* The cells from "from" on, up to the end of the line, moved down by one. *)
Closed(from) ==
  [i \in Cells |-> IF i = bufp - 1 THEN EndOfString
                   ELSE IF i \in from .. bufp - 2 THEN lines[current][i + 1]
                   ELSE lines[current][i]]

(* ^D, ^X or a failed read.  On an empty line the call of                  *)
(* EnterInteractiveMode() comes back.                                      *)
DeleteAt ==
  /\ InLine /\ bufc # bufp
  /\ Rewrite(Closed(bufc))
  /\ bufp' = bufp - 1 /\ UNCHANGED bufc

(* ^H, DEL                                                                 *)
DeleteBefore ==
  /\ InLine /\ bufc > 0
  /\ Rewrite(Closed(bufc - 1))
  /\ bufp' = bufp - 1 /\ bufc' = bufc - 1

(* ^A, ^E, ^F, ^B                                                          *)
MoveCursor ==
  /\ InLine
  /\ \/ bufc' = 0
     \/ bufc' = bufp
     \/ bufc < bufp /\ bufc' = bufc + 1
     \/ bufc > 0 /\ bufc' = bufc - 1
  /\ UNCHANGED <<lines, bufp>>

(* ^K: the first of the characters that are cut off stays in its cell.     *)
KillToEnd ==
  /\ InLine
  /\ Rewrite([i \in Cells |-> IF i \in bufc + 1 .. bufp THEN EndOfString
                              ELSE lines[current][i]])
  /\ bufp' = bufc /\ UNCHANGED bufc

(* ^R                                                                      *)
Redraw ==
  /\ InLine
  /\ Write(bufp, EndOfString)
  /\ bufc' = bufp /\ UNCHANGED bufp

(* ^U                                                                      *)
KillLine ==
  /\ InLine
  /\ bufp' = 0 /\ bufc' = 0 /\ UNCHANGED lines

(* newbuffer: the line left behind stays as it is, without a NUL.          *)
Show(slot) ==
  /\ Key
  /\ current' = slot
  /\ bufp' = StrLen(lines[slot]) /\ bufc' = StrLen(lines[slot])
  /\ UNCHANGED lines

(* ^P and ^N                                                               *)
Up == /\ Before(current) # ecurrent /\ ~Empty(Before(current))
      /\ Show(Before(current))
Down == /\ current # ecurrent
        /\ ~Empty(After(current)) \/ After(current) = ecurrent
        /\ Show(After(current))

-----------------------------------------------------------------------------
(* The rest of edit_gets() after a newline: the array is a C string again. *)
(* "!!" stands for the line before; a string that is not empty is copied   *)
(* to lines[ecurrent] if it was recalled, and the ring moves on.           *)
BangBang == <<"!", "!">>
\* Mutant: "!!" takes the line the ring is at.
AgainHere(text) == text = BangBang /\ ~Empty(ecurrent)

Again(text) == text = BangBang /\ ~Empty(Before(ecurrent))

\* Mutant: the recalled line is not copied to the end of the ring.
RememberWhere(ended, from) ==
  /\ lines' = [ended EXCEPT ![After(ecurrent)][0] = EndOfString]
  /\ ecurrent' = After(ecurrent)

Remember(ended, from) ==
  LET next == After(ecurrent)
      kept == [ended EXCEPT ![ecurrent] = ended[from]] IN
  /\ lines' = [kept EXCEPT ![next][0] = EndOfString]
  /\ ecurrent' = next

Return ==
  /\ pc = "edit" /\ pc' = "line"
  /\ rvalp' = current
  /\ LET ended == [lines EXCEPT ![current][bufp] = EndOfString]
         text  == Str(ended[current])
     IN IF text = <<>> THEN lines' = ended /\ UNCHANGED ecurrent
        ELSE Remember(ended, IF Again(text) THEN Before(ecurrent) ELSE current)
  /\ UNCHANGED <<current, bufp, bufc>>

PressKey ==
  \/ \E c \in Keys : Insert(c)
  \/ \E c \in Received : Quote(c)
  \/ DeleteAt \/ DeleteBefore \/ MoveCursor \/ KillToEnd \/ Redraw \/ KillLine
  \/ Up \/ Down
=============================================================================
