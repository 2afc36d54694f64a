-------------------------------- MODULE Prompt --------------------------------
(***************************************************************************)
(* command_parser() of libsc/lib/parser.c: a line from edit_gets() is      *)
(* split into words and dispatched.  What the commands do is not part of   *)
(* this module.                                                            *)
(*                                                                         *)
(* An instance has sessions of two kinds.  In one the user types at the    *)
(* line editor, line after line.  In the other edit_gets() returns lines   *)
(* with any of the contents Arrived, so that the splitting meets more      *)
(* characters than can be typed in every order.                            *)
(***************************************************************************)
EXTENDS LineEdit

CONSTANTS
  Env, MAXSTRINGS, STRINGBYTES,   (* of CommandLine                        *)
  Characters,                     (* the characters a line can hold        *)
  Arrived                         (* contents of a line                    *)

INSTANCE CommandLine WITH BUFSIZE <- LINESIZE

(* All the bytes of a line fit into a string list, and a value of the      *)
(* environment is a C string.  A line that arrives ends where a typed line *)
(* has to end.                                                             *)
ASSUME PromptAssumption ==
  /\ MAXSTRINGS \in Nat \ {0} /\ STRINGBYTES \in Nat /\ STRINGBYTES >= LINESIZE
  /\ NUL \notin Characters /\ Received \subseteq Characters \cup {NUL}
  /\ \A name \in DOMAIN Env : Env[name] \in Seq(Characters)
  /\ \A line \in Arrived :
       /\ line \in [Cells -> Characters \cup {NUL}]
       /\ \A i \in LINESIZE - 3 .. LINESIZE - 1 : line[i] = NUL

VARIABLES
  typing,        (* a session at the line editor                           *)
  expanded,      (* what expand() returned, and where it stopped reading   *)
  argv           (* what _argvize() returned and filled in                 *)

lineVars == <<lines, ecurrent, current, bufp, bufc, rvalp>>
vars == <<lineVars, pc, typing, expanded, argv>>

NoText == ParseError(0)
NoArgv == [argc |-> 0, argv |-> InitStr(Blank)]

Init ==
  /\ LinesInit /\ pc = "prompt"
  /\ typing \in BOOLEAN
  /\ expanded = NoText /\ argv = NoArgv

Edit ==
  /\ typing
  /\ EditGets \/ PressKey \/ Return
  /\ UNCHANGED <<typing, expanded, argv>>

LineArrives ==
  /\ ~typing /\ pc = "prompt" /\ pc' = "line"
  /\ rvalp' = 0
  /\ \E line \in Arrived : lines' = [lines EXCEPT ![0] = line]
  /\ UNCHANGED <<ecurrent, current, bufp, bufc, typing, expanded, argv>>

(* _argvize(expand(linebuf, 0), &argv); parse_error() goes back to the     *)
(* setjmp() in front of the prompt.                                        *)
Split ==
  /\ pc = "line" /\ pc' = "argv"
  /\ LET e == Expand(lines[rvalp]) IN
     /\ expanded' = e
     /\ argv' = IF e.ok THEN Argvize(e.text) ELSE NoArgv
  /\ UNCHANGED <<lineVars, typing>>

(* The command runs, or Execute() does, or there is none; then the prompt. *)
Dispatch ==
  /\ pc = "argv" /\ pc' = "prompt"
  /\ expanded' = NoText /\ argv' = NoArgv
  /\ UNCHANGED <<lineVars, typing>>

Next == Edit \/ LineArrives \/ Split \/ Dispatch

Spec == Init /\ [][Next]_vars
=============================================================================
