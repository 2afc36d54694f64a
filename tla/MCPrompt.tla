------------------------------ MODULE MCPrompt -------------------------------
(* Lines of at most three characters in a ring of three.                   *)
EXTENDS PromptProps, TLC

MCKeys == {"!", "\\"}
MCReceived == MCKeys \cup {EndOfString}

MCEnv == (<<"v">> :> <<"a", " ", "v", "v">>) @@ (<<"a">> :> <<"\"", "a">>) @@ (<<"v", "v">> :> <<>>)

MCCharacters == {"a", "v", " ", "'", "\"", "$", "{", "}", "\\", "!"}

(* Every line of three cells, the characters behind its NUL included.      *)
MCArrived ==
  {[i \in Cells |-> IF i < 3 THEN cells[i + 1] ELSE EndOfString] :
     cells \in [1 .. 3 -> (MCCharacters \ {"!"}) \cup {EndOfString}]}
=============================================================================
