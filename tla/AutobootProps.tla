----------------------------- MODULE AutobootProps -----------------------------
(***************************************************************************)
(* What the environment and the boot sequence must get right.              *)
(***************************************************************************)
EXTENDS Autoboot

(* stringlist.c's "INVARIANT: strptrs[strcnt] == NULL", and what every     *)
(* walk and every garbage_collect() relies on: exactly the first strcnt    *)
(* pointers are set, they point at strings that do not overlap and that    *)
(* end below strp, no two strings carry the same name, there is room for   *)
(* the null pointer, and the last cell is never written: a scan of strbuf  *)
(* meets a NUL from wherever a stale pointer of make_bootfile() starts it. *)
ListOK ==
  LET ptr == environ.strptrs
      used == 0 .. environ.strcnt - 1
  IN /\ environ.strcnt < MAXSTRINGS /\ ptr[environ.strcnt] = NULL
     /\ \A i \in used : ptr[i] # NULL
     /\ \A i \in used : StringEnd(environ.strbuf, ptr[i]) < environ.strp
     /\ \A i, j \in used : i < j =>
          /\ StringEnd(environ.strbuf, ptr[i]) < ptr[j]
          /\ environ.strbuf[ptr[i]] # environ.strbuf[ptr[j]]
     /\ environ.strp < STRINGBYTES /\ environ.strbuf[STRINGBYTES - 1] = NUL

-----------------------------------------------------------------------------
(* The environment as the map getenv() sees.                               *)

Unset == <<NUL>>
Names == {c[1] : c \in UserSets} \cup {Defaults[k][1] : k \in DOMAIN Defaults} \cup {"kernname"}
Get(sl, name) ==
  LET p == ValuePtr(name, sl) IN IF p = NULL THEN Unset ELSE StringAt(sl.strbuf, p)

CellsUsed(strings) ==
  LET upTo[k \in 0 .. Len(strings)] ==
        IF k = 0 THEN 0 ELSE upTo[k - 1] + Len(strings[k]) + 1
  IN upTo[Len(strings)]

(* The call's own answer: the value, unless the variable is read-only or   *)
(* the strings of the other variables leave no room; the others untouched, *)
(* and the C globals of special_tab in step with what is set.              *)
Honoured(name, value, override) ==
  LET others == DeleteStr(name, environ)
      full == \/ others.strcnt >= MAXSTRINGS - 1
              \/ CellsUsed(Strings(others)) + Len(value) + 2 >= STRINGBYTES
  IN /\ \A other \in Names \ {name} : Get(environ', other) = Get(environ, other)
     /\ Get(environ', name) =
          IF name \in READONLY_NAMES /\ override # 1 THEN Get(environ, name)
          ELSE IF full THEN Unset ELSE value
     /\ \A n \in VARIABLE_NAMES : Get(environ', n) \in {Unset, mirror'[n]}

(* setenv, the programs' SetEnvironmentVariable() and the kernname of the  *)
(* boot sequence: the variable gets the value or is lost only when the     *)
(* other variables fill the list; garbage left by earlier calls never      *)
(* costs a variable, and no call changes another one.                      *)
SetEnvHonoured ==
  [][/\ pc = pc' => \A c \in UserSets :
          LET override == IF pc = "run" THEN 0 ELSE c[3]
          IN SetEnv(c[1], c[2], override) => Honoured(c[1], c[2], override)
     /\ NextBootfile \/ BootFirst => Honoured("kernname", tried'[Len(tried')], 0)]_vars

-----------------------------------------------------------------------------
(* The boot sequence.                                                      *)

(* The pieces of a value between its separators.  There is an empty one    *)
(* only in front of a ";" that ends no other.                              *)
Breaks(value) == {0, Len(value) + 1} \cup {i \in DOMAIN value : value[i] \in Separators}
Spans(value) ==
  {s \in Breaks(value) \X Breaks(value) :
     /\ s[1] < s[2] /\ \A q \in Breaks(value) : q <= s[1] \/ q >= s[2]
     /\ s[1] + 1 < s[2] \/ (s[2] <= Len(value) /\ value[s[2]] = SEMICOLON)}
Nth(value, k) ==
  CHOOSE s \in Spans(value) : Cardinality({t \in Spans(value) : t[1] < s[1]}) = k - 1
Pieces(value) ==
  [k \in 1 .. Cardinality(Spans(value)) |->
     SubSeq(value, Nth(value, k)[1] + 1, Nth(value, k)[2] - 1)]

PiecesAsked(i) == IF asked[i] = {} THEN <<>> ELSE Pieces(CHOOSE v \in asked[i] : TRUE)
Turns ==
  LET a == Len(PiecesAsked(1))
      b == Len(PiecesAsked(2))
  IN IF a > b THEN a ELSE b

(* The k-th boot file: the k-th partition and the k-th file name, or the   *)
(* last one of the list that has run out.                                  *)
Expected(k) ==
  LET nth(i) == LET ps == PiecesAsked(i)
                IN IF ps = <<>> THEN <<>> ELSE ps[LeastOf(k, Len(ps))]
  IN nth(1) \o <<SLASH>> \o nth(2)

AsListed ==
  /\ Len(tried) <= Turns
  /\ \A k \in DOMAIN tried : tried[k] = Expected(k)
  /\ pc = "next" /\ NoPathLeft => Len(tried) = Turns

(* make_bootfile() yields the boot files of the two variables in their     *)
(* order, and all of them, as long as the string list keeps the two values *)
(* where they are.                                                         *)
BootfilesInOrder == ~moved => AsListed

(* bootname.c: "get the next path in the varialble".  Without the proviso. *)
BootfilesFromVariables == AsListed

(* autoboot()'s loop ends, even when it reads through pointers that no     *)
(* longer point at their variables: every turn moves one of them forward,  *)
(* neither moves back, and both stay inside strbuf.                        *)
ScanAdvances ==
  [][NextBootfile => /\ sp' >= sp /\ osl' >= osl
                     /\ sp' # sp \/ osl' # osl
                     /\ sp' < STRINGBYTES /\ osl' < STRINGBYTES]_vars

(* What Execute() says of the environment it hands over: "Override         *)
(* console= to "d"" and "ensure critical variables are present".  The      *)
(* table is filled in this order, so at its limit the PROM's own strings   *)
(* displace the critical ones: those that fit are all there, in their      *)
(* order; console=d if they leave room for one more; and an eaddr, which   *)
(* the kernel asserts, if the PROM's own one fits or they leave room for   *)
(* two more.                                                               *)
PromsOwn == {i \in DOMAIN Strings(environ) : Strings(environ)[i][1] # "console"}
Place(i) == Cardinality({j \in PromsOwn : j <= i})
Room == KERN_ENVP - Cardinality(PromsOwn)
HasOwn(name) == \E i \in PromsOwn : Strings(environ)[i][1] = name /\ Place(i) <= KERN_ENVP

Handed(e) ==
  LET named(n) == {i \in DOMAIN e : e[i][1] = n} IN
  /\ Len(e) <= KERN_ENVP
  /\ \A i \in PromsOwn : Place(i) <= KERN_ENVP =>
       Place(i) \in DOMAIN e /\ e[Place(i)] = Strings(environ)[i]
  /\ \A i \in named("console") : e[i] = <<"console", "d">>
  /\ Cardinality(named("console")) = IF Room >= 1 THEN 1 ELSE 0
  /\ Cardinality(named("eaddr")) = IF HasOwn("eaddr") \/ Room >= 2 THEN 1 ELSE 0

KernelEnvComplete == [][pc # "run" /\ pc' = "run" => Handed(envp')]_vars
==============================================================================
