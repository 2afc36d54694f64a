------------------------------ MODULE StringList ------------------------------
(***************************************************************************)
(* libsc/lib/stringlist.c: a string_list is a vector strptrs of pointers   *)
(* into a byte array strbuf, terminated by a null pointer.  Strings are    *)
(* added at strp; a deleted string leaves its bytes behind until           *)
(* garbage_collect() packs the strings that are still pointed to.          *)
(*                                                                         *)
(* A string is a sequence of cells followed by a NUL cell; an environment  *)
(* string "name=value" is the cell "name" (which stands for "name=")       *)
(* followed by the cells of the value.  Pointers are indices of strbuf.    *)
(***************************************************************************)
EXTENDS Integers, Sequences, FiniteSets

CONSTANTS
  MAXSTRINGS,    (* entries of strptrs, the terminator included            *)
  STRINGBYTES    (* cells of strbuf                                        *)

ASSUME SizeAssumption == MAXSTRINGS \in Nat \ {0} /\ STRINGBYTES \in Nat \ {0}

NULL == -1
NUL  == "\\0"

Least(S) == CHOOSE m \in S : \A n \in S : m <= n

(* A list nobody has used: the BSS of environ_str.                         *)
Blank == [strptrs |-> [i \in 0 .. MAXSTRINGS - 1 |-> NULL],
          strcnt  |-> 0,
          strp    |-> 0,
          strbuf  |-> [i \in 0 .. STRINGBYTES - 1 |-> NUL]]

StringEnd(buf, p) == Least({q \in p .. STRINGBYTES - 1 : buf[q] = NUL})
StringAt(buf, p)  == [i \in 1 .. StringEnd(buf, p) - p |-> buf[p + i - 1]]

(* What a walk along the vector up to its null pointer meets.              *)
Walk(sl) == 0 .. Least({i \in 0 .. MAXSTRINGS - 1 : sl.strptrs[i] = NULL}) - 1
Strings(sl) ==
  [i \in 1 .. Cardinality(Walk(sl)) |-> StringAt(sl.strbuf, sl.strptrs[i - 1])]

-----------------------------------------------------------------------------
InitStr(sl) ==
  [strptrs |-> [sl.strptrs EXCEPT ![0] = NULL], strcnt |-> 0, strp |-> 0, strbuf |-> sl.strbuf]

TooMany(sl) == sl.strcnt >= MAXSTRINGS - 1

NoRoom(s, sl) == sl.strp + Len(s) + 1 >= STRINGBYTES

(* The common tail of new_str1() and new_str2(): point at the free cells   *)
(* and copy the string there.                                              *)
Added(s, sl) ==
  [strptrs |-> [sl.strptrs EXCEPT ![sl.strcnt] = sl.strp, ![sl.strcnt + 1] = NULL],
   strcnt  |-> sl.strcnt + 1,
   strp    |-> sl.strp + Len(s) + 1,
   strbuf  |-> [q \in DOMAIN sl.strbuf |->
                  IF q - sl.strp \in 0 .. Len(s) - 1 THEN s[q - sl.strp + 1]
                  ELSE IF q = sl.strp + Len(s) THEN NUL
                  ELSE sl.strbuf[q]]]

(* One copy loop of garbage_collect(): new_str1() of each string.  A list  *)
(* just initialised has no garbage, so collecting it again gains nothing.  *)
Repacked(strings, sl) ==
  LET upTo[k \in 0 .. Len(strings)] ==
        IF k = 0 THEN InitStr(sl)
        ELSE LET done == upTo[k - 1]
             IN IF TooMany(done) \/ NoRoom(strings[k], done) THEN done
                ELSE Added(strings[k], done)
  IN upTo[Len(strings)]

\* Mutant: the list is emptied and the copies are not put back.
GarbageForgotten(sl) == InitStr(sl)

GarbageCollect(sl) == Repacked(Strings(Repacked(Strings(sl), Blank)), sl)

(* new_str1() and new_str2(); where they return -1 the string is not in    *)
(* the list.                                                               *)
NewStr(s, sl) ==
  LET packed == IF NoRoom(s, sl) THEN GarbageCollect(sl) ELSE sl
  IN IF TooMany(sl) THEN sl
     ELSE IF NoRoom(s, packed) THEN packed
     ELSE Added(s, packed)

-----------------------------------------------------------------------------
(* The environment style operations.                                       *)

Hits(name, sl) ==
  {i \in 0 .. sl.strcnt - 1 : sl.strbuf[sl.strptrs[i]] = name}

\* Mutant: the vector keeps its length when a string is deleted.
DeletedUncounted(name, sl) ==
  IF Hits(name, sl) = {} THEN sl
  ELSE LET hit == Least(Hits(name, sl))
       IN [sl EXCEPT !.strptrs =
             [i \in 0 .. MAXSTRINGS - 1 |->
                IF i \in hit .. sl.strcnt - 1 THEN sl.strptrs[i + 1] ELSE sl.strptrs[i]]]

(* delete_str(): the pointers behind the first match, the null pointer     *)
(* included, move down.                                                    *)
DeleteStr(name, sl) ==
  IF Hits(name, sl) = {} THEN sl
  ELSE LET hit == Least(Hits(name, sl))
           end == Least({i \in hit .. MAXSTRINGS - 1 : sl.strptrs[i] = NULL})
       IN [strptrs |-> [i \in 0 .. MAXSTRINGS - 1 |->
                          IF i \in hit .. end - 1 THEN sl.strptrs[i + 1] ELSE sl.strptrs[i]],
           strcnt  |-> sl.strcnt - 1,
           strp    |-> sl.strp,
           strbuf  |-> sl.strbuf]

ReplaceStr(name, value, sl) == NewStr(<<name>> \o value, DeleteStr(name, sl))

(* getenv() and find_str(): where the value of name starts, NULL if the    *)
(* walk does not meet it.                                                  *)
ValuePtr(name, sl) ==
  LET met == {i \in Walk(sl) : sl.strbuf[sl.strptrs[i]] = name}
  IN IF met = {} THEN NULL ELSE sl.strptrs[Least(met)] + 1
==============================================================================
