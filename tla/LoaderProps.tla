---------------------------- MODULE LoaderProps -----------------------------
(***************************************************************************)
(* What loading, patching and starting a program must guarantee, stated    *)
(* over Loader and Patcher.                                                *)
(***************************************************************************)
EXTENDS Loader

Bodies == {PutbufBody, PsemaBody, XfsBody, SwtchBody, ResumeBody, UthreadBody,
           FaultBody, AttachBody, MapGfxBody, MapDeviceBody}

Own(c, s) == [of |-> prog.name, at |-> s.off + (c - s.at)]

(* A range an earlier program left is zeroed, or the words at an earlier   *)
(* program's addresses are patched.                                        *)
Spoilt(c) ==
  \/ c \in bss /\ bssOf # prog.name
  \/ Foreign /\ c \in table.of.text

LastTail(i) == \A j \in DOMAIN prog.segs : j > i => Bss(prog.segs[j]) = {}

(* When a program is started all of it is there: every cell holds its      *)
(* place in the file, or zero where the file has nothing for it - unless a *)
(* read of this load failed, which is printed and forgotten, a range or a  *)
(* symbol table an earlier load left is applied to it, or the cell is in   *)
(* the tail of a segment before the last that has one.                     *)
ImageRight ==
  at = "patch" /\ ~failed =>
    /\ \A i \in DOMAIN prog.segs :
         LET s == prog.segs[i] IN
         /\ \A c \in FileCells(s) : memory[c] = Own(c, s) \/ Spoilt(c)
         /\ prog.format = "elf" =>
              \A c \in Bss(s) : memory[c] = Zero \/ Spoilt(c) \/ ~LastTail(i)
    /\ \A c \in prog.tail : memory[c] = Zero \/ Spoilt(c)

Overlap(r, s) == r.in = s.in /\ r.from < s.to /\ s.from < r.to

(* Words that are not run: behind the two that make a function return, up  *)
(* to the end the comments give it, and what the branch in config_cache()  *)
(* jumps over.                                                             *)
DeadTo(f) == IF f = "wd93_earlyinit" THEN 496 ELSE 724
Dead(b) ==
  \/ b.in \in {"wd93_earlyinit", "wd93edtinit"} \cap stubbed
     /\ 8 <= b.from /\ b.to <= DeadTo(b.in)
  \/ b.in = "config_cache" /\ BranchHook \in hooks /\ 172 <= b.from /\ b.to <= 348

(* Whatever of a kernel is found and recognised, a trampoline lies in code *)
(* that is already dead and no other patch writes any of its words.        *)
TrampolinesSafe ==
  \A b \in Bodies \cap words : Dead(b) /\ \A w \in words \ {b} : ~Overlap(b, w)

(* What a trampoline refers to.  semawait and v_mapphys, which two of them *)
(* call, are not asked for.                                                *)
Refers(b) ==
  CASE b = PutbufBody -> {"putbuf", "putbufsz", "maxcpus"}
    [] b = PsemaBody -> {"psema"}
    [] b = AttachBody -> {"gfxdd_mmap"}
    [] OTHER -> {}

(* A word that leads into a trampoline finds all of it written, and what   *)
(* it refers to in the kernel; and the trampoline comes back to words that *)
(* no patch has touched.                                                   *)
RedirectsLand ==
  \A h \in hooks :
    /\ h.at \in words /\ h.body \in words
    /\ h.body = AttachBody => FaultBody \in words
    /\ Found(Refers(h.body))
    /\ \A b \in h.back, w \in words : ~Overlap(b, w)

(* The drivers up to the first NULL.                                       *)
Listed(t) == SubSeq(t, 1, First({i \in DOMAIN t : t[i] = NULL}) - 1)

(* After the patch of io_init[] the kernel starts its own drivers in their *)
(* order, without ng1_init, and then the paravirtual ones that it has, and *)
(* only four words behind the table can have been written - for tables     *)
(* with room among the entries that are looked at, and kernels with an     *)
(* ng1_init that can be found.                                             *)
DriversListed ==
  LET mine == Only(kern.io, Wanted)
      found == Only(Drivers, kern.syms) IN
  step > 9 =>
    IF ~Found({"io_init", "pvdiskedtinit"})
    THEN Listed(ioInit) = kern.io
    ELSE /\ Len(kern.io) < IOMAX => Listed(ioInit) = mine \o found
         /\ \A i \in DOMAIN ioInit : i > Len(kern.io) + 5 => ioInit[i] = "behind"

(* A load that was begun ends with an error or with the program started;   *)
(* only a program that is linked high and has no reset_leds(), or none     *)
(* that is found, stops Execute() in a read of address 0.                  *)
LoadEnds ==
  at \notin {"idle", "run"} ~>
    \/ at \in {"idle", "run"}
    \/ faulted /\ kern.high /\ ~Found({"reset_leds"})
=============================================================================
