------------------------------- MODULE Loader -------------------------------
(***************************************************************************)
(* load_program(), and Execute() from there to the jump (fw/pv_stubs.c):   *)
(* programs of both formats loaded and started one after the other, with   *)
(* what a load leaves in static variables for the next.                    *)
(*                                                                         *)
(* Memory is an array of cells; a cell's content is the place in a file it *)
(* came from.  What happens to a kernel's code once it is loaded is        *)
(* Patcher's concern.                                                      *)
(***************************************************************************)
EXTENDS Patcher

CONSTANTS
  Cells,     (* the addresses of memory                                    *)
  Disks,     (* the sets of programs a disk may hold                       *)
  Frame      (* the segment headers the stack may hold from before         *)

(* A segment has its first cell, its place in the file, the cells the file *)
(* holds and those it takes in memory.                                     *)
Segment == [at : Cells, off : Nat, file : Nat, mem : Nat]

Span(s) == s.at .. s.at + s.mem - 1
Programs == UNION Disks

(* A program's tail is its BSS when it is not an ELF file.  seen is what   *)
(* the patches find in it, by its symbol table when it has one.            *)
ASSUME LoaderAssumption ==
  /\ Cells \subseteq Nat /\ Frame \subseteq Segment
  /\ \A p \in Programs :
       /\ p.format \in {"elf", "ecoff", "other"}
       /\ p.segs \in Seq(Segment) /\ p.tail \in SUBSET Cells
       /\ \A i \in DOMAIN p.segs :
            p.segs[i].file <= p.segs[i].mem /\ Span(p.segs[i]) \subseteq Cells
       /\ p.table \in BOOLEAN /\ p.seen \in Kernel /\ p.text \in SUBSET Cells
       /\ p.returns \in BOOLEAN

(* Linkers lay the segments of a program, and its BSS, side by side.       *)
ASSUME LayoutAssumption ==
  \A p \in Programs :
    /\ p.format = "elf" => p.tail = {}
    /\ \A i \in DOMAIN p.segs :
         /\ Span(p.segs[i]) \cap p.tail = {}
         /\ \A j \in DOMAIN p.segs \ {i} : Span(p.segs[i]) \cap Span(p.segs[j]) = {}

(* Programs of one disk are told apart by their names.                     *)
ASSUME NameAssumption ==
  /\ \A p \in Programs : p.name \notin {"none", "stray"}
  /\ \A d \in Disks : \A p, q \in d : p.name = q.name => p = q

Zero == [of |-> "zero", at |-> 0]
Patched == [of |-> "patch", at |-> 0]
Before == [of |-> "before", at |-> 0]
NoProgram == [name |-> "none", format |-> "other", segs |-> <<>>, tail |-> {}, table |-> FALSE,
              seen |-> NoKernel, text |-> {}, returns |-> TRUE]

VARIABLES
  disk,      (* the programs on the disk                                   *)
  memory,    (* the content of every cell                                  *)
  prog,      (* the program that is being loaded, or runs                  *)
  at,        (* "idle", or where in the load Execute() is                  *)
  start,     (* the program is started when it is loaded                   *)
  seg,       (* the segments that were dealt with                          *)
  phdr,      (* phdr, which lies on the stack                              *)
  bss,       (* elf_bss_start and elf_bss_size: the cells to zero          *)
  table,     (* the program of kern_symtab, and whether it came in whole   *)
  failed,    (* history: a read of this load failed                        *)
  bssOf      (* history: the program whose header named bss, "stray" when  *)
             (* that was a header which lay on the stack                   *)

loadVars == <<disk, memory, prog, at, start, seg, phdr, bss, table, failed, bssOf>>
vars == <<disk, memory, prog, at, start, seg, phdr, bss, table, failed, bssOf,
          kern, step, words, stubbed, hooks, ioInit, faulted>>

FileCells(s) == s.at .. s.at + s.file - 1
Bss(s) == s.at + s.file .. s.at + s.mem - 1

NoTable == [of |-> NoProgram, whole |-> TRUE]

Init ==
  /\ PatchInit
  /\ disk \in Disks
  /\ memory = [c \in Cells |-> Before]
  /\ prog = NoProgram /\ at = "idle" /\ start = FALSE /\ seg = 0
  /\ phdr \in Frame
  /\ bss = {} /\ table = NoTable
  /\ failed = FALSE /\ bssOf = "none"

-----------------------------------------------------------------------------
(* Execute() and Load(), called by the prompt or by a program that runs.   *)
Begin(p, s) ==
  /\ at \in {"idle", "run"}
  /\ at = "run" => prog.returns
  /\ prog' = p /\ start' = s /\ at' = "head" /\ seg' = 0
  /\ phdr' \in Frame
  /\ failed' = FALSE
  /\ UNCHANGED <<disk, memory, bss, table, bssOf>> /\ UNCHANGED patchVars

(* The first 512 bytes cannot be read, or are no program's.                *)
Refuse ==
  /\ at = "head"
  /\ at' = "idle" /\ prog' = NoProgram
  /\ UNCHANGED <<disk, memory, start, seg, phdr, bss, table, failed, bssOf>>
  /\ UNCHANGED patchVars

(* n cells of segment s of the file arrive.                                *)
Arrived(s, n) ==
  [c \in Cells |-> IF c \in s.at .. s.at + n - 1
                   THEN [of |-> prog.name, at |-> s.off + (c - s.at)] ELSE memory[c]]

StartElf ==
  /\ at = "head" /\ prog.format = "elf"
  /\ at' = "segments"
  /\ UNCHANGED <<disk, memory, prog, start, seg, phdr, bss, table, failed, bssOf>>
  /\ UNCHANGED patchVars

(* The header of the next segment, or what phdr held when it cannot be     *)
(* read; the range to zero; the segment's part of the file, or as much of  *)
(* it as arrives.  The results of both reads are printed.                  *)
\* Mutant: the range that was recorded is kept when a segment has no tail.
RangeOrKept(s) == IF bss # {} THEN bss ELSE Bss(s)

ToZero(s) == IF Bss(s) = {} THEN bss ELSE Bss(s)

SegmentOf(h, n) ==
  /\ at = "segments" /\ seg < Len(prog.segs)
  /\ seg' = seg + 1
  /\ phdr' = h
  /\ bss' = ToZero(h)
  /\ bssOf' = IF Bss(h) = {} THEN bssOf
              ELSE IF h = prog.segs[seg + 1] THEN prog.name ELSE "stray"
  /\ memory' = Arrived(h, n)
  /\ failed' = (failed \/ n < h.file \/ h # prog.segs[seg + 1])
  /\ UNCHANGED <<disk, prog, at, start, table>> /\ UNCHANGED patchVars

LoadSegment ==
  /\ at = "segments" /\ seg < Len(prog.segs)
  /\ LET h == prog.segs[seg + 1] IN SegmentOf(h, h.file)

SegmentFails ==
  /\ at = "segments" /\ seg < Len(prog.segs)
  /\ \E h \in {prog.segs[seg + 1], phdr} : \E n \in 0 .. h.file :
       (h = phdr \/ n < h.file) /\ SegmentOf(h, n)

(* The symbol table, when the file has one.  The pointers are set whatever *)
(* the reads of it return; without a section header they stay.             *)
LoadTable ==
  /\ at = "segments" /\ seg = Len(prog.segs)
  /\ at' = "loaded"
  /\ IF prog.table
     THEN \/ table' = [of |-> prog, whole |-> TRUE] /\ UNCHANGED failed
          \/ table' = [of |-> prog, whole |-> FALSE] /\ failed' = TRUE
          \/ UNCHANGED table /\ failed' = TRUE
     ELSE UNCHANGED <<table, failed>>
  /\ UNCHANGED <<disk, memory, prog, start, seg, phdr, bss, bssOf>> /\ UNCHANGED patchVars

(* An ECOFF program's BSS is zeroed at once, before its sections are read. *)
StartEcoff ==
  /\ at = "head" /\ prog.format = "ecoff"
  /\ memory' = [c \in Cells |-> IF c \in prog.tail THEN Zero ELSE memory[c]]
  /\ at' = "sections"
  /\ UNCHANGED <<disk, prog, start, seg, phdr, bss, table, failed, bssOf>>
  /\ UNCHANGED patchVars

LoadSection ==
  /\ at = "sections" /\ seg < Len(prog.segs)
  /\ seg' = seg + 1
  /\ \E n \in 0 .. prog.segs[seg + 1].file :
       /\ memory' = Arrived(prog.segs[seg + 1], n)
       /\ failed' = (failed \/ n < prog.segs[seg + 1].file)
  /\ UNCHANGED <<disk, prog, at, start, phdr, bss, table, bssOf>> /\ UNCHANGED patchVars

Sectioned ==
  /\ at = "sections" /\ seg = Len(prog.segs)
  /\ at' = "loaded"
  /\ UNCHANGED <<disk, memory, prog, start, seg, phdr, bss, table, failed, bssOf>>
  /\ UNCHANGED patchVars

(* load_program() answered 0, whatever arrived.                            *)
OnlyLoaded ==
  /\ at = "loaded" /\ ~start
  /\ at' = "idle" /\ prog' = NoProgram
  /\ UNCHANGED <<disk, memory, start, seg, phdr, bss, table, failed, bssOf>>
  /\ UNCHANGED patchVars

-----------------------------------------------------------------------------
(* From the load to the jump.  The range is zeroed again and again: it is  *)
(* never forgotten.                                                        *)
Zeroed == [c \in Cells |-> IF c \in bss THEN Zero ELSE memory[c]]

(* With another program's symbols the words at that program's addresses    *)
(* are written, and no pattern need be there.                              *)
Foreign == table.of # prog /\ table.of.seen.syms # {}

(* What the patches find: by a table of which only a part is new, all or   *)
(* nothing.                                                                *)
Looked ==
  IF Foreign
  THEN {[prog.seen EXCEPT !.syms = {}], [prog.seen EXCEPT !.syms = table.of.seen.syms, !.fits = {}]}
  ELSE IF table.of = prog /\ table.whole THEN {prog.seen}
  ELSE IF table.of = prog THEN {prog.seen, [prog.seen EXCEPT !.syms = {}]}
  ELSE {[prog.seen EXCEPT !.syms = {}]}

Prepare ==
  /\ at = "loaded" /\ start
  /\ at' = "patch"
  /\ memory' = [c \in Cells |-> IF Foreign /\ c \in table.of.text THEN Patched ELSE Zeroed[c]]
  /\ \E k \in Looked : Fresh(k)
  /\ UNCHANGED <<disk, prog, start, seg, phdr, bss, table, failed, bssOf>>

PatchKernel ==
  /\ at = "patch"
  /\ Patch
  /\ UNCHANGED loadVars

Jump ==
  /\ at = "patch" /\ step = PATCHED
  /\ at' = "run"
  /\ UNCHANGED <<disk, memory, prog, start, seg, phdr, bss, table, failed, bssOf>>
  /\ UNCHANGED patchVars

(* "Program returned from Execute"; a kernel does not.                     *)
ProgramReturns ==
  /\ at = "run" /\ prog.returns
  /\ at' = "idle" /\ prog' = NoProgram
  /\ UNCHANGED <<disk, memory, start, seg, phdr, bss, table, failed, bssOf>>
  /\ UNCHANGED patchVars

Load ==
  \/ Refuse \/ StartElf \/ LoadSegment \/ SegmentFails \/ LoadTable
  \/ StartEcoff \/ LoadSection \/ Sectioned \/ OnlyLoaded
  \/ Prepare \/ PatchKernel \/ Jump

(* A reset: the firmware's own variables are zeroed and memory is not.     *)
Reset ==
  /\ at = "run" \/ faulted
  /\ at' = "idle" /\ prog' = NoProgram /\ start' = FALSE /\ seg' = 0
  /\ bss' = {} /\ table' = NoTable /\ failed' = FALSE /\ bssOf' = "none"
  /\ phdr' \in Frame
  /\ kern' = NoKernel /\ step' = 0 /\ words' = {} /\ stubbed' = {} /\ hooks' = {}
  /\ ioInit' = IoTable(<<>>) /\ faulted' = FALSE
  /\ UNCHANGED <<disk, memory>>

Call == ProgramReturns \/ Reset \/ \E p \in disk, s \in BOOLEAN : Begin(p, s)

Next == Call \/ Load

(* One thread: a load that was begun goes on.                              *)
Spec == Init /\ [][Next]_vars /\ WF_vars(Load)
=============================================================================
