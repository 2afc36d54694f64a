------------------------------- MODULE MemMap -------------------------------
(***************************************************************************)
(* The ARCS memory descriptors (fw/pv_stubs.c): init_memory_descriptors()  *)
(* makes them from the sizes the machine reports.  Pages are of 4 KB.      *)
(***************************************************************************)
EXTENDS Integers, Sequences

CONSTANT MAX_MEM_DESCS     (* the slots of mem_descs[], 12                 *)

ASSUME MemMapAssumption == MAX_MEM_DESCS \in Nat /\ MAX_MEM_DESCS >= 11

(* What a machine reports: its main memory in MB, and where the bank       *)
(* beyond it begins and how large it is, in quarters of a page.  The bank  *)
(* lies behind the first 256 MB and begins with a page.                    *)
Machine == [ram : Nat, highBase : {b \in Nat : b >= 4 * 98304 /\ b % 4 = 0}, highSize : Nat]

D(t, b, n) == [Type |-> t, BasePage |-> b, PageCount |-> n]
End(d) == d.BasePage + d.PageCount

(* ram_MB, and what of it is described.                                    *)
Smaller(a, b) == IF a < b THEN a ELSE b
RamMB(m) == IF m.ram < 64 THEN 64 ELSE m.ram
RamEnd(m) == 32768 + 256 * Smaller(RamMB(m), 256)

(* 0x8000, 0x8002, 0x8400, 0xBF00 and 0xC000.                              *)
Low ==
  <<D("ExceptionBlock", 0, 1), D("SPBPage", 1, 1), D("FirmwareTemporary", 2, 766),
    D("FirmwareTemporary", 32768, 2), D("FirmwareTemporary", 32770, 1022),
    D("FreeMemory", 33792, 15104), D("FirmwarePermanent", 48896, 256)>>
START == 49152

(* The HEART window, 0xFF00 to 0xFF70, whose registers swallow writes.     *)
HEARTLO == 65280
HEARTHI == 65392

\* Mutant: the memory behind the window is taken to begin with it.
FromWindow(m) ==
  IF RamMB(m) <= 64 THEN <<>>
  ELSE IF RamEnd(m) <= HEARTLO THEN <<D("FreeMemory", START, RamEnd(m) - START)>>
  ELSE <<D("FreeMemory", START, HEARTLO - START),
         D("FirmwarePermanent", HEARTLO, HEARTHI - HEARTLO),
         D("FreeMemory", HEARTLO, RamEnd(m) - HEARTHI)>>

Above64(m) ==
  IF RamMB(m) <= 64 THEN <<>>
  ELSE IF RamEnd(m) <= HEARTLO THEN <<D("FreeMemory", START, RamEnd(m) - START)>>
  ELSE IF RamEnd(m) <= HEARTHI
  THEN <<D("FreeMemory", START, HEARTLO - START),
         D("FirmwarePermanent", HEARTLO, HEARTHI - HEARTLO)>>
  ELSE <<D("FreeMemory", START, HEARTLO - START),
         D("FirmwarePermanent", HEARTLO, HEARTHI - HEARTLO),
         D("FreeMemory", HEARTHI, RamEnd(m) - HEARTHI)>>

HighBank(m) ==
  IF m.highSize = 0 THEN <<>>
  ELSE <<D("FreeMemory", m.highBase \div 4, m.highSize \div 4)>>

(* md_init_add() drops what does not fit.                                  *)
Wanted(m) == Low \o Above64(m) \o HighBank(m)
Descriptors(m) == SubSeq(Wanted(m), 1, Smaller(Len(Wanted(m)), MAX_MEM_DESCS))

(* GetMemoryDescriptor(): 0 is NULL.                                       *)
GetMemoryDescriptor(t, cur) == IF cur < Len(t) THEN cur + 1 ELSE 0

(* mem_getblock(): the first of the largest free blocks, as it is compared *)
(* on the way through the list.                                            *)
Better(t, m, d) ==
  t[d].Type = "FreeMemory" /\ (m = 0 \/ t[d].PageCount > t[m].PageCount)
=============================================================================
