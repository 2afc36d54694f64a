------------------------------ MODULE Patcher -------------------------------
(***************************************************************************)
(* The writes Execute() makes into a kernel between the zeroing of its BSS *)
(* and the jump (fw/pv_stubs.c): in a fixed order, by the addresses        *)
(* kern_sym() finds for names and by the words that are there already.     *)
(*                                                                         *)
(* An instruction is not modelled, only where words are written, which     *)
(* functions return at once from then on, and which words lead into a      *)
(* trampoline.  A patch is given by its effect, and the actions apply the  *)
(* effects one after the other.  Offsets are in bytes; a place that is     *)
(* found by a scan has a name of its own and starts at 0.                  *)
(***************************************************************************)
EXTENDS Integers, Sequences

CONSTANTS
  Symbols,   (* the names of functions and variables that are looked up    *)
  Marks,     (* what is recognised: words at a place, or found by a scan   *)
  IOMAX      (* the entries of io_init[] that are looked at, 30            *)

ASSUME PatcherAssumption == IOMAX \in Nat \ {0}

NULL == "NULL"                   (* the end of io_init[]                    *)

(* What the patches see of a kernel: the symbols that are found, the words *)
(* that are as expected, the lui $s4 of intr() with whether an addiu       *)
(* follows closely, the drivers of io_init[] and whether it is linked at   *)
(* 0x80000000 or above, for which ERL is cleared.                          *)
Kernel == [syms : SUBSET Symbols, fits : SUBSET Marks, luis : Seq(BOOLEAN),
           io : Seq(STRING \ {NULL}), high : BOOLEAN]

VARIABLES
  kern,      (* the kernel in memory, as the patches see it                *)
  step,      (* the patch that is next, or 0                               *)
  words,     (* the words that were written                                *)
  stubbed,   (* the functions that return at once                          *)
  hooks,     (* the words that lead into trampolines                       *)
  ioInit,    (* io_init[] and the words behind it                          *)
  faulted    (* an address was read that is not mapped                     *)

patchVars == <<kern, step, words, stubbed, hooks, ioInit, faulted>>

R(f, a, b) == [in |-> f, from |-> a, to |-> b]
Hook(r, body, back) == [at |-> r, body |-> body, back |-> back]

Effect(w, s, h) == [words |-> w, stubs |-> s, hooks |-> h]
Nothing == Effect({}, {}, {})
Write(r) == Effect({r}, {}, {})
ReturnAtOnce(f, b) == Effect({R(f, 0, b)}, {f}, {})
Divert(hook, bodies) == Effect({hook.at} \cup bodies, {}, {hook})
When(c, e) == IF c THEN e ELSE Nothing
Both(d, e) == Effect(d.words \cup e.words, d.stubs \cup e.stubs, d.hooks \cup e.hooks)

(* kern_sym() of each of them is not 0.                                    *)
Found(S) == S \subseteq kern.syms
Seen(m) == m \in kern.fits

-----------------------------------------------------------------------------
(* The trampolines, in the bodies of functions that are not run any more.  *)
PutbufBody    == R("config_cache", 172, 260)
PsemaBody     == R("config_cache", 260, 332)
XfsBody       == R("wd93_earlyinit", 292, 332)
SwtchBody     == R("wd93_earlyinit", 332, 368)
ResumeBody    == R("wd93_earlyinit", 368, 400)
UthreadBody   == R("wd93_earlyinit", 400, 456)
FaultBody     == R("wd93edtinit", 8, 48)
AttachBody    == R("wd93edtinit", 48, 132)
MapGfxBody    == R("wd93edtinit", 132, 144)
MapDeviceBody == R("wd93edtinit", 256, 296)

-----------------------------------------------------------------------------
(* The early part: the console ring and the caches.                        *)
CprintfStore == When(Seen("cprintf_store"), Write(R("cprintf_store", 0, 4)))

BcleanGuard ==
  When(Found({"_bclean_caches"}) /\ Seen("lw_at"), Write(R("bclean_load", 0, 4)))

CacheSymbols == {"config_cache", "putbuf", "putbufsz", "maxcpus", "psema"}

CacheSize ==
  When(Found(CacheSymbols) /\ Seen("jal_size_2nd_cache"),
       Write(R("config_cache", 144, 148)))

(* The branch at +0xa4 of config_cache() is taken to the first trampoline; *)
(* the second one is written with it.                                      *)
BranchHook == Hook(R("config_cache", 164, 168), PutbufBody, {R("config_cache", 348, 352)})

PutbufTrampoline ==
  When(Found(CacheSymbols) /\ Seen("bnez_v0"),
       Divert(BranchHook, {PutbufBody, PsemaBody}))

\* Mutant: the branch before it, with which the trampoline is written, is
\* not asked for.
PsemaUnasked ==
  When(Found(CacheSymbols) /\ Seen("bltz_v1"),
       Divert(Hook(R("psema", 48, 52), PsemaBody, {R("psema", 56, 60), R("psema", 72, 76)}),
              {}))

PsemaTrampoline ==
  When(Found(CacheSymbols) /\ Seen("bnez_v0") /\ Seen("bltz_v1"),
       Divert(Hook(R("psema", 48, 52), PsemaBody, {R("psema", 56, 60), R("psema", 72, 76)}),
              {}))

-----------------------------------------------------------------------------
(* Time stamps, the clock, copying, the page table base.                   *)
Timestamp ==
  When(Found({"pv_get_timestamp"}) /\ Seen("lui_heart"), Write(R("pv_get_timestamp", 0, 8)))
TimestampCopy ==
  When(Found({"pv_get_timestamp"}) /\ Seen("second_lui_heart"),
       Write(R("timestamp_template", 0, 8)))
TimestampReader ==
  When(Found({"pv_get_timestamp"}), Write(R("pv_get_timestamp", 0, 20)))
Rtodc == When(Found({"rtodc"}), ReturnAtOnce("rtodc", 12))
Ovbcopy == When(Found({"ovbcopy"}), Write(R("ovbcopy", 0, 36)))
ContextBase == When(Seen("pte_base"), Write(R("pte_base", 0, 8)))
MtextnodeGuards ==
  When(Found({"mtextnode_vnodeops"}) /\ Seen("mtextnode_op"), Write(R("mtextnode_op", 0, 16)))

(* reset_leds(): when it is not there, the word at address 0 is read to be *)
(* printed.                                                                *)
ResetLeds ==
  When(Found({"reset_leds"}) /\ Seen("reset_leds_prologue"), ReturnAtOnce("reset_leds", 8))
\* Mutant: set_leds() is treated like it.
EitherNull == ~Found({"reset_leds", "set_leds"})

ReadsNull == ~Found({"reset_leds"})

SetLeds ==
  When(Found({"set_leds"}) /\ Seen("set_leds_prologue"), ReturnAtOnce("set_leds", 8))
AllocCpupda ==
  When(Found({"alloc_cpupda", "calloutinit_cpu"}) /\ Seen("jal_calloutinit_cpu"),
       Write(R("cpupda_call", 0, 4)))
FindCpuFreq ==
  When(Found({"findcpufreq_raw"}) /\ Seen("findcpufreq_prologue"),
       ReturnAtOnce("findcpufreq_raw", 16))
BadaddrVal ==
  When(Found({"badaddr_val"}) /\ Seen("badaddr_val_prologue"), Write(R("badaddr_val", 0, 40)))
Wbadaddr ==
  When(Found({"wbadaddr"}) /\ Seen("wbadaddr_prologue"), Write(R("wbadaddr", 0, 40)))

-----------------------------------------------------------------------------
(* Drivers without their hardware, and the interrupt dispatch.             *)
Stub(f) == When(Found({f}), ReturnAtOnce(f, 8))
Wd93Init == Stub("wd93_init")
Wd93Stubs == Both(Stub("wd93_earlyinit"), Both(Stub("wd93edtinit"), Stub("wd93alloc")))
PerrInit == Stub("perr_init")
Ng1PixelDma == Stub("Ng1PixelDma")

C0vecTable == When(Seen("c0vec_tbl"), Write(R("c0vec_tbl", 0, 176)))

(* A lui is changed before the addiu that belongs to it is looked for, and *)
(* the next one is taken when there is none.                               *)
Complete == {i \in DOMAIN kern.luis : kern.luis[i]}
Changed == {i \in DOMAIN kern.luis : \A j \in Complete : i <= j}
IntrBase ==
  When(Seen("c0vec_tbl") /\ Found({"intr"}),
       Effect({R("intr_lui", 4 * i, 4 * i + 4) : i \in Changed}
                \cup {R("intr_addiu", 4 * i, 4 * i + 4) : i \in Changed \cap Complete},
              {}, {}))
Ioc1Flag == When(Found({"is_ioc1_flag"}), Write(R("is_ioc1_flag", 0, 4)))

-----------------------------------------------------------------------------
(* Guards at places that would crash, with their trampolines.              *)
XfsGuard ==
  When(Found({"xfs_da_node_lookup_int", "wd93_earlyinit"}) /\ Seen("lw_s5"),
       Divert(Hook(R("btree_load", 0, 8), XfsBody, {R("btree_load", -612, -608)}), {XfsBody}))
SwtchGuard ==
  When(Found({"swtch", "wd93_earlyinit"}) /\ Seen("lw_a2"),
       Divert(Hook(R("swtch_load", 0, 4), SwtchBody,
                   {R("swtch_load", 4, 8), R("swtch_load", 16, 20)}), {SwtchBody}))
ResumeGuard ==
  When(Found({"resume", "wd93_earlyinit"}) /\ Seen("resume_entry"),
       Divert(Hook(R("resume", 0, 4), ResumeBody, {R("resume", 8, 12)}), {ResumeBody}))
\* Mutant: the host of the trampoline is not asked for.
UthreadUnasked ==
  When(Found({"uthread_dup"}) /\ Seen("lw_v0"),
       Divert(Hook(R("uthread_load", 0, 4), UthreadBody, {R("uthread_load", 4, 8)}),
              {UthreadBody}))
UthreadGuard ==
  When(Found({"uthread_dup", "wd93_earlyinit"}) /\ Seen("lw_v0"),
       Divert(Hook(R("uthread_load", 0, 4), UthreadBody, {R("uthread_load", 4, 8)}),
              {UthreadBody}))
MapDevice ==
  When(Found({"pas_addmmapdevice", "wd93edtinit"}) /\ Seen("sd_t0"),
       Divert(Hook(R("mmap_store", 0, 8), MapDeviceBody, {R("mmap_store", 8, 12)}),
              {MapDeviceBody}))

(* Compare is not written by the clock's reader and the exception return.  *)
GetR4kCounter ==
  When(Found({"get_r4k_counter"}) /\ Seen("mtc0_a3"), Write(R("r4k_compare", 0, 4)))
LocoreEret ==
  When(\/ (Found({"locore_eret_4"}) \/ Found({"elocore"})) /\ Seen("mtc0_zero_near")
       \/ ~Found({"locore_eret_4"}) /\ ~Found({"elocore"}) /\ Seen("mtc0_zero_somewhere"),
       Write(R("eret_compare", 0, 4)))

(* Three entries of the frame buffer's table, which is found by the call   *)
(* that registers it.                                                      *)
VtblHook(n, body) == Hook(R("pvfb_vtable", 4 * n, 4 * n + 4), body, {})
PvfbVtable ==
  LET attach == VtblHook(1, AttachBody)
      mapGfx == VtblHook(12, MapGfxBody)
      private == VtblHook(25, MapGfxBody) IN
  When(/\ Found({"gfxdd_mmap", "ddv_mappages", "gfx_fault", "wd93edtinit"})
       /\ Found({"GfxRegisterBoard", "pvfbedtinit"}) /\ Seen("vtable_load"),
       Both(Divert(attach, {FaultBody, AttachBody}),
            Both(Divert(mapGfx, {MapGfxBody}), Divert(private, {}))))

-----------------------------------------------------------------------------
(* io_init[]: the kernel's drivers, NULL, and what lies behind.  ng1_init  *)
(* is taken out and the paravirtual drivers that were found are put where  *)
(* the first NULL is.                                                      *)
Drivers == <<"pvdiskedtinit", "if_pvnetedtinit", "pvfbedtinit", "pvaudioedtinit">>
IoTable(io) == io \o <<NULL>> \o [i \in 1 .. IOMAX + 4 |-> "behind"]

At(t, n, s) ==         (* t with the entries of s from index n on          *)
  [i \in DOMAIN t |-> IF i \in n .. n + Len(s) - 1 THEN s[i - n + 1] ELSE t[i]]
Ends(t) == {i \in 1 .. IOMAX : t[i] = NULL}
First(S) == CHOOSE i \in S : \A j \in S : i <= j

(* Those of a sequence that are in a set, in their order.                  *)
Only(s, S) ==
  LET kept[i \in 0 .. Len(s)] ==
        IF i = 0 THEN <<>>
        ELSE IF s[i] \in S THEN Append(kept[i - 1], s[i]) ELSE kept[i - 1]
  IN kept[Len(s)]

Wanted == STRING \ (IF Found({"ng1_init"}) THEN {"ng1_init"} ELSE {})
Scanned(t) == SubSeq(t, 1, IF Ends(t) = {} THEN IOMAX ELSE First(Ends(t)) - 1)

\* Mutant: the shortened table is not ended again.
NotEnded(t) == At(t, 1, Only(Scanned(t), Wanted))

Compacted(t) == At(t, 1, Only(Scanned(t), Wanted) \o <<NULL>>)
Appended(t) ==
  IF Ends(t) = {} THEN t
  ELSE At(t, First(Ends(t)), Only(Drivers, kern.syms) \o <<NULL>>)

-----------------------------------------------------------------------------
NoKernel == [syms |-> {}, fits |-> {}, luis |-> <<>>, io |-> <<>>, high |-> FALSE]

PatchInit ==
  /\ kern = NoKernel /\ step = 0
  /\ words = {} /\ stubbed = {} /\ hooks = {}
  /\ ioInit = IoTable(<<>>) /\ faulted = FALSE

(* The program is in memory and nothing of it is patched yet.              *)
Fresh(k) ==
  /\ kern' = k /\ step' = 1
  /\ words' = {} /\ stubbed' = {} /\ hooks' = {}
  /\ ioInit' = IoTable(k.io) /\ faulted' = FALSE

Apply(n, e) ==
  /\ step = n /\ ~faulted
  /\ step' = n + 1
  /\ words' = words \cup e.words
  /\ stubbed' = stubbed \cup e.stubs
  /\ hooks' = hooks \cup e.hooks
  /\ UNCHANGED <<kern, ioInit, faulted>>

PatchIoInit ==
  /\ step = 9 /\ ~faulted
  /\ step' = 10
  /\ ioInit' = IF Found({"io_init", "pvdiskedtinit"}) THEN Appended(Compacted(ioInit)) ELSE ioInit
  /\ UNCHANGED <<kern, words, stubbed, hooks, faulted>>

(* Address 0 is memory while ERL is set, as it is for programs that are    *)
(* linked low; with ERL clear it is translated, and nothing is mapped.     *)
Fault ==
  /\ step = 14 /\ ~faulted
  /\ ReadsNull /\ kern.high
  /\ faulted' = TRUE
  /\ UNCHANGED <<kern, step, words, stubbed, hooks, ioInit>>

PatchLeds == ~(ReadsNull /\ kern.high) /\ Apply(14, Both(ResetLeds, SetLeds))

PatchEarly ==
  \/ Apply(1, CprintfStore) \/ Apply(2, BcleanGuard) \/ Apply(3, CacheSize)
  \/ Apply(4, PutbufTrampoline) \/ Apply(5, PsemaTrampoline)
  \/ Apply(6, Timestamp) \/ Apply(7, TimestampCopy) \/ Apply(8, TimestampReader)
  \/ PatchIoInit
  \/ Apply(10, Rtodc) \/ Apply(11, Ovbcopy) \/ Apply(12, ContextBase)
  \/ Apply(13, MtextnodeGuards) \/ PatchLeds \/ Fault
  \/ Apply(15, AllocCpupda) \/ Apply(16, FindCpuFreq)
  \/ Apply(17, BadaddrVal) \/ Apply(18, Wbadaddr)

PatchLate ==
  \/ Apply(19, Wd93Init) \/ Apply(20, Wd93Stubs)
  \/ Apply(21, C0vecTable) \/ Apply(22, PerrInit) \/ Apply(23, Both(IntrBase, Ioc1Flag))
  \/ Apply(24, XfsGuard) \/ Apply(25, Ng1PixelDma) \/ Apply(26, SwtchGuard)
  \/ Apply(27, ResumeGuard) \/ Apply(28, UthreadGuard) \/ Apply(29, MapDevice)
  \/ Apply(30, GetR4kCounter) \/ Apply(31, LocoreEret) \/ Apply(32, PvfbVtable)

PATCHED == 33
Patch == PatchEarly \/ PatchLate
=============================================================================
