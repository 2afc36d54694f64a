------------------------------ MODULE MCLoader ------------------------------
(***************************************************************************)
(* One disk with a kernel, an ELF program with two tails and no symbol     *)
(* table and an ECOFF program, loaded in any order; and many disks with a  *)
(* kernel of which a symbol is missing or something is not recognised.     *)
(***************************************************************************)
EXTENDS LoaderProps

MCSymbols ==
  {"_bclean_caches", "config_cache", "putbuf", "putbufsz", "maxcpus", "psema",
   "pv_get_timestamp", "rtodc", "ovbcopy", "mtextnode_vnodeops", "reset_leds", "set_leds",
   "alloc_cpupda", "calloutinit_cpu", "findcpufreq_raw", "badaddr_val", "wbadaddr",
   "wd93_init", "wd93_earlyinit", "wd93edtinit", "wd93alloc", "perr_init", "Ng1PixelDma",
   "intr", "is_ioc1_flag", "xfs_da_node_lookup_int", "swtch", "resume", "uthread_dup",
   "pas_addmmapdevice", "get_r4k_counter", "locore_eret_4", "elocore", "gfxdd_mmap",
   "ddv_mappages", "gfx_fault", "GfxRegisterBoard", "pvfbedtinit", "ng1_init", "io_init",
   "pvdiskedtinit", "if_pvnetedtinit", "pvaudioedtinit"}

MCMarks ==
  {"cprintf_store", "lw_at", "jal_size_2nd_cache", "bnez_v0", "bltz_v1", "lui_heart",
   "second_lui_heart", "pte_base", "mtextnode_op", "reset_leds_prologue",
   "set_leds_prologue", "jal_calloutinit_cpu", "findcpufreq_prologue",
   "badaddr_val_prologue", "wbadaddr_prologue", "c0vec_tbl", "lw_s5", "lw_a2",
   "resume_entry", "lw_v0", "sd_t0", "mtc0_a3", "mtc0_zero_near", "mtc0_zero_somewhere",
   "vtable_load"}

Whole == [syms |-> MCSymbols, fits |-> MCMarks, luis |-> <<FALSE, TRUE, TRUE>>,
          io |-> <<"ng1_init", "a">>, high |-> TRUE]

Tables ==
  {<<>>, <<"a">>, <<"a", "ng1_init", "b">>, <<"a", "b", "c">>,
   <<"ng1_init", "a", "b", "c">>, <<"a", "b", "c", "ng1_init", "d">>}

Kernels ==
  {[Whole EXCEPT !.syms = @ \ {s}] : s \in MCSymbols}
    \cup {[Whole EXCEPT !.syms = @ \ {"wd93_earlyinit", s}] : s \in {"swtch", "intr"}}
    \cup {[Whole EXCEPT !.syms = @ \ {"locore_eret_4", "elocore"}]}
    \cup {[Whole EXCEPT !.fits = @ \ {m}] : m \in MCMarks}
    \cup {[Whole EXCEPT !.luis = l] : l \in {<<>>, <<FALSE>>, <<TRUE>>}}
    \cup {[Whole EXCEPT !.io = t, !.syms = @ \ S] :
            t \in Tables, S \in {{}, {"ng1_init"}, {"if_pvnetedtinit"}}}
    \cup {[Whole EXCEPT !.high = FALSE, !.syms = @ \ {"reset_leds"}]}

Seg(a, o, f, m) == [at |-> a, off |-> o, file |-> f, mem |-> m]

Kern(k) ==
  [name |-> "unix", format |-> "elf", segs |-> <<Seg(0, 10, 2, 4)>>, tail |-> {},
   table |-> TRUE, seen |-> k, text |-> {0, 1}, returns |-> FALSE]
Two ==
  [name |-> "two", format |-> "elf", segs |-> <<Seg(0, 5, 1, 2), Seg(2, 7, 1, 2)>>, tail |-> {},
   table |-> FALSE, seen |-> NoKernel, text |-> {}, returns |-> TRUE]
Sash ==
  [name |-> "sash", format |-> "ecoff", segs |-> <<Seg(1, 3, 1, 1), Seg(2, 4, 1, 1)>>,
   tail |-> {3}, table |-> FALSE, seen |-> NoKernel, text |-> {}, returns |-> TRUE]
High == [Sash EXCEPT !.name = "high", !.seen.high = TRUE, !.segs = <<Seg(1, 3, 1, 1)>>]

MCDisks ==
  {{Kern(Whole), Two}, {Kern(Whole), Sash}, {High}} \cup {{Kern(k)} : k \in Kernels}
MCCells == 0 .. 3
MCFrame == {Seg(1, 8, 1, 2)}
=============================================================================
