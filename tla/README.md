# Formal models of the PROM

This directory holds TLA+ models of the firmware in this repository, the TLC
configurations that check them on small instances, and TLAPS proofs of their most
important properties for every instance. `PROJECT.json` lists the components, runs,
findings, hazards and theorems, and maps every definition of a model to the lines of C
it stands for; this file is the explanation that goes with it.

    tlc -workers 2 -config MCHeap.cfg MCHeap        # one run
    tlapm HeapProofs.tla                            # one proof module

Contents: [the system](#the-system), [the models](#the-models), [the runs](#the-runs),
[fairness and deadlock](#fairness-and-deadlock), [findings](#findings), [the
proofs](#the-proofs), [what is left out](#what-is-left-out), [what could
follow](#what-could-follow).

## The system

The program is a boot PROM for an SGI O2 (IP32), cut down to run on a paravirtual
machine: the start-up code calls `firmware()`, which initialises the environment, the
descriptors, the component tree and the memory map (`fw/finit.c`, `fw/pv_stubs.c`), and
then `_main()` runs a menu and a command prompt for ever (`fw/main.c`). The user, or the
autoboot at power-up, names a program; the PROM finds it on a disk (EFS, XFS or the
volume header), loads it, patches it for the machine when it is a known kernel, hands it
an environment, and jumps to it. The running program calls back through the ARCS vector:
Open, Read, Seek, Close, Load, Execute, Get/SetEnvironmentVariable, GetMemoryDescriptor
and so on.

There is one thread. Handlers given to `Signal()` are stored and never called in this
build, and no interrupt changes the state below. What makes the code hard is not
interleaving of threads but

* *interleaving of callers*: the prompt, the boot sequence and the programs use the same
  string list, heap, descriptor table and static buffers, and keep pointers into them
  across each other's calls;
* *failure in the middle*: any `malloc()` can fail (the arena is fixed) and any device
  read can fail, at each of some twenty places on the way to an open file, and every
  error path is hand-written;
* *data structures edited in place*: an allocator that walks and re-cuts its list with a
  rover, a string list compacted under its readers, in-core inodes whose contents change
  owner;
* *boundaries*: whole-block transfers straight into a caller's buffer, holes, partial
  blocks, tables of 63 strings, 60 kernel strings, a few descriptors.

### Inventory

State, operations and correctness of every component. The last column is the module, or
the reason there is none.

| component | state | operations | hard part; what makes it correct | modelled in |
|---|---|---|---|---|
| storage allocator, `libsc/lib/malloc.c` | arena `malbuf`, circular list of headers, rover `cblk` | malloc, align_malloc, realloc, free | joins that move the rover during a search, carving; blocks tile the arena, held blocks never overlap, nothing is stranded, every call ends | `Heap`, `Allocator` |
| string list, `libsc/lib/stringlist.c` | `strptrs`, `strcnt`, `strp`, `strbuf` | new_str1/2, delete_str, replace_str, garbage collection | the list is compacted while others hold pointers into it; the vector stays terminated, strings disjoint | `StringList` |
| environment, `libsk/ml/env.c`, `getenv.c` | `environ_str`, the C globals of `special_tab` | getenv, _setenv, unsetenv, resetenv, init_env | one name, one string; a value is set, refused, or lost only for want of room; the globals follow | `Environ` |
| boot sequence, `libsc/lib/auto.c`, `bootname.c` | static `sp`, `osl` into `strbuf`; saved pieces | autoboot, boot, make_bootfile | a cursor survives `setenv()`; every listed boot file is tried once, in order, and the loop ends | `Autoboot` |
| kernel environment, `fw/pv_stubs.c` | `kern_envp[]` | part of Execute | limit of the table; the forced variables are present, once | `Autoboot` |
| XFS file data, `libsc/xfs/xfs.c`, `xfs_inode.c` | open file's extents, position, frame of `_xfs_read` | Read, Seek | direct and buffered transfers, holes; the right bytes, none past the buffer, an end | `XfsRead`, `SeqFile` |
| XFS open path, `xfs.c`, `xfs_inode.c`, `fs.c` | static `eiob` and what it points to, in-core inode | fs_search's check, open, lookup, iread, ifree, close | one in-core inode is refilled for every path component; its blocks have one owner at a time; a path leads where it should | `XfsOpen` |
| descriptors and Execute, `fw/pv_stubs.c` | `fd_table`, the static `eiob` | Open, Close, Load, Execute, close_noncons | a shared static file behind descriptors; error returns that must close | `BootIo` |
| program loader, `pv_stubs.c` | BSS range, symbol table of the last load, `phdr` on the stack | load_program (ELF, ECOFF), Execute up to the jump | ignored read results, statics that outlive a load; the image that is started is the file's | `Loader` |
| kernel patcher, `pv_stubs.c` | words of the loaded kernel | some fifty patches between the load and the jump | which write is guarded by what; trampolines lie in dead code, redirections land in whole ones | `Patcher` |
| EFS, `libsc/fs/efs.c` | in-core inode, `indirectExtents[]` and its key, `StartBlock` | check, open, namei, bmap, read, close | a cache keyed by inode number only, error paths with different blocks to free; the right file, the right bytes, nothing kept | `EfsRead`, `EfsOpen` |
| XFS directories, `xfs_dir.c`, `xfs_dir2.c` | directory blocks, the buffer of one | lookup in both formats | transfer length against the buffer, search by halves, unset result; found exactly when there | `DirLookup` (its failures also in `XfsOpen`) |
| component tree, `pv_stubs.c` | pool of nodes | AddChild, init_component_tree, what programs add | nodes are linked while walked; every node is led to once | `CfgTree`, `Services` |
| memory map, `pv_stubs.c`, `mem.c` | `mem_descs[]` | init_memory_descriptors, GetMemoryDescriptor, mem_getblock | regions cut at boundaries; no overlap, nothing reserved is free | `MemMap`, `Services` |
| line editor, `libsc/lib/stdio.c` | ring of lines, cursor, end | edit_gets with all its keys | lines edited in place in the ring that is the history; nothing past the line, what is entered is what runs | `LineEdit` |
| command line, `expand.c`, `parser.c` | static buffers, a string list for the arguments | expand, get_var, get_quote, get_word, _argvize | quoting, escapes past the end, tables that fill; the words of the line | `CommandLine`, `Prompt` |
| life cycle, `finit.c`, `main.c`, `csu.s`, `startup.c` | - | reset, restart of the prompt | what a restart re-initialises and what it keeps | spread: a reset in `Loader`, `close_noncons()` in `BootIo`, the tables in `Services`, `init_env()` in `Autoboot` |
| volume header, `sdvh.c`, `is_vh.c` | directory of contiguous files | check, open, read | - | not modelled: the check always refuses, see [below](#what-is-left-out) |
| monitor, `menu.c`, `libsc/cmd` | - | menu, commands | dispatch and printing | setenv, unsetenv, resetenv and boot are actions of `Autoboot` |
| file system table, `fs.c` | list of file systems | fs_register, fs_search | runs once | the search is a step of `XfsOpen` and `EfsOpen` |
| signals and timers | handler table | Signal, alarm | nothing calls the handlers in this build | not modelled |
| drivers, flash, NVRAM, ISO 9660, `lib/`, caches | - | - | not linked into the image of the Makefile, or below the level of a program model | not modelled |
| power-on tests, `tools/flashbuild` | - | - | register-level tests; a host tool run once per build | not modelled |

How they interact: `Execute()` is called by the boot sequence, the prompt and running
programs. It uses the descriptors and, through them, the file systems, which take their
buffers from the allocator; it copies the environment into the kernel's. The boot
sequence writes the environment (`kernname`) between two reads of it. Programs keep
descriptors open across `Execute()` and change the environment while they run. A load
leaves static variables behind that the next one, of whatever program, starts from.

## The models

| module | what it is |
|---|---|
| `Heap` | `malloc.c`, one action per loop iteration |
| `Allocator` | the abstract allocator: disjoint regions in an arena |
| `HeapProps`, `HeapProofs`, `MCHeap` | properties, proofs, instance |
| `StringList` | `stringlist.c` as operators on a record; no state of its own |
| `Environ` | `env.c` over `StringList`: the environment and the mirrored C globals |
| `Autoboot` | `auto.c`, `bootname.c`, the environment commands and the kernel's environment, over `Environ` |
| `AutobootProps`, `AutobootProofs`, `MCAutoboot` | properties, proofs, instance |
| `XfsRead` | `Read()`, `Seek()`, `_xfs_read()`, `_xfs_bmap()`, `_xfs_get_blockno()` |
| `SeqFile` | the abstract file: contents, a position, reads that deliver what follows it |
| `XfsReadProps`, `XfsReadProofs`, `MCXfsRead` | properties, proofs, instance |
| `XfsOpen` | opening and closing of an XFS file, with the heap as a set of taken blocks |
| `BootIo` | descriptors, `Execute()`, `Load()` and programs over `XfsOpen` |
| `BootIoProps`, `BootIoProofs`, `MCBootIo` | properties, proofs, instance |
| `EfsRead` | `_efs_read()` and `bmap()` with the cached list of extents, below `Read()` and `Seek()` |
| `EfsOpen` | check, open, `namei()` and close over `EfsRead`, with every allocation and read failing |
| `EfsReadProps`, `EfsReadProofs`, `MCEfsRead` | properties, proofs, instance of `EfsOpen` |
| `Patcher` | the writes `Execute()` makes into a kernel |
| `Loader` | `load_program()` and `Execute()` over `Patcher`, one program after the other |
| `LoaderProps`, `LoaderProofs`, `MCLoader` | properties, proofs, instance |
| `CfgTree`, `MemMap`, `DirLookup` | component tree; memory descriptors; search of an XFS directory |
| `Services` | the three, as what a started program finds and calls |
| `ServicesProps`, `ServicesProofs`, `MCServices` | properties, proofs, instance |
| `LineEdit` | `edit_gets()` and its ring of lines |
| `CommandLine` | `expand()` and `_argvize()` as operators over `StringList` |
| `Prompt` | `command_parser()`'s loop over both |
| `PromptProps`, `PromptProofs`, `MCPrompt` | properties, proofs, instance |

**Heap.** Addresses and sizes are counted in units of `BLOCKSZ`, the size of a header
and the granularity of every request; that drops no case, because the code rounds first.
`nxt` and `stat` are functions on the headers *that are on the list*, so a header that
was joined away is simply not in their domain and a pointer to it is seen to be stale.
One call is in progress at a time (`call`, `pc`, `b1`); each iteration of a search or
join loop is a step, which is what lets the invariants be stated in the middle of a
search. `live` is what the callers hold; `laid` records the headers that the search of a
`realloc()` wrote, for the one property about contents. A caller frees pointers it holds
or freed before, as long as the header is still on the list; anything else is the
caller's error. `dmabuf_malloc()` is `align_malloc()` with the cache line.

**StringList, Environ, Autoboot.** A string is a sequence of cells ended by a NUL cell:
the environment string `name=value` is one cell for the name, then the cells of the
value. A cell is a path piece, a separator or a plain value; the positions of cells in
`strbuf` are modelled exactly, because two static pointers of `make_bootfile()` point at
them across calls. `Strings()` follows the vector to its null pointer like the code's
walks, `Hits()` uses `strcnt` like the code that does; they agree exactly when the list
is well formed. The prompt (`User*`), the boot sequence (`Boot`) and the running program
(`ProgramSetsEnv`) are the actors.

**XfsRead.** A byte of the disk is its own address, so a delivered byte says where it
came from. `exoff` is `result.ex_offset` of `_xfs_read()`'s frame: nothing initialises
it, so it starts with any value of `Stack`, and `_xfs_bmap()` assigns it except for a
hole. A transfer that fails has delivered some sectors already. The code keeps the length
in a LONG (`pv_stubs.c:1086`) and adds it to the offset in 32 bits (`xfs.c:800`,
`efs.c:619`); the model's integers are unbounded, and `WidthAssumption`, of `EfsRead` too,
keeps lengths below 2^31 and sums below 2^32. Outside it lie lengths larger than any
buffer, and a read just below 4 GB, whose wrapped sum leaves the length uncut.

**XfsOpen, BootIo.** The heap is a function from taken blocks to the purpose they were
taken for. A buffer taken and given back inside one function is left out, its failure is
not: wherever the code calls `malloc()` or reads the disk, the step may fail, and a step
that takes a block may be refused even when the model's heap has room, since the rest of
the firmware uses the same heap. `ip` is the in-core inode that `_xfs_lookup_name()`
refills for each path component; `trouble` is a history variable (some allocation or
read failed since the open began) and `base` is what was taken before it. Where the code
does not look whether `malloc()` gave it a block, the next access goes to address 0: the
model allows both a fault and going on. The search of a directory's blocks for a name is
one step with three outcomes: found, not found, failed.

**EfsRead, EfsOpen.** `cache`, `valid` and `vino` are `indirectExtents[]`,
`indirectExtentsValid` and the number the list is kept under; they outlive the file.
`owner`, `torn` and `astray` are history: whose list came in last, whether a read of it
failed half way, and whether the call in progress went by a list that is not its file's
or passed over a block by the comparison in `efs.c:653`, or took bytes from beyond
`REACH`: `pv_disk_strategy()` counts them from the start of the disk in 32 bits, so they
come from its beginning instead. Inodes and lists of extents are kept below it; XfsRead,
whose reads go through the same driver, keeps its whole disk below. `namei()` finds the blocks of
directories by the same `bmap()` and the same list, so a wrong list leads a path astray
as well as a read. A search through a directory is one step for each block; every
failure has the frees of its own label.

**Loader, Patcher.** A cell of memory holds the place in a file it came from, zero, or
what was there before. `bss`, `table` and `phdr` survive a load, as the statics (and the
stack) do, and are cleared by a reset, which keeps memory. A patch is an operator that
says which words it writes, which functions return at once from then on, and which words
lead into which trampoline; the actions apply these effects one a step, in the order of
the code, with `io_init[]` edited entry by entry in a step of its own. Which symbols and
patterns a kernel has is the instance's choice. The content of an instruction is not
modelled.

**CfgTree, MemMap, DirLookup, Services.** `AddChild()` walks to the last peer one link a
step; `Firmware` is the sequence of its calls at start-up, after which programs add
nodes below any. `Descriptors` computes the memory map from what a machine reports, as
the code does once. `DirLookup` has a step for each directory block and, in the second
format, for each extent that a block is read from; `buf` says which block of the
directory is where in the buffer and `over` how much was written behind it. The search
by halves of a large leaf is a recursive function, not a state machine. `Services` joins
the three: one thread, one call at a time.

**LineEdit, CommandLine, Prompt.** A line is an array of characters, and only a string
up to its first NUL; which keys write one is the point, so `bufp`, `bufc`, `current` and
the ring are kept as the code keeps them. `CommandLine` reads memory, not a string:
after a backslash it may look past the NUL at what earlier lines left. `Prompt` has two
kinds of sessions: one where the user types, every key in every order (`Received` is
what `getc()` may return, which ^V stores as it is: a NUL is among it), and one where
`edit_gets()` returns any of a set of arrays, so that more characters meet in `expand()`
than could be typed in every order.

### Bounds

| bound | value | why it is enough |
|---|---|---|
| heap arena (`Base`, `Limit`) | 13 units, address 3 on | room for five of the smallest blocks: a free run on each side of the rover and a held block between them, splits, joins across the rover, failure |
| `Sizes`, `Aligns` | 0 to 3 units; 1, 3, 4 | zero, exact fit, fit with one unit left, no fit; identity, refused (not a power of two), carving at both ends |
| `MAXSTRINGS`, `STRINGBYTES` (`boot_sequence`) | 6 and 20 | the defaults fit, and one or two user strings more bring either limit; a few changes fill the buffer with garbage; a list with an empty piece can be scanned to its end before its value moves |
| `KERN_ENVP` | 4 (the code's 60) | smaller than the string list, as 60 < 63 in the code; programs are entered with two entries left for `console=d` and `eaddr`, with one and with none, and with and without an `eaddr` of the PROM's own (`MCAutoboot` leaves it out of the defaults; a user sets it). More own strings than entries do not occur in the run; the theorem covers them |
| `BSIZE`, `SECTOR`, `MAX_DMA`, `ALIGN` | 4, 2, 8, 2 | more than one sector to a block, more than one block to a transfer, an extent longer than a transfer |
| `Files` | five extent lists | adjacent, scattered, holes at the start, middle and end, a partial last block, empty |
| `Stack` | -1, 0, 1, 2, 9 | before, at, inside and beyond the file |
| `BLOCKS` | 11 | an open file takes at most eight blocks and an open leaves at most a few behind, so the first opens succeed in full and later ones run out at each allocation in turn |
| `MAX_FDS` | 4, so two for disks and files | one held by a program and one for `Execute()`; none left |
| inodes and paths | 6, 8 | every format, as a directory and as a file; a missing last name, a missing directory, a file used as a directory |
| EFS: `BB`, `PERBB`, `DIRECT`, `MAXEXTENTS`, `ALIGN` | 2, 2, 2, 5, 2 | lists in the inode, in one block and in two; a list shorter than the one before it; one too long for the slots |
| EFS: `REACH` | 256, for 2^32 | the end of a file, and a directory with the file behind it, lie beyond |
| EFS inodes and paths | 11 on two partitions, 11 | the same number on both, as a directory and as a file; directories of one block and of several, one that cannot be searched |
| loader: `Cells`, `Disks` | 0 to 3; kernel, ELF and ECOFF in the sets of a disk | segments that follow, overlap the BSS of another program or another program's text |
| loader: kernels | one complete, and 100 that each lack a symbol or a pattern, or differ in `io_init[]` | every guard of every patch is false in one of them; the proofs cover all combinations |
| `IOMAX` | 3 (the code's 30) | tables that are empty, that fill what is looked at, and that go on behind it |
| `MAX_CFG_NODES` | 11 (the code's 24) | the firmware takes nine; two more fill the pool, and a third is refused |
| `MAX_MEM_DESCS`, `DIRBLKFSBS`, `MANY`, `CLOSE`, `MAXNAMELEN` | 12, 2, 64, 4, 256 | the code's values; a directory block of two blocks can be split over extents |
| machines | 8 | below 64 MB, at it, around the HEART window, above 256 MB, with and without a second bank |
| `LINESIZE`, `EDIT_HISTORY` | 6 and 3 (the code's 256 and 10) | the last two cells the editor keeps free and a line of three; a ring with a newest, a middle and an oldest line |
| `Keys`, `Received`, `Arrived` | `!` and a backslash; these and the NUL; every line of three cells over nine characters and the NUL | "!!", and every pair of quote, variable, escape, blank and remains behind the end |
| `MAXSTRINGS`, `STRINGBYTES` (`prompt`) | 2 and 10 | two words are one too many; `argv` holds at most one then, and that more of them come in order is the theorem's (`ArgvIsRight`) |

`BLOCKS` is a bound of the model, a cap on the number of taken blocks; the other
parameters exist in the code with larger values.

## The runs

| run | states | what it checks |
|---|---|---|
| `heap` | 291 083 | Every order of up to the arena's fill of malloc, align_malloc, realloc and free: the list stays well formed at every step (`ListInv`), held blocks are backed (`LiveBacked`), none is stranded (`NoLeak`), a NULL answer means there was no room (`FailureIsGenuine`), answers fit (`AnswerHonoured`), calls end (`CallReturns`) and the allocator implements `Allocator` (`ImplementsAllocator`). |
| `heap_realloc` | - | finding 1 |
| `boot_sequence` | 185 902 | Prompt, boot sequence and programs over one string list: the list is well formed through deletes and collections (`ListOK`), `setenv` does what it answers and the C globals follow (`SetEnvHonoured`), the boot files are those of the two variables in order unless they moved (`BootfilesInOrder`), the loop always advances (`ScanAdvances`), and a program is handed the PROM's strings and the forced ones exactly as far as the table goes (`KernelEnvComplete`). |
| `autoboot_stale` | - | finding 2 |
| `xfs_read` | 7 767 | Every read and seek of five files: no byte past the caller's length (`InBounds`), the right bytes (`SliceRight`), an end (`ReadEnds`), and the whole is an ordinary sequential file (`ImplementsFile`). |
| `xfs_hole` | - | finding 3 |
| `boot_io` | 653 990 | Opening, loading and closing files through Execute and Load with any allocation or read failing, while programs hold descriptors: one XFS file at a time (`OneFsFile`), descriptors balanced (`DescriptorsBalanced`), an open file's blocks its own (`OpenFileBacked`), a good path opens and leads to the right inode (`GoodPathOpens`), nothing but the known blocks stays behind (`OnlyKnownLeaks`), every call ends (`ExecuteEnds`). |
| `xfs_path` | - | finding 4 |
| `efs_read` | 198 970 | Paths opened on two partitions in turn and read with any length, alignment and place, with any allocation or read failing: what is delivered is the file's own and stays in the buffer (`EfsSliceRight`), the cached list is the last one read in (`ListTruthful`), a path leads where it should (`EfsPathRight`), a failed open gives back what it took (`EfsBlocksBack`), opens and reads end (`EfsCallEnds`). |
| `kernel_load` | 329 057 | A kernel, an ELF and an ECOFF program loaded and started in any order with failing reads and resets, and kernels that each lack something: the image is the file's (`ImageRight`), trampolines lie in dead code of their own (`TrampolinesSafe`), redirections land in whole ones (`RedirectsLand`), the driver table keeps its drivers (`DriversListed`), a load ends (`LoadEnds`). |
| `arcs_services` | 477 475 | Eight machines, additions to the component tree anywhere, searches of every form of directory: the links agree in the middle of an addition too (`TreeSound`), the memory map overlaps nothing and frees nothing reserved (`MapSound`), a name is found exactly when it is there (`LookupRight`), the buffer holds the block that is searched (`BufferRight`). |
| `prompt` | 3 180 065 | Every key in every order at the line editor, ^V before any byte and the NUL included, and every line of three characters split into words: nothing outside the lines (`LinesSound`), what is entered is what is remembered (`Remembered`) and what is run (`RunsEntered`), a command gets the words of its line (`ArgvRight`). |

Some of these properties are weaker than a reader may expect, on purpose: each names the
flaws of the code it excepts, so that a new one shows, and the exceptions are in the
property, not in the model.

* `BootfilesInOrder` has the proviso that the values have not moved, because without it
  the code is wrong (finding 2); `ScanAdvances` then says what still holds without the
  proviso. `KernelEnvComplete` says what happens at the limit (`pv_stubs.c:2081`),
  not that it is never met: behind 60 other variables there is no `console=d`, behind 59
  no `eaddr` but the PROM's own.
* `OnlyKnownLeaks` speaks of opens that succeed: one that fails leaves its blocks behind
  on every way out of `_xfs_open()`. EFS does better (`EfsBlocksBack`).
* `SliceRight` speaks of what was delivered; a hole may make the read fail (finding 3).
* `EfsSliceRight` and `EfsPathRight` except a call that went by the cached list of
  another partition's inode of the same number, or by one that came in only in part
  (`efs.c:250`, `279`), and the former a read of exactly `BBSIZE` blocks that passes
  over a block (`efs.c:653`); and both a place of the disk that the driver's 32-bit
  byte offset does not reach, 4 GB or more from its start (`pv_stubs.c:854`).
* `ImageRight` excepts a read of a segment that failed, which is printed and ignored
  (`pv_stubs.c:1537`); the BSS range and the symbol table of the program before, which
  are applied to one that brings none (`1521`, `1635`); and the tails of segments before
  the last, as only one range is kept. `LoadEnds` excepts a kernel without
  `reset_leds()`, for which address 0 is read (`2893`).
* `RedirectsLand` does not ask for `semawait` and `v_mapphys`, which two trampolines
  call without a check that they were found.
* `BufferRight` says exactly when the buffer of a directory block is overrun: when the
  extent goes on behind the block (`xfs_dir2.c:328`). `LookupRight` excepts a directory
  with no block to search, for which the result is whatever the stack held.
* `Remembered` and `RunsEntered` speak of the line as a C string: ^V stores whatever
  byte `getc()` returns (`stdio.c:255`), and what lies behind a NUL quoted so is dropped;
  a line that begins with one counts as empty.
* `RunsEntered` says exactly what is run instead in two more cases: the oldest line, recalled
  and entered, comes back empty, since its place is cleared for the next line before the
  parser reads it; and "!!" typed over a recalled line is looked up but not handed over
  (`stdio.c:480`). `ArgvRight` says that argc may exceed what argv holds.

Each property is also checked against a deliberately wrong version of one definition
(`PROJECT.json`, "mutants"; the operators marked `Mutant:` in the modules, which nothing
else uses): TLC must find the property violated then.

## Fairness and deadlock

`Heap`, `XfsRead`, `BootIo`, `EfsOpen` and `Loader` assume weak fairness of the steps
*inside* a call (`Step`, `Loop`, `Load`): there is one thread, and once a call is made
nothing else runs until it returns. Nobody is obliged to make a call. `Autoboot` states
no fairness; that its loop ends is the action property `ScanAdvances`: each turn moves
one of two cursors forward in a finite buffer. `Services` and `Prompt` state none
either; their properties are safety properties.

Deadlock is checked except in `boot_io` and `xfs_path`: there an access through a null
pointer stops the machine (`pc = "fault"`), which is what the code does. In
`kernel_load` the machine that stopped (`faulted`) is reset.

## Findings

1. `heap_realloc`: `realloc()` frees, allocates, then copies. When `malloc()` joins a
   free block in front with the freed one and splits it, the header of the left-over is
   written inside the old contents before they are copied (`malloc.c:387`).
2. `autoboot_stale`: `make_bootfile()` keeps pointers into `strbuf` over the
   `setenv("kernname", ...)` between its calls; when that collects garbage, the next
   path is read from whatever is at the old address (`bootname.c:49`, `auto.c:110`).
3. `xfs_hole`: reading part of a hole fails with `EIO`, or not, by an uninitialised
   variable (`xfs.c:857`).
4. `xfs_path`: a directory on the path that does not exist is skipped: `/nosuch/unix`
   opens `/unix` (`xfs.c:559`).

Smaller disagreements met while translating. These are in the models as the code has
them, like the exceptions in the list above:

* A line left with ^P after typing is not ended with a NUL and comes back with the old
  characters behind it (`stdio.c`, `newbuffer`).
* `setenv x ""` drops the whole line: `get_word()` answers NULL for the empty word,
  which `_argvize()` takes for "lines of whitespace".
* A backslash protects a `$` outside double quotes, not inside.
* A backslash at the end of a line makes `expand()` read past the NUL; a quote or a `$`
  in the remains then gives an error about a line that has none.

* `make_bootfile()` says "replace any empty portions of the path with most recent value"
  (`bootname.c:57`). It does so for a variable that has run out; an empty piece, as in
  front of the `;` of `unix ;sash`, makes a boot file with nothing in its place.

These lie outside the models:

* `malloc.c:127` shifts by 32 through `c_lsize`, so `dmabuf_linemask` is 0.
* The case of a tab in `fgets()` has no check for room.
* `_efs_open()`'s "not an extent file system" answers 0 (unreachable after the check).
* The guard that is patched into `uthread_dup()` runs an instruction of a delay slot
  twice; of the `lui` of `intr()` only one half may be patched (`pv_stubs.c:3275`).
* `mem_contains()` does not compare `base + bytes` with the end (nothing in the image
  calls it).
* The read in `sdvh.c` does "goto again" after a failed read with
  `StartBlock` already set, so the second try skips the read (unreachable, see below).
* The raw disk's `Read()` never compares the position with the partition's size.
* `resetenv()` leaves the C globals that mirror variables at their old values
  (`env.c:120`); nothing says what they should be.

## The proofs

All proofs are of the modules the runs check, for every value of the constants that
satisfies the named assumptions, which TLC evaluates in every run. There are 39
theorems, and 38 of them are listed in `PROJECT.json`; the lemmas under them are in the
same modules. The assumptions are of three kinds.

*The code's own configuration.* The arena has room for its place holders, sizes are
natural numbers, alignments positive (`ArenaAssumption`, `RequestAssumption`); the string
list and the kernel's environment have positive limits (`SizeAssumption`,
`EnvpAssumption`); no default is a variable that a C global mirrors
(`DefaultsAssumption`, a fact about the two tables of `env.c`); there are more descriptors
than the console's two (`BootAssumption`); the geometry of EFS is positive, a block a
multiple of the alignment and the driver's reach a multiple of a block
(`GeometryAssumption`), lengths and positions fit the 32-bit words they are kept in
(`WidthAssumption`); the tables have room for what the firmware itself puts there
(`CfgTreeAssumption`, `MemMapAssumption`); the keys that insert themselves are bytes
`getc()` may return, and a NUL is another (`LineAssumption`).

*The shape of the data*, which makes the data what the code can be given: paths are
sequences of names (`PathAssumption`, `BootAssumption`), values are not empty strings
(`UserAssumption`; what an empty one does is in the findings), extents are records of
naturals and a file's list has as many slots as the code copies (`FileAssumption`),
programs are segments within memory (`LoaderAssumption`).

*What a disk holds that was written by the systems these formats belong to.* Entries of
directories name inodes that exist (`InodesAssumption`), an inode number names one inode
of a partition (`PartitionAssumption`), an EFS directory is made of directory blocks and
names nothing twice (`DirectoryAssumption`), the entries of a leaf are sorted by hash
(`OrderAssumption`) and equal names have equal hashes (`HashAssumption`), no name lies in
a block that is not there (`HoleAssumption`), the segments of a program do not overlap,
nor do they overlap its BSS (`LayoutAssumption`), and the programs of a disk have
different names (`NameAssumption`, of the model: a cell of memory is told by the name of
the program it came from). The properties these serve speak of such disks only: on a
directory that is not sorted, a search by halves may well miss a name.

**HeapProofs.** None of the properties is inductive alone: that a search may follow
`nxt[b1]` needs the rover to be on the list, which needs the joins to move it, which
needs the list to be in address order. The invariant is `IInv == HeapTypeOK /\ ListInv
/\ LiveBacked /\ CallInv`: types; the blocks tile the arena between the place holders
with rover and traversal pointer on the list; held blocks are malloced and large enough;
and what is known at each step of a call (for example, that the block found is large
enough for the request and is not held). `LinkTiles`, `UnlinkTiles` and `ExtendTiles`
show once each that cutting, joining and growing keep the tiling, whatever the step that
does it; one lemma per action follows; `NextInv` puts them together. From `IInv`:
`TypeCorrect`, `ListCorrect`, `CallersAreBacked`, and `Refinement`, in which every
answer maps to `Alloc`, every `free()` to `Release` and everything else to a stutter.
`NothingLeaks` needs one more invariant, `Held`: a malloced block is held by a caller or
is the one the call in progress is about to hand out.

What an answer means comes on top of `IInv`. `SearchInv` says that no
block the search has left behind fits (`Unfit`), in the face of joins that move the
rover and of the wrap at the end; once the search is over none of the list does, and
when the end of the arena cannot be moved either the refusal is genuine:
`FailureAlwaysGenuine`. `AlignInv` carries the arithmetic of the front and back parts
that `align_malloc()` cuts off: `AnswersHonoured`.

**XfsReadProofs.** `XInv` says of every step of a read that what is left and what was
delivered make up the length asked for, cut at the end of the file, and that the buffer
holds the file's bytes delivered so far and, until a transfer fails, nothing else.
`InBounds` and `SliceRight` follow (`AlwaysInBounds`, `SliceAlwaysRight`), and so does
`ReadsAsFile`: every step is a step of `SeqFile` or a stutter. The lemmas are about
division: what share of a block is left, and where a byte of an extent lies on the disk.

**EfsReadProofs.** `EInv` has four parts: types; `ListInv`, which ties the cached list
to the file it was read for while it is valid and not torn; `NoReadInv` between calls;
and `LoopInv`, as for XFS but only while the call has not gone astray. From it
`EfsAlwaysInBounds`, `ListAlwaysTruthful` and `EfsSliceAlwaysRight`. `TakenInv`, which
needs only the step of the open, gives `BlocksAlwaysBack`. `PathInv` is about `namei()`:
the names consumed so far lead from the root to the inode in hand (`LedTo`), and the
blocks of the directory that were searched already do not have the next name (`Behind`),
so that what is found is the file and what is not found is nowhere. With the lemma that
`bmap()` answers a file's own block unless the call has gone astray it gives
`EfsPathAlwaysRight`, for paths of any length.

**LoaderProofs.** `PatchInv` says of the functions that hold trampolines and of the
places that lead into them that only the words of a fixed list are ever written there
(`Known`), that a trampoline that was written is dead code, that a redirection has its
trampoline, with the symbols it refers to, and comes back to words the list leaves alone
(`Lands`); and what the patches already made imply for the ones that depend on them.
There is a lemma for each patch. It gives `TrampolinesAlwaysSafe` and
`RedirectsAlwaysLand`: TLC sees 101 kernels, the theorems all sets of symbols and
patterns. `ImageInv` says what is in memory in the middle of a load: the segments loaded
so far (`SegmentsIn`), the BSS range of the last of them that has one (`RangeIn`), the
cleared tail (`TailIn`); that a range which is left from another program names that
program (`RangeNamed`) is what makes the exception of the property exact. It gives
`ImageAlwaysRight`, for any number of segments. `IoInv` is about `io_init[]`: as it was
read, until the patch, and from then on what `IoRight` says. The lemmas are about what
compacting a table and appending to it leave (`OnlyIs`, `PatchedIs`), for tables of any
length: `DriversAlwaysListed`.

**ServicesProofs.** `TreeInv` is `TreeSound` with the walk of `AddChild()` (`WalkInv`:
the walk is at a peer of the node's siblings, and the new node is not linked); from it
`TreeAlwaysSound` for any pool and any additions. `MapInv` needs one lemma for each zone
of the memory map, for every size: `MapAlwaysSound`, together with `BlockInv` for the
largest block. The branch for memory that ends *inside* the HEART window is proved never
to be taken. `BufInv` counts how much of a directory block is in the buffer:
`BufferAlwaysRight`. `SearchInv` says that no block behind the search has the name, and
that `retval` is unset as long as all of them were passed over. What is left is that the
search of one leaf is right. `HalvesIs` shows that the halving ends inside the leaf
whatever its length, `ByHalvesFinds` that from *any* place in it the steps by hand, down
and up, and the search over the equal hashes find the name exactly when it is there: the
halving needs to be in bounds, not to be close. `LookupAlwaysRight` follows.

**BootIoProofs.** Three layers, each an invariant on top of the one before. `DescInv`
ties the descriptor to the step of `Execute()` and gives `OneFileAtATime` and
`NoDescriptorForgotten`. `FileInv` adds that the four blocks of the file and the blocks
of the in-core inode are taken for their own purposes as far as the open has come
(`AllocOK`, `Backed`, `Loads`) and are distinct (`Apart`), so that `_xfs_ifree()` of a
directory cannot take a block of the file: `FileBacked`. `LeakInv` adds that every block
taken since the open began is accounted for by the file, the inode or the two kinds that
leak (`Accounted`), and which pointers are still null (`NotYet`): `LeaksKnown`.
`LeastNatural` (a nonempty set of naturals has a least element) is what makes "the first
unused descriptor" and "the first free block" usable. The proof holds for any file
system tree, any set of paths and any number of blocks and descriptors; TLC's instance
has six inodes. `GoodPathAlwaysOpens` has an invariant of its own, `OnWay`: what is left
of the path is its end (`Remains`), and unless something failed the inode in hand is where
the names before it lead (`There`). A path that leads somewhere leads somewhere after
each of its names (`WayGoesOn`, by induction downwards), so no step of the lookup is
refused.

**AutobootProofs.** A string list is `Sound` when its pointers lead, in order, to strings
that end before the next one begins, the vector is ended, and the free cells lie behind
the last string.
One lemma for each operation says that it keeps this and what the strings are afterwards:
`DeleteStr` moves the vector down and loses no other string, the collector copies every
string to a place not above the old one before anything is written over it, `NewStr`
adds its string or refuses for want of room. `EnvOK` adds to this that a name has one
string and that a variable which is set has the value its C global has. From it
`ListAlwaysOK` and `SetEnvAlwaysHonoured`, for every size of the buffer and of the
vector. `BootOK` keeps the two cursors of `make_bootfile()` inside the buffer, stale or
not; since `EnvGetVar()` only moves forward, `ScanAlwaysAdvances`. What a program is
handed needs no invariant of its own but the sound list: `CopiedInOrder` says by counting
(`PlaceIs`) at which entry each string of the PROM's ends up, `KernEnvpHanded` which of
the forced two still fit behind them: `KernelEnvAlwaysComplete`.
`OrderInv` comes on top: while no path variable has moved, each cursor stands at a stop of
its value (`Stop`: behind a separator, or at the end) with as many pieces behind it as
boot files were made, and the last one is saved (`Reading`). `PieceMet` shows that from a
stop `env_get_var()` takes exactly the next piece and is at a stop again, whatever blanks
and separators the value has; the setenv of `kernname` leaves the value itself alone
(`StaysRead`). `BootfilesAlwaysInOrder` follows. This proof corrected its property: an
earlier list of pieces had no empty ones, and the code has.

**PromptProofs.** The invariant is `Sound`: every line of the ring is an array of
characters that ends before its last two cells (`Storable`), and `bufp`, `bufc` and the
two places in the ring are in range. The line that is edited may hold NULs that ^V put
there, so what Return works on is the C string in front of the first (`EndedIs`).
There is a lemma for each key; that no key writes the last cells is `HasRoom` in the two
keys that insert, and NUL in the ones that remove. What Return does to the ring is
`EnteredIs`, which has to look at a "!!" that is typed over the line before it. The other
half is `expand()`: `QuoteOf` shows that a loop which a backslash carries over a NUL is
stopped by one of the last two cells, `TurnOf` that each turn of `expand()` moves on and
answers an offset in the line whatever the texts between double quotes expand to, and
`ExpandFromOf` that `LINESIZE` turns come to a NUL. `LinesAreSound` follows for lines,
rings and environments of any size, `WhatIsEnteredIsRemembered` and `WhatIsEnteredIsRun`
from the same invariant.

`ArgvIsRight` rests on what `LinesAreSound` shows of the expanded line (`Readable`: a C
string that fits the buffer of `get_word()`). `OpenMark` says after which characters a
quotation mark is open, and a word runs from a `Firsts` position to the next blank outside
marks. `TakesNext` is the heart of it: at a position inside a word one turn of
`get_word()` takes what the definition of the word takes there, so that `WordIs` follows
by `CountUp`, `NextWord` leads from the end of a word to the next first position, and
`Rank`, the number of words in front of it, grows by one. The other half is the string
list: `Holds` says which strings a list has, each below `strp` and ended by a NUL;
`AddedHolds` keeps it and `StringsAre` is what a walk along it finds. The turns of
`_argvize()` keep `GoneOn`, which joins the two: argc is the rank of the position, the
list holds the first words as far as its vector has room, and the bytes in use are fewer
than the characters read, so that the byte array is never full. The other state is `Dropped`, after
a word without characters.

**Recursive functions.** The library's induction theorems take an operator as a parameter,
which these provers cannot instantiate. What is true of a recursive function at every place
is proved in two other ways. `CountUp` is induction over a *set* of naturals: the set of
the places where the fact holds contains 0 and is closed under + 1 up to the bound.
`RecursionExists` gives, for a value at 0 and an operator made a function, the recursive
function itself, from which the definition of a `CHOOSE`n one is unfolded
(`Computes`). The walks of the string list (`AutobootProofs`), the way of a path
(`BootIoProofs`, `EfsReadProofs`), the halving (`ServicesProofs`), the tables of
drivers (`LoaderProofs`) and the loops of `expand()`, `get_word()` and `_argvize()` (`PromptProofs`)
rest on these; they stand at the head of each of these modules.

**Only model-checked.** Liveness (`CallReturns`, `ReadEnds`, `ExecuteEnds`,
`EfsCallEnds`, `LoadEnds`): temporal properties under fairness are out of the prover's
reach. Every other property of a passing run is the statement of a theorem.

## What is left out

**Not modelled.** The repository has some 87 000 lines of sources and headers. Most of them
are headers, or sources the Makefile does not link (its comments say which were removed
and what replaced them: the flash, NVRAM, serial, CRIME/MACE and SMP code). The lists of
the Makefile come to some 24 000 lines, of which a quarter is mapped. The rest of those is
printing and formatting (`stdio.c` but for the line editor, `hinv_cmd.c`, `memdb_cmd.c`,
`ls_cmd.c`), string and arithmetic helpers without state, power-on tests, assembly below
the level of a program model, functions nothing calls, stubs that answer a constant
(much of `pv_stubs.c`), and commands that call one function of a modelled component.

* The volume header file system: `_sdvh_checkfs()` gets its header with DIOCGETVH, and
  `pv_disk_strategy()` answers every FC_IOCTL with 1, "unsupported"; the check always
  refuses, so `_sdvh_open()` and `_sdvh_read()` do not run. The refusal is a step of
  both opens.
* `main_intr()` and signal handlers: nothing delivers a signal in this build.
* `_xfs_getdirent()` and `_efs_getdirent()`: `GetDirectoryEntry()` is a stub.

Inside the modelled components: the debugging code of `malloc.c` (`link_check`,
statistics); `printenv`; `set_str`, which fills boot's argument vector, and
`delete_strnum`, which has no caller; parsing of device paths, and the lookup of a
command in its table; echo to the terminal; symbolic links, which the lookup does not
follow, and the byte layout of inodes, directories and B-tree blocks; `Write()` and the
raw disk's `Read()`; what a patched instruction does, the write of the Compare register,
and the parts of `Execute()` under `#if 0`; where the code of `config_cache()` ends (the
trampolines' place is dead by the branch over it). The heap of `XfsOpen` is not `Heap`:
it is what `Allocator` promises, further abstracted to block identities, since the open
path depends on nothing else of it. In `BootIo` a load succeeds or fails as a whole;
`Loader` is where it does not.

## What could follow

The order so far was: `Heap` with its abstract specification and proofs; `StringList`,
`Environ`, `Autoboot`; `XfsRead` with `SeqFile`; `XfsOpen` and `BootIo`; `EfsRead` and
`EfsOpen`; `Patcher` and `Loader`; the tables and directories of `Services`; the prompt.
What is left, by what it would show:

1. `Loader` under `BootIo`: a segment's read that fails is the file system's failure
   then, and the descriptor is open while it happens.
2. `EfsRead` as a refinement of `SeqFile` for files whose list was not replaced.
3. The steps of `DeleteStr` and `NewStr` that do not pass through the collector.
