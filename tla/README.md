# Kernel images, the emulated interrupt controller and the channel tools: TLA+ models

This directory holds TLA+ specifications of the kernel-image management code of
the repository (the files under `src/kernel/`), of the emulated i8259
interrupt controller of the x86 VMM (`libsel4vm`, `i8259.c`) and of the three
analysis tools of `src/tools/channel-bench`, the TLC configurations that check
them, and `PROJECT.json`, which lists every component, run, mutant,
mapped definition, finding and hazard in machine-readable form.

Run everything from this directory: `tlasany M.tla` parses a module,
`tlc -workers 2 -config X.cfg M` checks module `M` under configuration `X.cfg`.

## 1. The system

A kernel image is one complete, independently switchable copy of the kernel's
virtual address space. The code under `src/kernel/` builds such images out of
memory that user level supplies, clones the running kernel into them, binds
user address spaces to them and switches a hart from one image to another.

| Part | Source | State | Operations |
|---|---|---|---|
| Region Catalog | `kernelimage.c` 31-80, `kernelimage.h` 107-176, mode `kernelimage.h` | `kernel_image_regions`: nine rows of start, end, strategy, rights | none; read-only |
| Level Geometry | `kernelimage.c` 23-29, `kernelimage.h` 219-254 | index bits and size bits per level | `kernelImageLevelSizeBits`, `kernelImageLevelIndexBits`, `kernelImageUntranslatedBits` |
| Memory Counter | `kernelimage.c` 84-129, 170-227, `kernelimage.h` 256-292 | `kernel_image_level_count` | `countKernelImageSpanMemories`, `countKernelImageMemories`, `countIntersectingKernelImageMemories`, `kernelImagePagesCopied`, `initKernelImageLevelCount`, `kernelImageRequiredMemories`, `copyKernelImageLevelCount` |
| Mapper | `kernelimage.c` 229-320, riscv `kernelimage.c` 19-88 | per image `kiMemoriesMapped`, `kiRoot`; the page tables | `locateNextKernelMemory`, `kernelMemoryMap`, `Arch_kernelMemoryMap`, `Arch_kiLookupPTSlot` |
| Cloner | `kernelimage.c` 132-168, 322-368, riscv `kernelimage.c` 90-146, arch `kernelimage.h` 35-46 | per image `kiRunnable`, `kiCopied`; tables and page contents | `kernelImageClone`, `kernelImageCloneRegion`, `Arch_kernelImageCloneEntry`, `Arch_kiPTMapping`, `Arch_kiPagePPtr`, `Arch_kernelImagePaddr` |
| VSpace binding | `kernelimage.c` 370-406 | the root table of a user VSpace | `kernelImageBindVSpace` |
| Image Switcher | `kernelimage.h` 299-339, riscv `kernelimage.c` 148-237 | `ksCurKernelImage`, the hart's root register and stack pointer, per image `kiStackInitted`, `kiStackPointer` | `setKernelImage`, `switchToIdleKernelImage`, `Arch_setKernelImage` |
| Page colouring helpers | `kernelimage.h` 342-379 | none | `locateNextPageOfColour`, `inPageOfColour` |

How the parts interact. Boot runs the Memory Counter once. User level then
builds an image by invoking the Mapper once per memory: each call clears the
memory, asks the locator where memory number `kiMemoriesMapped` belongs (level,
region, address), links it there and counts it. When the count reaches
`kernelImageRequiredMemories()` the image can be the destination of a clone,
which walks every region, copies the entries of shared regions from the source
and the page contents of copied regions, and marks the image runnable. A
runnable image can be switched to; the first switch copies the live kernel
stack into the image's private region before the root register changes. A user
VSpace is bound to an image by copying the image's root entries for the kernel
window into the VSpace's root.

The emulated interrupt controller is a second, independent system: the x86
VMM's model of a master and a slave Intel 8259, cascaded on the master's pin 2.

| Part | Source (`i8259.c`) | State | Operations |
|---|---|---|---|
| Controller registers | 53-81, 532-543 | per controller `irr`, `isr`, `imr`, `last_irr`, `priority_add`, `irq_base`, the mode flags, `elcr`; `output`, `emitagain`, `wakeup_needed` | `i8259_pre_init`, `i8259_init_state` |
| Priority resolver | 107-119, 142-166 | none | `get_priority`, `pic_get_irq` |
| Line input | 185-246, 701-722 | `irr`, `last_irr`, `output` | `vm_set_irq_level`, `vm_inject_irq`, `pic_set_irq1`, `pic_update_irq` |
| Guest port writes | 249-402, 460-500 | every register | `i8259_port_out`, `pic_ioport_write` (ICW1 to ICW4, OCW1 to OCW3), `pic_reset`, `elcr_ioport_write` |
| Guest port reads | 406-468, 502-529 | `poll`, and on a poll `irr`, `isr`, `output` | `i8259_port_in`, `pic_ioport_read`, `pic_poll_read`, `elcr_ioport_read` |
| Interrupt acknowledge | 547-571, 608-664 | `isr`, `irr`, `priority_add`, `output`, `emitagain` | `i8259_get_interrupt`, `i8259_has_interrupt`, `i8259_read_irq`, `pic_intack` |
| Device callbacks | 50, 169-182, 724-734 | `irq_ack_fns` | `vm_register_irq`, `pic_clear_isr` |

Three parties call into it, all on the VMM's one thread. Devices raise and
lower lines; a rising edge (or, for a level-triggered pin, a high level) sets a
request bit, and `pic_update_irq` passes a request of the slave to the master
as a pulse on pin 2 and sets `output` from the master's request. The VMM, when
`output` is raised, takes the interrupt: the requesting pin goes in service,
its edge request is consumed, and the vector is returned. The guest's handler
ends the interrupt with a port write, which takes the pin out of service, runs
the device's acknowledgement callback and lets the next request through. The
callback runs inside that handler, and a device may answer it by raising its
line again, which re-enters the controller before the handler is done. The
guest may also re-initialise a controller, mask pins, rotate priorities, and
read or poll the registers at any time.

The channel-bench tools are sequential programs that turn one file into
another; each run is one step, and what can go wrong is arithmetic.

| Part | Source | State | Operations |
|---|---|---|---|
| Outlier filter | `outlier.c` | the data file, the output file, the outlier log, the exit status | `main`, `find_median` |
| Plot extraction | `extract_plot.c` | the matrix file, the printed points, the exit status | `main` |
| Row average | `row_average.c` | the matrix file, the banner and the printed rows, the exit status | `main` |

`outlier` reads a sorted file of `row sample` lines three times: it counts the
samples of each row between `min` and `max`, derives from the count the
indices of the first and the third quartile, sums the samples at these indices,
and writes the samples within `Q1 - 1.5 (Q3 - Q1)` and `Q3 + 1.5 (Q3 - Q1)` to
the output and the others to the log. `extract_plot` scales a sparse matrix
down to at most `nrow` by `ncol` points: it finds the rows and columns in use,
adds every positive entry to the point its row and column scale to, and prints
each point with the middle row and the first column it stands for.
`row_average` walks the same matrix twice, for the average column of every row
weighted by the row's entries and for the deviation of the columns from that
average, and prints the average and a confidence interval of every row.

The rest of the repository (a pin-multiplexer driver, virtio glue and headers)
keeps no state of this kind.

### What is hard here

* The counter and the locator are two independent traversals of the same
  layout. The Mapper is correct only if memory number *n* of the locator is
  the memory the counter counted *n*-th, for every link layout, including
  regions that are unaligned, empty, or end at the last word of the address
  space.
* Nearly every precondition is an `assert`, absent from a release kernel. The
  walk in `Arch_kernelMemoryMap` goes as deep as the existing tables lead; it
  reaches the right slot only because the levels above were filled in order
  and the new memory was cleared.
* Mapping, cloning, binding and switching are separate invocations that
  interleave: two images under construction at once, a clone taken from a
  clone, a bind before the image is finished, a switch back into an image
  that was left with frames on its stack.
* The stack copy runs on the stack it copies, through the tables of the image
  being left, into memory reached through the tables of the image being
  entered; the stack base is the first address of a differently mapped
  region, and the copy walks down physical memory from one translated address
  while the stack it copies is mapped page by page.
* Word arithmetic: shifts by the word width, `end - start` at the top of
  memory, the inclusive last entry of the kernel window.
* In the interrupt controller, `output` is a cached copy of a value computed
  from six registers of two controllers; every handler that touches one of
  them has to recompute it, and a guest may write any command at any moment:
  in the middle of an initialisation sequence, with interrupts in service,
  with a request latched on the cascade.
* A callback that raises its line again runs `pic_set_irq1` and
  `pic_update_irq` in the middle of `pic_intack`, an end of interrupt, a poll
  or a reset, between the handler's own updates of the same registers.
* Requests and in-service bits are dropped in five places (interrupt
  acknowledge, the ends of interrupt by priority and by name, poll, reset)
  and each has to tell the device; the end of interrupt by name does so for
  a pin that was never in service.
* "No interrupt" is -1 in an `int`; the same value travels through an
  `unsigned int`, a shift count and a table index.
* In the tools, indices derived by halving: the quartile indices of a row
  depend on whether the count and its half are odd or even; the point of a
  matrix entry is a scaled quotient while the label of a point is computed
  from the floor of the inverse ratio.

## 2. Modules

| Module | Models | Extends |
|---|---|---|
| `KIArith` | word arithmetic, `countKernelImageSpanMemories`, the colour helpers | `Integers` |
| `KIRegions` | Region Catalog, Level Geometry, Memory Counter | `KIArith` |
| `KIMapper` | page tables, the locator, `kernelMemoryMap`, boot state | `KIRegions` |
| `KICloner` | clone and VSpace binding | `KIMapper` |
| `KISwitcher` | `setKernelImage`, `Arch_setKernelImage`, the hart | `KICloner` |
| `KernelImage` | the whole subsystem: `Init`, `Next`, the properties, the refinement mapping | `KISwitcher`; instantiates `KILifecycle` |
| `KILifecycle` | the abstract life of an image: building, mapped, runnable, entered | |
| `MCKIArith` | a harness that calls the pure functions on every input | `KIArith` |
| `MCKIMapper`, `MCKernelImage` | constants for model checking | |
| `I8259` | the two controllers and every entry point of `i8259.c`; the properties, the refinement mapping | `Integers`, `FiniteSetsExt`, `SequencesExt`; instantiates `IrqLine` |
| `IrqLine` | one interrupt line as its device and the VMM see it: requested, in service, handed over, told | |
| `I8259Live` | `I8259` called by devices that pulse a bounded number of times, by the VMM and by the guest's handlers, with the fairness of the latter two | `I8259` |
| `MCI8259`, `MCI8259Live` | lines and guest alphabets for model checking | |
| `Outlier` | `outlier.c` | `Integers`, `Sequences`, `Functions` |
| `ExtractPlot` | `extract_plot.c` | `Integers`, `FiniteSetsExt` |
| `RowAverage` | `row_average.c`, on the matrix of `ExtractPlot` | `ExtractPlot` |
| `MCChannelTools` | a harness that writes data files and matrices and runs the tools; the reference definition of Tukey's test; the tools' properties | `Outlier`, `RowAverage` |
| `MCAlgorithms` | `MCKIArith` and `MCChannelTools` side by side, for one run | `MCKIArith`, `MCChannelTools` |

### State

| Variable | Code |
|---|---|
| `kernel_image_regions` | the table of the same name; its ELF-backed bounds are chosen from `ElfLayouts` in the initial state and never change |
| `kernel_image_level_count` | the array of the same name |
| `booted` | whether `initKernelImageLevelCount` has run |
| `images` | one `kernel_image_t` per image, indexed by `kiASID`; `kiNodesExecuted` is left out |
| `pt` | physical memory seen as page tables: frame -> index -> entry |
| `data` | physical memory seen as words: frame -> offset -> value |
| `status` | the `exception_t` the last invocation returned |
| `boundTo` | per user ASID, the image last bound to its VSpace (history, for the properties) |
| `ksCurKernelImage` | the variable of the same name |
| `satp`, `sp` | the hart's root register and stack pointer |
| `leftStack` | per image, the live stack when the hart last left it (history) |

`pt` and `data` are two views of the same frames. A frame used as a table is
read through `pt`, a frame used as a page through `data`; `memzero` clears both
views. Memory that nobody has cleared holds `StalePTE` (a valid, global leaf)
and `StaleWord`, so that a missing clear shows.

A kernel pointer is a word. A pointer into the physical-memory window or into
the kernel ELF window designates the frame its window offset gives
(`FrameOfPtr`); a table read through any other pointer reads as zero and a
write through it is lost.

### Actions

Each invocation runs under the kernel lock with pre-emption off, so each is one
step. `KernelImage!Next` is the disjunction of:

| Action | Code | Notes |
|---|---|---|
| `Boot` | `initKernelImageLevelCount` | once |
| `Map(i)` | `kernelMemoryMap` with `locateNextKernelMemory`, `memzero`, `Arch_kernelMemoryMap` | the memory is the next frame of `MemoryPool[i]` |
| `Clone(dest, src)` | `kernelImageClone`, all regions, all entries | `CloneRegionsFrom` walks the region table and `CloneRegionFrom` the entries of one region (`CloneSteps`), each applying `Arch_kernelImageCloneEntry` to the memory the previous entry left |
| `Bind(i, a)` | `kernelImageBindVSpace` | three disjuncts: lookup fault; the image has no root, the load through the null pointer traps; copy, from any image that has a root |
| `Halted` | the kernel after a trap of its own | stutters; every other action needs `status # KernelTrap` |
| `setKernelImage(i)` | `setKernelImage` | three disjuncts: fault, already current, `Arch_setKernelImage` |
| `switchToIdleKernelImage` | the function of the same name | `ksDomKernelImage` is defined outside `src/`; that it is the initial image is assumed from the comment on the function |
| `KernelPush(v)`, `KernelPop` | the running kernel using its stack | environment |

Assertions are not guards. An `assert` halts a debug kernel and is absent from
a release kernel, so the model lets the step happen and the invariants
`MapperAssertsHold` and `CloneAndSwitchAssertsHold` state that the asserted
conditions hold whenever the step can be taken. Two sets of conditions are
guards, because the invocation decoder (outside `src/`) checks them before it
calls in: `MayMap` (the image is not yet fully mapped) and `ClonePreconditions`
(the assertions at the head of `kernelImageClone`).

### Abstractions

* Diagnostic `printf`s, memory fences and `kiNodesExecuted` are left out.
* The page-table entry keeps `valid`, `ppn`, `read`, `write`, `execute`,
  `global`; the software, dirty, accessed and user bits are constants in the
  code and are dropped.
* `findVSpaceForASID` is the constant function `VSpaceRoot`; `NULL` stands for
  an ASID with no VSpace.
* A shift by the word width or more is undefined in C. The RISC-V shift
  instructions take the amount modulo the width, and that is what `BIT`
  models: `BIT(n) == 2^(n % WordBits)`.

### The interrupt controller

| Variable | Code |
|---|---|
| `gs` | `struct i8259`: `pics[0]` and `pics[1]` with every field of `struct i8259_state`, `output`, `emitagain`, `wakeup_needed`; `pending_acks` and `isr_ack` are never used by the code and are left out |
| `irq_ack_fns` | the table of the same name, as the set of lines that have a callback |
| `acked` | the table slots whose callback the last call ran (`pic_clear_isr`) |
| `ret` | what the last call returned: its value, and for `i8259_get_interrupt` the line the vector stands for |

An eight-bit register is the set of the bit positions set in it, so that
`irr & ~imr` is `irr \ imr`; `Bits` and `ByteOf` convert between a register and
the byte the guest writes or reads.

`I8259!Next` is the disjunction of the six ways into the file; each runs to its
end on the VMM's thread and is one step.

| Action | Code | Notes |
|---|---|---|
| `GuestWrite` | `i8259_port_out` | a fault for a wrong port or size, `pic_ioport_write`, or `elcr_ioport_write`; `pic_ioport_write` is five disjuncts (ICW1, OCW3, OCW2, OCW1, ICW2 to ICW4), `WriteOCW2` four, `WriteICW` three |
| `GuestRead` | `i8259_port_in` | fault, `pic_ioport_read` (poll or register), `elcr_ioport_read` |
| `i8259_get_interrupt` | the function of the same name | with `i8259_read_irq`, `pic_intack`, `pic_update_irq` |
| `SetLevel` | `vm_set_irq_level` | a device sets the level of a line |
| `Inject` | `vm_inject_irq` | level 1, then level 0, each with its `pic_update_irq` |
| `Register` | `vm_register_irq` | invalid line, or the callback set or removed |

The acknowledgement callbacks are the devices' code. Which of them a call ran
is recorded in `acked`; what they do is a parameter: the callback of a line in
the constant `Reentrant` calls `vm_inject_irq` for its line before it returns,
every other callback touches nothing. `pic_clear_isr` takes the whole
`struct i8259` for that reason: it clears the in-service bit and then, where
the code calls the callback, applies `Pulsed` (the two `vm_set_irq_level` of
`vm_inject_irq`, each with its `pic_update_irq`) to the state the handler has
reached. `pic_intack`, the end-of-interrupt commands, `pic_poll_read` and
`pic_reset` (pin by pin, in the order of its loop) pass their half-updated
state through it and go on from what comes back.
`pic_poll_read` keeps the pin in an `unsigned int`; the model follows what the
compiled code does with -1 there. The shifts by it leave the eight-bit
registers unchanged (x86 takes the count modulo 32, and bit 31 is cut off), the
guest reads all ones, and `pic_clear_isr` looks up slot 7 of the callback table
for the slave and the slot before the table for the master. What lies before
the table is not known, so whether a callback is called there is a
nondeterministic choice (`wild`).

`pic_update_irq` is written as two functions of `struct i8259`, `Cascade`
(lines 223-228) and `RaiseOutput` (229-245), applied one after the other. They
are functions, not operators, because TLC evaluates the argument of a function
application once, and an operator's argument wherever it is used: with the
nested calls of the handlers, evaluating the enabling condition of an action
for the fairness of `pic_live` is otherwise out of reach.

### The line protocol

`IrqLine` is what the pair of controllers promises to the device behind one
line and to the VMM, without any of the registers. Its state is six flags, and
a call of the emulation is one step of it:

| Variable of `IrqLine` | In `I8259`, for line `l` |
|---|---|
| `requested` | the pin's bit in `irr` of its controller |
| `serving` | the pin's bit in `isr` |
| `level` | the pin's bit in `elcr` |
| `registered` | `l \in irq_ack_fns` |
| `handed` | `ret.line = l`: the call was an `i8259_get_interrupt` that returned the vector of `l` |
| `notified` | `l \in acked`: the call ran the callback of `l` |

| Move | What the line sees | The code that makes it |
|---|---|---|
| `Drive` | the request changes as a device may change it: set on an edge-triggered line, set or withdrawn on a level-triggered one | `vm_set_irq_level`, `vm_inject_irq`; every call that is about other lines |
| `Take` | handed to the VMM, in service, an edge-triggered request used up | `i8259_get_interrupt` with `pic_intack` |
| `TakeAndEnd` | handed over and ended in one call, the device told | `pic_intack` in auto-EOI mode |
| `End` | no longer in service, the device told, the request as it was | the end-of-interrupt commands of `pic_ioport_write`; the pin need not be in service |
| `Drop` | the request is gone without having been handed over, the device told, nothing in service | `pic_reset` for an edge-triggered request, `pic_poll_read` |
| `SetTrigger` | edge or level | `elcr_ioport_write` |
| `Register` | the callback set or removed | `vm_register_irq` |

A device that is told may answer by driving its line before the call returns
(`Answer`), which is what the callbacks of the lines in `Reentrant` do.
Nothing else may happen to a line: a request never disappears without the VMM
or the device hearing of it, a line is in service only from the call that
handed it over, at most one line is handed over by a call, and no call both
hands a line over and changes how it is triggered. `I8259` implements
`IrqLine` for each of the fifteen lines that have a device (the cascade has
none): `ImplementsLineProtocol` is the initial condition and the next-state
relation of `IrqLine` under the mapping above, for every line a step touches.
The protocol says nothing of the order in which lines are handed over; that
is `NestedPriorityRespected`.

### The channel tools

| Variable | Code |
|---|---|
| `data_file`, `output_file`, `outlier_log` | the files `argv[4]`, `argv[5]`, `argv[3]` of `outlier`, as sequences of lines; a line is `[n, c, r]`, what `sscanf("%d %d")` returns and stores |
| `outlier_exit`, `plot_exit`, `avg_exit` | how the last run ended: `"none"` before any run, `"EXIT_SUCCESS"`, `"EXIT_FAILURE"`, `"SIGABRT"` |
| `M` | the matrix `extract_plot` and `row_average` load: `nrow`, `ncol`, the arrays `ci`, `rows`, `entries` of the column-compressed form, and `row_size` |
| `stdout` | the points `extract_plot` printed, in order: label row `r`, label column `c`, the sum `plot` and the divisor `rowbin` |
| `banner` | how many halves of "Loading channel matrix... done." `row_average` printed |
| `avg_stdout` | the rows `row_average` printed, in order: the row `r`, the average `avg`, the sum under the root `std` and the divisor `row_size` |
| `argv` (harness) | `<nrow>` and `<ncol>` of the last run of `extract_plot` |

| Action | Code | Notes |
|---|---|---|
| `outlier` | `main` of `outlier.c` | three disjuncts: too few arguments (nothing touched); a file that cannot be opened or an array that cannot be allocated (the log and the output are opened for writing first, so either may have been emptied); the three passes |
| `extract_plot(nrow_arg, ncol_arg)` | `main` of `extract_plot.c` | three disjuncts: the matrix cannot be loaded, checked or is strided; `<nrow>` or `<ncol>` is 0 after the conversion to `uint64_t`; the plot |
| `row_average(quiet_arg)` | `main` of `row_average.c` | three disjuncts: no argument; a file that cannot be opened or loaded, an array that cannot be allocated or a failed assertion; the two passes and the printed rows. `quiet` is set only by `-q`: without it the tool reads the variable uninitialised, and the model chooses its value |
| `WriteLine`, `RemoveFiles`, `StoreEntry`, `RemoveMatrix` | the environment | a data file grows by a line that keeps it sorted, a matrix by an entry in column order; the files are removed |

Abstractions of the tools:

* Quartiles are sums of one or two integer samples, halved when there are two,
  and the fences add one and a half times their difference: every value is a
  whole number of quarters, and `Quartile4` and `Fences4` hold four times the
  value. Nothing is rounded, in the code or in the model, for samples far
  below 2^53.
* The three passes of `outlier` are written as what they compute: the k-th
  sample of a row is the one that takes `counts[c - min]` to k
  (`RowSamples`), and the sum at the quartile indices is `Quartile4`.
* The loops of `extract_plot` over the matrix are sets (`Stored`, `Plotted`):
  minimum, maximum and sum do not depend on the order.
* `uint64_t` is modelled modulo `ULONG_MAX + 1` with `ULONG_MAX` = 255, which
  keeps the two places where the width shows: a negative `atoi` result
  becomes a large number, and `cmax - cmin + 1` of an empty matrix wraps
  to 2.
* The doubles of `row_average` are computed exactly. An entry is a whole
  number of parts of `1 / Denominator`, `row_avg` is held times
  `Denominator` and `row_std` times `Denominator^3`; the square root, the
  factor 1.96 and the division by the root of `row_size` are not applied, the
  printed line carries the sum and the divisor instead. Rounding is left out.
* The statistics `outlier` prints into its log, and the header line of
  `extract_plot`, are left out.
* `outlier` and the two matrix tools are never used at the same moment in a
  run: they share nothing, and the run's states are those of the one plus
  those of the others. A matrix is read by one tool and removed.

## 3. The machine the runs use

The real geometry (64-bit words, 4 KiB pages, 9 index bits per level) is far
out of reach, and none of the code depends on the numbers themselves, only on
their relations. The runs use a machine scaled down so that every relation is
kept:

| Constant | Real | Model |
|---|---|---|
| `WordBits` | 64 | 12 |
| `PageBits` | 12 | 2 |
| `PT_INDEX_BITS`, `LevelIndexBits` | 9 | 3 |
| `TranslationBits` | 39 | 11 |
| `NumLevels` (root, two table levels, pages) | 4 | 4 |
| `KI_WINDOW_START` .. `KI_WINDOW_END` | top 256 GiB, ending at 2^64-1 | 3072 .. 4095 (ending at 2^12-1) |
| `KI_PPTR_START` .. `KI_PPTR_END` | | 3072 .. 3584 |
| kernel ELF window | | 3584 .. 3839 |
| `KI_DEVICE_START` .. `KI_DEVICE_END` | last GiB | 3840 .. 4095 |
| `KI_MAP_PPTR_DEPTH`, `KI_MAP_DEVICE_DEPTH` | 1 | 1 |

As in the real layout, the kernel window and the device window end at the last
word, the translation covers fewer bits than a word, the physical-memory and
device windows are mapped by large pages at depth 1, and the kernel ELF is
mapped by large pages one level down in the initial image and by single pages
in a built image. The link layouts put the ELF sections one after another on
page boundaries; the layouts of `MCKIMapper` also vary the section sizes so
that sections are empty, single-page or multi-page and the ELF straddles large
page boundaries.

Bounds, by name:

| Bound | Value | Why it is enough |
|---|---|---|
| `Images` | `{0,1}` or `{0,1,2}` | one built image shows every operation; two show interleaved builds and a clone from a clone |
| `MemoryPool` | 12 frames per image | a full image needs at most 11 memories in these layouts; the pool is never the limit |
| `MaxFrame` | 39 or 47 | the kernel, the pools and the VSpace root fit |
| `ElfLayouts` | 72, 8, or 1 | see each run |
| `MaxStackWords` | 3 (`kernelimage`), 2 (`three_images`) | an empty stack and up to three frames; a push at the bound, or one that would leave the private region, is disabled |
| `StackValues` | `{7}` | one value distinct from zero, from stale memory and from every word of the loaded kernel |
| `StackWordSize` | 2 (`kernelimage`), 1 (`three_images`) | what one iteration of the copy loop moves; with words of two bytes a page of four holds two, and the third word of the stack lies in the page below |

The interrupt controller is modelled at its real size: eight pins per
controller, registers of eight bits. What is bounded is who calls it:

| Bound | Value | Why it is enough |
|---|---|---|
| `Lines` (service, live) | `{1, 3, 10}` | a master line above the cascade pin in priority, one below it, and a slave line: every order of priority between two master lines and the cascade occurs, and rotation reverses them |
| `LevelLines` (service) | `{3}` | one line that is driven by level and, after the ELCR write, level-triggered |
| `MCServiceWrites` | 8 port writes | ends of interrupt on both controllers, with and without rotation; set priority; mask and unmask pin 3; ELCR set (with a bit the mask refuses) and cleared |
| `Lines` (program) | `{3, 10}` | one master and one slave line are enough for a dropped request, a poll and the cascade |
| `MCInitWrites` | 12 port writes | ICW1 with ICW4 on the master at any moment and the three data bytes that follow; auto-EOI and special fully nested mode on and off; end of interrupt, plain and for line 3 by name with rotation (in service or not); rotation in auto-EOI mode; poll on both controllers; a wrong port and a wrong size |
| `MCInitReads` | 6 port reads | poll and register reads of both controllers, an ELCR read, a wrong port and a wrong size |
| `Registrations` | lines 1, 3 and 10 (service); line 3 and the invalid line 16 (program) | callbacks on master lines and on a slave line, and a registration that is refused |
| `Reentrant` | `{3, 10}` (service), `{3}` (program), `{}` elsewhere | a slave line whose re-raised request has to travel through the cascade from inside an end of interrupt; a master line that is pulsed from its callback while the guest has it edge-triggered or level-triggered (line 1, beside it, has a callback that only takes note); and a master line that is re-raised from inside `pic_intack` in auto-EOI mode, a specific end of interrupt, a poll and a reset |
| `MaxPulses` (live) | 6 | every line twice: again while pending, in service, or behind the others |

The tools:

| Bound | Value | Why it is enough |
|---|---|---|
| `min`, `max` | 1, 2 | two rows, so that the rows of a file are told apart, and a row below and one above that are ignored |
| `MCMaxLines` | 7 | the fewest samples of an odd row with which Tukey's test finds an outlier (with three or five, Q3 is at least half the largest sample, which then lies within the fence); rows of every size from 0 to 7 occur |
| `MCMaxUnused` | 1 | one line that is no sample, anywhere in the file: no number, one number, or a row out of range |
| `MCSamples` | `{0, 1, 9}` | two close values and one far from them: quartiles that are halves, and outliers above and below |
| `MCMatrixRows`, `MCMatrixCols` | 4, 3 | the rows in use are 1 to 4, so that `nrow` divides them (4 by 2, rowbin 2) or does not (3 by 2, 4 by 3); likewise 3 columns by 2 |
| `MCMaxEntries`, `MCEntries` | 3, `{0, 1}` | an empty matrix, entries that share a point, entries that are stored but not positive (they count for the extent and not for the plot) |
| `MCRowArgs`, `MCColArgs` | `{-1, 0, 1, 2, 3, 5}`, `{0, 1, 2, 4}` | negative, zero, fewer than, as many as and more than the rows and columns of the matrix |
| `ULONG_MAX` | 255 | see the abstractions |
| `Denominator` (`MCParts`) | 2 | two entries of 1 make a row that adds up to 1, in two columns that are or are not adjacent; one entry or three make rows that do not |

## 4. Runs

| Run | Module, cfg | Result | States |
|---|---|---|---|
| `mapper` | `MCKIMapper`, `MCKIMapper.cfg` | pass | 5,702 |
| `kernelimage` | `MCKernelImage`, `MCKernelImage.cfg` | pass | 41,368 |
| `three_images` | `MCKernelImage`, `MCThreeImages.cfg` | pass | 11,833 |
| `algorithms` | `MCAlgorithms`, `MCAlgorithms.cfg` | pass | 308,050 |
| `leaf_rights` | `MCKIMapper`, `MCLeafRights.cfg` | violation | |
| `span_oversized` | `MCKIArith`, `MCSpanOversized.cfg` | violation | |
| `outlier_even` | `MCChannelTools`, `MCOutlier.cfg` | violation | |
| `pic_service` | `MCI8259`, `MCI8259.cfg` | pass | 204,816 |
| `pic_program` | `MCI8259`, `MCI8259Init.cfg` | pass | 142,120 |
| `pic_live` | `MCI8259Live`, `MCI8259Live.cfg` | pass | 5,644 |
| `pic_reinit` | `MCI8259`, `MCI8259Reinit.cfg` | violation | |
| `pic_poll` | `MCI8259`, `MCI8259Poll.cfg` | violation | |

### mapper

Two images are built side by side, one memory per step in any interleaving,
for each of 72 link layouts.

* `MapperTypeOK`: the type invariant; also that the locator yields a mapping
  for every image that may still map.
* `MapperAssertsHold`: no assertion on the map path can fail. The boot
  assertions of `initKernelImageLevelCount` hold for the layout, and for every
  image that may map, the mapping the locator returns satisfies every
  assertion of `Arch_kernelMemoryMap`: the walk ends at the level being
  mapped, on an empty slot.
* `MappedMemoriesFormTree`: the memories linked under an image's root are the
  first `kiMemoriesMapped` frames of its pool, each linked exactly once, none
  under another image's root.
* `FullImageCoversElf`: in a fully mapped image the walk for every page of
  every copied or shared region ends at the last level; the entry of a page
  of a copied region is a valid leaf on a frame linked under the image's own
  root, and the entry of a page of a shared region is still empty. (That two
  pages never share a frame is not part of it.)

Deadlock checking is off: when both images are fully mapped the Mapper has
nothing left to do.

### kernelimage

The whole subsystem with the initial image and one built image, one user
VSpace, and 8 link layouts. The state graph has depth 26: boot, 9 to 11 maps, a
clone, binds, switches in both directions and stack use in between. The stack
holds up to three words of two bytes on pages of four: in the layouts with two
private pages it grows past the page below the stack base, and the first
switch into a clone copies it across the page boundary.

* `TypeOK`: the type invariant.
* `CloneAndSwitchAssertsHold`: whenever a clone may be invoked for a pair of
  images, every assertion of every `Arch_kernelImageCloneEntry` of that clone
  holds; whenever a switch may be made to an image, the assertions of
  `Arch_setKernelImage` hold and the stack target is mapped.
* `RunnableImagesComplete`: a runnable image translates the physical-memory
  window, the device window and the shared sections exactly as the initial
  image does, and every page of a copied section to a frame of its own;
  read-only copied sections hold the initial image's words.
* `CloneFidelity` (action property): the step that makes an image runnable
  leaves each page of each copied section equal to that page of a runnable
  source as it was before the step.
* `HartFollowsCurrentImage`: the root register names the root table of
  `ksCurKernelImage`, which is runnable, and the stack pointer is within the
  stack.
* `BoundVSpaceStaysCurrent` (action property): the copy a bind leaves in a
  VSpace root does not go stale once the image is runnable. The step that
  binds a VSpace to a runnable image leaves it with the image's root entries
  for the whole kernel window, the last included, and no later step of any
  invocation (a map or a clone on either image, a switch with its stack copy,
  a bind of the other ASID) changes the root of the image or of the VSpace
  without the other. It says nothing of an image that is not runnable when it
  is bound; see below.
* `Isolation` (action property): a step changes frames of a runnable image
  only if the hart is in that image after the step and the step is a switch
  into it or a push on its stack.
* `FirstSwitchKeepsLiveStack` (action property): after the first switch into
  an image the hart reads the same stack words as before.
  `Arch_setKernelImage` translates one address, the byte below the stack
  base, into the new image's memory and copies downwards from there through
  the physical-memory window, while the new image maps its private pages one
  by one. The property holds because the frames of a clone are handed out
  adjacent and in ascending order (`MCMemoryPool`), so that the page below
  the last private page is also the frame below it. With the frames in
  descending order (`12 * i + 16 - k` in `MCMemoryPool`) TLC reports the
  property violated after boot, the maps, a clone, three pushes and the
  switch: the third word is written to a frame that is not the clone's. The
  code is right for a stack within one page, which is what a kernel stack of
  `CONFIG_KERNEL_STACK_BITS` equal to the page size is; nothing under `src/`
  says that it is.
* `SwitchResumesSavedStack` (action property): a later switch into an image
  finds the stack as it was when the image was left.
* `ImplementsLifecycle`: the refinement. `KILifecycle` is the life of an image
  without any page table: an image is `Building` until its last memory is
  mapped, `Mapped` until a clone from a `Runnable` image makes it `Runnable`,
  and only a `Runnable` image is switched to; the image the kernel boots on
  starts `Runnable` and entered. `KernelImage` maps its state to this one
  (`LifecyclePhase` from `kiRunnable` and `kiMemoriesMapped`, `current` from
  `ksCurKernelImage`, `entered` from `kiStackInitted`), and TLC checks that
  every step of `KernelImage` is a step of `KILifecycle` or leaves its
  variables unchanged. Boot, a bind, a refused switch, a push, a pop and the
  halted kernel are the stuttering steps. What this rules out is any way back: no step takes a
  memory out of an image, makes a runnable image unrunnable, makes an image
  runnable other than from a runnable source, or enters an image that was
  never cloned into.

Deadlock is checked: the hart can always switch or be asked to, and a kernel
that has trapped stutters (`Halted`).

The bind is modelled as the code has it, with no precondition on the image:
`kernelImageBindVSpace` fails only when the ASID has no VSpace, and copies
`image->kiRoot[...]` otherwise. Two of the behaviours this allows are not
wanted by anyone, and the design (which names the missing VSpace as the only
failure) excludes neither; `PROJECT.json` records them as a finding.

* The image has no root yet (`kiRoot` is null until the first map). The first
  load of the copy loop is through a null pointer, which is a user address: the
  kernel faults. `BindVSpaceNullRoot` sets `status` to `KernelTrap`, and
  nothing but `Halted` is enabled from then on. The run reaches this after
  boot and one bind.
* The image has a root and is still being mapped. The VSpace gets the root as
  it is, and the root entry a later map writes never reaches it: boot, map,
  bind, map. The invariant "a bound VSpace has the root entries of its image"
  therefore does not hold of the code, and `BoundVSpaceStaysCurrent` is stated
  of images that are runnable when they are bound, which is where the copy can
  be relied on.

### three_images

Two built images and the initial one, one layout, no VSpace. It reaches what
the two-image run cannot: an image cloned from a clone, whose source maps the
copied sections page by page instead of by large pages, interleaved builds
followed by clones in either order, and switches among three images. It
checks `CloneAndSwitchAssertsHold`, `RunnableImagesComplete` and `Isolation`.

### algorithms

The computations that can be compared with a reference, in one run:
`MCAlgorithms` puts the harness of the address arithmetic and that of the
channel tools side by side, one in use while the other is idle.

`MCKIArith` calls each pure function on every input of a 6-bit machine with
2-bit pages and one colour bit (the call is chosen in one step and returns in
the next), and compares the result with a definition by sets:

* `SpanCountsBlocksTouched`: for a block narrower than a word and a non-empty
  span, `countKernelImageSpanMemories` is the number of aligned blocks the
  span touches.
* `NextPageOfColourNeverSkips`: `locateNextPageOfColour` returns the first
  page boundary of the colour at or after the address, within the wrap of a
  word.
* `InPageOfColourMeansWholeRegion`: `inPageOfColour` holds exactly when every
  byte of the region lies in one page of the colour.

`MCChannelTools` writes every sorted data file of up to seven lines and runs
`outlier` on it, and stores every matrix of up to three entries and runs
`extract_plot` on it with every pair of arguments, or `row_average` with and
without `-q`:

* `OddRowsFilteredByTukey`: after a successful run, a row with an odd number
  of samples, three or more, is split as Tukey's test splits it. The
  reference takes the quartiles as the medians of the lower and the upper half
  of the row (`Median2`, `LowerHalf`, `UpperHalf`), the median itself in
  neither, and never computes an index the way `main` does. The output holds
  the samples within the fences in the order of the data file, the log the
  others. Rows of seven show the test taking samples out, at either end.
* `PlotAccountsForEveryEntry`: the sums of the printed points add up to the sum
  of the positive entries of the matrix, and no two points have the same
  label. This holds for every pair of arguments, negative ones included (they
  pass the test against 0 as large unsigned numbers and are lowered to the
  size of the matrix), and it is what the lowering of `nrow` and `ncol` to the
  extent in use is needed for.
* `PlotLabelsLieInTheirBins`: when `nrow` divides the number of rows in use and
  `ncol` the number of columns, a printed point is the sum of the positive
  entries of `rowbin` consecutive rows and `colskip` consecutive columns, its
  label row is one of these rows and its label column the first of these
  columns. Without the divisibility this is not so, and the property does not
  claim it: with three rows in use and two points, the entries of the first
  two rows are added to the first point and those of the third to the second,
  while `rowbin` is 1 and the second point is labelled with the second row.

* `RowSpreadIsAroundTheMean`: `row_average` prints every row once, in order,
  and for a row whose entries add up to 1 the average is the mean column and
  the sum under the root is the mean of the squared columns less the square
  of the mean. The reference never subtracts an average from a column; the
  tool does, in a second pass that needs the first to be finished. Rows whose
  entries do not add up to 1 are printed too, and nothing is claimed of them.

Deadlock is checked: a tool can always be run again.

### pic_service

The controllers in normal operation: devices pulse lines 1, 3 and 10 and drive
line 3 by level, the guest ends interrupts, rotates priorities, masks pin 3 and
switches it between edge and level, masks and unmasks line 10 on the slave,
the VMM takes interrupts. A request of line 10 that is masked after the
master has latched the cascade is gone when the VMM comes for it:
`i8259_read_irq` acknowledges pin 2 of the master, finds nothing on the slave
and returns the slave's spurious vector, with nothing of the slave in service
(the line protocol holds of line 15, whose vector this is). The device on
line 10 answers every acknowledgement with the next pulse: its request is
raised inside the end of interrupt on the slave, after the in-service bit is
cleared and before `pic_update_irq`, and passes through the cascade from
there. The device on line 3 does the same on a line that the guest switches
between edge and level: on a level-triggered pin the pulse raises the request
and withdraws it again inside the handler, and what is left of it is the
output and `wakeup_needed`. The device on line 1 only takes note. The
properties below hold with them.

* `TypeOK`: every register is a byte, every flag a flag, and only pins the
  ELCR mask allows are level-triggered.
* `RequestsAreSignalled`: `output` is raised exactly when the master has a
  deliverable request, and a deliverable request of the slave stands on the
  master's pin 2. "Deliverable" (`Offered`) is stated from pin ranks, not
  with `get_priority`.
* `NestedPriorityRespected`: the line `i8259_get_interrupt` hands out was
  requesting, unmasked, and outranked every other request and every interrupt
  in service on its controller; for a slave line the same holds of the
  cascade pin on the master.
* `ClearedPinIsAcknowledged`: an edge request that leaves `irr` was delivered
  or acknowledged through its callback, and an interrupt that leaves `isr`
  was acknowledged through its callback.
* `ImplementsLineProtocol`: each of the fifteen device lines is an
  implementation of `IrqLine` (see "The line protocol" in section 2).

### pic_program

A guest that programs the controllers while interrupts arrive: ICW1 on the
master at any moment, the initialisation bytes, auto-EOI with and without
rotation, special fully nested mode, specific ends of interrupt, polls and
register reads, and calls that fail (wrong port, wrong size, invalid line).
`NestedPriorityRespected` and `ClearedPinIsAcknowledged` hold here too: a
re-initialisation or a poll drops requests only with an acknowledgement, and
the in-service bits that survive a re-initialisation still hold back the lines
below them, except the cascade pin in special fully nested mode.
`EmitAgainOnlyWhenIdle`:
`emitagain` is never set while `output` is raised; it takes auto-EOI mode for
a second interrupt to be deliverable right after the first was taken, which is
where the order of the two tests in `i8259_get_interrupt` matters.

The device on line 3 pulses its line again from its callback, which this
guest makes run in four places: in `pic_intack` in auto-EOI mode, in an end of
interrupt, in a poll, and in the reset of ICW1. `ReraisedRequestStands`: when
a handler ran the callback of such a line, and the line was edge-triggered and
low, its request bit is set when the handler returns. Each of the four
handlers consumes or drops the old request before it calls back (`irr` is
cleared at lines 553-555, 417 and 255, ahead of `pic_clear_isr`), so that what
it clears is never the request the callback has just raised.

`ImplementsLineProtocol` holds for this guest as well. Its end of interrupt
by name (0xe3) ends line 3 whether line 3 is in service or not:
`pic_clear_isr` runs the callback all the same, the device pulses, and the
line protocol has a move for it (`End` does not ask for an interrupt in
service). The reset is its `Drop`, auto-EOI mode its `TakeAndEnd`.

`RequestsAreSignalled` does not hold for this guest; see `pic_reinit`.

### pic_live

`I8259Live`: devices send up to six pulses on lines 1, 3 and 10, the VMM calls
`i8259_get_interrupt`, the guest writes ends of interrupt (plain or rotating)
to both controllers, the latter two under weak fairness (section 5).
`RequestEventuallyDelivered`: a line whose
request bit is set is handed to the VMM in the end. TLC checks it over 5,644
states; the behaviours it rules out are the ones in which a request stays
behind an interrupt in service, behind the cascade, or behind a request that
`output` never announced.

### Runs that end in a violation

* `leaf_rights` checks `LeafRightsFollowRegion`: a last-level entry that maps
  a page of a read-only region is not writable. TLC finds the first text page
  of a built image mapped readable, writable and executable:
  `Arch_kernelMemoryMap` sets the three bits to `last_level` and never reads
  the region's rights.
* `span_oversized` checks `SpanOversizedIsPartialOnly`: with `unresolved_bits`
  at least the word width the count is the partial-block term, 1 for a span
  within one block. TLC finds start 0, end 1, bits 6 giving 0: the mask is
  computed with the shift before the guard that is meant to avoid it.
* `outlier_even` checks `TukeyRangeTest`: every row of two or more samples is
  split by Tukey's test, as the header of `outlier.c` says. TLC finds the file
  `1 0`, `1 1`: the sample 0 is written to the output and the sample 1 to the
  log. `main` takes the indices of Q3 to be those of Q1 plus `counts / 2 + 1`
  (line 156), which is right when the median lies between the halves and one
  too high for an even count. For two samples the index 3 is never reached and
  Q3 stays 0; for four, Q3 is half the
  largest sample; for six, the largest sample.
* `pic_reinit` checks `RequestsAreSignalled` with the guest of `pic_program`.
  TLC finds: line 3 pulses, `output` rises; the guest writes ICW1 to the
  master; `pic_reset` drops the request and returns without
  `pic_update_irq`, and `output` stays raised with nothing to deliver. The
  next `i8259_get_interrupt` injects the spurious vector `irq_base + 7`. The
  comment on `pic_update_irq` says it must be called every time the active
  IRQ may change.
* `pic_poll` checks `PollAcknowledgesRequest`: a poll that finds no request
  acknowledges nothing and reads as pin 7, which is what the `else` branch of
  `pic_poll_read` does. TLC finds: the guest writes the poll command to the
  idle master and reads the port; the read returns all ones. `ret` is an
  `unsigned int`, `ret >= 0` is always true and the `else` branch is dead;
  the call goes on to `pic_clear_isr(-1)`, which looks up a callback outside
  `irq_ack_fns` on the master and the callback of line 7 on the slave.

### Mutants

For every property of a passing run `PROJECT.json` names a definition and a
mutated form of it, defined just before it in the same module, that breaks the
property under the run's own configuration: a skipped `memzero`, an entry built
without the shift to a page number, a clone loop that forgets the partial last
entry or does not advance, a copy in the wrong direction, a stack target taken
at the base instead of below it, a stack pointer saved in the wrong image, and
so on. For the interrupt controller: priorities taken without the rotation, a
request that ignores what is in service, an update that does not pulse the
cascade, slave callbacks looked up as master lines, a reset that drops requests
silently, `emitagain` set unconditionally, an ELCR write without its mask, an
acknowledge that consumes the request after the callback instead of before.
The line protocol is broken by a read that acknowledges pin 7 of a slave whose
request has gone away while the cascade was latched, and by an acknowledge
that leaves the request it has handed over.
For the tools: a median that takes the two middle values of an even size to be
one, a printed rectangle that stops one short of `xmax`, a label that is not
moved to the first row in use, a deviation summed in the same pass as the
average. The refinement is broken by a clone into an
image that is not yet fully mapped.

## 5. Fairness and liveness

The kernel-image runs check no liveness property and assume no fairness. Every
operation of that subsystem is a bounded, synchronous computation inside one
kernel entry; nothing waits, retries or is scheduled within it, and whether
user level ever finishes an image or the scheduler ever switches to it is
decided outside `src/`. The one loop that could fail to terminate, the stack
copy, is a fold over the words between the base and the stack pointer.

The interrupt controller does promise something in the long run: a request is
delivered. `i8259.c` itself schedules nothing; it is called. `pic_live`
therefore assumes of its callers what the controller is built for:

* the VMM calls `i8259_get_interrupt` again and again (`i8259_has_interrupt`
  and `i8259_get_interrupt` are what its run loop, outside `src/`, calls
  before it enters the guest);
* the guest writes an end of interrupt to the master and to the slave again
  and again (a handler that was entered ends its interrupt; an end of
  interrupt with nothing in service changes nothing, `pic_ioport_write`
  line 331).

The assumption is weak fairness of each of them:
`WF_liveVars(TakeInterrupt)` and `WF_liveVars(EndOfInterrupt(n))` for the
master and for the slave. A call that stays possible is made in the end;
nothing is promised of a call that is possible only now and then, so strong
fairness would assume more than a run loop and an interrupt handler give. A
call that changes nothing (an end of interrupt with nothing in service, a
`i8259_get_interrupt` that returns the same as the last one) is not a step of
the action in the sense of `WF`, so the assumption asks for nothing when
there is nothing to do. Devices are not assumed fair, and they stop after
`MaxPulses` pulses: a line that pulses for ever starves the lines below it,
on the hardware as in the code.

The tools terminate by construction (three passes over a file, nested loops
over a matrix); nothing about them is a liveness question.

## 6. What is not modelled

* A second hart. `Arch_setKernelImage` saves the stack pointer through the
  bare `ksCurKernelImage` and sets `NODE_STATE(ksCurKernelImage)`; with one
  hart these are the same variable.
* A stack copied into frames that are not adjacent. The runs hand out the
  frames of a clone in ascending order, under which a stack deeper than a page
  is copied correctly; see `FirstSwitchKeepsLiveStack` under `kernelimage`
  for the other order.
* Geometries whose levels differ in index bits. The locator and the counter
  subtract different levels' bits as they descend; with the uniform widths of
  the RISC-V configuration, the only one under `src/`, they are the same
  number, and no run can tell the two apart. The mapper's properties show the
  agreement for that case and no other.
* The image bound to a domain. `ksDomKernelImage` and the code that fills it
  are outside `src/`; `KISwitcher` takes it to be the initial image, which is
  what the comment on `switchToIdleKernelImage` says, and the definition is
  marked as an assumption in `PROJECT.json`. The domain schedule of
  `default_domain.c` is a constant table of one entry, read by the scheduler.
* Image teardown: no code under `src/` clears `kiRunnable` or frees memories.
* The capability helpers of `structures.h` (switch tables over capability
  types), linker attributes, the boot info layout, the benchmark's result
  formatting (`fault.c`), event-counter names, exit-reason numbers, ioctl
  numbers and the inline system-call wrappers of `ipc.h`: declarations and
  tables, with no state and no algorithm.
* The pin-multiplexer tables (`mux_gpio_shared.c`): two constant tables (bit
  offsets of the pin groups, groups of the pins) and two functions that
  return their lengths. The code that reads them is outside `src/`.
* The virtio vsock glue (`virtio_vsock.c`): it registers callbacks and PCI
  configuration with the virtio emulation, which is outside `src/`, and
  forwards calls; it keeps no protocol state of its own. Every step of
  `common_make_virtio_vsock` that can fail is a call of a function outside
  `src/`, so that a model of it would be a model of those. Three things in
  it are worth a reader's eye and cannot be decided from `src/`: the port
  handlers are registered before `vsock->emul` is set, the backend is stored
  just before `virtio_emul_init` calls `emul_vsock_driver_init` back, and
  `ioops` is handed to `virtio_emul_init` without having been initialised.
* In `row_average`: rounding, the square root and the quotient of the
  confidence interval. A row whose `row_size` is 0 prints 0 / 0; `row_size`
  is filled in by the loader, outside `src/`.
* In `extract_plot`: the loading and checking of the matrix (`sparse.h` is
  outside `src/`), modelled as one failing exit, and matrices without rows or
  columns, for which `rowbin` or `colskip` is a division by zero; whether
  `csc_check` lets such a matrix through cannot be read from `src/`.
* In the interrupt controller: acknowledgement callbacks that call anything
  but `vm_inject_irq` for their own line (the callbacks are the devices',
  outside `src/`; a callback that raises a level and holds it is a
  `vm_set_irq_level` the device could as well make after the handler has
  returned, which `SetLevel` is), lines outside 0..15 passed to
  `vm_set_irq_level` (the write lands outside `struct i8259`, and what it
  hits is not in the file), a failing `calloc` in `i8259_pre_init`, and the
  code under `#if 0`.
* A guest of the liveness run that re-initialises: `pic_reset` leaves the
  in-service bits as they are, and whether the lines behind them are ever
  delivered depends on a guest that ends interrupts it was given before it
  re-initialised, which nothing under `src/` says.

## 7. Plan

Done: the kernel-image subsystem with its abstract life cycle and the
refinement, a kernel stack that spans pages, the interrupt controller with
callbacks that re-enter it on edge-triggered and level-triggered lines, its
liveness under weak fairness and its refinement to the protocol of one line,
the outlier filter, the plot extraction and the row average.

Everything under `src/` that has state or an algorithm is modelled; what is
left out is listed in section 6 with the reason. What is left to ask of the
models, in this order:

1. The bind of an image that is not runnable, as a run of its own that ends
   in the violation of "a bound VSpace has the root entries of its image",
   and the plot labels for a number of points that does not divide the rows
   in use, likewise.
2. The stack copy over frames in every order, as a run of its own that states
   under which orders the first switch keeps the stack.
3. A guest of the liveness run that re-initialises, under the assumption that
   it ends every interrupt it was handed: `pic_reset` leaves the in-service
   bits, and the question is which lines are still delivered.
4. A priority arbiter over the request, mask and service sets as a second
   abstract specification of the controllers, above the line protocol, which
   says nothing of the order in which lines are handed over
   (`NestedPriorityRespected` states that order directly).
