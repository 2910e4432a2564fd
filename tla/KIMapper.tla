------------------------------ MODULE KIMapper ------------------------------
(***************************************************************************)
(* The Mapper: locateNextKernelMemory and kernelMemoryMap                  *)
(* (src/kernel/src/object/kernelimage.c) with the RISC-V page-table step   *)
(* Arch_kernelMemoryMap and the table walk Arch_kiLookupPTSlot             *)
(* (src/kernel/src/arch/riscv/object/kernelimage.c).                       *)
(*                                                                         *)
(* Physical memory is a set of page frames.  A frame is seen as a page     *)
(* table through pt (its entries) and as data through data (its words);    *)
(* memzero clears both views.  Kernel pointers are words: a pointer into   *)
(* the physical-memory window or into the kernel ELF window designates the *)
(* frame its window offset gives.                                          *)
(***************************************************************************)
EXTENDS KIRegions, FiniteSets, Sequences

CONSTANTS
    PT_INDEX_BITS,           \* seL4_PageTableIndexBits
    CONFIG_PT_LEVELS,        \* levels of page table the hardware walks
    PPTR_BASE_OFFSET,        \* pptr - paddr in the physical-memory window
    KERNEL_ELF_BASE_OFFSET,  \* kpptr - paddr in the kernel ELF window
    Images,                  \* the kernel images, named by their kiASID
    MaxFrame,                \* physical memory is frames 0..MaxFrame
    MemoryPool,              \* per image, the frames user level retypes for it
    DeviceFrame              \* the page number the boot device entry names

VARIABLES
    images,   \* kernel_image_t of every image
    pt,       \* physical memory as page-table entries: frame -> index -> pte
    data      \* physical memory as words: frame -> offset -> value

mapperVars == <<images, pt, data>>

NULL      == 0
BootImage == 0           \* the initial image has kiASID 0
PageSize  == BIT(PageBits)
Frames    == 0..MaxFrame
PTIndices == 0..(BIT(PT_INDEX_BITS) - 1)
Offsets   == 0..(PageSize - 1)
StaleWord == 255         \* what a frame holds before anyone clears it

\* struct kernel_image, less the bitmap of nodes, which nothing here reads.
kernel_image_t ==
    [kiASID : Images, kiMemoriesMapped : Nat, kiRoot : Words, kiRunnable : BOOLEAN,
     kiCopied : BOOLEAN, kiStackInitted : BOOLEAN, kiStackPointer : Words]

ki_mapping_t == [kimLevel : Nat, kimMapAddr : Words, kimRegion : Nat]

ASSUME MapperAssumptions ==
    /\ BootImage \in Images /\ Images \subseteq Nat
    /\ \A level \in Levels : LevelSizeBits[level] = PageBits
    /\ MemoryPool \in [Images \ {BootImage} -> Seq(Frames)]
    /\ PT_INDEX_BITS * CONFIG_PT_LEVELS + PageBits = TranslationBits

-----------------------------------------------------------------------------
(* Page-table entries and pointers *)

pte_t == [valid : BOOLEAN, ppn : Nat, read : BOOLEAN, write : BOOLEAN,
          execute : BOOLEAN, global : BOOLEAN]

pte_new(ppn, global, execute, write, read, valid) ==
    [valid |-> valid, ppn |-> ppn, read |-> read, write |-> write,
     execute |-> execute, global |-> global]

InvalidPTE == pte_new(0, FALSE, FALSE, FALSE, FALSE, FALSE)
StalePTE   == pte_new(MaxFrame, TRUE, TRUE, TRUE, TRUE, TRUE)
ZeroTable  == [x \in PTIndices |-> InvalidPTE]
ZeroPage   == [o \in Offsets |-> 0]

\* A valid entry without read, write or execute points to the next table.
isPTEPageTable(pte) == pte.valid /\ ~(pte.read \/ pte.write \/ pte.execute)

ptrFromPAddr(paddr) == Wrap(paddr + PPTR_BASE_OFFSET)
addrFromPPtr(pptr)  == Wrap(pptr - PPTR_BASE_OFFSET)
addrFromKPPtr(pptr) == Wrap(pptr - KERNEL_ELF_BASE_OFFSET)

InElfWindow(ptr) == KI_PPTR_END <= ptr /\ ptr < KI_DEVICE_START

\* The frame a kernel pointer designates.
FrameOfPtr(ptr) ==
    ShiftRight(IF InElfWindow(ptr) THEN addrFromKPPtr(ptr) ELSE addrFromPPtr(ptr), PageBits)

Arch_kiGetPPtrFromHWPTE(pte) == ptrFromPAddr(ShiftLeft(pte.ppn, PageBits))

\* Reading a table through a pointer; outside physical memory reads as zero.
TableAt(tables, ptr) ==
    IF FrameOfPtr(ptr) \in DOMAIN tables THEN tables[FrameOfPtr(ptr)] ELSE ZeroTable

EntryAt(tables, slot) == TableAt(tables, slot.table)[slot.index]

\* The walk from a root towards vptr, at most depth levels deep: it stops
\* at the first entry that is not a table.  The result is the slot reached
\* and the number of address bits that slot leaves untranslated.
RECURSIVE WalkFrom(_, _, _, _, _)
WalkFrom(tables, table, vptr, bitsLeft, depth) ==
    LET left  == bitsLeft - PT_INDEX_BITS
        index == LowBits(ShiftRight(vptr, left), PT_INDEX_BITS)
        entry == TableAt(tables, table)[index]
    IN  IF isPTEPageTable(entry) /\ depth - 1 > 0
        THEN WalkFrom(tables, Arch_kiGetPPtrFromHWPTE(entry), vptr, left, depth - 1)
        ELSE [ptSlot |-> [table |-> table, index |-> index], ptBitsLeft |-> left]

Arch_kiLookupPTSlot(tables, lvl1pt, vptr, depth) ==
    WalkFrom(tables, lvl1pt, vptr, PT_INDEX_BITS * CONFIG_PT_LEVELS + PageBits, depth)

\* The kernel's general walk goes as deep as the tables lead.
lookupPTSlot(tables, lvl1pt, vptr) ==
    Arch_kiLookupPTSlot(tables, lvl1pt, vptr, CONFIG_PT_LEVELS)

\* Write one entry; a slot outside physical memory takes no write.
WriteEntry(tables, slot, entry) ==
    IF FrameOfPtr(slot.table) \in DOMAIN tables
    THEN [tables EXCEPT ![FrameOfPtr(slot.table)][slot.index] = entry]
    ELSE tables

-----------------------------------------------------------------------------
(* locateNextKernelMemory *)

\* The level whose count bucket holds the next memory.  The loop moves to
\* the next level first and then takes off that level's index bits.
RECURSIVE LocateLevel(_, _, _)
LocateLevel(level, level_index, unresolved_bits) ==
    IF level + 1 < NumLevels /\ level_index >= kernel_image_level_count[level]
    THEN LocateLevel(level + 1, level_index - kernel_image_level_count[level],
                     unresolved_bits - kernelImageLevelIndexBits(level + 1))
    ELSE [level |-> level, level_index |-> level_index, unresolved_bits |-> unresolved_bits]

\* The duplicated region that holds page number region_index.
RECURSIVE LocateCopiedRegion(_, _)
LocateCopiedRegion(region, region_index) ==
    IF region + 1 < KINumRegions /\ region_index >= kernelImagePagesCopied(region)
    THEN LocateCopiedRegion(region + 1, region_index - kernelImagePagesCopied(region))
    ELSE [region |-> region, region_index |-> region_index]

LocateRegion(at) ==
    LET elf_memories == countKernelImageMemories(kernel_image_regions[KIRegionElf],
                                                 at.unresolved_bits)
    IN  IF at.level < KI_MAP_PPTR_DEPTH
        THEN [region |-> KIRegionKernelWindow, region_index |-> at.level_index]
        ELSE IF at.level < KI_MAP_DEVICE_DEPTH
        THEN IF at.level_index < elf_memories
             THEN [region |-> KIRegionElf, region_index |-> at.level_index]
             ELSE [region |-> KIRegionDevice, region_index |-> at.level_index - elf_memories]
        ELSE IF at.level < KI_MAP_ELF_DEPTH
        THEN [region |-> KIRegionElf, region_index |-> at.level_index]
        ELSE LocateCopiedRegion(0, at.level_index)

MapAddr(region, region_index, level) ==
    LET shift_bits == kernelImageUntranslatedBits(level)
    IN  Wrap(ClearLowBits(kernel_image_regions[region].kirStart, shift_bits)
             + ShiftLeft(region_index, shift_bits))

locateNextKernelMemoryAt(next_memory) ==
    LET at == LocateLevel(0, next_memory, TranslationBits)
        where == LocateRegion(at)
    IN  [kimLevel |-> at.level, kimRegion |-> where.region,
         kimMapAddr |-> MapAddr(where.region, where.region_index, at.level)]

locateNextKernelMemory(image) == locateNextKernelMemoryAt(image.kiMemoriesMapped)

-----------------------------------------------------------------------------
(* kernelMemoryMap *)

\* The memory user level supplies for the image's next mapping.
NextMemory(i) == ptrFromPAddr(ShiftLeft(MemoryPool[i][images[i].kiMemoriesMapped + 1], PageBits))

memzeroSkipped(memory, ptr, zero) == memory

memzero(memory, ptr, zero) ==
    IF FrameOfPtr(ptr) \in DOMAIN memory THEN [memory EXCEPT ![FrameOfPtr(ptr)] = zero] ELSE memory

\* What Arch_kernelMemoryMap asserts of a mapping below the root: the walk
\* ends on an empty slot at exactly the level being mapped.
SlotIsFree(tables, image, mapping) ==
    LET pt_ret == lookupPTSlot(tables, image.kiRoot, mapping.kimMapAddr)
    IN  /\ ~EntryAt(tables, pt_ret.ptSlot).valid
        /\ pt_ret.ptBitsLeft = kernelImageUntranslatedBits(mapping.kimLevel)

\* The assertions of Arch_kernelMemoryMap.  They halt a debug kernel and
\* are absent from a release kernel, so they are no guard of the action:
\* MapperAssertsHold checks that they hold whenever the action can run.
ArchMapAssertions(tables, image, mapping) ==
    /\ mapping.kimRegion < KINumRegions
    /\ mapping.kimLevel < NumLevels
    /\ IF mapping.kimLevel = 0
       THEN image.kiRoot = NULL
       ELSE image.kiRoot # NULL /\ SlotIsFree(tables, image, mapping)

NewMappingEntryUnshifted(mapping, memory_addr, last_level) ==
    pte_new(memory_addr, last_level, last_level, last_level, last_level, TRUE)

NewMappingEntryNotGlobal(mapping, memory_addr, last_level) ==
    pte_new(ShiftRight(memory_addr, PageBits), FALSE, last_level, last_level, last_level, TRUE)

\* The entry Arch_kernelMemoryMap installs: global, execute, write and read
\* are all last_level, whatever rights the region declares.
NewMappingEntry(mapping, memory_addr, last_level) ==
    pte_new(ShiftRight(memory_addr, PageBits), last_level, last_level, last_level,
            last_level, TRUE)

Arch_kernelMemoryMap(i, mapping, memory_addr, tables) ==
    LET last_level == (mapping.kimLevel = NumLevels - 1)
        pt_ret     == lookupPTSlot(tables, images[i].kiRoot, mapping.kimMapAddr)
    IN  IF mapping.kimLevel = 0
        THEN /\ pt' = tables
             /\ images' = [images EXCEPT ![i].kiRoot = ptrFromPAddr(memory_addr),
                                         ![i].kiMemoriesMapped = @ + 1]
        ELSE /\ pt' = WriteEntry(tables, pt_ret.ptSlot,
                                 NewMappingEntry(mapping, memory_addr, last_level))
             /\ images' = [images EXCEPT ![i].kiMemoriesMapped = @ + 1]

MayMapOneMore(i) == images[i].kiMemoriesMapped <= kernelImageRequiredMemories

\* What kernelMemoryMap and locateNextKernelMemory both assert on entry and
\* the map invocation checks before it calls them.
MayMap(i) == images[i].kiMemoriesMapped < kernelImageRequiredMemories

\* locateNextKernelMemory and kernelMemoryMap, as the KernelImage map
\* invocation runs them: the memory is cleared, then mapped where the
\* locator says, and the image counts it.
kernelMemoryMap(i) ==
    /\ booted
    /\ MayMap(i)
    /\ data' = memzero(data, NextMemory(i), ZeroPage)
    /\ Arch_kernelMemoryMap(i, locateNextKernelMemory(images[i]),
                            addrFromPPtr(NextMemory(i)),
                            memzero(pt, NextMemory(i), ZeroTable))
    /\ UNCHANGED regionVars

-----
(* The state boot leaves behind: the initial image runs on static tables    *)
(* that map the physical window and the device window with one large page   *)
(* per root entry and the kernel ELF window with large pages one level      *)
(* down.  The static tables are the first two pages of the shared section.  *)

BootRoot   == kernel_image_regions[KIRegionShared].kirStart
BootElfPT  == Wrap(BootRoot + PageSize)
RootIndex(vptr) == LowBits(ShiftRight(vptr, kernelImageUntranslatedBits(1)), PT_INDEX_BITS)
Leaf(ppn)  == pte_new(ppn, TRUE, TRUE, TRUE, TRUE, TRUE)
NextTable(ptr) == pte_new(ShiftRight(addrFromKPPtr(ptr), PageBits), FALSE, FALSE, FALSE, FALSE, TRUE)

BootRootTable ==
    [x \in PTIndices |->
        IF x = RootIndex(kernel_image_regions[KIRegionElf].kirStart) THEN NextTable(BootElfPT)
        ELSE IF x = RootIndex(KI_DEVICE_START) THEN Leaf(DeviceFrame)
        ELSE IF RootIndex(KI_PPTR_START) <= x /\ x < RootIndex(KI_PPTR_END)
        THEN Leaf(ShiftRight(addrFromPPtr(ShiftLeft(x, kernelImageUntranslatedBits(1))
                                          + ClearLowBits(KI_WINDOW_START, TranslationBits)), PageBits))
        ELSE InvalidPTE]

BootElfTable ==
    LET window == ClearLowBits(kernel_image_regions[KIRegionElf].kirStart,
                               kernelImageUntranslatedBits(1))
    IN  [x \in PTIndices |->
            Leaf(ShiftRight(addrFromKPPtr(window + ShiftLeft(x, kernelImageUntranslatedBits(2))),
                            PageBits))]

BootTables ==
    [f \in Frames |->
        IF f = FrameOfPtr(BootRoot) THEN BootRootTable
        ELSE IF f = FrameOfPtr(BootElfPT) THEN BootElfTable
        ELSE [x \in PTIndices |-> StalePTE]]

\* Every word of the loaded kernel is distinct; free memory is stale.
BootData ==
    [f \in Frames |->
        [o \in Offsets |->
            LET kpptr == f * PageSize + o + KERNEL_ELF_BASE_OFFSET
            IN  IF /\ kernel_image_regions[KIRegionElf].kirStart <= kpptr
                   /\ kpptr < kernel_image_regions[KIRegionElf].kirEnd
                THEN f * PageSize + o + 1
                ELSE StaleWord]]

BootImages ==
    [i \in Images |->
        IF i = BootImage
        THEN [kiASID |-> i, kiMemoriesMapped |-> SumFunction(LevelCounts), kiRoot |-> BootRoot,
              kiRunnable |-> TRUE, kiCopied |-> TRUE, kiStackInitted |-> TRUE,
              kiStackPointer |-> 0]
        ELSE [kiASID |-> i, kiMemoriesMapped |-> 0, kiRoot |-> NULL,
              kiRunnable |-> FALSE, kiCopied |-> FALSE, kiStackInitted |-> FALSE,
              kiStackPointer |-> 0]]

MapperInit ==
    /\ RegionsInit
    /\ images = BootImages
    /\ pt = BootTables
    /\ data = BootData

MapperNext ==
    \/ InitKernelImageLevelCount /\ UNCHANGED mapperVars
    \/ \E i \in Images \ {BootImage} : kernelMemoryMap(i)

MapperSpec == MapperInit /\ [][MapperNext]_<<regionVars, mapperVars>>

-----------------------------------------------------------------------------
(* Properties *)

ClonedImages == Images \ {BootImage}

MapperTypeOK ==
    /\ RegionsTypeOK
    /\ images \in [Images -> kernel_image_t]
    /\ \A i \in Images : images[i].kiMemoriesMapped <= SumFunction(LevelCounts)
    /\ \A i \in ClonedImages :
           booted /\ MayMap(i) => locateNextKernelMemory(images[i]) \in ki_mapping_t
    /\ pt \in [Frames -> [PTIndices -> pte_t]]
    /\ data \in [Frames -> [Offsets -> 0..StaleWord]]

\* The frames an image's tables lead to: the root, every table below it and
\* every page a valid leaf names.
RECURSIVE FramesBelow(_, _)
FramesBelow(table, depth) ==
    {FrameOfPtr(table)} \cup
    UNION {LET entry == TableAt(pt, table)[x]
           IN  IF isPTEPageTable(entry) /\ depth > 1
               THEN FramesBelow(Arch_kiGetPPtrFromHWPTE(entry), depth - 1)
               ELSE IF entry.valid THEN {entry.ppn} ELSE {}
           : x \in PTIndices}

FramesOf(i) ==
    IF images[i].kiRoot = NULL THEN {} ELSE FramesBelow(images[i].kiRoot, CONFIG_PT_LEVELS)

\* The page addresses a region touches.
PagesOf(region) ==
    {ClearLowBits(a, PageBits) : a \in region.kirStart..(region.kirEnd - 1)}

\* Every assertion of Arch_kernelMemoryMap holds for the mapping the locator
\* gives next, and the locator's own loops stay inside the level and region
\* tables: whatever memory user level maps next, locateNextKernelMemory
\* sends it to an empty slot whose parent table is already in place.  The
\* assertion of initKernelImageLevelCount holds too: the counter and
\* kernelImagePagesCopied agree on the pages of every Copied region.
MapperAssertsHold ==
    /\ \A r \in CopiedRegions :
           countKernelImageMemories(kernel_image_regions[r],
                                    kernelImageUntranslatedBits(NumLevels - 1))
               = kernelImagePagesCopied(r)
    /\ \A i \in ClonedImages :
        booted /\ MayMap(i) =>
            LET mapping == locateNextKernelMemory(images[i])
                at      == LocateLevel(0, images[i].kiMemoriesMapped, TranslationBits)
            IN  /\ at.level_index < kernel_image_level_count[at.level]
                /\ mapping.kimLevel = NumLevels - 1 =>
                       kernel_image_regions[mapping.kimRegion].kirStrategy = "KIMapCopied"
                /\ ArchMapAssertions(memzero(pt, NextMemory(i), ZeroTable), images[i], mapping)

\* No memory is lost or mapped over: the frames reachable from an image's
\* root are exactly the memories kernelMemoryMap has accepted for it, so
\* kiMemoriesMapped counts what the tables hold (the count of
\* initKernelImageLevelCount and the placement of locateNextKernelMemory
\* never disagree on the way).
MappedMemoriesFormTree ==
    \A i \in ClonedImages :
        FramesOf(i) = {MemoryPool[i][k] : k \in 1..images[i].kiMemoriesMapped}

\* When kiMemoriesMapped reaches kernelImageRequiredMemories the image
\* translates every page of every Copied region to a page of its own, and
\* reaches an empty page-level slot for every page of every Shared region:
\* the counts of initKernelImageLevelCount are enough, and not too few, for
\* what kernelImageClone will touch.
FullImageCoversElf ==
    \A i \in ClonedImages :
        booted /\ images[i].kiMemoriesMapped = kernelImageRequiredMemories =>
            \A r \in RegionIds :
                \A a \in IF kernel_image_regions[r].kirStrategy \in {"KIMapCopied", "KIMapShared"}
                          THEN PagesOf(kernel_image_regions[r]) ELSE {} :
                    LET found == lookupPTSlot(pt, images[i].kiRoot, a)
                        entry == EntryAt(pt, found.ptSlot)
                    IN  /\ found.ptBitsLeft = PageBits
                        /\ entry.valid = (kernel_image_regions[r].kirStrategy = "KIMapCopied")
                        /\ entry.valid => entry.ppn \in FramesOf(i) /\ ~isPTEPageTable(entry)

\* Leaf entries carry the rights the region table declares: a page of a
\* VMReadOnly region is never mapped writable by Arch_kernelMemoryMap.
LeafRightsFollowRegion ==
    \A i \in ClonedImages : \A r \in RegionIds :
        images[i].kiRoot # NULL /\ kernel_image_regions[r].kirRights = "VMReadOnly" =>
            \A a \in PagesOf(kernel_image_regions[r]) :
                LET found == lookupPTSlot(pt, images[i].kiRoot, a)
                    entry == EntryAt(pt, found.ptSlot)
                IN  entry.valid /\ found.ptBitsLeft = PageBits => ~entry.write

=============================================================================
