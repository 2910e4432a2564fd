----------------------------- MODULE KIRegions ------------------------------
(***************************************************************************)
(* Region Catalog, Level Geometry and Memory Counter of the kernel-image   *)
(* subsystem (src/kernel/src/object/kernelimage.c and                      *)
(* src/kernel/include/object/kernelimage.h).                               *)
(*                                                                         *)
(* The catalog is a table fixed at link time.  It is a variable here only  *)
(* so that one run can range over a family of link layouts: Init chooses   *)
(* the layout and no action changes it.  The level counts are written once *)
(* by initKernelImageLevelCount during boot.                               *)
(***************************************************************************)
EXTENDS KIArith, Functions

CONSTANTS
    NumLevels,            \* seL4_KernelImageNumLevels
    TranslationBits,      \* seL4_KernelImageTranslationBits
    LevelIndexBits,       \* SEL4_KERNEL_IMAGE_LEVEL_INDEX_BITS, by level
    LevelSizeBits,        \* SEL4_KERNEL_IMAGE_LEVEL_SIZE_BITS, by level
    KI_WINDOW_START,      \* first address of the kernel window (PPTR_BASE)
    KI_WINDOW_END,        \* last address of the kernel window
    KI_PPTR_START,        \* first address of the physical-memory window
    KI_PPTR_END,          \* PPTR_TOP
    KI_DEVICE_START,      \* KDEV_BASE
    KI_DEVICE_END,        \* last address of the device window
    KI_MAP_PPTR_DEPTH,    \* levels of mapping objects above the PPTR pages
    KI_MAP_DEVICE_DEPTH,  \* levels of mapping objects above the device pages
    ElfLayouts            \* the link layouts considered: bounds of each section

Levels == 0..(NumLevels - 1)

ASSUME GeometryAssumptions ==
    /\ NumLevels \in Nat \ {0, 1}
    /\ LevelIndexBits \in [Levels -> Nat]
    /\ LevelSizeBits \in [Levels -> Nat]
    /\ TranslationBits \in 1..(WordBits - 1)
    /\ {KI_WINDOW_START, KI_WINDOW_END, KI_PPTR_START, KI_PPTR_END,
        KI_DEVICE_START, KI_DEVICE_END} \subseteq Words
    /\ KI_MAP_PPTR_DEPTH \in Levels /\ KI_MAP_DEVICE_DEPTH \in Levels

VARIABLES
    kernel_image_regions,      \* the region table
    kernel_image_level_count,  \* memories needed at each level
    booted                     \* initKernelImageLevelCount has run

regionVars == <<kernel_image_regions, kernel_image_level_count, booted>>

-----------------------------------------------------------------------------
(* Region Catalog *)

KIRegionElf          == 0
KIRegionText         == 1
KIRegionSwitch       == 2
KIRegionPrivate      == 3
KIRegionIdleThread   == 4
KIRegionShared       == 5
KIRegionPhysPtr      == 6
KIRegionDevice       == 7
KIRegionKernelWindow == 8
KINumRegions         == 9

RegionIds  == 0..(KINumRegions - 1)
Strategies == {"KIMapNone", "KIMapShared", "KIMapCopied", "KIMapPhysPtr", "KIMapDevice"}
Rights     == {"VMKernelOnly", "VMReadOnly", "VMReadWrite"}

ki_region_range == [kirStart : Words, kirEnd : Words, kirStrategy : Strategies, kirRights : Rights]

RegionRow(bounds, strategy, rights) ==
    [kirStart |-> bounds[1], kirEnd |-> bounds[2], kirStrategy |-> strategy, kirRights |-> rights]

\* The table for one link layout: the six ELF-backed rows take their bounds
\* from the linker symbols, the other three from the platform constants.
RegionTable(layout) ==
    [r \in RegionIds |->
        CASE r = KIRegionElf          -> RegionRow(layout.ki_elf, "KIMapNone", "VMKernelOnly")
          [] r = KIRegionText         -> RegionRow(layout.ki_text, "KIMapCopied", "VMReadOnly")
          [] r = KIRegionSwitch       -> RegionRow(layout.ki_switch, "KIMapShared", "VMReadOnly")
          [] r = KIRegionPrivate      -> RegionRow(layout.ki_private, "KIMapCopied", "VMReadWrite")
          [] r = KIRegionIdleThread   -> RegionRow(layout.ki_idle_thread, "KIMapCopied", "VMReadWrite")
          [] r = KIRegionShared       -> RegionRow(layout.ki_shared, "KIMapShared", "VMReadWrite")
          [] r = KIRegionPhysPtr      -> RegionRow(<<KI_PPTR_START, KI_PPTR_END>>, "KIMapPhysPtr", "VMReadWrite")
          [] r = KIRegionDevice       -> RegionRow(<<KI_DEVICE_START, KI_DEVICE_END>>, "KIMapDevice", "VMReadWrite")
          [] r = KIRegionKernelWindow -> RegionRow(<<KI_WINDOW_START, KI_WINDOW_END>>, "KIMapNone", "VMKernelOnly")]

CopiedRegions == {r \in RegionIds : kernel_image_regions[r].kirStrategy = "KIMapCopied"}

-----------------------------------------------------------------------------
(* Level Geometry *)

KI_MAP_ELF_DEPTH == NumLevels - 1

kernelImageLevelSizeBits(level)  == IF level < NumLevels THEN LevelSizeBits[level] ELSE 0
kernelImageLevelIndexBits(level) == IF level < NumLevels THEN LevelIndexBits[level] ELSE 0

\* The bits a level leaves untranslated: the translation bits less the index
\* bits of every level above it.
kernelImageUntranslatedBits(level) ==
    TranslationBits - SumFunction([l \in 0..(level - 1) |-> kernelImageLevelIndexBits(l)])

-----------------------------------------------------------------------------
(* Memory Counter *)

countKernelImageMemories(region, unresolved_bits) ==
    countKernelImageSpanMemories(region.kirStart, region.kirEnd, unresolved_bits)

countIntersectingKernelImageMemories(region_a, region_b, unresolved_bits) ==
    LET start == IF region_a.kirStart < region_b.kirStart
                 THEN region_b.kirStart ELSE region_a.kirStart
        end   == IF region_a.kirEnd < region_b.kirEnd
                 THEN region_a.kirEnd ELSE region_b.kirEnd
    IN  countKernelImageSpanMemories(start, end, unresolved_bits)

\* The pages of a Copied region, a partial last page included.
kernelImagePagesCopied(region) ==
    IF region > KINumRegions THEN 0
    ELSE LET range == kernel_image_regions[region]
             start == ClearLowBits(range.kirStart, PageBits)
             whole == ShiftRight(Wrap(range.kirEnd - start), PageBits)
         IN  IF range.kirStrategy # "KIMapCopied" THEN 0
             ELSE whole + (IF LowBits(range.kirEnd, PageBits) # 0 THEN 1 ELSE 0)

\* The count of one mapping level (every level but the last): the kernel
\* window above the PPTR depth, the ELF region from there on, and one more
\* object for the device window while above the device depth.
MappingLevelCount(level) ==
    LET bits   == kernelImageUntranslatedBits(level)
        elf    == kernel_image_regions[KIRegionElf]
        device == kernel_image_regions[KIRegionDevice]
        window == kernel_image_regions[KIRegionKernelWindow]
    IN  IF level >= KI_MAP_PPTR_DEPTH
        THEN IF level < KI_MAP_DEVICE_DEPTH
             THEN Wrap(countKernelImageMemories(elf, bits) + 1
                       - countIntersectingKernelImageMemories(elf, device, bits))
             ELSE countKernelImageMemories(elf, bits)
        ELSE countKernelImageMemories(window, bits)

\* The count of the last level: the pages of every Copied region.
DuplicatePagesSkippingFirst ==
    SumFunction([r \in CopiedRegions \ {KIRegionText} |->
        countKernelImageMemories(kernel_image_regions[r],
                                 kernelImageUntranslatedBits(NumLevels - 1))])

DuplicatePages ==
    SumFunction([r \in CopiedRegions |->
        countKernelImageMemories(kernel_image_regions[r],
                                 kernelImageUntranslatedBits(NumLevels - 1))])

LevelCounts ==
    [level \in Levels |->
        IF level < NumLevels - 1 THEN MappingLevelCount(level) ELSE DuplicatePages]

kernelImageRequiredMemories == SumFunction(kernel_image_level_count)

\* copyKernelImageLevelCount hands the table to user level in the boot info.
copyKernelImageLevelCount == kernel_image_level_count

-----------------------------------------------------------------------------

RegionsInit ==
    /\ kernel_image_regions \in {RegionTable(layout) : layout \in ElfLayouts}
    /\ kernel_image_level_count = [level \in Levels |-> 0]
    /\ booted = FALSE

\* initKernelImageLevelCount, called once by the boot code.
InitKernelImageLevelCount ==
    /\ ~booted
    /\ kernel_image_level_count' = LevelCounts
    /\ booted' = TRUE
    /\ UNCHANGED kernel_image_regions

RegionsTypeOK ==
    /\ kernel_image_regions \in [RegionIds -> ki_region_range]
    /\ kernel_image_level_count \in [Levels -> Nat]
    /\ booted \in BOOLEAN

=============================================================================
