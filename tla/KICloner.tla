------------------------------ MODULE KICloner ------------------------------
(***************************************************************************)
(* The Cloner: kernelImageClone, kernelImageCloneRegion and                *)
(* kernelImageBindVSpace (src/kernel/src/object/kernelimage.c) with the    *)
(* RISC-V steps Arch_kernelImageCloneEntry and Arch_kiPTMapping            *)
(* (src/kernel/src/arch/riscv/object/kernelimage.c).                       *)
(*                                                                         *)
(* A clone runs with the kernel lock held and pre-emption off, so it is    *)
(* one step.  Inside the step the entries are cloned in the order of the   *)
(* loops, each on the memory the previous one left: the memory is threaded *)
(* through a left fold, together with a flag that records whether every    *)
(* assertion on the way held.                                              *)
(***************************************************************************)
EXTENDS KIMapper, SequencesExt

CONSTANTS
    VSpaceRoot          \* findVSpaceForASID: the root of each user ASID, or NULL

VARIABLES
    status,     \* the exception_t the last operation returned, or KernelTrap
    boundTo     \* per user ASID: the image last bound to it (NULL: none)

clonerVars == <<status, boundTo>>

UserASIDs == DOMAIN VSpaceRoot
NoImage   == -1

\* No exception_t: the operation did not return.  A load through a null
\* pointer is a load from user addresses, which faults in the kernel, and
\* a kernel that faults halts.
KernelTrap == "KERNEL_TRAP"

ASSUME ClonerAssumptions ==
    VSpaceRoot \in [UserASIDs -> Words]

-----------------------------------------------------------------------------
(* Reading another image's mapping *)

Arch_kiPTMappingWholeSuperpage(tables, root, addr, depth) ==
    EntryAt(tables, Arch_kiLookupPTSlot(tables, root, addr, depth).ptSlot)

\* The page-level entry of addr in the tables under root.  Where the walk
\* ends early on a large page, the entry is that of the large page with the
\* page number advanced to the depth-level block that holds addr.
Arch_kiPTMapping(tables, root, addr, depth) ==
    LET slot   == Arch_kiLookupPTSlot(tables, root, addr, depth)
        entry  == EntryAt(tables, slot.ptSlot)
        offset == ShiftRight(ClearLowBits(LowBits(addr, slot.ptBitsLeft),
                                          kernelImageUntranslatedBits(depth)), PageBits)
    IN  IF slot.ptBitsLeft > kernelImageUntranslatedBits(depth)
        THEN [entry EXCEPT !.ppn = @ + offset]
        ELSE entry

Arch_kiPagePPtr(tables, root, addr, depth) ==
    Arch_kiGetPPtrFromHWPTE(Arch_kiPTMapping(tables, root, addr, depth))

\* The physical address the tables under root give vaddr.
Arch_kernelImagePaddr(tables, root, vaddr) ==
    LET ret == lookupPTSlot(tables, root, vaddr)
    IN  addrFromPPtr(Wrap(Arch_kiGetPPtrFromHWPTE(EntryAt(tables, ret.ptSlot))
                          + LowBits(vaddr, ret.ptBitsLeft)))

\* What Arch_kernelImagePaddr asserts: vaddr is mapped by a leaf.
IsMappedByLeaf(tables, root, vaddr) ==
    LET entry == EntryAt(tables, lookupPTSlot(tables, root, vaddr).ptSlot)
    IN  entry.valid /\ ~isPTEPageTable(entry)

kernelImageVPtr(tables, root, addr) == ptrFromPAddr(Arch_kernelImagePaddr(tables, root, addr))

-----------------------------------------------------------------------------
(* Cloning one entry *)

\* The assertions of Arch_kernelImageCloneEntry and of the Arch_kiPTMapping
\* it calls, for one entry on memory m.
CloneEntryAssertions(m, dest, src, clone_addr, depth, strategy) ==
    LET dest_slot  == Arch_kiLookupPTSlot(m.pt, dest, clone_addr, depth)
        dest_entry == EntryAt(m.pt, dest_slot.ptSlot)
        src_slot   == Arch_kiLookupPTSlot(m.pt, src, clone_addr, depth)
        src_data   == Arch_kiPagePPtr(m.pt, src, clone_addr, depth)
        dest_data  == Arch_kiGetPPtrFromHWPTE(dest_entry)
    IN  /\ 0 < depth /\ depth < NumLevels
        /\ dest_slot.ptBitsLeft = kernelImageUntranslatedBits(depth)
        /\ src_slot.ptBitsLeft >= kernelImageUntranslatedBits(depth)
        /\ IF strategy = "KIMapCopied"
           THEN /\ dest_entry.valid /\ dest_entry.global
                /\ dest_data # NULL /\ src_data # NULL
           ELSE dest_entry.ppn = 0 /\ ~dest_entry.valid

CopyPage(contents, to, from) ==
    IF FrameOfPtr(to) \in DOMAIN contents /\ FrameOfPtr(from) \in DOMAIN contents
    THEN [contents EXCEPT ![FrameOfPtr(to)] = contents[FrameOfPtr(from)]]
    ELSE contents

Arch_kernelImageCloneEntrySwapped(m, dest, src, clone_addr, depth, strategy) ==
    LET dest_slot == Arch_kiLookupPTSlot(m.pt, dest, clone_addr, depth)
        src_data  == Arch_kiPagePPtr(m.pt, src, clone_addr, depth)
        dest_data == Arch_kiGetPPtrFromHWPTE(EntryAt(m.pt, dest_slot.ptSlot))
    IN  [pt   |-> IF strategy = "KIMapCopied" THEN m.pt
                  ELSE WriteEntry(m.pt, dest_slot.ptSlot,
                                  Arch_kiPTMapping(m.pt, src, clone_addr, depth)),
         data |-> IF strategy = "KIMapCopied" THEN CopyPage(m.data, src_data, dest_data)
                  ELSE m.data,
         ok   |-> m.ok /\ CloneEntryAssertions(m, dest, src, clone_addr, depth, strategy)]

\* A Copied entry copies the source page into the page the destination
\* already maps; any other entry installs the source's mapping.
Arch_kernelImageCloneEntry(m, dest, src, clone_addr, depth, strategy) ==
    LET dest_slot == Arch_kiLookupPTSlot(m.pt, dest, clone_addr, depth)
        src_data  == Arch_kiPagePPtr(m.pt, src, clone_addr, depth)
        dest_data == Arch_kiGetPPtrFromHWPTE(EntryAt(m.pt, dest_slot.ptSlot))
    IN  [pt   |-> IF strategy = "KIMapCopied" THEN m.pt
                  ELSE WriteEntry(m.pt, dest_slot.ptSlot,
                                  Arch_kiPTMapping(m.pt, src, clone_addr, depth)),
         data |-> IF strategy = "KIMapCopied" THEN CopyPage(m.data, dest_data, src_data)
                  ELSE m.data,
         ok   |-> m.ok /\ CloneEntryAssertions(m, dest, src, clone_addr, depth, strategy)]

-----------------------------------------------------------------------------
(* Cloning a region and an image *)

\* The depth at which a region's pages are indexed.
CloneDepth(strategy) ==
    CASE strategy = "KIMapPhysPtr" -> KI_MAP_PPTR_DEPTH
      [] strategy = "KIMapDevice"  -> KI_MAP_DEVICE_DEPTH
      [] OTHER                     -> KI_MAP_ELF_DEPTH

CloneEntriesWithoutPartial(region, depth) ==
    ShiftRight(Wrap(region.kirEnd - region.kirStart), kernelImageUntranslatedBits(depth))

\* The number of depth-level entries kernelImageCloneRegion visits.
CloneEntries(region, depth) ==
    ShiftRight(Wrap(region.kirEnd - region.kirStart), kernelImageUntranslatedBits(depth))
    + (IF LowBits(region.kirEnd, kernelImageUntranslatedBits(depth)) # 0 THEN 1 ELSE 0)

kernelImageCloneRegionNotAdvancing(region, depth) ==
    [idx \in 1..CloneEntries(region, depth) |->
        [clone_addr |-> ClearLowBits(region.kirStart, kernelImageUntranslatedBits(depth)),
         depth      |-> depth,
         strategy   |-> region.kirStrategy]]

\* The addresses it visits, in order.  Arch_kernelImageCloneEntry always
\* returns EXCEPTION_NONE on RISC-V, so the loop runs to its end.
kernelImageCloneRegion(region, depth) ==
    [idx \in 1..CloneEntries(region, depth) |->
        [clone_addr |-> Wrap(ClearLowBits(region.kirStart, kernelImageUntranslatedBits(depth))
                             + (idx - 1) * BIT(kernelImageUntranslatedBits(depth))),
         depth      |-> depth,
         strategy   |-> region.kirStrategy]]

\* The entries kernelImageClone visits in region r: none when the region
\* has no strategy.
CloneSteps(r) ==
    LET region == kernel_image_regions[r]
    IN  IF region.kirStrategy = "KIMapNone" THEN <<>>
        ELSE kernelImageCloneRegion(region, CloneDepth(region.kirStrategy))

\* The loop of kernelImageCloneRegion from entry idx on.  A failed
\* assertion halts the kernel: nothing is cloned after it.
RECURSIVE CloneRegionFrom(_, _, _, _, _)
CloneRegionFrom(m, dest_root, src_root, steps, idx) ==
    IF idx > Len(steps) \/ ~m.ok THEN m
    ELSE CloneRegionFrom(Arch_kernelImageCloneEntry(m, dest_root, src_root, steps[idx].clone_addr,
                                                    steps[idx].depth, steps[idx].strategy),
                         dest_root, src_root, steps, idx + 1)

\* The loop of kernelImageClone from region r on, in table order.
RECURSIVE CloneRegionsFrom(_, _, _, _)
CloneRegionsFrom(m, dest_root, src_root, r) ==
    IF r = KINumRegions \/ ~m.ok THEN m
    ELSE CloneRegionsFrom(CloneRegionFrom(m, dest_root, src_root, CloneSteps(r), 1),
                          dest_root, src_root, r + 1)

\* Memory after the whole clone, and whether every assertion held.
CloneResult(dest, src) ==
    CloneRegionsFrom([pt |-> pt, data |-> data, ok |-> TRUE],
                     images[dest].kiRoot, images[src].kiRoot, 0)

ClonePreconditionsDestUnchecked(dest, src) ==
    /\ images[src].kiMemoriesMapped = kernelImageRequiredMemories
    /\ ~images[dest].kiRunnable /\ images[src].kiRunnable
    /\ ~images[dest].kiCopied /\ images[src].kiCopied
    /\ images[dest].kiRoot # NULL /\ images[src].kiRoot # NULL

\* The assertions kernelImageClone makes on entry; the clone invocation
\* checks them before it calls.
ClonePreconditions(dest, src) ==
    /\ images[dest].kiMemoriesMapped = kernelImageRequiredMemories
    /\ images[src].kiMemoriesMapped = kernelImageRequiredMemories
    /\ ~images[dest].kiRunnable /\ images[src].kiRunnable
    /\ ~images[dest].kiCopied /\ images[src].kiCopied
    /\ images[dest].kiRoot # NULL /\ images[src].kiRoot # NULL

kernelImageClone(dest, src) ==
    /\ booted
    /\ ClonePreconditions(dest, src)
    /\ LET after == CloneResult(dest, src)
       IN  /\ pt' = after.pt
           /\ data' = after.data
    /\ images' = [images EXCEPT ![dest].kiCopied = TRUE, ![dest].kiRunnable = TRUE]
    /\ status' = "EXCEPTION_NONE"
    /\ UNCHANGED <<regionVars, boundTo>>

-----------------------------------------------------------------------------
(* kernelImageBindVSpace *)

BindEntriesWithoutLast ==
    LowBits(ShiftRight(Wrap(KI_WINDOW_END - KI_WINDOW_START), kernelImageUntranslatedBits(1)),
            kernelImageLevelIndexBits(0))

\* The root entries of the kernel window: a base index and a number of
\* entries, the last address of the window included.
BindEntries ==
    LowBits(ShiftRight(Wrap(KI_WINDOW_END - KI_WINDOW_START), kernelImageUntranslatedBits(1)),
            kernelImageLevelIndexBits(0)) + 1

BindBaseIndex ==
    LowBits(ShiftRight(KI_WINDOW_START, kernelImageUntranslatedBits(1)),
            kernelImageLevelIndexBits(0))

WindowIndices == {BindBaseIndex + entry : entry \in 0..(BindEntries - 1)}

\* The ASID has no VSpace: the lookup's status goes back to the caller.
BindVSpaceLookupFault(i, vspace_asid) ==
    /\ VSpaceRoot[vspace_asid] = NULL
    /\ status' = "EXCEPTION_LOOKUP_FAULT"
    /\ UNCHANGED <<regionVars, mapperVars, boundTo>>

\* The image has no root yet: the first load of the loop is through a null
\* pointer, before anything is written.
BindVSpaceNullRoot(i, vspace_asid) ==
    /\ VSpaceRoot[vspace_asid] # NULL
    /\ images[i].kiRoot = NULL
    /\ status' = KernelTrap
    /\ UNCHANGED <<regionVars, mapperVars, boundTo>>

\* The kernel-window entries of the image's root are copied to the VSpace
\* root, as they are now, of any image that has a root: nothing is asked
\* of kiRunnable or kiMemoriesMapped.
BindVSpaceCopy(i, vspace_asid) ==
    /\ VSpaceRoot[vspace_asid] # NULL
    /\ images[i].kiRoot # NULL
    /\ pt' = [pt EXCEPT ![FrameOfPtr(VSpaceRoot[vspace_asid])] =
                 [x \in PTIndices |->
                     IF x \in WindowIndices THEN TableAt(pt, images[i].kiRoot)[x] ELSE @[x]]]
    /\ boundTo' = [boundTo EXCEPT ![vspace_asid] = i]
    /\ status' = "EXCEPTION_NONE"
    /\ UNCHANGED <<regionVars, images, data>>

kernelImageBindVSpace(i, vspace_asid) ==
    /\ booted
    /\ \/ BindVSpaceLookupFault(i, vspace_asid)
       \/ BindVSpaceNullRoot(i, vspace_asid)
       \/ BindVSpaceCopy(i, vspace_asid)

=============================================================================
