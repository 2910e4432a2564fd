----------------------------- MODULE KISwitcher -----------------------------
(***************************************************************************)
(* The Switcher: setKernelImage and switchToIdleKernelImage                *)
(* (src/kernel/include/object/kernelimage.h) and Arch_setKernelImage       *)
(* (src/kernel/src/arch/riscv/object/kernelimage.c).                       *)
(*                                                                         *)
(* One hart is modelled.  Its translation root register and its stack      *)
(* pointer are variables; every load and store the switch makes through a  *)
(* virtual address goes through the tables the root register names at that *)
(* moment.  The kernel's own use of its stack between two switches is the  *)
(* environment: it pushes and pops words on the current stack.             *)
(***************************************************************************)
EXTENDS KICloner

CONSTANTS
    StackWordSize,    \* bytes one iteration of the stack copy moves
    StackValues,      \* the words the running kernel may push
    MaxStackWords     \* bound: depth of the kernel stack, in words

VARIABLES
    ksCurKernelImage,   \* the image the hart runs in
    satp,               \* the hart's translation root: [root, asid]
    sp,                 \* the hart's stack pointer
    leftStack           \* history: the live stack of each image when last left

switcherVars == <<ksCurKernelImage, satp, sp, leftStack>>

ASSUME SwitcherAssumptions ==
    /\ StackWordSize \in Nat \ {0}
    /\ StackValues \subseteq 0..StaleWord
    /\ MaxStackWords \in Nat

\* The image bound to the domain that is scheduled.  The array and the code
\* that fills it are not part of this source tree; switchToIdleKernelImage
\* is documented to switch to "the initial kernel image", and that is what
\* is assumed of ksDomKernelImage[ksDomScheduleIdx] here.
ksDomKernelImage == BootImage

-----------------------------------------------------------------------------
(* The hart's view of memory *)

\* The kernel stack grows down from the first address of the shared region;
\* the words below that address belong to the private region.
kernelStackBase == kernel_image_regions[KIRegionShared].kirStart

Translate(tables, root, vaddr) == Arch_kernelImagePaddr(tables, ptrFromPAddr(root), vaddr)

Load(tables, contents, root, vaddr) ==
    LET paddr == Translate(tables, root, vaddr)
    IN  IF ShiftRight(paddr, PageBits) \in DOMAIN contents
        THEN contents[ShiftRight(paddr, PageBits)][LowBits(paddr, PageBits)]
        ELSE StaleWord

Store(tables, contents, root, vaddr, value) ==
    LET paddr == Translate(tables, root, vaddr)
    IN  IF ShiftRight(paddr, PageBits) \in DOMAIN contents
        THEN [contents EXCEPT ![ShiftRight(paddr, PageBits)][LowBits(paddr, PageBits)] = value]
        ELSE contents

\* The number of words between a stack pointer and the stack base.
StackDepth(stack_pointer) == Wrap(kernelStackBase - stack_pointer) \div StackWordSize

\* The words on the stack of the hart, from the base down.
LiveStack(tables, contents, root, stack_pointer) ==
    [k \in 1..StackDepth(stack_pointer) |->
        Load(tables, contents, root, Wrap(kernelStackBase - k * StackWordSize))]

-----------------------------------------------------------------------------
(* Arch_setKernelImage *)

RootPAddrSwapped(image) ==
    IF image.kiASID # 0 THEN addrFromKPPtr(image.kiRoot) ELSE addrFromPPtr(image.kiRoot)

\* The root of the initial image lies in the kernel ELF, every other root in
\* the physical-memory window.
RootPAddr(image) ==
    IF image.kiASID # 0 THEN addrFromPPtr(image.kiRoot) ELSE addrFromKPPtr(image.kiRoot)

StackTargetAtBase(tables, root) == kernelImageVPtr(tables, root, kernelStackBase)

\* Where the new image keeps the word just below the stack base, as a
\* pointer into the physical-memory window, stepped back up to the base.
StackTarget(tables, root) ==
    Wrap(kernelImageVPtr(tables, root, Wrap(kernelStackBase - 1)) + 1)

\* The copy loop: word by word from the base down to sp, read from the
\* current stack and written below image_p.
CopyStack(tables, contents, root, image_p, stack_pointer) ==
    FoldLeft(LAMBDA mem, k :
                 Store(tables, mem, root, Wrap(image_p - k * StackWordSize),
                       Load(tables, mem, root, Wrap(kernelStackBase - k * StackWordSize))),
             contents,
             [k \in 1..StackDepth(stack_pointer) |-> k])

SavedStackPointerOfTarget(i, s_p) == [images EXCEPT ![i].kiStackPointer = s_p]

\* The current image records the stack pointer it is left at.
SavedStackPointer(i, s_p) == [images EXCEPT ![ksCurKernelImage].kiStackPointer = s_p]

Arch_setKernelImage(i) ==
    LET saved == SavedStackPointer(i, sp)
        first == ~images[i].kiStackInitted
        after == IF first
                 THEN [saved EXCEPT ![i].kiStackPointer = saved[ksCurKernelImage].kiStackPointer,
                                    ![i].kiStackInitted = TRUE]
                 ELSE saved
    IN  /\ data' = IF first
                   THEN CopyStack(pt, data, satp.root, StackTarget(pt, images[i].kiRoot), sp)
                   ELSE data
        /\ images' = after
        /\ satp' = [root |-> RootPAddr(images[i]), asid |-> images[i].kiASID]
        /\ sp' = after[i].kiStackPointer
        /\ ksCurKernelImage' = i
        /\ leftStack' = [leftStack EXCEPT ![ksCurKernelImage] = LiveStack(pt, data, satp.root, sp)]
        /\ UNCHANGED pt

\* What Arch_setKernelImage asserts, and what its loads and stores need:
\* an image switched to for the first time is a clone, and the word below
\* the stack base is mapped by a leaf in it.
SwitchAssertions(i) ==
    /\ i # ksCurKernelImage
    /\ ~images[i].kiStackInitted =>
           /\ images[i].kiASID # 0
           /\ IsMappedByLeaf(pt, images[i].kiRoot, Wrap(kernelStackBase - 1))

-----------------------------------------------------------------------------
(* setKernelImage *)

\* An image that is not runnable is refused and nothing changes.
SetKernelImageFault(i) ==
    /\ ~images[i].kiRunnable
    /\ status' = "EXCEPTION_FAULT"
    /\ UNCHANGED <<mapperVars, switcherVars>>

\* The current image is already in place.
SetKernelImageCurrent(i) ==
    /\ images[i].kiRunnable
    /\ i = ksCurKernelImage
    /\ status' = "EXCEPTION_NONE"
    /\ UNCHANGED <<mapperVars, switcherVars>>

SetKernelImageSwitch(i) ==
    /\ images[i].kiRunnable
    /\ i # ksCurKernelImage
    /\ Arch_setKernelImage(i)
    /\ status' = "EXCEPTION_NONE"

setKernelImage(i) ==
    /\ booted
    /\ \/ SetKernelImageFault(i)
       \/ SetKernelImageCurrent(i)
       \/ SetKernelImageSwitch(i)
    /\ UNCHANGED <<regionVars, boundTo>>

switchToIdleKernelImage == setKernelImage(ksDomKernelImage)

-----------------------------------------------------------------------------
(* The running kernel *)

\* The kernel calls a function or takes a trap: a word goes on its stack,
\* which does not outgrow the private region it lies at the end of.
KernelPush(value) ==
    /\ booted
    /\ StackDepth(sp) < MaxStackWords
    /\ Wrap(sp - StackWordSize) >= kernel_image_regions[KIRegionPrivate].kirStart
    /\ sp' = Wrap(sp - StackWordSize)
    /\ data' = Store(pt, data, satp.root, Wrap(sp - StackWordSize), value)
    /\ UNCHANGED <<regionVars, images, pt, clonerVars, ksCurKernelImage, satp, leftStack>>

\* The kernel returns: the word is dropped.
KernelPop ==
    /\ booted
    /\ StackDepth(sp) > 0
    /\ sp' = Wrap(sp + StackWordSize)
    /\ UNCHANGED <<regionVars, mapperVars, clonerVars, ksCurKernelImage, satp, leftStack>>

=============================================================================
