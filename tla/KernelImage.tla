---------------------------- MODULE KernelImage -----------------------------
(***************************************************************************)
(* The kernel-image subsystem as a whole: the Memory Counter at boot, the  *)
(* Mapper and the Cloner as user level invokes them on images it is        *)
(* building, VSpace binding, and the Switcher as the domain scheduler      *)
(* invokes it, on one hart.  Every operation runs under the kernel lock    *)
(* with pre-emption off and is one step; the steps of different            *)
(* invocations interleave freely.                                          *)
(***************************************************************************)
EXTENDS KISwitcher

vars == <<regionVars, mapperVars, clonerVars, switcherVars>>

Init ==
    /\ MapperInit
    /\ status = "EXCEPTION_NONE"
    /\ boundTo = [a \in UserASIDs |-> NoImage]
    /\ ksCurKernelImage = BootImage
    /\ satp = [root |-> addrFromKPPtr(BootRoot), asid |-> BootImage]
    /\ sp = kernelStackBase
    /\ leftStack = [i \in Images |-> <<>>]

\* initKernelImageLevelCount during boot.
Boot ==
    /\ InitKernelImageLevelCount
    /\ UNCHANGED <<mapperVars, clonerVars, switcherVars>>

\* The KernelImage map invocation.
Map(i) ==
    /\ kernelMemoryMap(i)
    /\ status' = "EXCEPTION_NONE"
    /\ UNCHANGED <<boundTo, switcherVars>>

\* The KernelImage clone invocation.
Clone(dest, src) ==
    /\ kernelImageClone(dest, src)
    /\ UNCHANGED switcherVars

\* The KernelImage bind invocation.
Bind(i, vspace_asid) ==
    /\ kernelImageBindVSpace(i, vspace_asid)
    /\ UNCHANGED switcherVars

\* A kernel that has trapped stays where it is.
Halted ==
    /\ status = KernelTrap
    /\ UNCHANGED vars

Next ==
    \/ Halted
    \/ /\ status # KernelTrap
       /\ \/ Boot
          \/ \E i \in Images \ {BootImage} : Map(i)
          \/ \E dest \in Images \ {BootImage}, src \in Images : Clone(dest, src)
          \/ \E i \in Images, vspace_asid \in UserASIDs : Bind(i, vspace_asid)
          \/ \E i \in Images : setKernelImage(i)
          \/ switchToIdleKernelImage
          \/ \E value \in StackValues : KernelPush(value)
          \/ KernelPop

Spec == Init /\ [][Next]_vars

-----------------------------------------------------------------------------
(* Properties *)

Statuses == {"EXCEPTION_NONE", "EXCEPTION_FAULT", "EXCEPTION_LOOKUP_FAULT", KernelTrap}

TypeOK ==
    /\ MapperTypeOK
    /\ status \in Statuses
    /\ boundTo \in [UserASIDs -> Images \cup {NoImage}]
    /\ ksCurKernelImage \in Images
    /\ satp \in [root : Words, asid : Images]
    /\ sp \in Words
    /\ leftStack \in [Images -> Seq(0..StaleWord)]

\* The addresses at which a region is probed: one per entry at the depth
\* the region is cloned at.
ProbeAddrs(r) ==
    LET region == kernel_image_regions[r]
        bits   == kernelImageUntranslatedBits(CloneDepth(region.kirStrategy))
    IN  {ClearLowBits(a, bits) : a \in region.kirStart..(region.kirEnd - 1)}

MappedRegions == {r \in RegionIds : kernel_image_regions[r].kirStrategy # "KIMapNone"}

PageIn(tables, root, a) == ShiftRight(Arch_kernelImagePaddr(tables, root, a), PageBits)
PageOf(i, a)  == PageIn(pt, images[i].kiRoot, a)
OwnFrames(i)  == {MemoryPool[i][k] : k \in DOMAIN MemoryPool[i]}

\* The assertions inside a clone and inside a switch never fail: whenever
\* kernelImageClone may be called for a pair of images, every entry
\* Arch_kernelImageCloneEntry visits finds the destination slot at the
\* depth it expects, empty if it is to share and mapped if it is to copy;
\* and whenever setKernelImage may switch to an image, Arch_setKernelImage
\* finds the stack page of that image mapped.
CloneAndSwitchAssertsHold ==
    /\ \A dest \in Images \ {BootImage}, src \in Images :
           booted /\ ClonePreconditions(dest, src) => CloneResult(dest, src).ok
    /\ \A i \in Images :
           images[i].kiRunnable /\ i # ksCurKernelImage => SwitchAssertions(i)

\* A runnable image is a faithful clone: kernelImageClone leaves it with
\* every address of the physical-memory window, the device window and the
\* shared sections translated exactly as the initial image translates it
\* (large pages of the source included), and with every page of a copied
\* section on a frame of its own; the read-only copied section holds the
\* same words as the initial image's.
RunnableImagesComplete ==
    \A i \in Images : images[i].kiRunnable =>
        \A r \in MappedRegions : \A a \in ProbeAddrs(r) :
            /\ IsMappedByLeaf(pt, images[i].kiRoot, a)
            /\ IF kernel_image_regions[r].kirStrategy = "KIMapCopied"
               THEN /\ i # BootImage => PageOf(i, a) \in OwnFrames(i)
                    /\ kernel_image_regions[r].kirRights = "VMReadOnly" =>
                           data[PageOf(i, a)] = data[PageOf(BootImage, a)]
               ELSE Arch_kernelImagePaddr(pt, images[i].kiRoot, a)
                        = Arch_kernelImagePaddr(pt, images[BootImage].kiRoot, a)

\* Clone fidelity: the step that makes an image runnable leaves every page
\* of every copied section of it with the words the source of the clone
\* held in that page, whether the source maps the section with pages of
\* its own (a clone) or inside a large page (the initial image).
CloneFidelity ==
    [][\A dest \in Images : ~images[dest].kiRunnable /\ images'[dest].kiRunnable =>
           \E src \in Images :
               /\ images[src].kiRunnable
               /\ \A r \in CopiedRegions : \A a \in ProbeAddrs(r) :
                      data'[PageIn(pt', images'[dest].kiRoot, a)]
                          = data[PageIn(pt, images[src].kiRoot, a)]]_vars

\* The hart runs on the current image: the root register names the root
\* table of ksCurKernelImage (Arch_setKernelImage picks the window the root
\* pointer lies in by the ASID), that image is runnable and has a stack,
\* and the stack pointer lies within the stack.
HartFollowsCurrentImage ==
    /\ ShiftRight(satp.root, PageBits) = FrameOfPtr(images[ksCurKernelImage].kiRoot)
    /\ satp.asid = images[ksCurKernelImage].kiASID
    /\ images[ksCurKernelImage].kiRunnable
    /\ images[ksCurKernelImage].kiStackInitted
    /\ StackDepth(sp) <= MaxStackWords

KernelWindowIndices == RootIndex(KI_WINDOW_START)..RootIndex(KI_WINDOW_END)

\* The VSpace of ASID a translates the kernel window as image i does:
\* every root entry of the window, the last one included, is the image's.
Mirrors(tables, ims, a, i) ==
    \A x \in KernelWindowIndices :
        TableAt(tables, VSpaceRoot[a])[x] = TableAt(tables, ims[i].kiRoot)[x]

\* The copy kernelImageBindVSpace leaves in a VSpace root does not go
\* stale once the image is runnable.  kernelImageBindVSpace copies the
\* root entries of the kernel window once and nothing copies them again;
\* the bind of a runnable image leaves the VSpace with the image's window,
\* and no later step of any invocation (a map, a clone into or from the
\* image, a switch with its stack copy, a bind of another ASID) changes
\* the root of a runnable image or the root of a VSpace behind the back of
\* the other.  Nothing is said of an image that is still being built: the
\* bind accepts it, and what is mapped into its root afterwards is missing
\* from the VSpace.
BoundVSpaceStaysCurrent ==
    [][\A a \in UserASIDs : \A i \in Images :
           /\ boundTo'[a] = i
           /\ images[i].kiRunnable
           /\ boundTo[a] = i => Mirrors(pt, images, a, i)
           => Mirrors(pt', images', a, i)]_vars

\* The refinement mapping to KILifecycle: an image is runnable when
\* kiRunnable says so, complete when the boot has counted the memories an
\* image needs and kiMemoriesMapped has reached the count, and has been
\* entered when Arch_setKernelImage has given it a stack.
LifecyclePhase ==
    [i \in Images |->
        IF images[i].kiRunnable THEN "Runnable"
        ELSE IF booted /\ images[i].kiMemoriesMapped = kernelImageRequiredMemories
             THEN "Mapped"
             ELSE "Building"]

Lifecycle == INSTANCE KILifecycle WITH
    Initial <- BootImage,
    phase   <- LifecyclePhase,
    current <- ksCurKernelImage,
    entered <- {i \in Images : images[i].kiStackInitted}

\* The subsystem implements the life cycle of KILifecycle: across every
\* interleaving of kernelMemoryMap, kernelImageClone, kernelImageBindVSpace
\* and setKernelImage on several images, an image only moves forward from
\* under construction through fully mapped to runnable, kernelImageClone
\* completes only a fully mapped image and only from a runnable source,
\* the hart only moves to a runnable image, and the stack of an image is
\* initialised by the first switch into it and by nothing else.
ImplementsLifecycle == Lifecycle!LifecycleSpec

\* The frames that hold an image's own memory: for a built image the
\* memories user level mapped into it, for the initial image the pages of
\* the copied sections of the loaded kernel.
ImageFrames(i) ==
    IF i = BootImage
    THEN {FrameOfPtr(a) : a \in UNION {ProbeAddrs(r) : r \in CopiedRegions}}
    ELSE OwnFrames(i)

\* Images are isolated: a step changes the memory of a runnable image,
\* tables or pages, only if the hart runs in that image after the step and
\* the step is the hart's own (a switch into the image, or a push on its
\* stack).  A clone reads its source and writes only its destination, which
\* is not yet runnable; the stack copy of Arch_setKernelImage writes only
\* the image being switched to; a bind writes only the VSpace root.
Isolation ==
    [][\A j \in Images :
           /\ images[j].kiRunnable
           /\ j # ksCurKernelImage' \/ (ksCurKernelImage' = ksCurKernelImage /\ sp' = sp)
           => \A f \in ImageFrames(j) : data'[f] = data[f] /\ pt'[f] = pt[f]]_vars

\* The first switch into an image carries the live stack over: after
\* Arch_setKernelImage has copied the stack and changed root and stack
\* pointer, the hart finds the same words on its stack as before.
FirstSwitchKeepsLiveStack ==
    [][ksCurKernelImage' # ksCurKernelImage /\ ~images[ksCurKernelImage'].kiStackInitted =>
           LiveStack(pt', data', satp'.root, sp') = LiveStack(pt, data, satp.root, sp)]_vars

\* A later switch into an image resumes it where it was left: the stack
\* pointer Arch_setKernelImage saved when the hart left the image, and the
\* words that were on its stack then.
SwitchResumesSavedStack ==
    [][ksCurKernelImage' # ksCurKernelImage /\ images[ksCurKernelImage'].kiStackInitted =>
           LiveStack(pt', data', satp'.root, sp') = leftStack[ksCurKernelImage']]_vars

=============================================================================
