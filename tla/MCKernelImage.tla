---------------------------- MODULE MCKernelImage ---------------------------
(***************************************************************************)
(* The whole subsystem on the scaled-down machine of MCKIMapper.  The      *)
(* kernel ELF has two pages of text, one of switch code, at most one of    *)
(* idle thread, one or two private pages (the last holds the kernel stack) *)
(* and two shared pages (the static tables of the initial image); it       *)
(* straddles two large pages of the initial image.  One image, or two, are *)
(* built beside the initial one, each from frames of its own, adjacent and *)
(* ascending: the stack copy of Arch_setKernelImage walks down physical    *)
(* memory from the frame of the last private page, so a stack deeper than  *)
(* a page lands in the clone's own pages only when they are handed out in  *)
(* that order.  MCKernelImage.cfg makes the stack deeper than a page.      *)
(***************************************************************************)
EXTENDS KernelImage

MCLevelIndexBits == [level \in 0..3 |-> 3]
MCLevelSizeBits  == [level \in 0..3 |-> 2]
MCImages         == {0, 1}
MCThreeImages    == {0, 1, 2}
MCMemoryPool     == [i \in {1} |-> [k \in 1..12 |-> 12 * i + k + 3]]
MCThreePools     == [i \in {1, 2} |-> [k \in 1..12 |-> 12 * i + k + 3]]

\* A layout: text, switch code, idle thread, private and shared sections
\* follow one another from base, each a whole number of pages.
Section(from, pages) == <<from, from + 4 * pages>>

Layout(base, idle, private) ==
    LET t == Section(base, 2)
        s == Section(t[2], 1)
        i == Section(s[2], idle)
        p == Section(i[2], private)
        h == Section(p[2], 2)
    IN  [ki_elf |-> <<base, h[2]>>, ki_text |-> t, ki_switch |-> s,
         ki_idle_thread |-> i, ki_private |-> p, ki_shared |-> h]

MCElfLayouts ==
    {Layout(base, idle, private) : base \in {3600, 3612}, idle \in 0..1, private \in 1..2}

MCOneLayout == {Layout(3600, 1, 2)}

\* ASID 1 has a VSpace whose root is frame 2; ASID 2 has none.
MCVSpaceRoot == (1 :> ptrFromPAddr(8)) @@ (2 :> NULL)
MCNoVSpace   == <<>>

=============================================================================
