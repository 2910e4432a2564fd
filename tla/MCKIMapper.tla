----------------------------- MODULE MCKIMapper -----------------------------
(***************************************************************************)
(* The Mapper on a scaled-down Sv39 machine: 12-bit words, 4-byte pages,   *)
(* three table levels of 3 index bits each above the page level.  The      *)
(* kernel window is the upper half of the root table: two root entries of  *)
(* physical-memory window, one for the kernel ELF and one for devices.     *)
(* Two images are built side by side, over a family of link layouts.       *)
(***************************************************************************)
EXTENDS KIMapper

MCLevelIndexBits == [level \in 0..3 |-> 3]
MCLevelSizeBits  == [level \in 0..3 |-> 2]
MCImages         == {0, 1, 2}
MCMemoryPool     == [i \in {1, 2} |-> [k \in 1..12 |-> 12 * i + 11 + k]]

\* A layout: the sections follow one another from base, each a whole number
\* of pages; a boot-only section may precede the text.
Section(from, pages) == <<from, from + 4 * pages>>

Layout(base, boot, text, idle, private) ==
    LET t == Section(base + 4 * boot, text)
        s == Section(t[2], 1)
        i == Section(s[2], idle)
        p == Section(i[2], private)
        h == Section(p[2], 2)
    IN  [ki_elf |-> <<base, h[2]>>, ki_text |-> t, ki_switch |-> s,
         ki_idle_thread |-> i, ki_private |-> p, ki_shared |-> h]

MCElfLayouts ==
    {Layout(base, boot, text, idle, private) :
        base \in {3584, 3600, 3612}, boot \in 0..1, text \in 1..2,
        idle \in 0..1, private \in 1..3}

=============================================================================
