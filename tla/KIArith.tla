------------------------------ MODULE KIArith ------------------------------
(***************************************************************************)
(* Machine-word arithmetic of the kernel-image subsystem and the pure      *)
(* address computations built on it: the span-counting primitive of the    *)
(* Memory Counter (src/kernel/src/object/kernelimage.c) and the            *)
(* page-colour helpers (src/kernel/include/object/kernelimage.h).          *)
(*                                                                         *)
(* A word_t is a natural number below 2^WordBits.  The C bit operations    *)
(* are written arithmetically: x >> n is division by 2^n, x & MASK(n) is   *)
(* the remainder modulo 2^n, x & ~MASK(n) subtracts that remainder, and    *)
(* every sum or difference is reduced modulo 2^WordBits.                   *)
(***************************************************************************)
EXTENDS Integers

CONSTANTS
    WordBits,       \* seL4_WordBits: width of word_t, vptr_t and paddr_t
    PageBits,       \* seL4_PageBits / PAGE_BITS: log2 of the page size
    NumColourBits   \* CONFIG_NUM_COLOUR_BITS: log2 of the number of colours

ASSUME ArithAssumptions ==
    /\ WordBits \in Nat \ {0}
    /\ PageBits \in 0..(WordBits - 1)
    /\ NumColourBits \in 0..(WordBits - PageBits - 1)

WordLimit == 2 ^ WordBits
Words     == 0..(WordLimit - 1)

\* Unsigned wrap-around of a sum or difference of words.
Wrap(x) == x % WordLimit

\* BIT(n) is 1ul << n.  A shift by WordBits or more is undefined in C; the
\* RISC-V sll/srl instructions the build emits for a run-time shift take the
\* amount modulo the register width, and that is what is modelled.
BIT(n)  == 2 ^ (n % WordBits)
MASK(n) == BIT(n) - 1

ShiftRight(x, n)   == x \div BIT(n)          \* x >> n
ShiftLeft(x, n)    == Wrap(x * BIT(n))       \* x << n
LowBits(x, n)      == x % BIT(n)             \* x & MASK(n)
ClearLowBits(x, n) == x - (x % BIT(n))       \* x & ~MASK(n)

-----------------------------------------------------------------------------
(* The span-counting primitive.  The partial-block test on end_addr is      *)
(* evaluated first, with MASK(unresolved_bits), and only then is the width  *)
(* of the shift examined.                                                   *)

countKernelImageSpanMemoriesNoPartial(start_addr, end_addr, unresolved_bits) ==
    LET start == ShiftRight(start_addr, unresolved_bits)
        end   == ShiftRight(end_addr, unresolved_bits)
    IN  IF unresolved_bits >= WordBits THEN 0
        ELSE IF end >= start THEN end - start ELSE 0

countKernelImageSpanMemories(start_addr, end_addr, unresolved_bits) ==
    LET partial == IF LowBits(end_addr, unresolved_bits) # 0 THEN 1 ELSE 0
        start   == ShiftRight(start_addr, unresolved_bits)
        end     == ShiftRight(end_addr, unresolved_bits)
    IN  IF unresolved_bits >= WordBits THEN partial
        ELSE IF end >= start THEN partial + (end - start) ELSE 0

-----------------------------------------------------------------------------
(* Page colours: the colour of a page is the NumColourBits bits of its      *)
(* address directly above the page offset.                                  *)

ColourGroupBits == PageBits + NumColourBits
Colours         == 0..(2 ^ NumColourBits - 1)

locateNextPageOfColourNoStepBack(i, memory_addr) ==
    Wrap(ClearLowBits(memory_addr, ColourGroupBits) + ShiftLeft(i, PageBits)
         + BIT(ColourGroupBits))

\* memory_addr -= 1; clear the group offset; or in the colour; advance one
\* group.  The "or" adds, because the bits it sets were just cleared.
locateNextPageOfColour(i, memory_addr) ==
    LET stepped == Wrap(memory_addr - 1)
        group   == ClearLowBits(stepped, ColourGroupBits)
    IN  Wrap(group + ShiftLeft(i, PageBits) + BIT(ColourGroupBits))

inPageOfColourStartOnly(i, memory_addr, size) ==
    ShiftLeft(i, PageBits)
        = ClearLowBits(LowBits(memory_addr, ColourGroupBits), PageBits)

inPageOfColour(i, memory_addr, size) ==
    /\ ShiftLeft(i, PageBits)
         = ClearLowBits(LowBits(memory_addr, ColourGroupBits), PageBits)
    /\ ClearLowBits(memory_addr, PageBits)
         = ClearLowBits(Wrap(memory_addr + size - 1), PageBits)

=============================================================================
