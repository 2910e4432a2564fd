----------------------------- MODULE MCKIArith ------------------------------
(***************************************************************************)
(* The pure address computations of KIArith against reference definitions  *)
(* written with sets, over every input of a 6-bit machine with 4-byte      *)
(* pages and two page colours.  A state is one call and its result: a step *)
(* makes a call, the next one returns from it.                             *)
(***************************************************************************)
EXTENDS KIArith, FiniteSets

VARIABLE call   \* the last call: function, arguments and result

NoCall == [fn |-> "none"]

SpanCall(start_addr, end_addr, unresolved_bits) ==
    [fn |-> "countKernelImageSpanMemories", start_addr |-> start_addr, end_addr |-> end_addr,
     unresolved_bits |-> unresolved_bits,
     result |-> countKernelImageSpanMemories(start_addr, end_addr, unresolved_bits)]

NextPageCall(i, memory_addr) ==
    [fn |-> "locateNextPageOfColour", i |-> i, memory_addr |-> memory_addr,
     result |-> locateNextPageOfColour(i, memory_addr)]

InPageCall(i, memory_addr, size) ==
    [fn |-> "inPageOfColour", i |-> i, memory_addr |-> memory_addr, size |-> size,
     result |-> inPageOfColour(i, memory_addr, size)]

Init == call = NoCall

CountSpan ==
    /\ call = NoCall
    /\ \E start_addr, end_addr \in Words, unresolved_bits \in 0..(WordBits + 2) :
           call' = SpanCall(start_addr, end_addr, unresolved_bits)

\* The callers assert i < BIT(CONFIG_NUM_COLOUR_BITS) and size > 0.
LocateNextPage ==
    /\ call = NoCall
    /\ \E i \in Colours, memory_addr \in Words : call' = NextPageCall(i, memory_addr)

TestInPage ==
    /\ call = NoCall
    /\ \E i \in Colours, memory_addr \in Words, size \in 1..(2 * BIT(PageBits)) :
           /\ memory_addr + size <= WordLimit
           /\ call' = InPageCall(i, memory_addr, size)

Return ==
    /\ call # NoCall
    /\ call' = NoCall

Next == CountSpan \/ LocateNextPage \/ TestInPage \/ Return

Spec == Init /\ [][Next]_call

-----------------------------------------------------------------------------
(* Reference definitions *)

BlockOf(a, bits)  == a \div (2 ^ bits)
ColourOf(a)       == BlockOf(a, PageBits) % (2 ^ NumColourBits)
BlocksTouched(start_addr, end_addr, bits) ==
    Cardinality({BlockOf(a, bits) : a \in start_addr..(end_addr - 1)})

-----------------------------------------------------------------------------
(* Properties *)

\* countKernelImageSpanMemories counts the blocks a range touches: for a
\* non-empty range and a block smaller than the address space, the shifted
\* difference plus the partial-block term is the number of distinct
\* 2^unresolved_bits blocks that hold an address of [start_addr, end_addr);
\* a range whose end lies below its start counts nothing.
SpanCountsBlocksTouched ==
    call.fn = "countKernelImageSpanMemories" /\ call.unresolved_bits < WordBits =>
        /\ call.start_addr < call.end_addr =>
               call.result = BlocksTouched(call.start_addr, call.end_addr, call.unresolved_bits)
        /\ BlockOf(call.end_addr, call.unresolved_bits)
               < BlockOf(call.start_addr, call.unresolved_bits) => call.result = 0

\* With unresolved_bits at or above the word width countKernelImageSpanMemories
\* returns the partial-block term only: a block larger than the address space
\* is touched by any range that ends above zero, so the count is 1 then.
SpanOversizedIsPartialOnly ==
    call.fn = "countKernelImageSpanMemories" /\ call.unresolved_bits >= WordBits =>
        call.result = IF call.end_addr # 0 THEN 1 ELSE 0

\* locateNextPageOfColour returns the start of a page of colour i that is
\* not below memory_addr, and its step back by one keeps the page at the
\* very beginning of a colour group: asked for colour 0 at the start of a
\* group it returns that address, not the group after.
NextPageOfColourNeverSkips ==
    call.fn = "locateNextPageOfColour" /\ call.memory_addr + 2 * BIT(ColourGroupBits) <= WordLimit =>
        /\ call.result >= call.memory_addr
        /\ call.result % BIT(PageBits) = 0
        /\ ColourOf(call.result) = call.i
        /\ call.i = 0 /\ call.memory_addr % BIT(ColourGroupBits) = 0 =>
               call.result = call.memory_addr

\* inPageOfColour is true exactly when every byte of the region lies in
\* one page and that page has colour i.
InPageOfColourMeansWholeRegion ==
    call.fn = "inPageOfColour" =>
        call.result =
            /\ Cardinality({BlockOf(a, PageBits) :
                               a \in call.memory_addr..(call.memory_addr + call.size - 1)}) = 1
            /\ ColourOf(call.memory_addr) = call.i

=============================================================================
