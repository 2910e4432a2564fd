------------------------------ MODULE MCI8259 ------------------------------
(***************************************************************************)
(* The controllers with a few lines, and a guest that knows a few bytes.   *)
(***************************************************************************)
EXTENDS I8259

Out(port, values) == {[port |-> port, size |-> 1, value |-> v] : v \in values}
In(ports) == {[port |-> p, size |-> 1] : p \in ports}

\* Command ports 0x20 and 0xa0, data ports 0x21 and 0xa1.
Command(values) == Out(32, values) \cup Out(160, values)
Data(values)    == Out(33, values) \cup Out(161, values)

\* Two master lines and one slave line.
MCLines == {1, 3, 10}

\* A guest in normal operation: it ends interrupts (0x20, 0xa0 with
\* rotation), moves the priorities (0xc1), masks and unmasks pin 3 of the
\* master and pin 2 of the slave (line 10: masked while the master has
\* latched the cascade, its request is gone when the VMM comes for it), and
\* asks for lines 0 and 3 to be level-triggered (line 0 stays
\* edge-triggered).  Line 3 is also driven by level, and lines 1, 3 and
\* 10 have callbacks.
MCServiceWrites ==
    Out(32, {32, 160, 193}) \cup Out(160, {32}) \cup Out(33, {0, 8}) \cup Out(161, {0, 4})
        \cup Out(1232, {9, 0})
MCLevelLines == {3}
MCServiceRegistrations ==
    {[irq |-> irq, callback |-> TRUE] : irq \in {1, 3, 10}}
MCNoReads == {}

\* A guest that programs the controllers.  Command bytes: 0x11 ICW1 with
\* ICW4, 0x10 ICW1 without; 0x20 end of interrupt, 0x63 end of interrupt
\* 3, 0xe3 end of interrupt 3 and rotate, 0x80 and 0x00 rotation in
\* auto-EOI mode on and off, 0x40 no operation; 0x0b read the in-service
\* register, 0x0c poll, 0x68 special mask.  Data bytes: a mask, an
\* interrupt base, or ICW4 (0x12 auto-EOI and special fully nested).
\* One write and one read miss the ports, one of each has the wrong size.
MCInitLines == {3, 10}
MCInitWrites ==
    Out(32, {17, 32, 227, 128, 64, 12}) \cup Out(160, {32, 12}) \cup Out(33, {0, 18})
        \cup {[port |-> 34, size |-> 1, value |-> 0], [port |-> 32, size |-> 2, value |-> 32]}
MCInitReads ==
    In({32, 160, 1232, 34}) \cup {[port |-> 32, size |-> 4]}
MCInitRegistrations ==
    {[irq |-> 3, callback |-> TRUE], [irq |-> 16, callback |-> TRUE]}
MCNoLevelLines == {}

\* Devices whose callback only takes note, and devices that answer the
\* acknowledgement with the next pulse.  In service line 1 takes note,
\* line 3 pulses whether the guest has made it level-triggered or not,
\* and line 10 pulses behind the cascade; under the guest that programs
\* the controllers line 3 pulses.
MCNoReentrant      == {}
MCServiceReentrant == {3, 10}
MCInitReentrant    == {3}

=============================================================================
