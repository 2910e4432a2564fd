------------------------------- MODULE I8259 -------------------------------
(***************************************************************************)
(* The emulated pair of Intel 8259 interrupt controllers of the x86 VMM    *)
(* (libsel4vm, i8259.c): a master and a slave cascaded on the master's pin *)
(* 2.  Devices drive the sixteen lines through vm_set_irq_level and        *)
(* vm_inject_irq, the guest programs the controllers through port I/O, and *)
(* the VMM takes the next interrupt to inject with i8259_get_interrupt.    *)
(* Every handler runs to its end on the VMM's one thread, so each is one   *)
(* action.  The acknowledgement callback of a line runs inside the handler *)
(* that takes the line out of service; the callbacks of the lines in       *)
(* Reentrant call vm_inject_irq for their line before they return.         *)
(*                                                                         *)
(* An eight-bit register is the set of the bits that are set in it; Bits   *)
(* and ByteOf convert between a register and the byte on the port.         *)
(***************************************************************************)
EXTENDS Integers, FiniteSets, FiniteSetsExt, SequencesExt, TLC

CONSTANTS
    Lines,          \* the lines devices pulse (vm_inject_irq)
    LevelLines,     \* the lines devices set the level of (vm_set_irq_level)
    GuestWrites,    \* the port writes of the guest: [port, size, value]
    GuestReads,     \* the port reads of the guest: [port, size]
    Registrations,  \* the calls of vm_register_irq: [irq, callback]
    Reentrant       \* the lines whose callback pulses its line again (vm_inject_irq)

I8259_MASTER == 0
I8259_SLAVE  == 1
PIC_NUM_PINS == 16
Pins         == 0..7
NoIrq        == -1

ASSUME InputAssumptions ==
    /\ Lines \cup LevelLines \cup Reentrant \subseteq 0..(PIC_NUM_PINS - 1)
    /\ \A w \in GuestWrites : w.value \in 0..255

VARIABLES
    gs,           \* struct i8259: both controllers, output, emitagain, wakeup_needed
    irq_ack_fns,  \* the lines that have an acknowledgement callback
    acked,        \* the table slots whose callback the last call ran
    ret           \* what the last call returned

vars == <<gs, irq_ack_fns, acked, ret>>

-----------------------------------------------------------------------------
(* Registers *)

\* The register a byte written to a port leaves, and the byte a register
\* reads as.
Bits(val) == {b \in Pins : (val \div 2^b) % 2 = 1}
ByteOf(reg) == MapThenSumSet(LAMBDA b : 2^b, reg)

\* 1 << irq, narrowed to a register.  For irq = -1 the x86 shifter takes the
\* count modulo 32: bit 31, which no eight-bit register has.
PinBit(irq) == {irq} \cap Pins

i8259_state ==
    [last_irr : SUBSET Pins, irr : SUBSET Pins, imr : SUBSET Pins, isr : SUBSET Pins,
     priority_add : Pins, irq_base : 0..255, read_reg_select : 0..1, poll : 0..1,
     special_mask : 0..1, init_state : 0..3, auto_eoi : 0..1, rotate_on_auto_eoi : 0..1,
     special_fully_nested_mode : 0..1, init4 : 0..1, elcr : SUBSET Pins,
     elcr_mask : SUBSET Pins]

\* struct i8259.
i8259 ==
    [pics : [{I8259_MASTER, I8259_SLAVE} -> i8259_state], output : 0..1, emitagain : 0..1,
     wakeup_needed : BOOLEAN]

\* calloc, then i8259_init_state.
InitialPic(mask) ==
    [last_irr |-> {}, irr |-> {}, imr |-> {}, isr |-> {}, priority_add |-> 0,
     irq_base |-> 0, read_reg_select |-> 0, poll |-> 0, special_mask |-> 0,
     init_state |-> 0, auto_eoi |-> 0, rotate_on_auto_eoi |-> 0,
     special_fully_nested_mode |-> 0, init4 |-> 0, elcr |-> {}, elcr_mask |-> Bits(mask)]

-----------------------------------------------------------------------------
(* Priorities *)

\* Mutant: the rotation of the priorities is forgotten.
get_priorityUnrotated(s, mask) ==
    IF mask = {} THEN 8 ELSE Min(mask)

\* The highest priority in mask, 0 the highest: pins are ranked from
\* priority_add upwards, around the register.  8 when mask is empty.
get_priority(s, mask) ==
    IF mask = {} THEN 8
    ELSE Min({priority \in Pins : (priority + s.priority_add) % 8 \in mask})

\* Mutant: what is in service does not hold a request back.
pic_get_irqIgnoringService(s, n) ==
    LET priority == get_priority(s, s.irr \ s.imr)
    IN  IF priority < 8 THEN (priority + s.priority_add) % 8 ELSE NoIrq

\* The pin that requests an interrupt: the highest unmasked request, when it
\* outranks everything in service.  In special fully nested mode the
\* master does not count the cascade pin as in service.
pic_get_irq(s, n) ==
    LET priority   == get_priority(s, s.irr \ s.imr)
        in_service == IF s.special_fully_nested_mode = 1 /\ n = I8259_MASTER
                      THEN s.isr \ {2} ELSE s.isr
    IN  IF priority < get_priority(s, in_service)
        THEN (priority + s.priority_add) % 8 ELSE NoIrq

-----------------------------------------------------------------------------
(* Requests, acknowledgement and the output *)

\* Mutant: the pins of the slave are looked up as lines 0 to 7.
CallbacksOfMaster(n, irqs, wild) ==
    {slot \in irqs : slot # 2 /\ slot \in irq_ack_fns}

\* The callbacks pic_clear_isr runs for the pins of controller n: none for
\* the cascade (line 2) and none where no callback is registered.  A slot
\* outside the table (the poll of an idle master reads slot -1) holds
\* whatever lies there: wild says whether that is a callback.
Callbacks(n, irqs, wild) ==
    {slot \in {irq + 8 * n : irq \in irqs} :
        /\ slot # 2
        /\ IF slot \in 0..(PIC_NUM_PINS - 1) THEN slot \in irq_ack_fns ELSE wild}

\* A line changes level: an edge-triggered pin requests on a rising edge, a
\* level-triggered one for as long as the line is high.
pic_set_irq1(s, irq, level) ==
    LET requests == level = 1 /\ (irq \in s.elcr \/ irq \notin s.last_irr)
        withdraws == level = 0 /\ irq \in s.elcr
    IN  [s EXCEPT !.irr      = IF requests THEN @ \cup {irq}
                               ELSE IF withdraws THEN @ \ {irq} ELSE @,
                  !.last_irr = IF level = 1 THEN @ \cup {irq} ELSE @ \ {irq}]

\* Its result: -1 masked, 0 coalesced with a pending request, 1 otherwise.
pic_set_irq1_ret(s, irq, level) ==
    IF irq \in s.imr THEN -1
    ELSE IF level = 1 /\ (irq \in s.elcr \/ irq \notin s.last_irr) /\ irq \in s.irr THEN 0
    ELSE 1

\* The two halves of pic_update_irq, as functions of the state they are
\* handed.  A request of the slave pulses the master's pin 2.
Cascade[g \in i8259] ==
    IF pic_get_irq(g.pics[I8259_SLAVE], I8259_SLAVE) >= 0
    THEN [g EXCEPT !.pics[I8259_MASTER] = pic_set_irq1(pic_set_irq1(@, 2, 1), 2, 0)]
    ELSE g

\* The output follows the master's request; a call that finds the output
\* low asks for a wake-up, and a pending emitagain is consumed when the
\* output is high.
RaiseOutput[g \in i8259] ==
    LET irq == pic_get_irq(g.pics[I8259_MASTER], I8259_MASTER)
    IN  [g EXCEPT !.wakeup_needed = @ \/ g.output = 0,
                  !.output        = IF irq >= 0 THEN 1 ELSE 0,
                  !.emitagain     = IF irq >= 0 THEN 0 ELSE @]

\* Mutant: a request of the slave is not passed on to the master.
pic_update_irqWithoutCascade(g) == RaiseOutput[g]

pic_update_irq(g) == RaiseOutput[Cascade[g]]

SetIrqLevel(g, irq, level) ==
    pic_update_irq([g EXCEPT !.pics[irq \div 8] = pic_set_irq1(@, irq % 8, level)])

\* vm_inject_irq on the state it finds: the line goes high and low again.
Pulsed[g \in i8259, irq \in 0..(PIC_NUM_PINS - 1)] ==
    SetIrqLevel(SetIrqLevel(g, irq, 1), irq, 0)

\* The interrupt has been served: it is out of service, and the callback
\* of its line runs on the state the handler has reached by then.
pic_clear_isr(g, n, irq) ==
    LET cleared == [g EXCEPT !.pics[n].isr = @ \ PinBit(irq)]
    IN  IF Callbacks(n, {irq}, FALSE) \cap Reentrant # {}
        THEN Pulsed[cleared, irq + 8 * n] ELSE cleared

\* The edge-triggered requests pic_reset drops and acknowledges.
edge_irr(s) == s.irr \ s.elcr

\* The registers as pic_reset leaves them.
ResetRegisters(s) ==
    [s EXCEPT !.last_irr = {}, !.irr = @ \cap s.elcr, !.imr = {}, !.priority_add = 0,
              !.special_mask = 0, !.read_reg_select = 0,
              !.special_fully_nested_mode = IF s.init4 = 0 THEN 0 ELSE @,
              !.auto_eoi = IF s.init4 = 0 THEN 0 ELSE @,
              !.init_state = 1]

\* The reset, and then pin by pin the acknowledgement of the requests it
\* dropped.
pic_reset(g, n) ==
    FoldLeft(LAMBDA reset, irq : IF irq \in edge_irr(g.pics[n])
                                 THEN pic_clear_isr(reset, n, irq) ELSE reset,
             [g EXCEPT !.pics[n] = ResetRegisters(@)],
             [k \in 1..(PIC_NUM_PINS \div 2) |-> k - 1])

\* Mutant: the interrupt is taken and its edge-triggered request is left.
pic_intackKeepingRequest(g, n, irq) ==
    LET in_service == [g EXCEPT !.pics[n].isr = @ \cup {irq}]
    IN  IF g.pics[n].auto_eoi = 0 THEN in_service
        ELSE pic_clear_isr([in_service EXCEPT !.pics[n].priority_add =
                 IF g.pics[n].rotate_on_auto_eoi = 1 THEN (irq + 1) % 8 ELSE @], n, irq)

\* Mutant: the request is consumed after the acknowledgement, not before.
pic_intackConsumingLate(g, n, irq) ==
    LET s == g.pics[n]
        in_service == [g EXCEPT !.pics[n].isr = @ \cup {irq}]
        served == IF s.auto_eoi = 0 THEN in_service
                  ELSE pic_clear_isr([in_service EXCEPT !.pics[n].priority_add =
                           IF s.rotate_on_auto_eoi = 1 THEN (irq + 1) % 8 ELSE @], n, irq)
    IN  [served EXCEPT !.pics[n].irr = IF irq \in s.elcr THEN @ ELSE @ \ {irq}]

\* The interrupt is taken: in service, its edge-triggered request consumed;
\* in auto-EOI mode it is out of service again at once.
pic_intack(g, n, irq) ==
    LET s == g.pics[n]
        in_service == [g EXCEPT !.pics[n].isr = @ \cup {irq},
                                !.pics[n].irr = IF irq \in s.elcr THEN @ ELSE @ \ {irq}]
    IN  IF s.auto_eoi = 0 THEN in_service
        ELSE pic_clear_isr([in_service EXCEPT !.pics[n].priority_add =
                                IF s.rotate_on_auto_eoi = 1 THEN (irq + 1) % 8 ELSE @], n, irq)

-----------------------------------------------------------------------------
(* The calls *)

Init ==
    /\ gs = [pics |-> (I8259_MASTER :> InitialPic(248)) @@ (I8259_SLAVE :> InitialPic(222)),
             output |-> 0, emitagain |-> 1, wakeup_needed |-> FALSE]
    /\ irq_ack_fns = {}
    /\ acked = {}
    /\ ret = [value |-> 0, line |-> NoIrq]

\* What every call leaves: the controllers, the callbacks run, the result.
Returns(g, callbacks, value, line) ==
    /\ gs' = g
    /\ acked' = callbacks
    /\ ret' = [value |-> value, line |-> line]

-----------------------------------------------------------------------------
(* Port writes *)

PicPorts  == {32, 33, 160, 161}    \* 0x20, 0x21, 0xa0, 0xa1
ElcrPorts == {1232, 1233}          \* 0x4d0, 0x4d1
i8259_in_range(addr) == addr \in PicPorts \cup ElcrPorts

\* The results of a port handler; only that they differ matters.
IO_FAULT_HANDLED == 0
IO_FAULT_ERROR   == -1

WithPic(n, s) == [gs EXCEPT !.pics[n] = s]
Written(g, callbacks) == Returns(g, callbacks, IO_FAULT_HANDLED, NoIrq)

\* Mutant: the requests the reset drops are not acknowledged.
WriteICW1Silently(n, val) ==
    LET s == [gs.pics[n] EXCEPT !.init4 = val % 2]
    IN  Written(WithPic(n, [ResetRegisters(s) EXCEPT !.isr = @ \ edge_irr(s)]), {})

\* ICW1 starts the initialisation: the controller is reset, and the
\* edge-triggered requests it drops are acknowledged to their devices.
WriteICW1(n, val) ==
    LET s == [gs.pics[n] EXCEPT !.init4 = val % 2]
    IN  Written(pic_reset(WithPic(n, s), n), Callbacks(n, edge_irr(s), FALSE))

WriteOCW3(n, val) ==
    LET bits == Bits(val)
    IN  Written(WithPic(n, [gs.pics[n] EXCEPT
                    !.poll            = IF 2 \in bits THEN 1 ELSE @,
                    !.read_reg_select = IF 1 \in bits THEN val % 2 ELSE @,
                    !.special_mask    = IF 6 \in bits THEN (val \div 32) % 2 ELSE @]), {})

\* OCW2, commands 0 and 4: rotation in auto-EOI mode off and on.
WriteOCW2Rotate(n, cmd) ==
    Written(WithPic(n, [gs.pics[n] EXCEPT !.rotate_on_auto_eoi = cmd \div 4]), {})

\* OCW2, commands 1, 5, 3 and 7: the end of an interrupt.  1 and 5 end the
\* highest-priority interrupt in service and do nothing when there is
\* none; 3 and 7 name the pin.  5 and 7 rotate the priorities past it.
WriteOCW2EndOfInterrupt(n, cmd, val) ==
    LET s       == gs.pics[n]
        ended   == IF cmd \in {3, 7} THEN val % 8
                   ELSE (get_priority(s, s.isr) + s.priority_add) % 8
        rotated == [s EXCEPT !.priority_add = IF cmd \in {5, 7} THEN (ended + 1) % 8 ELSE @]
    IN  IF cmd \in {1, 5} /\ s.isr = {}
        THEN Written(gs, {})
        ELSE Written(pic_update_irq(pic_clear_isr(WithPic(n, rotated), n, ended)),
                     Callbacks(n, {ended}, FALSE))

\* OCW2, command 6: the lowest priority is given to a pin.
WriteOCW2SetPriority(n, val) ==
    Written(pic_update_irq(WithPic(n, [gs.pics[n] EXCEPT !.priority_add = (val + 1) % 8])), {})

WriteOCW2(n, val) ==
    LET cmd == val \div 32
    IN  \/ cmd \in {0, 4} /\ WriteOCW2Rotate(n, cmd)
        \/ cmd \in {1, 3, 5, 7} /\ WriteOCW2EndOfInterrupt(n, cmd, val)
        \/ cmd = 6 /\ WriteOCW2SetPriority(n, val)
        \/ cmd = 2 /\ Written(gs, {})

\* OCW1: the mask, when no initialisation is under way.
WriteOCW1(n, val) ==
    Written(pic_update_irq(WithPic(n, [gs.pics[n] EXCEPT !.imr = Bits(val)])), {})

\* ICW2, ICW3 and, after a four-byte ICW1, ICW4.
WriteICW(n, val) ==
    LET s == gs.pics[n]
    IN  \/ /\ s.init_state = 1
           /\ Written(WithPic(n, [s EXCEPT !.irq_base = 8 * (val \div 8), !.init_state = 2]), {})
        \/ /\ s.init_state = 2
           /\ Written(WithPic(n, [s EXCEPT !.init_state = IF s.init4 = 1 THEN 3 ELSE 0]), {})
        \/ /\ s.init_state = 3
           /\ Written(WithPic(n, [s EXCEPT !.special_fully_nested_mode = (val \div 16) % 2,
                                           !.auto_eoi = (val \div 2) % 2,
                                           !.init_state = 0]), {})

pic_ioport_write(n, addr, val) ==
    \/ addr % 2 = 0 /\ 4 \in Bits(val) /\ WriteICW1(n, val)
    \/ addr % 2 = 0 /\ 4 \notin Bits(val) /\ 3 \in Bits(val) /\ WriteOCW3(n, val)
    \/ addr % 2 = 0 /\ Bits(val) \cap {3, 4} = {} /\ WriteOCW2(n, val)
    \/ addr % 2 = 1 /\ gs.pics[n].init_state = 0 /\ WriteOCW1(n, val)
    \/ addr % 2 = 1 /\ gs.pics[n].init_state # 0 /\ WriteICW(n, val)

\* Mutant: the mask is not applied.
elcr_ioport_writeUnmasked(n, val) ==
    Written(WithPic(n, [gs.pics[n] EXCEPT !.elcr = Bits(val)]), {})

\* Which pins are level-triggered; the mask keeps the others edge-triggered.
elcr_ioport_write(n, val) ==
    Written(WithPic(n, [gs.pics[n] EXCEPT !.elcr = Bits(val) \cap gs.pics[n].elcr_mask]), {})

i8259_port_out(port_no, size, value) ==
    /\ \/ /\ ~i8259_in_range(port_no) \/ size # 1
          /\ Returns(gs, {}, IO_FAULT_ERROR, NoIrq)
       \/ /\ port_no \in PicPorts /\ size = 1
          /\ pic_ioport_write(port_no \div 128, port_no, value)
       \/ /\ port_no \in ElcrPorts /\ size = 1
          /\ elcr_ioport_write(port_no % 2, value)
    /\ UNCHANGED irq_ack_fns

-----------------------------------------------------------------------------
(* Port reads *)

\* (unsigned int)-1, of which the one-byte read of the guest takes the low byte.
NoIrqUnsigned == 255

\* A read after the poll command takes the requesting pin of the controller
\* as acknowledged.  The pin is held in an unsigned int, so that "no
\* request" (-1) passes the test for a request as well: it reads as
\* all ones, the shifts by it leave the eight-bit registers as they are
\* (x86 takes the count modulo 32), and pic_clear_isr looks up the callback
\* of slot -1 (master) or 7 (slave).  A poll of the master that finds the
\* cascade leaves the output as it is: the poll of the slave follows.
pic_poll_read(n, wild) ==
    LET irq    == pic_get_irq(gs.pics[n], n)
        master == IF n = I8259_SLAVE
                  THEN [gs.pics[I8259_MASTER] EXCEPT !.isr = @ \ {2}, !.irr = @ \ {2}]
                  ELSE gs.pics[I8259_MASTER]
        polled == pic_clear_isr([gs EXCEPT !.pics[I8259_MASTER] = master,
                                           !.pics[n].irr = @ \ PinBit(irq)], n, irq)
        after  == IF n = I8259_SLAVE \/ irq # 2 THEN pic_update_irq(polled) ELSE polled
    IN  Returns([after EXCEPT !.pics[n].poll = 0], Callbacks(n, {irq}, wild),
                IF irq = NoIrq THEN NoIrqUnsigned ELSE irq, NoIrq)

\* Without a poll the even port reads the request or the in-service
\* register, the odd port the mask.
pic_register_read(n, addr) ==
    LET s == gs.pics[n]
    IN  Returns(gs, {}, ByteOf(IF addr % 2 = 1 THEN s.imr
                       ELSE IF s.read_reg_select = 1 THEN s.isr ELSE s.irr), NoIrq)

pic_ioport_read(n, addr) ==
    \/ gs.pics[n].poll = 1 /\ \E wild \in BOOLEAN : pic_poll_read(n, wild)
    \/ gs.pics[n].poll = 0 /\ pic_register_read(n, addr)

elcr_ioport_read(n) == Returns(gs, {}, ByteOf(gs.pics[n].elcr), NoIrq)

i8259_port_in(port_no, size) ==
    /\ \/ /\ ~i8259_in_range(port_no) \/ size # 1
          /\ Returns(gs, {}, IO_FAULT_ERROR, NoIrq)
       \/ /\ port_no \in PicPorts /\ size = 1
          /\ pic_ioport_read(port_no \div 128, port_no)
       \/ /\ port_no \in ElcrPorts /\ size = 1
          /\ elcr_ioport_read(port_no % 2)
    /\ UNCHANGED irq_ack_fns

-----------------------------------------------------------------------------
(* The VMM takes an interrupt *)

i8259_has_irq(g) == g.output = 1
i8259_has_interrupt == i8259_has_irq(gs)

IntackCallbacks(s, n, irq) ==
    IF irq >= 0 /\ s.auto_eoi = 1 THEN Callbacks(n, {irq}, FALSE) ELSE {}

\* Mutant: a slave that has nothing to offer any more is acknowledged pin 7
\* all the same, as if the spurious vector were a request of line 15.
i8259_read_irqAckingSpurious(g) ==
    LET master == g.pics[I8259_MASTER]
        slave  == g.pics[I8259_SLAVE]
        irq    == pic_get_irq(master, I8259_MASTER)
        found  == IF irq = 2 THEN pic_get_irq(slave, I8259_SLAVE) ELSE NoIrq
        irq2   == IF irq = 2 /\ found < 0 THEN 7 ELSE found
        taken  == IF irq >= 0 THEN pic_intack(g, I8259_MASTER, irq) ELSE g
    IN  [g         |-> pic_update_irq(IF irq2 >= 0 THEN pic_intack(taken, I8259_SLAVE, irq2)
                                      ELSE taken),
         intno     |-> IF irq = 2 THEN slave.irq_base + irq2
                       ELSE master.irq_base + (IF irq >= 0 THEN irq ELSE 7),
         line      |-> IF irq # 2 THEN irq ELSE IF found >= 0 THEN found + 8 ELSE NoIrq,
         callbacks |-> IntackCallbacks(master, I8259_MASTER, irq)
                           \cup IntackCallbacks(slave, I8259_SLAVE, found)]

\* The master's requesting pin is acknowledged and, when it is the cascade,
\* the slave's.  A controller that has nothing to offer any more yields
\* its spurious vector, irq_base + 7.
i8259_read_irq(g) ==
    LET master == g.pics[I8259_MASTER]
        slave  == g.pics[I8259_SLAVE]
        irq    == pic_get_irq(master, I8259_MASTER)
        irq2   == IF irq = 2 THEN pic_get_irq(slave, I8259_SLAVE) ELSE NoIrq
        taken  == IF irq >= 0 THEN pic_intack(g, I8259_MASTER, irq) ELSE g
    IN  [g         |-> pic_update_irq(IF irq2 >= 0 THEN pic_intack(taken, I8259_SLAVE, irq2)
                                      ELSE taken),
         intno     |-> IF irq = 2 THEN slave.irq_base + (IF irq2 >= 0 THEN irq2 ELSE 7)
                       ELSE master.irq_base + (IF irq >= 0 THEN irq ELSE 7),
         line      |-> IF irq # 2 THEN irq ELSE IF irq2 >= 0 THEN irq2 + 8 ELSE NoIrq,
         callbacks |-> IntackCallbacks(master, I8259_MASTER, irq)
                           \cup IntackCallbacks(slave, I8259_SLAVE, irq2)]

\* Mutant: emitagain is set although the output is still raised.
EmitAgainAlways(read) ==
    [read EXCEPT !.g.emitagain = 1]

\* emitagain asks for a new notification once there is nothing to inject.
EmitAgainWhenIdle(read) ==
    [read EXCEPT !.g.emitagain = IF i8259_has_irq(read.g) THEN @ ELSE 1]

i8259_get_interrupt ==
    \E read \in {EmitAgainWhenIdle(IF i8259_has_irq(gs) THEN i8259_read_irq(gs)
                                   ELSE [g |-> gs, intno |-> -1, line |-> NoIrq,
                                         callbacks |-> {}])} :
        /\ Returns(read.g, read.callbacks, read.intno, read.line)
        /\ UNCHANGED irq_ack_fns

-----------------------------------------------------------------------------
(* Devices *)

\* A device sets the level of its line.  -1 tells it that the line is
\* masked.
vm_set_irq_level(irq, level) ==
    /\ Returns(SetIrqLevel(gs, irq, level), {},
               IF pic_set_irq1_ret(gs.pics[irq \div 8], irq % 8, level) = -1 THEN -1 ELSE 0,
               NoIrq)
    /\ UNCHANGED irq_ack_fns

\* A pulse: the line goes high and low again.
vm_inject_irq(irq) ==
    /\ Returns(Pulsed[gs, irq], {}, 0, NoIrq)
    /\ UNCHANGED irq_ack_fns

\* A device registers, or with no function removes, the callback of a line.
vm_register_irq(irq, callback) ==
    /\ IF irq < 0 \/ irq >= PIC_NUM_PINS
       THEN /\ Returns(gs, {}, -1, NoIrq)
            /\ UNCHANGED irq_ack_fns
       ELSE /\ Returns(gs, {}, 0, NoIrq)
            /\ irq_ack_fns' = IF callback THEN irq_ack_fns \cup {irq} ELSE irq_ack_fns \ {irq}

-----------------------------------------------------------------------------

GuestWrite == \E w \in GuestWrites : i8259_port_out(w.port, w.size, w.value)
GuestRead  == \E r \in GuestReads : i8259_port_in(r.port, r.size)
SetLevel   == \E irq \in LevelLines, level \in 0..1 : vm_set_irq_level(irq, level)
Inject     == \E irq \in Lines : vm_inject_irq(irq)
Register   == \E r \in Registrations : vm_register_irq(r.irq, r.callback)

Next ==
    \/ GuestWrite
    \/ GuestRead
    \/ i8259_get_interrupt
    \/ SetLevel
    \/ Inject
    \/ Register

Spec == Init /\ [][Next]_vars

-----------------------------------------------------------------------------
(* Properties *)

\* Type invariant: the registers are bytes, the flags are flags, and only
\* pins the mask allows are level-triggered.
TypeOK ==
    /\ gs \in i8259
    /\ \A n \in DOMAIN gs.pics : gs.pics[n].elcr \subseteq gs.pics[n].elcr_mask
    /\ irq_ack_fns \subseteq 0..(PIC_NUM_PINS - 1)
    /\ acked \subseteq -1..(PIC_NUM_PINS - 1)
    /\ ret.value \in -1..(255 + 7) /\ ret.line \in -1..(PIC_NUM_PINS - 1)

Master == gs.pics[I8259_MASTER]
Slave  == gs.pics[I8259_SLAVE]

\* The rank of a pin: 0 for the pin priority_add names, 7 for the one
\* before it.
Rank(s, pin) == (pin + 8 - s.priority_add) % 8
Outranks(s, pin, others) == \A other \in others \ {pin} : Rank(s, pin) < Rank(s, other)

\* The pin a controller may interrupt with: an unmasked request that
\* outranks every other one and everything in service.
Offered(s, n) ==
    LET nested    == n = I8259_MASTER /\ s.special_fully_nested_mode = 1
        inService == IF nested THEN s.isr \ {2} ELSE s.isr
    IN  {pin \in s.irr \ s.imr :
            /\ Outranks(s, pin, s.irr \ s.imr)
            /\ Outranks(s, pin, inService)
            /\ pin \notin inService}

\* Fully nested priority.  The line i8259_get_interrupt hands to the VMM
\* was requesting and unmasked, outranked every other request of its
\* controller and every interrupt in service there; a line of the slave
\* came through a cascade pin of the master of which the same holds.
NestedPriorityRespected ==
    [][ret'.line # NoIrq =>
          IF ret'.line < 8 THEN ret'.line \in Offered(Master, I8259_MASTER) \ {2}
          ELSE /\ 2 \in Offered(Master, I8259_MASTER)
               /\ ret'.line - 8 \in Offered(Slave, I8259_SLAVE)]_vars

\* emitagain and the output are never both set: i8259_get_interrupt asks
\* for a new notification only when it leaves nothing to inject, and
\* pic_update_irq consumes the request when the output rises.
EmitAgainOnlyWhenIdle == gs.emitagain = 1 => gs.output = 0

\* The output is the master's request, and a request of the slave stands
\* on the master's cascade pin: what pic_update_irq establishes is still
\* true after every call ("must be called every time the active IRQ may
\* change").
RequestsAreSignalled ==
    /\ gs.output = 1 <=> Offered(Master, I8259_MASTER) # {}
    /\ Offered(Slave, I8259_SLAVE) # {} => 2 \in Master.irr

\* No request and no interrupt in service disappears behind the back of
\* its device.  An edge-triggered request that leaves the request register
\* was handed to the VMM or acknowledged through the callback of its line
\* (pic_reset and pic_poll_read drop requests that way); an interrupt that
\* leaves the in-service register was acknowledged through the callback.
\* The cascade has no device and no callback.
ClearedPinIsAcknowledged ==
    [][\A n \in {I8259_MASTER, I8259_SLAVE} :
          LET s     == gs.pics[n]
              after == gs'.pics[n]
              told  == {line \in 0..(PIC_NUM_PINS - 1) :
                           line = ret'.line \/ line \in acked' \/ line \notin irq_ack_fns}
          IN  /\ \A pin \in (s.irr \ after.irr) \ s.elcr : 8 * n + pin \in told \cup {2}
              /\ \A pin \in s.isr \ after.isr :
                     8 * n + pin \in {line \in told : line # ret'.line} \cup {2}]_vars

\* A callback that answers the acknowledgement with the next pulse is
\* heard.  pic_clear_isr runs the callback in the middle of the handler
\* (pic_intack in auto-EOI mode, the end-of-interrupt commands,
\* pic_poll_read, pic_reset), and vm_inject_irq re-enters the controllers
\* there: every handler consumes or drops the old request of the line
\* before it calls back, so that the request the callback raises on an
\* edge-triggered line still stands when the handler returns.
ReraisedRequestStands ==
    [][\A line \in acked' \cap Reentrant :
          line % 8 \notin gs.pics[line \div 8].elcr \cup gs.pics[line \div 8].last_irr
          => line % 8 \in gs'.pics[line \div 8].irr]_vars

\* The lines that have a device behind them: all but the cascade.
DeviceLines == (0..(PIC_NUM_PINS - 1)) \ {2}

\* The lines of which a step changes a register bit, the callback or what
\* the call did for them.
Touched ==
    LET Differ(a, b) == (a \ b) \cup (b \ a)
        PinsMoved(was, now) == Differ(was.irr, now.irr) \cup Differ(was.isr, now.isr)
                              \cup Differ(was.elcr, now.elcr)
    IN  DeviceLines \cap
            (PinsMoved(gs.pics[I8259_MASTER], gs'.pics[I8259_MASTER])
                \cup {8 + moved : moved \in PinsMoved(gs.pics[I8259_SLAVE], gs'.pics[I8259_SLAVE])}
                \cup Differ(irq_ack_fns, irq_ack_fns') \cup Differ(acked, acked')
                \cup Differ({ret.line}, {ret'.line}))

Line(l) == INSTANCE IrqLine WITH
    requested  <- l % 8 \in gs.pics[l \div 8].irr,
    serving    <- l % 8 \in gs.pics[l \div 8].isr,
    level      <- l % 8 \in gs.pics[l \div 8].elcr,
    registered <- l \in irq_ack_fns,
    handed     <- ret.line = l,
    notified   <- l \in acked

\* The controllers implement the line protocol of IrqLine for every device:
\* through every interleaving of vm_set_irq_level, vm_inject_irq, port
\* writes and reads, i8259_get_interrupt and the callbacks that re-enter
\* them, a bit of a request register is cleared only by handing the line to
\* the VMM (pic_intack), by telling its device (pic_clear_isr from
\* pic_reset and pic_poll_read) or by a level-triggered line going low; a
\* bit of an in-service register is set only for the line handed over and
\* cleared only with the callback; and i8259_get_interrupt leaves the line
\* it hands over in service with its edge-triggered request used up.
\* (LineSpec line by line, with the quantifier inside the box; a line of
\* which a step changes nothing stutters, and the others are Touched.)
ImplementsLineProtocol ==
    /\ \A l \in DeviceLines : Line(l)!LineInit
    /\ [][\A l \in Touched : Line(l)!LineNext]_vars

\* A poll that finds no request acknowledges nothing and reads as pin 7:
\* what the else branch of pic_poll_read provides for ("Returns -1 if no
\* pending IRQ" in its comment, ret = 0x07 in its code).
PollAcknowledgesRequest ==
    [][\A n \in {I8259_MASTER, I8259_SLAVE} :
          /\ gs.pics[n].poll = 1 /\ gs'.pics[n].poll = 0
          /\ pic_get_irq(gs.pics[n], n) = NoIrq
          => acked' = {} /\ ret'.value = 7]_vars

=============================================================================
