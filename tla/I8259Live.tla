----------------------------- MODULE I8259Live -----------------------------
(***************************************************************************)
(* The controllers in service, with a VMM and a guest that do their part:  *)
(* the VMM keeps taking interrupts with i8259_get_interrupt, the guest     *)
(* keeps ending the interrupts it was given, and the devices pulse their   *)
(* lines a bounded number of times (a line of higher priority that pulses  *)
(* for ever starves the lower ones, as on the hardware).                   *)
(***************************************************************************)
EXTENDS I8259

CONSTANTS
    MaxPulses,       \* how many pulses the devices send in all
    EndCommands      \* the end-of-interrupt bytes the guest's handlers write

VARIABLE pulses   \* the pulses sent so far

liveVars == <<vars, pulses>>

LiveInit == Init /\ pulses = 0

\* A device pulses its line.
Pulse ==
    /\ pulses < MaxPulses
    /\ Inject
    /\ pulses' = pulses + 1

\* The VMM takes the next interrupt to inject.
TakeInterrupt ==
    /\ i8259_get_interrupt
    /\ UNCHANGED pulses

\* The guest's handler ends its interrupt: an end-of-interrupt command
\* written to the command port of controller n.
EndOfInterrupt(n) ==
    /\ \E command \in EndCommands :
           i8259_port_out(IF n = I8259_MASTER THEN 32 ELSE 160, 1, command)
    /\ UNCHANGED pulses

LiveNext ==
    \/ Pulse
    \/ TakeInterrupt
    \/ \E n \in {I8259_MASTER, I8259_SLAVE} : EndOfInterrupt(n)

\* The VMM's loop takes an interrupt whenever the output is raised, and the
\* handler the guest runs for an interrupt ends it: a call that stays
\* possible is made in the end.  Neither is promised more than that (a
\* call that is possible only now and then, behind a guest that masks and
\* unmasks, may never come), so that the fairness is weak.
Fairness ==
    /\ WF_liveVars(TakeInterrupt)
    /\ \A n \in {I8259_MASTER, I8259_SLAVE} : WF_liveVars(EndOfInterrupt(n))

LiveSpec == LiveInit /\ [][LiveNext]_liveVars /\ Fairness

-----------------------------------------------------------------------------

Pending(line) == line % 8 \in gs.pics[line \div 8].irr
Delivered(line) == ret.line = line

\* No request is lost or stuck.  A pulse that set a bit of a request
\* register is handed to the VMM in the end: neither the cascade (a slave
\* request must first raise pin 2 of the master) nor the interrupts in
\* service when it arrived (pic_get_irq holds back what is of no higher
\* priority until the guest ends them) leave it waiting for ever.
RequestEventuallyDelivered ==
    \A line \in Lines : Pending(line) ~> Delivered(line)

=============================================================================
