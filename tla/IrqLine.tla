------------------------------ MODULE IrqLine ------------------------------
(***************************************************************************)
(* One interrupt line, as the pair of controllers promises it to the       *)
(* device behind it and to the VMM, without any of the registers: a        *)
(* request stands until it is handed to the VMM or the device is told      *)
(* that it was dropped, an interrupt is in service from the moment it is   *)
(* handed over until its end, and the device is told of every end.  A      *)
(* call of the emulation is one step; handed and notified say what that    *)
(* call did for the line.                                                  *)
(*                                                                         *)
(* I8259 implements this specification for every line but the cascade,     *)
(* under the refinement mapping given there.                               *)
(***************************************************************************)
VARIABLES
    requested,    \* a request of the line stands
    serving,      \* an interrupt of the line is in service
    level,        \* the line is level-triggered
    registered,   \* the device has asked to be told of acknowledgements
    handed,       \* the last call handed an interrupt of the line to the VMM
    notified      \* the last call told the device of an acknowledgement

lineVars == <<requested, serving, level, registered, handed, notified>>

LineInit ==
    /\ requested = FALSE /\ serving = FALSE
    /\ level = FALSE /\ registered = FALSE
    /\ handed = FALSE /\ notified = FALSE

\* What a device may do to its request: on an edge-triggered line it can
\* only add one, on a level-triggered line the request follows the line.
Driven == IF level THEN BOOLEAN ELSE {requested, TRUE}

\* A device that is told may answer by driving its line; one that is not
\* told does nothing.
Answer(left) == IF notified' THEN {left} \cup Driven ELSE {left}

\* A call that is not about the line, or in which the device moves it.
Drive ==
    /\ requested' \in Driven
    /\ handed' = FALSE /\ notified' = FALSE
    /\ UNCHANGED <<serving, level, registered>>

\* The VMM is handed the interrupt: it is in service, and an
\* edge-triggered request is used up.
Take ==
    /\ requested
    /\ handed' = TRUE /\ notified' = FALSE
    /\ serving' = TRUE
    /\ requested' = level
    /\ UNCHANGED <<level, registered>>

\* The same where interrupts end by themselves: handed over and ended in
\* one call.
TakeAndEnd ==
    /\ requested
    /\ handed' = TRUE /\ notified' = registered
    /\ serving' = FALSE
    /\ requested' \in Answer(level)
    /\ UNCHANGED <<level, registered>>

\* The guest ends an interrupt of the line.  It may name a line that has
\* none in service: the device is told all the same.
End ==
    /\ handed' = FALSE /\ notified' = registered
    /\ serving' = FALSE
    /\ requested' \in Answer(requested)
    /\ UNCHANGED <<level, registered>>

\* A request is dropped (a reset, a poll): the device is told instead of
\* the VMM, and nothing of the line is left in service.
Drop ==
    /\ requested
    /\ handed' = FALSE /\ notified' = registered
    /\ serving' = FALSE
    /\ requested' \in Answer(FALSE)
    /\ UNCHANGED <<level, registered>>

\* The guest changes how the line is triggered.
SetTrigger ==
    /\ level' = ~level
    /\ handed' = FALSE /\ notified' = FALSE
    /\ UNCHANGED <<requested, serving, registered>>

\* The device asks to be told, or not to be.
Register ==
    /\ registered' = ~registered
    /\ handed' = FALSE /\ notified' = FALSE
    /\ UNCHANGED <<requested, serving, level>>

LineNext == Drive \/ Take \/ TakeAndEnd \/ End \/ Drop \/ SetTrigger \/ Register

LineSpec == LineInit /\ [][LineNext]_lineVars

=============================================================================
