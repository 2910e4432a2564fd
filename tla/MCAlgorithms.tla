---------------------------- MODULE MCAlgorithms ----------------------------
(***************************************************************************)
(* The computations of the repository that have no state to share, each    *)
(* against its reference: the address arithmetic of the kernel-image       *)
(* subsystem (MCKIArith) and the three channel-bench tools                 *)
(* (MCChannelTools).  A call of the arithmetic is made and returned from   *)
(* while no tool has a file, and a tool is used between calls, so that     *)
(* the states are those of the three harnesses side by side.               *)
(***************************************************************************)
EXTENDS MCKIArith, MCChannelTools

algorithmVars == <<call, toolVars>>

AlgorithmsInit == Init /\ ToolsInit

AlgorithmsNext ==
    \/ ToolsInit /\ Next /\ UNCHANGED toolVars
    \/ call = NoCall /\ ToolsNext /\ UNCHANGED call

AlgorithmsSpec == AlgorithmsInit /\ [][AlgorithmsNext]_algorithmVars

=============================================================================
