---------------------------- MODULE KILifecycle -----------------------------
(***************************************************************************)
(* The life of a kernel image, as the design of the subsystem promises it  *)
(* and without any of its page tables: an image is built memory by memory  *)
(* until it is fully mapped, a clone from a runnable image makes it        *)
(* runnable, and only a runnable image is ever switched to.  Nothing here  *)
(* goes backwards: no operation takes memory out of an image or makes a    *)
(* runnable image unrunnable.                                              *)
(*                                                                         *)
(* KernelImage implements this specification under the refinement mapping  *)
(* given there; the operations that only fail, bind a VSpace or use the    *)
(* stack are stuttering steps of it.                                       *)
(***************************************************************************)
CONSTANTS
    Images,     \* the images that exist
    Initial     \* the image the kernel boots on

ASSUME Initial \in Images

VARIABLES
    phase,      \* how far each image has been built
    current,    \* the image the hart runs on
    entered     \* the images the hart has run on, which have a stack of their own

lifecycleVars == <<phase, current, entered>>

Phases == {"Building", "Mapped", "Runnable"}

LifecycleInit ==
    /\ phase = [i \in Images |-> IF i = Initial THEN "Runnable" ELSE "Building"]
    /\ current = Initial
    /\ entered = {Initial}

\* One more memory is mapped into an image under construction; the last
\* one completes it.
AddMemory(i) ==
    /\ phase[i] = "Building"
    /\ \E reached \in {"Building", "Mapped"} : phase' = [phase EXCEPT ![i] = reached]
    /\ UNCHANGED <<current, entered>>

\* A complete image becomes runnable by a clone from a runnable one.
CloneFrom(dest, src) ==
    /\ phase[src] = "Runnable"
    /\ phase[dest] = "Mapped"
    /\ phase' = [phase EXCEPT ![dest] = "Runnable"]
    /\ UNCHANGED <<current, entered>>

\* The hart moves to another runnable image.
SwitchTo(i) ==
    /\ phase[i] = "Runnable"
    /\ i # current
    /\ current' = i
    /\ entered' = entered \cup {i}
    /\ UNCHANGED phase

LifecycleNext ==
    \/ \E i \in Images : AddMemory(i) \/ SwitchTo(i)
    \/ \E dest, src \in Images : CloneFrom(dest, src)

LifecycleSpec == LifecycleInit /\ [][LifecycleNext]_lifecycleVars

=============================================================================
