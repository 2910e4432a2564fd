---------------------------- MODULE MCI8259Live ----------------------------
(***************************************************************************)
(* The controllers in service with three lines and six pulses.             *)
(***************************************************************************)
EXTENDS I8259Live

\* Two master lines around the cascade and one slave line.
MCLiveLines == {1, 3, 10}

\* Enough for every line to pulse twice: again while it is pending, in
\* service, or behind the others.
MCMaxPulses == 6

\* 0x20 end of interrupt, 0xa0 end of interrupt and rotate.
MCEndCommands == {32, 160}

\* The guest writes through EndOfInterrupt only.
MCNone == {}

=============================================================================
