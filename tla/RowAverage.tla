----------------------------- MODULE RowAverage -----------------------------
(***************************************************************************)
(* tools/channel-bench/row_average.c: for every row of the channel matrix  *)
(* the average column, weighted by the entries of the row, and the 0.95    *)
(* confidence interval around it.  The matrix is the file extract_plot     *)
(* reads, stored by columns; Stored is the walk both tools make over it.   *)
(*                                                                         *)
(* The tool computes in double.  The model computes exactly: an entry p is *)
(* a whole number of parts of 1 / Denominator, an average is held times    *)
(* Denominator, and a deviation, which the tool takes the square root of   *)
(* and divides by the square root of the row's size, is printed as the     *)
(* sum under the root, times Denominator^3, beside that size.              *)
(***************************************************************************)
EXTENDS ExtractPlot

CONSTANT Denominator   \* the parts an entry counts: p = entries[i] / Denominator

ASSUME Denominator \in Nat \ {0}

VARIABLES
    banner,       \* how much of "Loading channel matrix... done." was printed
    avg_stdout,   \* the rows printed
    avg_exit      \* how the last run of the tool ended

averageVars == <<banner, avg_stdout, avg_exit>>

\* The entries the loops meet for row r.
RowEntries(q, r) == {e \in Stored(q) : q.rows[e.i] = r}

\* row_avg[r] after the first pass, times Denominator.
row_avg(q, r) == MapThenSumSet(LAMBDA e : q.entries[e.i] * e.c, RowEntries(q, r))

\* Mutant: one pass for both sums, so that an entry is measured against
\* the average of the entries up to it.
row_stdInOnePass(q, r) ==
    LET so_far(e) == MapThenSumSet(LAMBDA f : q.entries[f.i] * f.c,
                                   {f \in RowEntries(q, r) : f.i <= e.i})
    IN  MapThenSumSet(LAMBDA e : q.entries[e.i] * (e.c * Denominator - so_far(e)) ^ 2,
                      RowEntries(q, r))

\* row_std[r] after the second pass, before the square root is taken,
\* times Denominator^3: every entry weighs the square of the distance of
\* its column from the finished average.
row_std(q, r) ==
    MapThenSumSet(LAMBDA e : q.entries[e.i] * (e.c * Denominator - row_avg(q, r)) ^ 2,
                  RowEntries(q, r))

\* The lines of the last loop, one for every row of the matrix: the
\* average, and the interval as the sum it is the root of and the size it
\* is divided by.
Averages(q) ==
    [k \in 1..q.nrow |-> [r |-> k - 1, avg |-> row_avg(q, k - 1), std |-> row_std(q, k - 1),
                          row_size |-> q.row_size[k - 1]]]

\* quiet is set by -q and by nothing else: without -q the tool reads it
\* uninitialised, and prints its banner or not.
Quiet(quiet_arg) == IF quiet_arg THEN {TRUE} ELSE BOOLEAN

\* A run without arguments prints the usage and exits.
row_averageUsage ==
    /\ banner' = 0
    /\ avg_stdout' = <<>>
    /\ avg_exit' = "EXIT_FAILURE"
    /\ UNCHANGED M

\* A file that cannot be opened or loaded ends the run after the first
\* half of the banner; an array that cannot be allocated, or a row outside
\* the matrix (the assertions of the two passes), after the second.
row_averageCannotLoad(quiet) ==
    /\ banner' \in (IF quiet THEN {0} ELSE {1, 2})
    /\ avg_stdout' = <<>>
    /\ avg_exit' \in {"EXIT_FAILURE", "SIGABRT"}
    /\ UNCHANGED M

row_averagePrints(quiet) ==
    /\ \A e \in Stored(M) : M.rows[e.i] \in 0..(M.nrow - 1)
    /\ banner' = IF quiet THEN 0 ELSE 2
    /\ avg_stdout' = Averages(M)
    /\ avg_exit' = "EXIT_SUCCESS"
    /\ UNCHANGED M

\* main.
row_average(quiet_arg) ==
    \/ row_averageUsage
    \/ \E quiet \in Quiet(quiet_arg) : row_averageCannotLoad(quiet)
    \/ \E quiet \in Quiet(quiet_arg) : row_averagePrints(quiet)

=============================================================================
