---------------------------- MODULE ExtractPlot -----------------------------
(***************************************************************************)
(* tools/channel-bench/extract_plot.c: the channel matrix, scaled down to  *)
(* at most nrow by ncol points for gnuplot.  The matrix is stored by       *)
(* columns: the entries of column c are those at the indices               *)
(* ci[c] .. ci[c+1] - 1 of rows and entries.  The tool finds the columns   *)
(* and rows that are in use, adds every positive entry to the point its    *)
(* row and column scale to, and prints each point of the rectangle that    *)
(* was touched with the middle row and the first column it stands for.     *)
(*                                                                         *)
(* The tool computes in uint64_t; the model computes modulo ULONG_MAX + 1  *)
(* for a small ULONG_MAX, which is the same as long as no row, column or   *)
(* product reaches it.  A printed value is the float sum of a point        *)
(* divided by rowbin: the model prints the sum and the divisor.            *)
(***************************************************************************)
EXTENDS Integers, FiniteSetsExt

CONSTANT ULONG_MAX

ASSUME ULONG_MAX \in Nat \ {0}

VARIABLES
    M,          \* the matrix in the file argv[1]
    stdout,     \* the points printed
    plot_exit   \* how the last run of the tool ended

plotVars == <<M, stdout, plot_exit>>

\* A value stored into, or computed in, a uint64_t.
Ulong(n) == n % (ULONG_MAX + 1)

\* What the two nested loops over the matrix visit: every index i of every
\* column c.
Stored(m) == UNION {{[c |-> c, i |-> i] : i \in m.ci[c]..(m.ci[c + 1] - 1)} : c \in 0..(m.ncol - 1)}

\* The extent of the matrix: the columns that hold an entry and the rows of
\* all entries.  Of an empty matrix the extremes keep their initial values.
UsedColumns(m) == {e.c : e \in Stored(m)}
UsedRows(m)    == {m.rows[e.i] : e \in Stored(m)}

cmin(m) == IF UsedColumns(m) = {} THEN ULONG_MAX ELSE Min(UsedColumns(m))
cmax(m) == IF UsedColumns(m) = {} THEN 0 ELSE Max(UsedColumns(m))
rmin(m) == IF UsedRows(m) = {} THEN ULONG_MAX ELSE Min(UsedRows(m))
rmax(m) == IF UsedRows(m) = {} THEN 0 ELSE Max(UsedRows(m))

ccount(m) == Ulong(cmax(m) - cmin(m) + 1)
rcount(m) == Ulong(rmax(m) - rmin(m) + 1)

\* nrow and ncol after the two places that lower them: to the size of
\* the matrix, then to the extent in use.
nrow(m, nrow_arg) == Min({Ulong(nrow_arg), m.nrow, rcount(m)})
ncol(m, ncol_arg) == Min({Ulong(ncol_arg), m.ncol, ccount(m)})

\* The point an entry is added to.
PlotX(m, rows, e) == Ulong(Ulong(m.rows[e.i] - rmin(m)) * rows) \div rcount(m)
PlotY(m, cols, e) == Ulong(Ulong(e.c - cmin(m)) * cols) \div ccount(m)

\* The entries that are added to a point are the positive ones.
Plotted(m) == {e \in Stored(m) : m.entries[e.i] > 0}

\* plot[y * nrow + x] at the end of the third loop.
plot(m, rows, cols, x, y) ==
    MapThenSumSet(LAMBDA e : m.entries[e.i],
                  {e \in Plotted(m) : PlotY(m, cols, e) * rows + PlotX(m, rows, e) = y * rows + x})

rowbin(m, rows)  == rcount(m) \div rows
colskip(m, cols) == ccount(m) \div cols

\* Mutant: the label of a point is not moved to the first row in use.
PlotLabelWithoutOffset(m, rows, cols, x, y) ==
    [r    |-> Ulong((x * rowbin(m, rows) + ((x + 1) * rowbin(m, rows) - 1)) \div 2),
     c    |-> Ulong(y * colskip(m, cols) + cmin(m)),
     plot |-> plot(m, rows, cols, x, y), rowbin |-> rowbin(m, rows)]

\* One printed line: the middle row and the first column of the point, and
\* its sum over rowbin.
PlotLabel(m, rows, cols, x, y) ==
    [r    |-> Ulong((x * rowbin(m, rows) + ((x + 1) * rowbin(m, rows) - 1)) \div 2 + rmin(m)),
     c    |-> Ulong(y * colskip(m, cols) + cmin(m)),
     plot |-> plot(m, rows, cols, x, y), rowbin |-> rowbin(m, rows)]

\* Mutant: xmax is compared with the wrong bound and stays one short.
TouchedWithoutLastX(m, rows, cols) ==
    LET xs == {PlotX(m, rows, e) : e \in Plotted(m)}
        ys == {PlotY(m, cols, e) : e \in Plotted(m)}
    IN  [xmin |-> Min(xs), xmax |-> Max(xs) - 1, ymin |-> Min(ys), ymax |-> Max(ys)]

\* xmin, xmax, ymin and ymax after the third loop, of a matrix with a
\* positive entry.
Touched(m, rows, cols) ==
    LET xs == {PlotX(m, rows, e) : e \in Plotted(m)}
        ys == {PlotY(m, cols, e) : e \in Plotted(m)}
    IN  [xmin |-> Min(xs), xmax |-> Max(xs), ymin |-> Min(ys), ymax |-> Max(ys)]

\* The last loop: the points from xmin to xmax, and for each of them from
\* ymin to ymax.  Without a positive entry xmin is above xmax and nothing
\* is printed.
Printed(m, rows, cols) ==
    IF Plotted(m) = {} THEN <<>>
    ELSE LET t      == Touched(m, rows, cols)
             height == t.ymax - t.ymin + 1
         IN  [k \in 1..((t.xmax - t.xmin + 1) * height) |->
                 PlotLabel(m, rows, cols, t.xmin + (k - 1) \div height,
                           t.ymin + ((k - 1) % height))]

\* A run that is not given its arguments, or whose file cannot be opened or
\* loaded or is strided, exits; one whose matrix fails csc_check aborts.
extract_plotCannotLoad ==
    /\ stdout' = <<>>
    /\ plot_exit' \in {"EXIT_FAILURE", "SIGABRT"}
    /\ UNCHANGED M

\* atoi's result is stored into a uint64_t and compared with 0 there.
extract_plotRejects(nrow_arg, ncol_arg) ==
    /\ 0 >= Ulong(nrow_arg) \/ 0 >= Ulong(ncol_arg)
    /\ stdout' = <<>>
    /\ plot_exit' = "EXIT_FAILURE"
    /\ UNCHANGED M

extract_plotPrints(nrow_arg, ncol_arg) ==
    /\ ~(0 >= Ulong(nrow_arg))
    /\ ~(0 >= Ulong(ncol_arg))
    /\ stdout' = Printed(M, nrow(M, nrow_arg), ncol(M, ncol_arg))
    /\ plot_exit' = "EXIT_SUCCESS"
    /\ UNCHANGED M

\* main.
extract_plot(nrow_arg, ncol_arg) ==
    \/ extract_plotCannotLoad
    \/ extract_plotRejects(nrow_arg, ncol_arg)
    \/ extract_plotPrints(nrow_arg, ncol_arg)

=============================================================================
