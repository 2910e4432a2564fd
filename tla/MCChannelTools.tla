--------------------------- MODULE MCChannelTools ---------------------------
(***************************************************************************)
(* The three channel-bench tools on small inputs.  A data file is written  *)
(* line by line and outlier is run on it; a matrix is stored entry by      *)
(* entry and extract_plot, with every pair of arguments, or row_average,   *)
(* with and without -q, is run on it.  outlier shares nothing with the     *)
(* other two, so it is used while the matrix is absent, and the matrix is  *)
(* stored while the data file is: the states are those of the one and      *)
(* those of the others, not their product.                                 *)
(***************************************************************************)
EXTENDS Outlier, RowAverage

VARIABLE argv   \* <nrow> and <ncol> of the last run of extract_plot

toolVars == <<outlierVars, plotVars, averageVars, argv>>

-----------------------------------------------------------------------------
(* Bounds *)

MCMaxLines   == 7               \* lines of a data file: the fewest with an outlier
MCMaxUnused  == 1               \* of them, lines that are not samples
MCSamples    == {0, 1, 9}       \* the values of r
MCMatrixRows == 4               \* M->nrow
MCMatrixCols == 3               \* M->ncol
MCMaxEntries == 3               \* entries stored in a matrix
MCEntries    == {0, 1}          \* their values
MCRowArgs    == {-1, 0, 1, 2, 3, 5}  \* atoi of <nrow>
MCColArgs    == {0, 1, 2, 4}    \* atoi of <ncol>
MCParts      == 2               \* Denominator: two entries of 1 fill a row

-----------------------------------------------------------------------------
(* The data file of outlier *)

\* A line that is no pair of numbers, one with a single number, and the
\* pairs of the rows around and inside min .. max.
MCLines ==
    {[n |-> k, c |-> 0, r |-> 0] : k \in 0..1}
        \cup [n : {2}, c : {min - 1, max + 1}, r : {0}]
        \cup [n : {2}, c : min..max, r : MCSamples]

Unused(file) == SelectSeq(file, LAMBDA line : ~Counted(line))

\* The file has to be sorted: a sample is not below the one before it, by
\* row and then by value.
KeepsFileSorted(line) ==
    \A k \in DOMAIN data_file :
        Counted(data_file[k]) /\ Counted(line) =>
            \/ data_file[k].c < line.c
            \/ data_file[k].c = line.c /\ data_file[k].r <= line.r

WriteLine ==
    /\ outlier_exit = "none"
    /\ Len(data_file) < MCMaxLines
    /\ \E line \in MCLines :
           /\ KeepsFileSorted(line)
           /\ Len(Unused(Append(data_file, line))) <= MCMaxUnused
           /\ data_file' = Append(data_file, line)
    /\ UNCHANGED <<output_file, outlier_log, outlier_exit>>

RemoveFiles ==
    /\ ~OutlierInit
    /\ data_file' = <<>>
    /\ output_file' = <<>>
    /\ outlier_log' = <<>>
    /\ outlier_exit' = "none"

OutlierNext == WriteLine \/ outlier \/ RemoveFiles

-----------------------------------------------------------------------------
(* The matrix of extract_plot and row_average *)

NoArgs == [nrow |-> 0, ncol |-> 0]

EmptyMatrix ==
    [nrow |-> MCMatrixRows, ncol |-> MCMatrixCols, ci |-> [c \in 0..MCMatrixCols |-> 0],
     rows |-> <<>>, entries |-> <<>>, row_size |-> [r \in 0..(MCMatrixRows - 1) |-> 0]]

PlotInit ==
    /\ M = EmptyMatrix
    /\ stdout = <<>>
    /\ plot_exit = "none"
    /\ argv = NoArgs
    /\ banner = 0
    /\ avg_stdout = <<>>
    /\ avg_exit = "none"

Unread == plot_exit = "none" /\ avg_exit = "none"

\* Entries are stored column by column and, in a column, by increasing row;
\* the size of a row is the number of the samples behind its entries, one
\* for each part.
ComesLast(c, r) ==
    \A e \in Stored(M) : e.c < c \/ (e.c = c /\ M.rows[e.i] < r)

StoreEntry ==
    /\ Unread
    /\ M.ci[M.ncol] < MCMaxEntries
    /\ \E c \in 0..(M.ncol - 1), r \in 0..(M.nrow - 1), p \in MCEntries :
           /\ ComesLast(c, r)
           /\ M' = [M EXCEPT !.ci      = [k \in DOMAIN @ |-> IF k > c THEN @[k] + 1 ELSE @[k]],
                             !.rows    = [i \in 0..M.ci[M.ncol] |-> IF i \in DOMAIN @ THEN @[i] ELSE r],
                             !.entries = [i \in 0..M.ci[M.ncol] |-> IF i \in DOMAIN @ THEN @[i] ELSE p],
                             !.row_size[r] = @ + p]
    /\ UNCHANGED <<stdout, plot_exit, argv, averageVars>>

RunExtractPlot ==
    \E nrow_arg \in MCRowArgs, ncol_arg \in MCColArgs :
        /\ Unread
        /\ extract_plot(nrow_arg, ncol_arg)
        /\ argv' = [nrow |-> nrow_arg, ncol |-> ncol_arg]
        /\ UNCHANGED averageVars

RunRowAverage ==
    \E quiet_arg \in BOOLEAN :
        /\ Unread
        /\ row_average(quiet_arg)
        /\ UNCHANGED <<stdout, plot_exit, argv>>

RemoveMatrix ==
    /\ ~PlotInit
    /\ M' = EmptyMatrix
    /\ stdout' = <<>>
    /\ plot_exit' = "none"
    /\ argv' = NoArgs
    /\ banner' = 0
    /\ avg_stdout' = <<>>
    /\ avg_exit' = "none"

PlotNext == StoreEntry \/ RunExtractPlot \/ RunRowAverage \/ RemoveMatrix

-----------------------------------------------------------------------------

ToolsInit == OutlierInit /\ PlotInit

ToolsNext ==
    \/ PlotInit /\ OutlierNext /\ UNCHANGED <<plotVars, averageVars, argv>>
    \/ OutlierInit /\ PlotNext /\ UNCHANGED outlierVars

ToolsSpec == ToolsInit /\ [][ToolsNext]_toolVars

-----------------------------------------------------------------------------
(* Tukey's range test, by its definition: the quartiles of a sorted row    *)
(* are the medians of its lower and of its upper half, the median of an    *)
(* odd row being in neither, and the fences lie one and a half times the   *)
(* distance of the quartiles below the first and above the third.          *)

\* Twice the median of a sorted sequence.
Median2(s) ==
    IF Len(s) % 2 = 1 THEN 2 * s[(Len(s) + 1) \div 2]
                      ELSE s[Len(s) \div 2] + s[Len(s) \div 2 + 1]

LowerHalf(s) == SubSeq(s, 1, Len(s) \div 2)
UpperHalf(s) == SubSeq(s, Len(s) - Len(s) \div 2 + 1, Len(s))

WithinTukeyFences(s, r) ==
    LET q1  == Median2(LowerHalf(s))
        q3  == Median2(UpperHalf(s))
    IN  /\ 2 * q1 - 3 * (q3 - q1) <= 4 * r
        /\ 4 * r <= 2 * q3 + 3 * (q3 - q1)

\* What the test leaves of the row i of a file, and what it takes out.
Inliers(file, i) ==
    SelectSeq(RowSamples(file, i), LAMBDA r : WithinTukeyFences(RowSamples(file, i), r))
Outliers(file, i) ==
    SelectSeq(RowSamples(file, i), LAMBDA r : ~WithinTukeyFences(RowSamples(file, i), r))

RowIsFiltered(i) ==
    /\ RowSamples(output_file, i) = Inliers(data_file, i)
    /\ RowSamples(outlier_log, i) = Outliers(data_file, i)

-----------------------------------------------------------------------------
(* Properties *)

\* After a run of outlier that succeeded, a row with an odd number of
\* samples, three or more, is split by Tukey's test: the output file holds,
\* in the order of the data file, exactly the samples of the row within the
\* fences, and the log the others.  The indices main derives from the
\* counts with find_median are those of the two quartiles for such a row.
OddRowsFilteredByTukey ==
    outlier_exit = "EXIT_SUCCESS" =>
        \A i \in min..max :
            Len(RowSamples(data_file, i)) % 2 = 1 /\ Len(RowSamples(data_file, i)) >= 3 =>
                RowIsFiltered(i)

\* outlier.c implements "the tukey's range test ... for every row": after a
\* run that succeeded every row of two or more samples is split by the
\* test, whatever the number of its samples.
TukeyRangeTest ==
    outlier_exit = "EXIT_SUCCESS" =>
        \A i \in min..max : Len(RowSamples(data_file, i)) >= 2 => RowIsFiltered(i)

\* The rows and columns extract_plot used for the matrix M and argv.
PlotRows == nrow(M, argv.nrow)
PlotCols == ncol(M, argv.ncol)

PlottedSum(entries) == MapThenSumSet(LAMBDA e : M.entries[e.i], entries)

\* No entry is lost or counted twice by the scaling in extract_plot: the
\* sums of the printed points add up to the sum of the positive entries of
\* the matrix, and no two printed points carry the same row and column,
\* which is what lowering nrow and ncol to the extent in use, so that
\* rowbin and colskip are at least 1, is for.
PlotAccountsForEveryEntry ==
    plot_exit = "EXIT_SUCCESS" =>
        /\ MapThenSumSet(LAMBDA k : stdout[k].plot, DOMAIN stdout) = PlottedSum(Plotted(M))
        /\ \A j, k \in DOMAIN stdout :
               stdout[j].r = stdout[k].r /\ stdout[j].c = stdout[k].c => j = k

\* The parts of a row, and their first and second moments over the columns.
RowMoment(r, power) ==
    MapThenSumSet(LAMBDA e : M.entries[e.i] * (IF power = 0 THEN 1 ELSE e.c ^ power),
                  RowEntries(M, r))

\* The deviation row_average prints is that of the row's distribution over
\* the columns.  For a row whose entries add up to 1 the sum under the
\* root is the mean of the squares less the square of the mean
\* (E[c^2] - E[c]^2): the second pass of main measures every entry against
\* the average the first pass has finished, and every row is printed once,
\* in order, the rows without entries with an average of 0.
RowSpreadIsAroundTheMean ==
    avg_exit = "EXIT_SUCCESS" =>
        /\ [k \in DOMAIN avg_stdout |-> avg_stdout[k].r] = [k \in 1..M.nrow |-> k - 1]
        /\ \A k \in DOMAIN avg_stdout :
               LET line == avg_stdout[k]
               IN  RowMoment(line.r, 0) = Denominator =>
                       /\ line.avg = RowMoment(line.r, 1)
                       /\ line.std = Denominator *
                              (Denominator * RowMoment(line.r, 2) - RowMoment(line.r, 1) ^ 2)

\* Two rows, or columns, lie in the same run of len from first on.
SameRun(a, b, first, len) == (a - first) \div len = (b - first) \div len

\* When nrow divides the number of rows in use and ncol the number of
\* columns, a point printed by extract_plot stands for rowbin consecutive
\* rows and colskip consecutive columns: the row it is labelled with is one
\* of these rows, the column the first of these columns, and its sum is that
\* of the positive entries in them.
PlotLabelsLieInTheirBins ==
    /\ plot_exit = "EXIT_SUCCESS"
    /\ rcount(M) % PlotRows = 0
    /\ ccount(M) % PlotCols = 0
    => \A k \in DOMAIN stdout :
           stdout[k].plot =
               PlottedSum({e \in Plotted(M) :
                              /\ SameRun(M.rows[e.i], stdout[k].r, rmin(M), rowbin(M, PlotRows))
                              /\ SameRun(e.c, stdout[k].c, cmin(M), colskip(M, PlotCols))})

=============================================================================
