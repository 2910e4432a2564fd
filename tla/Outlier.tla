------------------------------ MODULE Outlier -------------------------------
(***************************************************************************)
(* tools/channel-bench/outlier.c: Tukey's range test over the rows of a    *)
(* sorted data file.  The tool reads the file three times: it counts the   *)
(* samples of every row, sums the samples at the quartile indices it       *)
(* derived from the counts, and writes every sample inside the fences to   *)
(* the output file and every other one to the outlier log.                 *)
(*                                                                         *)
(* A line of the file is what sscanf("%d %d") makes of it: the number n of *)
(* fields converted, the row c and the sample r.  The quartiles are        *)
(* doubles that hold whole numbers or halves and the fences are 1.5 times  *)
(* their distance, so every value of the tool is a whole number of         *)
(* quarters: the model computes with four times the value.  The statistics *)
(* the tool prints into the log between its passes are left out.           *)
(***************************************************************************)
EXTENDS Integers, Sequences, Functions

CONSTANTS
    min,    \* argv[1]: the first row that is looked at
    max     \* argv[2]: the last one

ASSUME min \in Int /\ max \in Int /\ min <= max

VARIABLES
    data_file,      \* argv[4], the lines of the input
    output_file,    \* argv[5], the samples that passed
    outlier_log,    \* argv[3], the samples that were taken out
    outlier_exit    \* how the last run of the tool ended

outlierVars == <<data_file, output_file, outlier_log, outlier_exit>>

\* The two tests every pass makes of a line before it uses it.
Counted(line) == line.n = 2 /\ ~(line.c < min \/ max < line.c)

\* The samples of row i in the order of the file: the k-th of them is the
\* one that takes counts[i - min] to k.
RowSamples(file, i) ==
    LET lines == SelectSeq(file, LAMBDA line : Counted(line) /\ line.c = i)
    IN  [k \in DOMAIN lines |-> lines[k].r]

\* Mutant: the two middle values of an even size are taken to be one.
find_medianOfOddSizeOnly(s) == [l |-> s \div 2 + 1, h |-> s \div 2 + 1]

\* The indices, counted from 1, of the median of s sorted values.
find_median(s) ==
    IF s % 2 = 1 THEN [l |-> s \div 2 + 1, h |-> s \div 2 + 1]
                 ELSE [l |-> s \div 2,     h |-> s \div 2 + 1]

\* The first loop over the rows: the indices of the two quartiles.
Q1Index(count) ==
    IF count % 2 = 1 THEN find_median((count - 1) \div 2) ELSE find_median(count \div 2)

Q3Index(count) ==
    [l |-> Q1Index(count).l + count \div 2 + 1, h |-> Q1Index(count).h + count \div 2 + 1]

\* The second pass and the division that follows it: the samples at the
\* indices are added up, an index no sample reaches adds nothing, and the
\* sum of two different indices is halved.  Four times the quartile.
Quartile4(row, index) ==
    LET sum == SumFunctionOnSet(row, {index.l, index.h} \cap DOMAIN row)
    IN  IF index.l # index.h THEN 2 * sum ELSE 4 * sum

\* low and high of a row, times four.
Fences4(row) ==
    LET q1 == Quartile4(row, Q1Index(Len(row)))
        q3 == Quartile4(row, Q3Index(Len(row)))
    IN  [low |-> q1 - 3 * ((q3 - q1) \div 2), high |-> q3 + 3 * ((q3 - q1) \div 2)]

\* The test of the third pass.
IsOutlier(file, line) ==
    LET range == Fences4(RowSamples(file, line.c))
    IN  4 * line.r < range.low \/ 4 * line.r > range.high

OutlierInit ==
    /\ data_file = <<>>
    /\ output_file = <<>>
    /\ outlier_log = <<>>
    /\ outlier_exit = "none"

\* A run without its five arguments touches no file.
outlierUsage ==
    /\ outlier_exit' = "EXIT_FAILURE"
    /\ UNCHANGED <<data_file, output_file, outlier_log>>

\* The log and the output are opened for writing before any of the three
\* files is looked at: a run that cannot open one of them, or cannot get
\* its arrays, has emptied those of the two that it could open.
outlierCannotStart ==
    /\ output_file' \in {<<>>, output_file}
    /\ outlier_log' \in {<<>>, outlier_log}
    /\ outlier_exit' = "EXIT_FAILURE"
    /\ UNCHANGED data_file

outlierFilters ==
    /\ output_file' = SelectSeq(data_file, LAMBDA line :
                                    Counted(line) /\ ~IsOutlier(data_file, line))
    /\ outlier_log' = SelectSeq(data_file, LAMBDA line :
                                    Counted(line) /\ IsOutlier(data_file, line))
    /\ outlier_exit' = "EXIT_SUCCESS"
    /\ UNCHANGED data_file

\* main.
outlier == outlierUsage \/ outlierCannotStart \/ outlierFilters

=============================================================================
