-------------------------- MODULE MCTimeSeriesSync --------------------------
EXTENDS TimeSeriesSync

CONSTANTS c1, c2

MCTimes == 0..2
MCCallers == {c1, c2}
MCIds == 1..5

\* One caller with a partition too many, two callers in one partition.
MCWorkloads == {[callers |-> {c1}, times |-> {0, 2}],
                [callers |-> {c1, c2}, times |-> {0, 1}]}
=============================================================================
