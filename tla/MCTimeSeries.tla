---------------------------- MODULE MCTimeSeries ----------------------------
EXTENDS TimeSeries

MCTimes == 0..2
MCValues == {1}
MCTTLs == {0, 1}

\* A cache that evicts and flushes now and then, and one that flushes at once.
Evicting == [MaxPartitions |-> 1, FlushImmediately |-> FALSE, FlushTicks |-> TRUE]
Immediate == [MaxPartitions |-> 0, FlushImmediately |-> TRUE, FlushTicks |-> FALSE]
OnlyEvicting == {Evicting}
Both == {Evicting, Immediate}
=============================================================================
