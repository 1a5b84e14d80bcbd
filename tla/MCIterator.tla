----------------------------- MODULE MCIterator -----------------------------
EXTENDS Iterator

MCTimes == 0..3
MCValues == {1}
MCTTLs == {0, 1}
MCConfigurations == {[MaxPartitions |-> 0, FlushImmediately |-> TRUE, FlushTicks |-> FALSE]}

\* Iterations begin when a point with a ttl is about to expire: the first of
\* its partition, set at the beginning.
Bound ==
  /\ it # None => now >= 2
  /\ \A s \in Starts : \A x \in Points(partitions, s) \union Points(disk, s) :
       x.exp = 0 \/ (x.exp = 2 /\ x.ts = 0)
=============================================================================
