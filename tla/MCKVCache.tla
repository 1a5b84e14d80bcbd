----------------------------- MODULE MCKVCache ------------------------------
EXTENDS KVCache

CONSTANTS c1, c2, k1

MCKeys == {k1}
TwoCallers == {c1, c2}
OneCaller == {c1}
MCValues == {1}
MCTTLs == {0, 1}
=============================================================================
