---------------------------- MODULE MCTraceRing ----------------------------
EXTENDS TraceRing, TLC

Symmetry == Permutations(Threads)
=============================================================================
