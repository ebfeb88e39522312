--------------------------- MODULE MCTraceSession ---------------------------
EXTENDS TraceSession, TLC

MCPayloads == EventsSent
Symmetry == Permutations(Producers)
=============================================================================
