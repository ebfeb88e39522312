-------------------------- MODULE MCHandleTracker --------------------------
(* Two directories, one written with a separator at its end, and a name    *)
(* below them that may start with one.                                     *)
EXTENDS HandleTracker, TLC

CONSTANTS a, b, c

Directories == {<<Sep, a>>, <<Sep, b, Sep>>}
Below == {<<c>>, <<Sep, c>>}
Symmetry == Permutations(Threads) \cup Permutations(Handles)
=============================================================================
