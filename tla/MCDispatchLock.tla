--------------------------- MODULE MCDispatchLock ---------------------------
(* Small instances of the dispatch lock. *)
EXTENDS DispatchLock, TLC

CONSTANTS p1, p2, p3

TwoProcs   == {p1, p2}
ThreeProcs == {p1, p2, p3}

\* Processes are compared for equality only.
Symmetry == Permutations(Procs)
=============================================================================
