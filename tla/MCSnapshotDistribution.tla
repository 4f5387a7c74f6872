----------------------- MODULE MCSnapshotDistribution -----------------------
(* Model checking of SnapshotDistribution. *)
EXTENDS SnapshotDistribution, TLC

\* Concurrent refreshes are interchangeable.
Symmetric == Permutations(Loads)
=============================================================================
