------------------------ MODULE MCSnapshotPublisher ------------------------
(***************************************************************************)
(* SnapshotPublisher on a small instance.                                  *)
(***************************************************************************)
EXTENDS SnapshotPublisher, TLC

\* Publishers are interchangeable, and so are valid bodies.
Symmetric == Permutations(Writers) \union Permutations(ValidContents)
=============================================================================
