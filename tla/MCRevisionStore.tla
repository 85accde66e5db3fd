--------------------------- MODULE MCRevisionStore ---------------------------
(***************************************************************************)
(* RevisionStore for TLC.  Processes are interchangeable.                  *)
(***************************************************************************)
EXTENDS RevisionStore, TLC

Symmetry == Permutations(Procs)
=============================================================================
