--------------------------- MODULE MCPresenceSync ---------------------------
(***************************************************************************)
(* PresenceSync for TLC.                                                   *)
(***************************************************************************)
EXTENDS PresenceSync, TLC

Symmetry == Permutations(Handlers) \cup Permutations(Places)
=============================================================================
