------------------------ MODULE MCTelemetryPresence ------------------------
(***************************************************************************)
(* TelemetryPresence for TLC.  Handlers are interchangeable, and so are    *)
(* places: the code only compares them.                                    *)
(***************************************************************************)
EXTENDS TelemetryPresence, TLC

CONSTANTS d1, d2, a1, h1, h2, p1, p2, r1, n1, n2

OneOwner   == d1 :> a1
TwoDevices == d1 :> a1 @@ d2 :> a1
Symmetry == Permutations(Handlers) \cup Permutations(Places) \cup Permutations(Noises)
FleetSymmetry == Permutations(Handlers) \cup Permutations(Devices)
=============================================================================
