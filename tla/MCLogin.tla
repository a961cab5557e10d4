------------------------------ MODULE MCLogin ------------------------------
(* Small instances of Login for TLC. *)
EXTENDS Login, TLC

CONSTANTS p1, p2, d1, d2, d3

TwoHandlers == {p1, p2}
ThreeDevices == {d1, d2, d3}
Symmetry == Permutations(Handlers) \cup Permutations(Devices)
=============================================================================
