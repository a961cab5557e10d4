---------------------------- MODULE MCSessions ----------------------------
(* Small instances of Sessions for TLC. *)
EXTENDS Sessions, TLC

CONSTANTS p1, p2, p3

TwoHandlers == {p1, p2}
ThreeHandlers == {p1, p2, p3}
HandlerSymmetry == Permutations(Handlers)
=============================================================================
