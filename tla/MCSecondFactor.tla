--------------------------- MODULE MCSecondFactor ---------------------------
(* Small instances of SecondFactor for TLC. *)
EXTENDS SecondFactor, TLC

CONSTANTS p1, p2

TwoHandlers == {p1, p2}
HandlerSymmetry == Permutations(Handlers)
=============================================================================
