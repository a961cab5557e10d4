---------------------------- MODULE MCWorkspace ----------------------------
(* Small instances of Workspace for TLC. *)
EXTENDS Workspace, TLC

CONSTANTS c1, p1, p2

OneClient == {c1}
TwoHandlers == {p1, p2}
HandlerSymmetry == Permutations(Handlers)
=============================================================================
