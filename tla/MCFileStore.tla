---------------------------- MODULE MCFileStore ----------------------------
(* Small instances of FileStore for TLC. *)
EXTENDS FileStore, TLC

CONSTANTS f1, f2, w1, p1, p2, i1

TwoFiles == {f1, f2}
OneWorkspace == {w1}
TwoHandlers == {p1, p2}
OneSweeper == {i1}

\* Every file is one unit large.
MCBytes == [S \in SUBSET Files |-> Cardinality(S)]

AllInOne == [f \in Files |-> w1]
LimitOne == [w \in Workspaces |-> 1]
SizeTwo == [w \in Workspaces |-> 2]

HandlerSymmetry == Permutations(Handlers)
=============================================================================
