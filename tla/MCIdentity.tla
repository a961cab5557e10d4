----------------------------- MODULE MCIdentity -----------------------------
(* Small instances of Identity for TLC. *)
EXTENDS Identity, TLC

CONSTANTS e1, e2, g1, p1, p2

TwoEmails == {e1, e2}
OneSubject == {g1}
FirstEmail == [g \in Subjects |-> e1]
OneHandler == {p1}
TwoHandlers == {p1, p2}
HandlerSymmetry == Permutations(Handlers)
=============================================================================
