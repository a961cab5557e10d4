------------------------------- MODULE MCChat -------------------------------
(* Small instances of Chat for TLC. *)
EXTENDS Chat, TLC

CONSTANTS o, c1, c2, s1, s2, p1, p2

TwoClients == {c1, c2}
TwoSockets == {s1, s2}
OwnerAndClient == [s \in Sockets |-> IF s = s1 THEN o ELSE c1]
TwoHandlers == {p1, p2}
HandlerSymmetry == Permutations(Handlers)
=============================================================================
