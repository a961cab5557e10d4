---------------------------- MODULE MCSweepLock ----------------------------
(* Two instances with two connections each; the first runs three jobs. *)
EXTENDS SweepLock

CONSTANTS i1, i2, c1, c2, c3, c4, j1, j2, j3, j4

MCInstances == {i1, i2}
MCConns == {c1, c2, c3, c4}
MCPoolOf == [i \in Instances |-> IF i = i1 THEN {c1, c2} ELSE {c3, c4}]
MCJobs == {j1, j2, j3, j4}
MCInstanceOf == [j \in Jobs |-> IF j = j4 THEN i2 ELSE i1]
=============================================================================
