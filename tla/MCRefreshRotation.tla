------------------------- MODULE MCRefreshRotation -------------------------
(* Small instances of RefreshRotation for TLC. *)
EXTENDS RefreshRotation

CONSTANTS r1, r2

TwoRequests == {r1, r2}
=============================================================================
