---------------------------- MODULE MCWhiteboard ----------------------------
(* Small instances of Whiteboard and its room for TLC. *)
EXTENDS WhiteboardRoom

CONSTANTS s1, s2, p1, p2, d1

TwoScenes == {s1, s2}
TwoHandlers == {p1, p2}
OneWriter == {d1}
=============================================================================
