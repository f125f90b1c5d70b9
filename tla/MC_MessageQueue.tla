--------------------------- MODULE MC_MessageQueue ---------------------------
(* Two senders of two messages each, and one cell fewer than messages, so   *)
(* that malloc hands a freed cell out again.                                *)
EXTENDS MessageQueue

CONSTANTS s1, s2, c1, c2, c3

MCSenders == {s1, s2}
MCCells   == {c1, c2, c3}
=============================================================================
