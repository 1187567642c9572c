----------------------------- MODULE MCBoardCache -----------------------------
(* BoardCache for TLC: the viewers as model values. *)
EXTENDS BoardCache

CONSTANTS v1, v2, v3
=============================================================================
