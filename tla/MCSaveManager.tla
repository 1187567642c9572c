----------------------------- MODULE MCSaveManager -----------------------------
(***************************************************************************)
(* Instances of SaveManager for TLC.                                       *)
(***************************************************************************)
EXTENDS SaveManagerProps

CONSTANTS c1, c2, c3, c4, k1, g1

(* Every connection opens the one farm. *)
OneFarm == [c \in Conns |-> k1]

(* Two connections on a farm, and two of one guest: the manager's own code *)
(* handles a guest identity that is already playing.                       *)
GuestsBesideFarm == [c \in Conns |-> IF c \in {c1, c2} THEN k1 ELSE g1]
=============================================================================
