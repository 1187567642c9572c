---------------------------- MODULE MCFrontDoor ----------------------------
EXTENDS FrontDoor

(* Two transports with two shells each. *)
ShellsOfTwo == [sh \in {"s1", "s2", "s3", "s4"} |->
                  IF sh \in {"s1", "s2"} THEN "t1" ELSE "t2"]

(* A plain name, and one the slot rules must clean and cut to the same.    *)
Plain  == <<"a", "b">>
Untidy == <<"A", " ", ".", "b", "c">>

(* One player with two connections, direct and through the lobby, another  *)
(* whose name leaves the default slot, a guest of the same token on both,  *)
(* and a name the lobby protocol does not know.                            *)
Callers ==
    [t \in {"t1", "t2"} |->
       IF t = "t1" THEN {Direct("k1", Untidy, Plain), Direct("k2", <<".">>, Plain), AsGuest("g1")}
       ELSE {ViaLobby("k1", Plain, Plain), AsGuest("g1"), Garbled(Plain)}]
=============================================================================
