------------------------------ MODULE FarmSeats ------------------------------
(***************************************************************************)
(* What the handlers of connections may suppose of the save manager: every *)
(* farm has one seat. Who attaches sits down, and whoever sat there is     *)
(* told; who was told or wants to go detaches. There is no mu, no actor    *)
(* and no flush here, and an attach or a detach takes no time.             *)
(*                                                                         *)
(* FrontDoor runs its handlers over these operations, and SaveManager,     *)
(* which needs many steps and two goroutines for each, implements them.    *)
(***************************************************************************)
CONSTANTS
    Sessions,     \* the handlers that attach
    Farms,        \* <<"guest", ...>> is a guest's
    Policy        \* FARM_SESSION_POLICY

VARIABLES
    holds,        \* holds[c]: the farm whose actor has c's session, or NoFarm
    told,         \* the sessions that were sent their notice
    closing       \* Manager.closing

games == <<holds, told, closing>>

NoFarm     == <<"none">>
Holders(f) == {c \in Sessions : holds[c] = f}
Away(c)    == holds[c] = NoFarm /\ c \notin told

(* The farm is free, or it may be taken over: a guest's never is.          *)
MayAttach(f) ==
    /\ ~closing
    /\ Holders(f) = {} \/ (Policy = "takeover" /\ f[1] # "guest")

Attach(c, f) ==
    /\ Away(c) /\ MayAttach(f)
    /\ told' = told \cup Holders(f)
    /\ holds' = [x \in Sessions |-> IF x = c THEN f
                                    ELSE IF holds[x] = f THEN NoFarm ELSE holds[x]]
    /\ UNCHANGED closing

(* It releases the farm, if it is still this session's.                    *)
Detach(c) ==
    /\ ~Away(c)
    /\ holds' = [holds EXCEPT ![c] = NoFarm] /\ told' = told \ {c}
    /\ UNCHANGED closing

(* Shutdown: no more attaches, and one actor after the other lets its      *)
(* session go.                                                             *)
Shutdown == ~closing /\ closing' = TRUE /\ UNCHANGED <<holds, told>>

LetGo(c) ==
    /\ closing /\ holds[c] # NoFarm
    /\ holds' = [holds EXCEPT ![c] = NoFarm] /\ told' = told \cup {c}
    /\ UNCHANGED closing

Init == holds = [c \in Sessions |-> NoFarm] /\ told = {} /\ closing = FALSE

(* The process dies, and with it every session; the next one starts anew.  *)
Die == holds' = [c \in Sessions |-> NoFarm] /\ told' = {} /\ closing' = FALSE

Next ==
    \/ \E c \in Sessions :
          \/ \E f \in Farms : Attach(c, f)
          \/ Detach(c) \/ LetGo(c)
    \/ Shutdown \/ Die

Spec == Init /\ [][Next]_games
=============================================================================
