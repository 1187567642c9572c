----------------------------- MODULE DurableSave -----------------------------
(***************************************************************************)
(* What the game server promises about a saved farm, with no actors, locks *)
(* or sessions in sight.  A save is a version number: 0 is "no such save", *)
(* 1 a fresh farm, and every change of the farm adds one.                  *)
(*                                                                         *)
(*   up          the server runs                                          *)
(*   live[k]     the newest version of save k that anybody was shown       *)
(*   durable[k]  the version in the database                               *)
(*   failing[k]  the last attempt to write the live version failed         *)
(*                                                                         *)
(* The contract: the database only ever receives the live version, and a   *)
(* live version is dropped only when the process dies or when a write of   *)
(* this very save has just failed.  SaveManager implements it.             *)
(***************************************************************************)
EXTENDS Naturals

CONSTANT Saves

VARIABLES up, live, durable, failing

vars == <<up, live, durable, failing>>

Init ==
    /\ up      = TRUE
    /\ live    = [k \in Saves |-> 0]
    /\ durable = [k \in Saves |-> 0]
    /\ failing = [k \in Saves |-> FALSE]

(* The first connect of a key creates its save, in memory and on disk. *)
Create(k) ==
    /\ up /\ durable[k] = 0
    /\ durable' = [durable EXCEPT ![k] = 1]
    /\ live'    = [live EXCEPT ![k] = 1]
    /\ UNCHANGED <<up, failing>>

(* The player acts, or time passes on the farm. *)
Play(k) ==
    /\ up /\ live[k] > 0
    /\ live' = [live EXCEPT ![k] = @ + 1]
    /\ UNCHANGED <<up, durable, failing>>

Save(k) ==
    /\ up
    /\ durable' = [durable EXCEPT ![k] = live[k]]
    /\ failing' = [failing EXCEPT ![k] = FALSE]
    /\ UNCHANGED <<up, live>>

SaveFails(k) ==
    /\ up /\ live[k] # durable[k]
    /\ failing' = [failing EXCEPT ![k] = TRUE]
    /\ UNCHANGED <<up, live, durable>>

(* The save is closed although its last write failed: progress is lost. *)
GiveUp(k) ==
    /\ up /\ failing[k]
    /\ live'    = [live EXCEPT ![k] = durable[k]]
    /\ failing' = [failing EXCEPT ![k] = FALSE]
    /\ UNCHANGED <<up, durable>>

(* The process dies: only what is in the database survives. *)
Crash ==
    /\ up /\ up' = FALSE
    /\ live'    = durable
    /\ failing' = [k \in Saves |-> FALSE]
    /\ UNCHANGED durable

Restart ==
    /\ ~up /\ up' = TRUE
    /\ UNCHANGED <<live, durable, failing>>

Next ==
    \/ \E k \in Saves :
          Create(k) \/ Play(k) \/ Save(k) \/ SaveFails(k) \/ GiveUp(k)
    \/ Crash \/ Restart

Spec == Init /\ [][Next]_vars
=============================================================================
