------------------------------ MODULE MCCampaign ------------------------------
(* A campaign whose goals are a few steps away. *)
EXTENDS Campaign

ScarecrowGates == <<0, 1>>

(* States that differ only in what was accepted with a contract that has   *)
(* ended go on alike: no action and no property reads it then.             *)
LiveParts == <<s, IF s.active = NoContract THEN "none" ELSE accepted>>
===============================================================================
