------------------------------ MODULE MCFarmName ------------------------------
(* FarmName for TLC: two spellings of a rude name, a boring one, a v1 relic. *)
EXTENDS FarmName

CONSTANTS RUDE, Rude, BORING, relic

UpperCase == [n \in Spellings |-> IF n = Rude THEN RUDE ELSE n]
NoOrRude  == {{}, {RUDE}}
=============================================================================
