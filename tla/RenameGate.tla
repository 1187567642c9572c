------------------------------ MODULE RenameGate ------------------------------
(***************************************************************************)
(* Store.GateRename: the rename budget of one save.  Every attempt that    *)
(* passes is paid for in the saves row, in one transaction, before the     *)
(* name is even looked at, so a denied name refunds nothing.  What follows *)
(* (the judging, the persist) never touches the budget and is not here.    *)
(* A refused attempt writes nothing.                                       *)
(***************************************************************************)
EXTENDS Integers, Sequences

CONSTANTS
    Burst,      \* RenameBurstLimit, 5 attempts
    Cooldown,   \* renameCooldownSeconds, 60
    Daily,      \* renameDailyLimit, 60 attempts
    Day,        \* renameDayWindowSeconds, 86400
    Start,      \* the first moment modelled, in Unix time
    Horizon     \* the last one: a bound

ASSUME BudgetAssumption ==
    /\ Burst \in Nat \ {0} /\ Cooldown \in Nat
    /\ Daily \in Nat \ {0} /\ Day \in Nat \ {0}
ASSUME ClockAssumption  == Start \in Nat /\ Horizon \in Nat /\ Start >= Day

VARIABLES
    now,        \* the caller's clock
    locked,     \* name_locked
    lastAt,     \* rename_last_at
    dayStart,   \* rename_day_start
    dayCount,   \* rename_day_count
    burst,      \* rename_burst_count
    allowed     \* history: the times of the attempts that passed

vars == <<now, locked, lastAt, dayStart, dayCount, burst, allowed>>

(* The columns of a row that was never renamed default to 0. *)
Init ==
    /\ now = Start
    /\ locked = FALSE
    /\ lastAt = 0 /\ dayStart = 0 /\ dayCount = 0 /\ burst = 0
    /\ allowed = << >>

(* The burst, refilled in full by a cooldown since the last attempt that   *)
(* was allowed.  Names ending in _Faulty are mistakes no action uses.      *)
BurstNow_Faulty == IF now >= lastAt + Cooldown - 1 THEN 0 ELSE burst
BurstNow_Never  == burst
BurstNow == IF lastAt # 0 /\ now >= lastAt + Cooldown THEN 0 ELSE burst

NewDay == now >= dayStart + Day

DayCountNow_Faulty == IF now >= lastAt + Cooldown THEN 0 ELSE dayCount
DayCountNow == IF NewDay THEN 0 ELSE dayCount

MayRename == ~locked /\ BurstNow < Burst /\ DayCountNow < Daily

Attempt ==
    /\ MayRename
    /\ lastAt'   = now
    /\ dayStart' = IF NewDay THEN now ELSE dayStart
    /\ dayCount' = DayCountNow + 1
    /\ burst'    = BurstNow + 1
    /\ allowed'  = Append(allowed, now)
    /\ UNCHANGED <<now, locked>>

(* LockName, by an operator. *)
LockName ==
    /\ locked' \in BOOLEAN \ {locked}
    /\ UNCHANGED <<now, lastAt, dayStart, dayCount, burst, allowed>>

Tick ==
    /\ now < Horizon
    /\ now' = now + 1
    /\ UNCHANGED <<locked, lastAt, dayStart, dayCount, burst, allowed>>

Next == Attempt \/ LockName \/ Tick

Spec == Init /\ [][Next]_vars

-----------------------------------------------------------------------------
(* The type invariant. *)
TypeOK ==
    /\ now \in Nat /\ now >= Start
    /\ locked \in BOOLEAN
    /\ lastAt \in Nat /\ dayStart \in Nat
    /\ dayCount \in 0..Daily /\ burst \in 0..Burst
    /\ allowed \in Seq(Nat)

(* "The cooldown behind it still bounds a prober to RenameBurstLimit       *)
(* guesses per renameCooldownSeconds" (store.go, RenameBurstLimit): any    *)
(* Burst + 1 consecutive guesses span a whole cooldown, wherever the       *)
(* window is put and however the player spreads them.                      *)
BurstsAreSpaced ==
    \A i \in 1..Len(allowed) :
        i > Burst => allowed[i] - allowed[i - Burst] >= Cooldown

(* "Capped at 60/day": the cap counts in windows that start with their     *)
(* first attempt, so a sliding day sees at most two windows' worth.        *)
DaysAreCapped ==
    \A i \in 1..Len(allowed) :
        i > 2 * Daily => allowed[i] - allowed[i - 2 * Daily] >= Day

(* The budget never starves a player: who was allowed nothing for a whole  *)
(* cooldown, and less than the daily limit in the last day, is let in at   *)
(* once, whatever refused attempts were made meanwhile.                    *)
PatientPlayerMayRename ==
    (/\ ~locked
     /\ \A i \in 1..Len(allowed) : allowed[i] + Cooldown <= now
     /\ \A i \in 1..Len(allowed) :
           i + Daily <= Len(allowed) + 1 => allowed[i] + Day <= now)
    => MayRename
=============================================================================
