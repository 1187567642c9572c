--------------------------- MODULE RenameGate_proofs ---------------------------
(***************************************************************************)
(* The three guarantees of the rename budget, for every limit, window and  *)
(* history.  BudgetInv relates the four counters of the row to the times   *)
(* of the attempts that were allowed: the counters forget them, and the    *)
(* guarantees are about nothing else.                                      *)
(***************************************************************************)
EXTENDS RenameGate, TLAPS

Times == 1..Len(allowed)

(* The attempts happened in the order they are listed, none in the future, *)
(* and rename_last_at is the last of them.                                 *)
HistoryInv ==
    /\ \A i \in Times : allowed[i] >= Start /\ allowed[i] <= now
    /\ \A i, j \in Times : i <= j => allowed[i] <= allowed[j]
    /\ Len(allowed) = 0 => lastAt = 0 /\ burst = 0
    /\ Len(allowed) > 0 => lastAt = allowed[Len(allowed)] /\ burst > 0

(* The burst counts the attempts since the last pause of a cooldown. *)
BurstInv ==
    /\ burst <= Len(allowed)
    /\ 0 < burst /\ burst < Len(allowed) =>
          allowed[Len(allowed) - burst + 1] - allowed[Len(allowed) - burst] >= Cooldown

(* The day count counts the attempts of the current window; those of the   *)
(* window before are at most Daily, and all others a day older than this   *)
(* window.                                                                 *)
DayInv ==
    /\ dayStart <= now
    /\ dayCount <= Len(allowed)
    /\ \A i \in Times : i > Len(allowed) - dayCount => allowed[i] >= dayStart
    /\ \A i \in Times : i <= Len(allowed) - dayCount => allowed[i] <= dayStart
    /\ \A i \in Times : i + Daily <= Len(allowed) - dayCount => allowed[i] + Day <= dayStart

BudgetInv == TypeOK /\ HistoryInv /\ BurstInv /\ DayInv /\ BurstsAreSpaced /\ DaysAreCapped

LEMMA InitBudget == Init => BudgetInv
<1> SUFFICES ASSUME Init PROVE BudgetInv
  OBVIOUS
<1>1. TypeOK
  <2>1. allowed \in Seq(Nat)
    BY DEF Init
  <2>2. 0 \in 0..Daily /\ 0 \in 0..Burst
    BY BudgetAssumption
  <2>3. /\ now \in Nat /\ now >= Start /\ locked \in BOOLEAN
        /\ lastAt \in Nat /\ dayStart \in Nat
        /\ dayCount \in 0..Daily /\ burst \in 0..Burst
    <3>1. now \in Nat /\ now >= Start
      BY ClockAssumption DEF Init
    <3>2. locked \in BOOLEAN /\ lastAt \in Nat /\ dayStart \in Nat
      BY DEF Init
    <3>3. dayCount \in 0..Daily /\ burst \in 0..Burst
      BY <2>2 DEF Init
    <3> QED
      BY <3>1, <3>2, <3>3
  <2> QED
    BY <2>1, <2>3 DEF TypeOK
<1>2. Len(allowed) = 0
  BY DEF Init
<1> QED
  BY <1>1, <1>2, ClockAssumption
     DEF Init, BudgetInv, HistoryInv, BurstInv, DayInv, BurstsAreSpaced, DaysAreCapped, Times

LEMMA AttemptKeepsBudget == BudgetInv /\ Attempt => BudgetInv'
<1> SUFFICES ASSUME BudgetInv, Attempt PROVE BudgetInv'
  OBVIOUS
<1> DEFINE n == Len(allowed)
<1> USE BudgetAssumption, ClockAssumption
<1>1. n \in Nat /\ \A i \in 1..n : allowed[i] \in Nat
  BY DEF BudgetInv, TypeOK
<1>2. /\ Len(allowed') = n + 1
      /\ \A i \in 1..n : allowed'[i] = allowed[i]
      /\ allowed'[n + 1] = now
  BY <1>1 DEF Attempt, BudgetInv, TypeOK
<1>3. BurstNow \in Nat /\ BurstNow < Burst /\ burst' = BurstNow + 1
  BY DEF BudgetInv, TypeOK, Attempt, MayRename, BurstNow
<1>4. DayCountNow \in Nat /\ DayCountNow < Daily /\ dayCount' = DayCountNow + 1
  BY DEF BudgetInv, TypeOK, Attempt, MayRename, DayCountNow
<1>5. TypeOK'
  BY <1>3, <1>4 DEF BudgetInv, TypeOK, Attempt
<1>6. HistoryInv'
  BY <1>1, <1>2, <1>3 DEF BudgetInv, TypeOK, HistoryInv, Attempt, Times
<1>7. BurstInv'
  <2>1. CASE BurstNow = 0
    <3>1. burst' = 1
      BY <1>3, <2>1
    <3>2. CASE n = 0
      BY <1>2, <3>1, <3>2 DEF BurstInv
    <3>3. CASE n > 0
      <4>1. burst > 0 /\ lastAt = allowed[n] /\ lastAt > 0
        BY <1>1, <3>3 DEF BudgetInv, HistoryInv, Times
      <4>2. now >= lastAt + Cooldown
        BY <2>1, <4>1 DEF BurstNow
      <4>3. now - allowed[n] >= Cooldown
        BY <1>1, <3>3, <4>1, <4>2 DEF BudgetInv, TypeOK
      <4> QED
        BY <1>1, <1>2, <3>1, <3>3, <4>3 DEF BurstInv
    <3> QED
      BY <1>1, <3>2, <3>3
  <2>2. CASE BurstNow # 0
    <3>1. BurstNow = burst
      BY <2>2 DEF BurstNow
    <3>2. burst \in Nat /\ 0 < burst /\ burst <= n /\ burst' = burst + 1
      BY <1>3, <2>2, <3>1 DEF BudgetInv, BurstInv
    <3>3. burst' < n + 1 =>
             allowed'[n + 1 - burst' + 1] - allowed'[n + 1 - burst'] >= Cooldown
      <4> SUFFICES ASSUME burst < n
                   PROVE  allowed'[n - burst + 1] - allowed'[n - burst] >= Cooldown
        BY <1>1, <3>2
      <4>1. n - burst \in 1..n /\ n - burst + 1 \in 1..n
        BY <1>1, <3>2
      <4>2. allowed[n - burst + 1] - allowed[n - burst] >= Cooldown
        BY <3>2 DEF BudgetInv, BurstInv
      <4> QED
        BY <1>2, <4>1, <4>2
    <3> QED
      BY <1>1, <1>2, <3>2, <3>3 DEF BurstInv
  <2> QED
    BY <2>1, <2>2
<1>8. DayInv'
  <2>1. CASE NewDay
    <3>1. dayStart' = now /\ dayCount' = 1 /\ now' = now
      BY <1>4, <2>1 DEF Attempt, DayCountNow
    <3>2. now \in Nat /\ dayStart \in Nat /\ dayStart + Day <= now
      BY <2>1 DEF NewDay, BudgetInv, TypeOK
    <3>3. \A i \in 1..n : i + Daily <= n => allowed[i] <= dayStart
      BY <1>1 DEF BudgetInv, TypeOK, DayInv, Times
    <3>4. \A i \in 1..n : allowed[i] <= now
      BY DEF BudgetInv, HistoryInv, Times
    <3> QED
      BY SMTT(30), <1>1, <1>2, <3>1, <3>2, <3>3, <3>4 DEF DayInv, Times
  <2>2. CASE ~NewDay
    <3>1. dayStart' = dayStart /\ dayCount' = dayCount + 1 /\ now' = now
      BY <1>4, <2>2 DEF Attempt, DayCountNow
    <3>2. dayCount \in Nat /\ dayCount <= n /\ dayStart \in Nat /\ dayStart <= now
      BY DEF BudgetInv, TypeOK, DayInv
    <3>3. (n + 1) - (dayCount + 1) = n - dayCount
      BY <1>1, <3>2
    <3>4. \A i \in 1..(n + 1) : i > n - dayCount => allowed'[i] >= dayStart
      <4> SUFFICES ASSUME NEW i \in 1..(n + 1), i > n - dayCount
                   PROVE  allowed'[i] >= dayStart
        OBVIOUS
      <4>1. CASE i = n + 1
        BY <1>2, <3>2, <4>1
      <4>2. CASE i \in 1..n
        BY <1>2, <4>2 DEF BudgetInv, DayInv, Times
      <4> QED
        BY <1>1, <4>1, <4>2
    <3>5. \A i \in 1..(n + 1) : i <= n - dayCount => allowed'[i] <= dayStart
      BY <1>1, <1>2, <3>2 DEF BudgetInv, DayInv, Times
    <3>6. \A i \in 1..(n + 1) : i + Daily <= n - dayCount => allowed'[i] + Day <= dayStart
      BY <1>1, <1>2, <3>2 DEF BudgetInv, DayInv, Times
    <3>7. Len(allowed') - dayCount' = n - dayCount /\ dayCount' <= Len(allowed')
      BY <1>1, <1>2, <3>1, <3>2, <3>3
    <3> HIDE DEF n
    <3> QED
      BY <1>2, <3>1, <3>2, <3>4, <3>5, <3>6, <3>7 DEF DayInv, Times
  <2> QED
    BY <2>1, <2>2
<1>9. BurstsAreSpaced'
  <2> SUFFICES ASSUME NEW i \in 1..(n + 1), i > Burst
               PROVE  allowed'[i] - allowed'[i - Burst] >= Cooldown
    BY <1>2 DEF BurstsAreSpaced
  <2>1. CASE i <= n
    BY <1>1, <1>2, <2>1 DEF BudgetInv, BurstsAreSpaced
  <2>2. CASE i = n + 1
    <3> DEFINE j == n + 1 - Burst
    <3>1. j \in 1..n /\ allowed'[j] = allowed[j] /\ allowed'[i] = now
      BY <1>1, <1>2, <2>2
    <3>2. CASE BurstNow = 0
      <4>1. lastAt = allowed[n] /\ lastAt > 0 /\ burst > 0
        BY <1>1, <3>1 DEF BudgetInv, HistoryInv, Times
      <4>2. now >= lastAt + Cooldown
        BY <3>2, <4>1 DEF BurstNow
      <4>3. allowed[j] <= allowed[n]
        BY <1>1, <3>1 DEF BudgetInv, HistoryInv, Times
      <4> QED
        BY SMTT(30), <1>1, <2>2, <3>1, <4>1, <4>2, <4>3 DEF BudgetInv, TypeOK
    <3>3. CASE BurstNow # 0
      <4>1. BurstNow = burst /\ burst \in Nat /\ 0 < burst /\ burst < Burst
        BY <1>3, <3>3 DEF BurstNow
      <4> DEFINE k == n - burst
      <4>2. k \in 1..n /\ k + 1 \in 1..n /\ j <= k /\ burst < n
        BY <1>1, <3>1, <4>1
      <4>3. allowed[k + 1] - allowed[k] >= Cooldown
        BY <1>1, <4>1, <4>2 DEF BudgetInv, BurstInv
      <4>4. allowed[j] <= allowed[k] /\ allowed[k + 1] <= now
        BY <3>1, <4>2 DEF BudgetInv, HistoryInv, Times
      <4>5. /\ allowed[j] \in Nat /\ allowed[k] \in Nat
            /\ allowed[k + 1] \in Nat /\ now \in Nat
        BY <1>1, <3>1, <4>2 DEF BudgetInv, TypeOK
      <4>6. now - allowed[j] >= Cooldown
        BY SMTT(30), <4>3, <4>4, <4>5
      <4> QED
        BY <2>2, <3>1, <4>6
    <3> QED
      BY <3>2, <3>3
  <2> QED
    BY <1>1, <2>1, <2>2
<1>10. DaysAreCapped'
  <2> SUFFICES ASSUME NEW i \in 1..(n + 1), i > 2 * Daily
               PROVE  allowed'[i] - allowed'[i - 2 * Daily] >= Day
    BY <1>2 DEF DaysAreCapped
  <2>1. CASE i <= n
    BY <1>1, <1>2, <2>1 DEF BudgetInv, DaysAreCapped
  <2>2. CASE i = n + 1
    <3> DEFINE j == n + 1 - 2 * Daily
    <3>1. j \in 1..n /\ allowed'[j] = allowed[j] /\ allowed'[i] = now
      BY <1>1, <1>2, <2>2
    <3>2. j + Daily <= (n + 1) - dayCount'
      BY <1>1, <1>4, <3>1
    <3>3. allowed'[j] + Day <= dayStart' /\ dayStart' <= now
      BY SMTT(30), <1>1, <1>2, <1>8, <3>1, <3>2 DEF DayInv, Times, Attempt
    <3>4. dayStart' \in Nat /\ now \in Nat
      BY <1>5 DEF TypeOK, BudgetInv
    <3> QED
      BY <1>1, <2>2, <3>1, <3>3, <3>4
  <2> QED
    BY <1>1, <2>1, <2>2
<1> QED
  BY <1>5, <1>6, <1>7, <1>8, <1>9, <1>10 DEF BudgetInv

LEMMA NextKeepsBudget == BudgetInv /\ [Next]_vars => BudgetInv'
<1> SUFFICES ASSUME BudgetInv, [Next]_vars PROVE BudgetInv'
  OBVIOUS
<1> USE DEF BudgetInv, TypeOK, HistoryInv, BurstInv, DayInv, BurstsAreSpaced,
            DaysAreCapped, Times
<1>1. CASE Attempt
  BY <1>1, AttemptKeepsBudget
<1>2. CASE LockName
  BY <1>2 DEF LockName
<1>3. CASE Tick
  <2>1. /\ now' = now + 1
        /\ UNCHANGED <<locked, lastAt, dayStart, dayCount, burst, allowed>>
    BY <1>3 DEF Tick
  <2>2. TypeOK'
    BY <2>1, ClockAssumption
  <2>3. BurstInv' /\ BurstsAreSpaced' /\ DaysAreCapped'
    BY <2>1
  <2>4. HistoryInv'
    BY <2>1
  <2>5. DayInv'
    BY <2>1
  <2> QED
    BY <2>2, <2>3, <2>4, <2>5
<1>4. CASE UNCHANGED vars
  BY <1>4 DEF vars
<1> QED
  BY <1>1, <1>2, <1>3, <1>4 DEF Next

THEOREM BudgetIsInductive == Spec => []BudgetInv
  BY InitBudget, NextKeepsBudget, PTL DEF Spec

(* Types, in every reachable state: the counters stay within their limits  *)
(* (the burst and day counts GateRename writes back).                      *)
THEOREM TypeCorrect == Spec => []TypeOK
<1>1. BudgetInv => TypeOK
  BY DEF BudgetInv
<1> QED
  BY <1>1, BudgetIsInductive, PTL

(* The burst comment of store.go, for every Burst and Cooldown: no Burst   *)
(* + 1 guesses ever fall within one cooldown.                              *)
THEOREM BurstBound == Spec => []BurstsAreSpaced
<1>1. BudgetInv => BurstsAreSpaced
  BY DEF BudgetInv
<1> QED
  BY <1>1, BudgetIsInductive, PTL

(* The daily ceiling, for every Daily and Day: no 2 * Daily + 1 attempts   *)
(* ever fall within one day, although the window is a fixed one.           *)
THEOREM DayBound == Spec => []DaysAreCapped
<1>1. BudgetInv => DaysAreCapped
  BY DEF BudgetInv
<1> QED
  BY <1>1, BudgetIsInductive, PTL

(* GateRename never turns away a player who has waited for the cooldown    *)
(* and is below the daily limit by any clock of a day.                     *)
THEOREM PatienceIsRewarded == Spec => []PatientPlayerMayRename
<1>1. BudgetInv => PatientPlayerMayRename
  <2> SUFFICES ASSUME BudgetInv,
                      ~locked,
                      \A i \in Times : allowed[i] + Cooldown <= now,
                      \A i \in Times :
                         i + Daily <= Len(allowed) + 1 => allowed[i] + Day <= now
               PROVE  MayRename
    BY DEF PatientPlayerMayRename, Times
  <2> USE BudgetAssumption, ClockAssumption
  <2>1. Len(allowed) \in Nat /\ \A i \in Times : allowed[i] \in Nat
    BY DEF BudgetInv, TypeOK, Times
  <2>2. BurstNow < Burst
    <3>1. CASE Len(allowed) = 0
      BY <3>1 DEF BudgetInv, HistoryInv, BurstNow
    <3>2. CASE Len(allowed) > 0
      <4>1. Len(allowed) \in Times
        BY <2>1, <3>2 DEF Times
      <4>2. lastAt = allowed[Len(allowed)] /\ lastAt # 0
        BY <2>1, <3>2, <4>1 DEF BudgetInv, HistoryInv
      <4> QED
        BY <4>1, <4>2 DEF BurstNow
    <3> QED
      BY <2>1, <3>1, <3>2
  <2>3. DayCountNow < Daily
    <3>1. CASE NewDay
      BY <3>1 DEF DayCountNow
    <3>2. CASE ~NewDay
      <4> SUFFICES ASSUME dayCount = Daily PROVE FALSE
        BY <3>2 DEF DayCountNow, BudgetInv, TypeOK
      <4> DEFINE i == Len(allowed) + 1 - Daily
      <4>1. i \in Times /\ i > Len(allowed) - dayCount
        BY <2>1 DEF BudgetInv, DayInv, Times
      <4>2. allowed[i] >= dayStart /\ allowed[i] + Day <= now
        BY <2>1, <4>1 DEF BudgetInv, DayInv, Times
      <4> QED
        BY <2>1, <3>2, <4>1, <4>2 DEF NewDay, BudgetInv, TypeOK
    <3> QED
      BY <3>1, <3>2
  <2> QED
    BY <2>2, <2>3 DEF MayRename
<1> QED
  BY <1>1, BudgetIsInductive, PTL
=============================================================================
