-------------------------- MODULE FarmClock_proofs --------------------------
(***************************************************************************)
(* What Advance leaves of a farm, for every catalogue of crops, number of  *)
(* plots, cap of the batch and length of absence.                          *)
(*                                                                         *)
(* The loops of the code are recursive functions here, so their results    *)
(* exist only by an argument: RunExists gives it once for every loop, from *)
(* the well-foundedness of Nat, and UpTo is the induction over a loop.  A  *)
(* plot is then settled turn by turn (SettleKeeps and the lemmas that take *)
(* a set that no turn leaves), the round of the plots is settled plot by   *)
(* plot (RoundIs), and the properties follow from the type of the farm.    *)
(* That an absence may be cut anywhere goes by a closed form of the loop   *)
(* (Outcome): it composes, and a farm that pays its way stays such a farm. *)
(***************************************************************************)
EXTENDS FarmClock, FiniteSetTheorems, WellFoundedInduction, TLAPS

(* Loops.                                                                  *)

(* Every set of numbers that is not empty has a least one.                 *)
LEMMA LeastNumber ==
    ASSUME NEW T \in SUBSET Nat, T # {}
    PROVE  \E m \in T : \A n \in T : m <= n
<1> DEFINE R == OpToRel(<, Nat)
<1>1. IsWellFoundedOn(R, Nat)
  BY NatLessThanWellFounded
<1> HIDE DEF R
<1>2. PICK m \in T : \A n \in T : ~(<<n, m>> \in R)
  BY <1>1, WFMin
<1>3. \A n \in T : n < m => <<n, m>> \in R
  BY DEF R, OpToRel
<1>4. \A n \in T : ~(n < m)
  BY <1>2, <1>3
<1>5. T \subseteq Nat
  OBVIOUS
<1> QED
  BY <1>4, <1>5

(* Induction over the turns of a loop, as a statement about a set.         *)
LEMMA UpTo ==
    ASSUME NEW N \in Nat, NEW T, 0 \in T, \A k \in 0 .. N - 1 : k \in T => k + 1 \in T
    PROVE  0 .. N \subseteq T
<1> SUFFICES ASSUME (0 .. N) \ T # {} PROVE FALSE
  OBVIOUS
<1>1. (0 .. N) \ T \in SUBSET Nat
  OBVIOUS
<1>2. PICK m \in (0 .. N) \ T : \A n \in (0 .. N) \ T : m <= n
  BY <1>1, LeastNumber
<1>3. m # 0 /\ m - 1 \in 0 .. N - 1
  BY <1>2
<1>4. m - 1 \in T
  BY <1>2, <1>3
<1> QED
  BY <1>2, <1>3, <1>4

(* g runs N steps from start; the step may depend on its number. *)
StepsOn(S, N) == [S \X (1 .. N) -> S]
Runs(g, S, N, start, step) ==
    /\ g \in [0 .. N -> S] /\ g[0] = start
    /\ \A k \in 1 .. N : g[k] = step[<<g[k - 1], k>>]

LEMMA RunExists ==
    ASSUME NEW S, NEW N, NEW start, NEW step,
           N \in Nat, start \in S, step \in StepsOn(S, N)
    PROVE  \E g : Runs(g, S, N, start, step)
<1>0. step \in [S \X (1 .. N) -> S]
  BY DEF StepsOn
<1> DEFINE Good(n, g) == /\ g \in [0 .. n -> S] /\ g[0] = start
                         /\ \A k \in 1 .. n : g[k] = step[<<g[k - 1], k>>]
           T == {n \in 0 .. N : \E g : Good(n, g)}
<1>1. Good(0, [k \in 0 .. 0 |-> start])
  OBVIOUS
<1>2. ASSUME NEW n \in 0 .. N - 1, NEW g, Good(n, g)
      PROVE  \E h : Good(n + 1, h)
  <2> DEFINE h == [k \in 0 .. n + 1 |-> IF k = n + 1 THEN step[<<g[n], n + 1>>] ELSE g[k]]
  <2>1. g[n] \in S /\ n + 1 \in 1 .. N
    BY <1>2
  <2>2. step[<<g[n], n + 1>>] \in S
    BY <1>0, <2>1
  <2>3. h \in [0 .. n + 1 -> S] /\ h[0] = start
    BY <1>2, <2>2
  <2>4. ASSUME NEW k \in 1 .. n + 1 PROVE h[k] = step[<<h[k - 1], k>>]
    <3>1. CASE k = n + 1
      <4>1. h[n + 1] = step[<<g[n], n + 1>>] /\ h[n] = g[n]
        OBVIOUS
      <4>2. k - 1 = n
        BY <3>1
      <4> HIDE DEF h
      <4> QED
        BY <3>1, <4>1, <4>2
    <3>2. CASE k \in 1 .. n
      BY <1>2, <3>2
    <3> QED
      BY <3>1, <3>2
  <2>5. Good(n + 1, h)
    BY <2>3, <2>4
  <2> QED
    BY <2>5
<1> HIDE DEF Good
<1>3. 0 \in T /\ \A n \in 0 .. N - 1 : n \in T => n + 1 \in T
  BY <1>1, <1>2
<1> HIDE DEF T
<1>4. N \in T
  BY <1>3, UpTo
<1>5. \E g : Good(N, g)
  BY <1>4 DEF T
<1> QED
  BY <1>5 DEF Good, Runs

(* The loop, on any set of accumulators that its turns do not leave.       *)
LEMMA TurnsRun ==
    ASSUME NEW f, NEW to, NEW start, NEW S, start \in S, \A a \in S : Turn(f, to, a) \in S
    PROVE  /\ Turns(f, to, start) \in [0 .. BatchCap -> S]
           /\ Turns(f, to, start)[0] = start
           /\ \A k \in 1 .. BatchCap :
                 Turns(f, to, start)[k] = Turn(f, to, Turns(f, to, start)[k - 1])
<1> DEFINE Body(g) == [k \in 0 .. BatchCap |-> IF k = 0 THEN start ELSE Turn(f, to, g[k - 1])]
           step == [x \in S \X (1 .. BatchCap) |-> Turn(f, to, x[1])]
<1>1. BatchCap \in Nat
  BY ClockAssumption
<1>2. step \in StepsOn(S, BatchCap)
  BY DEF StepsOn
<1>3. \A x \in S, k \in 1 .. BatchCap : step[<<x, k>>] = Turn(f, to, x)
  OBVIOUS
<1> HIDE DEF step
<1>4. PICK g : Runs(g, S, BatchCap, start, step)
  BY <1>1, <1>2, RunExists
<1>5. ASSUME NEW k \in 1 .. BatchCap PROVE g[k] = Turn(f, to, g[k - 1])
  <2>1. g[k - 1] \in S
    BY <1>1, <1>4 DEF Runs
  <2>2. g[k] = step[<<g[k - 1], k>>]
    BY <1>4 DEF Runs
  <2> QED
    BY <1>3, <2>1, <2>2
<1>6. g = Body(g)
  BY <1>4, <1>5 DEF Runs
<1>7. Turns(f, to, start) = CHOOSE h : h = Body(h)
  BY DEF Turns
<1> DEFINE t == Turns(f, to, start)
<1>8. t = Body(t)
  BY <1>6, <1>7
<1> HIDE DEF t
<1>9. t[0] = start /\ \A k \in 1 .. BatchCap : t[k] = Turn(f, to, t[k - 1])
  <2>1. t[0] = start
    BY <1>1, <1>8
  <2>2. ASSUME NEW k \in 1 .. BatchCap PROVE t[k] = Turn(f, to, t[k - 1])
    <3>1. k \in 0 .. BatchCap /\ k # 0
      BY <1>1
    <3> QED
      BY <1>8, <3>1
  <2> QED
    BY <2>1, <2>2
<1> DEFINE In == {k \in 0 .. BatchCap : t[k] \in S}
<1>10. 0 \in In /\ \A k \in 0 .. BatchCap - 1 : k \in In => k + 1 \in In
  <2>1. 0 \in In
    BY <1>1, <1>9
  <2>2. ASSUME NEW k \in 0 .. BatchCap - 1, k \in In PROVE k + 1 \in In
    <3>1. k + 1 \in 1 .. BatchCap /\ (k + 1) - 1 = k
      BY <1>1
    <3>2. t[k + 1] = Turn(f, to, t[k])
      BY <1>9, <3>1
    <3> QED
      BY <2>2, <3>1, <3>2
  <2> QED
    BY <2>1, <2>2
<1> HIDE DEF In
<1>11. \A k \in 0 .. BatchCap : k \in In
  BY <1>1, <1>10, UpTo
<1>12. t \in [0 .. BatchCap -> S]
  BY <1>8, <1>11 DEF In
<1> QED
  BY <1>9, <1>12 DEF t

-----------------------------------------------------------------------------
(* Numbers.                                                                *)

LEMMA Quotient ==
    ASSUME NEW x \in Nat, NEW g \in Nat \ {0}
    PROVE  /\ x \div g \in Nat /\ x % g \in 0 .. g - 1
           /\ (x \div g) * g <= x /\ x < (x \div g) * g + g
<1>1. x = g * (x \div g) + (x % g) /\ x % g \in 0 .. g - 1
  BY Z3
<1>2. x \div g \in Nat
  BY Z3
<1> QED
  BY <1>1, <1>2

LEMMA MaxOfTwo ==
    ASSUME NEW a \in Int, NEW b \in Int
    PROVE  Max({a, b}) = IF a >= b THEN a ELSE b
  BY DEF Max

LEMMA Product ==
    ASSUME NEW m \in Nat, NEW n \in Nat
    PROVE  m * n \in Nat
  BY Z3

-----------------------------------------------------------------------------
(* The types.                                                              *)

MaybeCrop == Crops \cup {NoCrop}

PlotSet == [crop : MaybeCrop, planted : Times, autoHarvest : BOOLEAN,
            autoSow : BOOLEAN, queued : MaybeCrop, last : MaybeCrop]

FarmSet == [plots : [Plots -> PlotSet], coins : Nat, updated : Times,
            eventEnds : 0 .. Horizon + EventLasts, last : MaybeCrop,
            pouches : {s \in Seq(Nat) : Len(s) <= Len(CrowPrice)},
            clock : 0 .. ClockTarget - 1]

Turning == [plot : PlotSet, coins : Nat, n : Nat]

LEMMA CropNumbers ==
    ASSUME NEW c \in Crops
    PROVE  Seed[c] \in Nat /\ Sell[c] \in Nat /\ Growth[c] \in Nat \ {0} /\ c # NoCrop
  BY CropsAssumption DEF Crops, NoCrop

LEMMA GrowIsPositive ==
    ASSUME NEW f, NEW c \in Crops
    PROVE  Grow(f, c) \in Nat \ {0}
<1> DEFINE cut == IF f.eventEnds # 0 THEN EventPct ELSE 0
           left == 100 - IF cut >= 100 THEN 99 ELSE cut
           g == Growth[c] * left
<1>1. left \in Nat /\ Growth[c] \in Nat
  BY CropNumbers, ClockAssumption
<1>2. g \in Nat
  BY <1>1, Product
<1>3. Grow(f, c) = Max({1, g \div 100})
  BY DEF Grow
<1> HIDE DEF g
<1>4. g \div 100 \in Nat
  BY <1>2, Quotient
<1> QED
  BY <1>3, <1>4, MaxOfTwo

LEMMA RipeCrop ==
    ASSUME NEW f, NEW to \in Times, NEW plot \in PlotSet, Ripe(f, plot, to)
    PROVE  /\ plot.crop \in Crops /\ SowCrop(plot) \in Crops
           /\ Grow(f, plot.crop) \in Nat \ {0}
           /\ RipeAt(f, plot) = plot.planted + Grow(f, plot.crop)
           /\ RipeAt(f, plot) \in Times /\ RipeAt(f, plot) <= to
<1>1. plot.crop \in Crops /\ SowCrop(plot) \in Crops
  BY DEF Ripe, SowCrop, PlotSet, MaybeCrop
<1>2. Grow(f, plot.crop) \in Nat \ {0}
  BY <1>1, GrowIsPositive
<1> QED
  BY <1>1, <1>2, ClockAssumption DEF Ripe, RipeAt, PlotSet, Times

(* One turn: what it does to a ripe plot.                                  *)
LEMMA CycleIs ==
    ASSUME NEW f, NEW to \in Times, NEW a \in Turning, Ripe(f, a.plot, to)
    PROVE  LET b == Cycle(f, to, a)
               c == SowCrop(a.plot)
           IN  /\ b \in Turning /\ b.n = a.n + 1
               /\ b.plot.autoHarvest = a.plot.autoHarvest /\ b.plot.autoSow = a.plot.autoSow
               /\ b.plot.queued = a.plot.queued /\ b.plot.last = a.plot.last
               /\ \/ /\ a.plot.autoSow /\ MaySow(c, a.coins + Sell[a.plot.crop], to)
                     /\ b.plot.crop = c /\ b.plot.planted = RipeAt(f, a.plot)
                     /\ b.coins = (a.coins + Sell[a.plot.crop]) - Seed[c]
                  \/ /\ ~(a.plot.autoSow /\ MaySow(c, a.coins + Sell[a.plot.crop], to))
                     /\ b.plot.crop = NoCrop /\ b.plot.planted = 0
                     /\ b.coins = a.coins + Sell[a.plot.crop]
<1> DEFINE b == Cycle(f, to, a)
           c == SowCrop(a.plot)
           earned == a.coins + Sell[a.plot.crop]
<1>1. /\ a.plot \in PlotSet /\ a.coins \in Nat /\ a.n \in Nat
      /\ a.plot.crop \in Crops /\ c \in Crops /\ RipeAt(f, a.plot) \in Times
  BY RipeCrop DEF Turning
<1>2. earned \in Nat /\ Seed[c] \in Nat
  BY <1>1, CropNumbers
<1>3. 0 \in Times /\ NoCrop \in MaybeCrop /\ c \in MaybeCrop
  BY <1>1, ClockAssumption DEF Times, MaybeCrop
<1>4. CASE a.plot.autoSow /\ MaySow(c, earned, to)
  <2>1. b = [plot  |-> [a.plot EXCEPT !.crop = c, !.planted = RipeAt(f, a.plot)],
             coins |-> earned - Seed[c], n |-> a.n + 1]
    BY <1>4 DEF Cycle
  <2>2. earned - Seed[c] \in Nat
    BY <1>2, <1>4 DEF MaySow
  <2> HIDE DEF c, earned, b
  <2>3. b \in Turning /\ b.n = a.n + 1 /\ b.coins = earned - Seed[c]
    <3>1. [a.plot EXCEPT !.crop = c, !.planted = RipeAt(f, a.plot)] \in PlotSet
      BY <1>1, <1>3 DEF PlotSet
    <3>2. a.n + 1 \in Nat
      BY <1>1
    <3> QED
      BY <2>1, <2>2, <3>1, <3>2 DEF Turning
  <2>4. /\ b.plot.crop = c /\ b.plot.planted = RipeAt(f, a.plot)
        /\ b.plot.autoHarvest = a.plot.autoHarvest /\ b.plot.autoSow = a.plot.autoSow
        /\ b.plot.queued = a.plot.queued /\ b.plot.last = a.plot.last
    BY <1>1, <2>1 DEF PlotSet
  <2> QED
    <3>1. /\ a.plot.autoSow /\ MaySow(c, earned, to)
          /\ b.plot.crop = c /\ b.plot.planted = RipeAt(f, a.plot)
          /\ b.coins = earned - Seed[c]
      BY <1>4, <2>3, <2>4
    <3> QED
      BY <2>3, <2>4, <3>1 DEF b, c, earned
<1>5. CASE ~(a.plot.autoSow /\ MaySow(c, earned, to))
  <2>1. b = [plot  |-> [a.plot EXCEPT !.crop = NoCrop, !.planted = 0],
             coins |-> earned, n |-> a.n + 1]
    BY <1>5 DEF Cycle
  <2> HIDE DEF c, earned, b
  <2>3. b \in Turning /\ b.n = a.n + 1 /\ b.coins = earned
    <3>1. [a.plot EXCEPT !.crop = NoCrop, !.planted = 0] \in PlotSet
      BY <1>1, <1>3 DEF PlotSet
    <3>2. a.n + 1 \in Nat
      BY <1>1
    <3> QED
      BY <1>2, <2>1, <3>1, <3>2 DEF Turning
  <2>4. /\ b.plot.crop = NoCrop /\ b.plot.planted = 0
        /\ b.plot.autoHarvest = a.plot.autoHarvest /\ b.plot.autoSow = a.plot.autoSow
        /\ b.plot.queued = a.plot.queued /\ b.plot.last = a.plot.last
    BY <1>1, <2>1 DEF PlotSet
  <2> QED
    BY <1>5, <2>3, <2>4 DEF b, c, earned
<1> QED
  BY <1>4, <1>5

(* The batch pays for what is left, and leaves nothing ripe.               *)
LEMMA BatchIs ==
    ASSUME NEW f, NEW to \in Times, NEW a \in Turning, Ripe(f, a.plot, to)
    PROVE  LET b == Batch(f, to, a)
               c == a.plot.crop
           IN  \/ /\ b = a /\ ~(MaySow(c, a.coins, to) /\ Sell[c] > Seed[c])
               \/ \E n \in Nat \ {0} :
                  /\ MaySow(c, a.coins, to) /\ Sell[c] > Seed[c]
                  /\ b \in Turning /\ b.n = a.n + n
                  /\ b.plot = [a.plot EXCEPT !.planted = @ + n * Grow(f, c)]
                  /\ b.coins = a.coins + n * (Sell[c] - Seed[c])
                  /\ b.plot.planted <= to /\ to < b.plot.planted + Grow(f, c)
<1> DEFINE b == Batch(f, to, a)
           c == a.plot.crop
           g == Grow(f, c)
           left == to - RipeAt(f, a.plot)
           q == left \div g
           n == q + 1
<1>1. /\ a.plot \in PlotSet /\ a.coins \in Nat /\ a.n \in Nat /\ a.plot.planted \in Nat
      /\ c \in Crops /\ g \in Nat \ {0} /\ left \in Nat /\ to \in Nat
      /\ left = to - (a.plot.planted + g)
  BY RipeCrop, ClockAssumption DEF Turning, PlotSet, Times
<1>2. q \in Nat /\ q * g <= left /\ left < q * g + g
  BY <1>1, Quotient
<1>3. CASE ~(MaySow(c, a.coins, to) /\ Sell[c] > Seed[c])
  BY <1>3 DEF Batch
<1>4. CASE MaySow(c, a.coins, to) /\ Sell[c] > Seed[c]
  <2>1. b = [plot  |-> [a.plot EXCEPT !.planted = @ + n * g],
             coins |-> a.coins + n * (Sell[c] - Seed[c]), n |-> a.n + n]
    BY <1>4 DEF Batch
  <2>2. Sell[c] - Seed[c] \in Nat
    BY <1>1, <1>4, CropNumbers
  <2> HIDE DEF q, g, left
  <2>3. n \in Nat \ {0} /\ n * g = q * g + g
    BY <1>1, <1>2, Z3
  <2>4. n * (Sell[c] - Seed[c]) \in Nat /\ q * g \in Nat
    BY <1>1, <1>2, <2>2, <2>3, Product
  <2>5. a.plot.planted + n * g \in Nat /\ a.plot.planted + n * g <= to
        /\ to < a.plot.planted + n * g + g
    BY <1>1, <1>2, <2>3, <2>4
  <2> HIDE DEF n, b, c
  <2>6. b.plot.planted = a.plot.planted + n * g /\ b.n = a.n + n
        /\ b.coins = a.coins + n * (Sell[c] - Seed[c])
        /\ b.plot = [a.plot EXCEPT !.planted = @ + n * g]
    BY <1>1, <2>1 DEF PlotSet
  <2>7. a.plot.planted + n * g \in Times
    BY <2>5, ClockAssumption DEF Times
  <2>8. b \in Turning
    <3>1. [a.plot EXCEPT !.planted = @ + n * g] \in PlotSet
      BY <1>1, <2>7 DEF PlotSet
    <3> QED
      BY <1>1, <2>1, <2>3, <2>4, <3>1 DEF Turning
  <2> QED
    BY <1>4, <2>3, <2>5, <2>6, <2>8 DEF b, c, g
<1> QED
  BY <1>3, <1>4

LEMMA Distribute ==
    ASSUME NEW m \in Nat, NEW n \in Nat, NEW g \in Nat
    PROVE  (m + n) * g = m * g + n * g /\ 0 * g = 0 /\ 1 * g = g
  BY Z3

(* What the turns and the batch keep, the whole of Settle keeps.           *)
LEMMA SettleKeeps ==
    ASSUME NEW f, NEW to \in Times, NEW S \in SUBSET Turning, NEW start \in S,
           \A a \in S : Ripe(f, a.plot, to) => Cycle(f, to, a) \in S /\ Batch(f, to, a) \in S
    PROVE  Settle(f, to, start) \in S
<1>1. \A a \in S : Turn(f, to, a) \in S
  BY DEF Turn
<1>2. Turns(f, to, start) \in [0 .. BatchCap -> S]
  BY <1>1, TurnsRun
<1>3. Turns(f, to, start)[BatchCap] \in S
  BY <1>2, ClockAssumption
<1> QED
  BY <1>3 DEF Settle

(* The plot's automation and the crop that is queued outlive it.           *)
SamePlan(a, plot) ==
    /\ a.plot.autoHarvest = plot.autoHarvest /\ a.plot.autoSow = plot.autoSow
    /\ a.plot.queued = plot.queued /\ a.plot.last = plot.last

LEMMA PlanStays ==
    ASSUME NEW f, NEW to \in Times, NEW a \in Turning, NEW plot, Ripe(f, a.plot, to),
           SamePlan(a, plot)
    PROVE  /\ Cycle(f, to, a) \in Turning /\ SamePlan(Cycle(f, to, a), plot)
           /\ Batch(f, to, a) \in Turning /\ SamePlan(Batch(f, to, a), plot)
<1> DEFINE b == Batch(f, to, a)
<1>1. Cycle(f, to, a) \in Turning /\ SamePlan(Cycle(f, to, a), plot)
  BY CycleIs DEF SamePlan
<1>2. CASE b = a
  BY <1>1, <1>2
<1>3. CASE b # a
  <2>1. PICK n \in Nat \ {0} : /\ b \in Turning
                               /\ b.plot = [a.plot EXCEPT !.planted = @ + n * Grow(f, a.plot.crop)]
    BY <1>3, BatchIs
  <2>2. a.plot \in PlotSet
    BY DEF Turning
  <2> HIDE DEF b
  <2>3. /\ b.plot.autoHarvest = a.plot.autoHarvest /\ b.plot.autoSow = a.plot.autoSow
        /\ b.plot.queued = a.plot.queued /\ b.plot.last = a.plot.last
    BY <2>1, <2>2 DEF PlotSet
  <2> QED
    BY <1>1, <2>1, <2>3 DEF SamePlan, b
<1> QED
  BY <1>2, <1>3

LEMMA SettleType ==
    ASSUME NEW f, NEW to \in Times, NEW start \in Turning
    PROVE  Settle(f, to, start) \in Turning /\ SamePlan(Settle(f, to, start), start.plot)
<1> DEFINE S == {a \in Turning : SamePlan(a, start.plot)}
<1>1. start \in S
  BY DEF SamePlan
<1>2. \A a \in S : Ripe(f, a.plot, to) => Cycle(f, to, a) \in S /\ Batch(f, to, a) \in S
  BY PlanStays
<1> HIDE DEF S
<1>3. S \in SUBSET Turning
  BY DEF S
<1>4. Settle(f, to, start) \in S
  BY <1>1, <1>2, <1>3, SettleKeeps
<1> QED
  BY <1>4 DEF S

(* PlantedAt advances by one growth for each harvest.                      *)
LEMMA SettleCursor ==
    ASSUME NEW f, NEW to \in Times, NEW start \in Turning, start.n = 0,
           SowCrop(start.plot) = start.plot.crop,
           Settle(f, to, start).plot.crop # NoCrop
    PROVE  LET a == Settle(f, to, start)
           IN  /\ a.plot.crop = start.plot.crop
               /\ a.plot.planted = start.plot.planted + a.n * Grow(f, start.plot.crop)
<1> DEFINE P == start.plot
           g == Grow(f, P.crop)
           OnCourse(a) == a.plot.crop = P.crop /\ a.plot.planted = P.planted + a.n * g
           S == {a \in Turning : SamePlan(a, P) /\ (a.plot.crop # NoCrop => OnCourse(a))}
<1>0. P \in PlotSet /\ P.planted \in Nat /\ P.crop \in MaybeCrop
  BY ClockAssumption DEF Turning, PlotSet, Times
<1>1. start \in S
  <2>1. P.crop \in Crops => g \in Nat
    BY GrowIsPositive
  <2>2. P.crop \in Crops => 0 * g = 0
    BY <2>1, Distribute
  <2> QED
    BY <1>0, <2>2 DEF SamePlan, MaybeCrop
<1>2. ASSUME NEW a \in S, Ripe(f, a.plot, to)
      PROVE  Cycle(f, to, a) \in S /\ Batch(f, to, a) \in S
  <2>1. /\ a \in Turning /\ a.n \in Nat /\ a.plot \in PlotSet /\ a.plot.crop \in Crops
        /\ a.plot.crop # NoCrop /\ RipeAt(f, a.plot) = a.plot.planted + Grow(f, a.plot.crop)
    BY <1>2, RipeCrop, CropNumbers DEF Turning
  <2>2. OnCourse(a) /\ SamePlan(a, P)
    BY <1>2, <2>1
  <2>3. g \in Nat /\ a.plot.planted = P.planted + a.n * g
    BY <2>1, <2>2, GrowIsPositive
  <2>4. SowCrop(a.plot) = P.crop
    BY <2>2 DEF SowCrop, SamePlan
  <2> DEFINE b == Cycle(f, to, a)
             d == Batch(f, to, a)
  <2>5. b \in Turning /\ SamePlan(b, P) /\ d \in Turning /\ SamePlan(d, P)
    BY <1>2, <2>2, PlanStays
  <2>6. b.plot.crop # NoCrop => OnCourse(b)
    <3>1. /\ b.n = a.n + 1
          /\ b.plot.crop # NoCrop => b.plot.crop = P.crop /\ b.plot.planted = RipeAt(f, a.plot)
      BY <1>2, <2>1, <2>4, CycleIs
    <3>2. (a.n + 1) * g = a.n * g + g
      BY <2>1, <2>3, Distribute
    <3>3. a.n * g \in Nat
      BY <2>1, <2>3, Product
    <3> HIDE DEF b, g
    <3>4. b.n * g = a.n * g + g
      BY <3>1, <3>2
    <3>5. RipeAt(f, a.plot) = (P.planted + a.n * g) + g
      BY <2>1, <2>2, <2>3 DEF g
    <3> QED
      BY <1>0, <2>3, <3>1, <3>3, <3>4, <3>5
  <2>7. OnCourse(d)
    <3>1. CASE d = a
      BY <2>2, <3>1
    <3>2. CASE d # a
      <4>1. PICK n \in Nat \ {0} : /\ d.n = a.n + n
                                   /\ d.plot = [a.plot EXCEPT !.planted = @ + n * g]
        BY <1>2, <2>2, <2>1, <3>2, BatchIs
      <4>2. (a.n + n) * g = a.n * g + n * g
        BY <2>1, <2>3, Distribute
      <4>3. a.n * g \in Nat /\ n * g \in Nat
        BY <2>1, <2>3, Product
      <4> HIDE DEF d, g
      <4>4. d.plot.crop = a.plot.crop /\ d.plot.planted = a.plot.planted + n * g
        BY <2>1, <4>1 DEF PlotSet
      <4>5. d.n * g = a.n * g + n * g
        BY <4>1, <4>2
      <4>6. d.plot.planted = P.planted + d.n * g
        BY <1>0, <2>3, <4>3, <4>4, <4>5
      <4> QED
        BY <2>2, <4>4, <4>6
    <3> QED
      BY <3>1, <3>2
  <2> HIDE DEF b, d
  <2>8. b \in S /\ d \in S
    BY <2>5, <2>6, <2>7
  <2> QED
    BY <2>8 DEF b, d
<1> HIDE DEF S
<1>3. S \in SUBSET Turning
  BY DEF S
<1>4. Settle(f, to, start) \in S
  BY <1>1, <1>2, <1>3, SettleKeeps
<1> QED
  BY <1>4 DEF S

(* The loop stops early only when nothing is ripe, and the batch leaves    *)
(* nothing: what is ripe afterwards is the rest of BatchCap turns.         *)
LEMMA SettleLeaves ==
    ASSUME NEW f, NEW to \in Times, NEW start \in Turning, start.n = 0,
           start.plot.autoHarvest, Ripe(f, Settle(f, to, start).plot, to)
    PROVE  Settle(f, to, start).n = BatchCap
<1> DEFINE t == Turns(f, to, start)
           a == t[BatchCap]
           T == {k \in 0 .. BatchCap : Ripe(f, t[k].plot, to) => t[k].n = k}
<1>1. /\ t \in [0 .. BatchCap -> Turning] /\ t[0] = start
      /\ \A k \in 1 .. BatchCap : t[k] = Turn(f, to, t[k - 1])
  <2>1. \A b \in Turning : Turn(f, to, b) \in Turning
    BY CycleIs DEF Turn
  <2> QED
    BY <2>1, TurnsRun
<1>2. BatchCap \in Nat
  BY ClockAssumption
<1> HIDE DEF t
<1>3. 0 \in T
  BY <1>1, <1>2
<1>4. ASSUME NEW k \in 0 .. BatchCap - 1, k \in T PROVE k + 1 \in T
  <2>1. k + 1 \in 0 .. BatchCap /\ t[k] \in Turning /\ t[k + 1] = Turn(f, to, t[k])
    BY <1>1, <1>2
  <2>2. CASE Ripe(f, t[k].plot, to)
    BY <1>4, <2>1, <2>2, CycleIs DEF Turn
  <2>3. CASE ~Ripe(f, t[k].plot, to)
    BY <2>1, <2>3 DEF Turn
  <2> QED
    BY <2>2, <2>3
<1> HIDE DEF T
<1>5. \A k \in 0 .. BatchCap : k \in T
  BY <1>2, <1>3, <1>4, UpTo
<1>6. a \in Turning /\ (Ripe(f, a.plot, to) => a.n = BatchCap)
  BY <1>1, <1>2, <1>5 DEF T
<1>7. Settle(f, to, start) = IF Ripe(f, a.plot, to) THEN Batch(f, to, a) ELSE a
  BY DEF Settle, t
<1> HIDE DEF a
<1>8. CASE ~Ripe(f, a.plot, to)
  BY <1>7, <1>8
<1>9. CASE Ripe(f, a.plot, to)
  <2> DEFINE d == Batch(f, to, a)
  <2>1. CASE d = a
    BY <1>6, <1>7, <1>9, <2>1
  <2>2. CASE d # a
    <3>1. PICK n \in Nat \ {0} :
             /\ d \in Turning /\ d.plot = [a.plot EXCEPT !.planted = @ + n * Grow(f, a.plot.crop)]
             /\ to < d.plot.planted + Grow(f, a.plot.crop)
      BY <1>6, <1>9, <2>2, BatchIs
    <3>2. d.plot.crop = a.plot.crop
      BY <1>6, <3>1 DEF Turning, PlotSet
    <3>3. Ripe(f, d.plot, to) /\ d.plot \in PlotSet
      BY <1>7, <1>9, <3>1 DEF Turning
    <3> HIDE DEF d
    <3>4. d.plot.planted + Grow(f, a.plot.crop) <= to
      BY <3>2, <3>3, RipeCrop
    <3>5. d.plot.planted \in Int /\ Grow(f, a.plot.crop) \in Int /\ to \in Int
      BY <3>2, <3>3, RipeCrop, ClockAssumption DEF PlotSet, Times
    <3> QED
      BY <3>1, <3>4, <3>5
  <2> QED
    BY <2>1, <2>2
<1> QED
  BY <1>8, <1>9

LEMMA ShortfallIs ==
    ASSUME NEW plot \in PlotSet
    PROVE  /\ Shortfall(plot) \in Nat
           /\ (plot.autoSow /\ plot.crop # NoCrop) =>
                 Shortfall(plot) = IF Seed[SowCrop(plot)] >= Sell[plot.crop]
                                   THEN Seed[SowCrop(plot)] - Sell[plot.crop] ELSE 0
<1>1. CASE plot.autoSow /\ plot.crop # NoCrop
  <2>1. plot.crop \in Crops /\ SowCrop(plot) \in Crops
    BY <1>1 DEF PlotSet, MaybeCrop, SowCrop
  <2>2. Seed[SowCrop(plot)] \in Nat /\ Sell[plot.crop] \in Nat
    BY <2>1, CropNumbers
  <2> DEFINE lack == Seed[SowCrop(plot)] - Sell[plot.crop]
  <2>3. Shortfall(plot) = Max({0, lack})
    BY <1>1 DEF Shortfall
  <2>4. lack \in Int /\ (lack >= 0 <=> Seed[SowCrop(plot)] >= Sell[plot.crop])
    BY <2>2
  <2> HIDE DEF lack
  <2>5. Max({0, lack}) = IF 0 >= lack THEN 0 ELSE lack
    BY <2>4, MaxOfTwo
  <2>6. Shortfall(plot) = IF lack >= 0 THEN lack ELSE 0
    BY <2>3, <2>4, <2>5
  <2> QED
    BY <2>4, <2>6 DEF lack
<1>2. CASE ~(plot.autoSow /\ plot.crop # NoCrop)
  BY <1>2 DEF Shortfall
<1> QED
  BY <1>1, <1>2

(* A plot that sows for itself and pays its way is sown when the wallet    *)
(* covers its first turn, which is all that it takes from the wallet.      *)
LEMMA SettlePays ==
    ASSUME NEW f, NEW to \in Times, NEW start \in Turning,
           start.plot.autoSow, start.plot.crop # NoCrop,
           Sell[SowCrop(start.plot)] > Seed[SowCrop(start.plot)],
           SowCrop(start.plot) \notin Festival,
           start.coins >= Shortfall(start.plot)
    PROVE  LET a == Settle(f, to, start)
           IN  a.plot.crop # NoCrop /\ a.coins >= start.coins - Shortfall(start.plot)
<1> DEFINE P == start.plot
           c == SowCrop(P)
           lack == Shortfall(P)
           S == {a \in Turning : /\ SamePlan(a, P)
                                 /\ \/ a.plot.crop = P.crop /\ a.coins >= start.coins
                                    \/ a.plot.crop = c /\ a.coins >= start.coins - lack}
<1>1. /\ P \in PlotSet /\ P.crop \in Crops /\ c \in Crops /\ c # NoCrop /\ start.coins \in Nat
      /\ Seed[c] \in Nat /\ Sell[c] \in Nat /\ Sell[P.crop] \in Nat /\ lack \in Nat
  <2>1. P \in PlotSet /\ start.coins \in Nat
    BY DEF Turning
  <2>2. P.crop \in Crops /\ c \in Crops
    BY <2>1 DEF PlotSet, MaybeCrop, SowCrop
  <2> QED
    BY <2>1, <2>2, CropNumbers, ShortfallIs
<1>2. lack >= Seed[c] - Sell[P.crop]
  BY <1>1, ShortfallIs
<1>3. start \in S
  <2>1. SamePlan(start, P)
    BY DEF SamePlan
  <2>2. start.coins >= start.coins
    BY <1>1
  <2> HIDE DEF c, lack
  <2> QED
    BY <2>1, <2>2
<1>4. ASSUME NEW a \in S, Ripe(f, a.plot, to)
      PROVE  Cycle(f, to, a) \in S /\ Batch(f, to, a) \in S
  <2> DEFINE b == Cycle(f, to, a)
             d == Batch(f, to, a)
  <2>1. /\ a \in Turning /\ a.coins \in Nat /\ a.plot \in PlotSet /\ a.plot.crop \in Crops
        /\ SamePlan(a, P)
    BY <1>4, RipeCrop DEF Turning
  <2>2. SowCrop(a.plot) = c
    BY <1>4, <2>1 DEF SowCrop, SamePlan
  <2>3. Sell[a.plot.crop] \in Nat
    BY <2>1, CropNumbers
  <2>4. b \in Turning /\ SamePlan(b, P) /\ d \in Turning /\ SamePlan(d, P)
    BY <1>4, <2>1, PlanStays
  <2>5. (a.coins + Sell[a.plot.crop]) - Seed[c] >= start.coins - lack
        /\ a.coins + Sell[a.plot.crop] >= Seed[c]
    <3>1. CASE a.plot.crop = P.crop /\ a.coins >= start.coins
      BY <1>1, <1>2, <2>1, <3>1
    <3>2. CASE a.plot.crop = c /\ a.coins >= start.coins - lack
      BY <1>1, <2>1, <3>2
    <3> QED
      BY <1>4, <3>1, <3>2
  <2>6. b.plot.crop = c /\ b.coins >= start.coins - lack
    <3>1. a.plot.autoSow /\ MaySow(c, a.coins + Sell[a.plot.crop], to)
      BY <2>1, <2>5 DEF SamePlan, MaySow, Plantable
    <3>2. b.plot.crop = c /\ b.coins = (a.coins + Sell[a.plot.crop]) - Seed[c]
      BY <1>4, <2>1, <2>2, <3>1, CycleIs
    <3> HIDE DEF b, c, lack
    <3> QED
      BY <2>5, <3>2
  <2>7. d \in S
    <3>1. CASE d = a
      BY <3>1
    <3>2. CASE d # a
      <4>1. PICK n \in Nat \ {0} :
               /\ d.plot = [a.plot EXCEPT !.planted = @ + n * Grow(f, a.plot.crop)]
               /\ d.coins = a.coins + n * (Sell[a.plot.crop] - Seed[a.plot.crop])
               /\ Sell[a.plot.crop] > Seed[a.plot.crop]
        BY <1>4, <2>1, <3>2, BatchIs
      <4>2. Sell[a.plot.crop] - Seed[a.plot.crop] \in Nat
        BY <2>1, <4>1, CropNumbers
      <4> DEFINE gain == n * (Sell[a.plot.crop] - Seed[a.plot.crop])
      <4>3. gain \in Nat
        BY <4>2, Product
      <4> HIDE DEF gain
      <4>4. d.coins = a.coins + gain
        BY <4>1 DEF gain
      <4> HIDE DEF d
      <4>5. d.plot.crop = a.plot.crop
        BY <2>1, <4>1 DEF PlotSet
      <4>6. d.coins >= a.coins /\ d.coins \in Nat
        BY <2>1, <4>3, <4>4
      <4> QED
        BY <1>1, <1>4, <2>1, <2>4, <4>5, <4>6
    <3> QED
      BY <3>1, <3>2
  <2> HIDE DEF b, d
  <2>8. b \in S
    BY <2>4, <2>6
  <2> QED
    BY <2>7, <2>8 DEF b, d
<1> HIDE DEF S
<1>5. S \in SUBSET Turning
  BY DEF S
<1>6. Settle(f, to, start) \in S
  BY <1>3, <1>4, <1>5, SettleKeeps
<1> DEFINE z == Settle(f, to, start)
<1>7. /\ z.coins \in Nat
      /\ (z.plot.crop = P.crop /\ z.coins >= start.coins) \/ (z.plot.crop = c /\ z.coins >= start.coins - lack)
  BY <1>6 DEF S, Turning
<1> HIDE DEF z, c, lack
<1>8. z.plot.crop # NoCrop /\ z.coins >= start.coins - lack
  BY <1>1, <1>7, CropNumbers
<1> QED
  BY <1>8 DEF z, lack

(* Any other plot only adds to the wallet.                                 *)
LEMMA SettleEarns ==
    ASSUME NEW f, NEW to \in Times, NEW start \in Turning,
           ~(start.plot.autoSow /\ start.plot.crop # NoCrop)
    PROVE  Settle(f, to, start).coins >= start.coins
<1> DEFINE S == {a \in Turning : /\ a.coins >= start.coins
                                 /\ ~(a.plot.autoSow /\ a.plot.crop # NoCrop)}
<1>1. start \in S
  BY DEF Turning
<1>2. ASSUME NEW a \in S, Ripe(f, a.plot, to)
      PROVE  Cycle(f, to, a) \in S /\ Batch(f, to, a) \in S
  <2> DEFINE b == Cycle(f, to, a)
             d == Batch(f, to, a)
  <2>1. /\ a \in Turning /\ a.coins \in Nat /\ a.plot \in PlotSet /\ a.plot.crop \in Crops
        /\ Sell[a.plot.crop] \in Nat /\ start.coins \in Nat
        /\ a.coins >= start.coins /\ ~a.plot.autoSow
    BY <1>2, RipeCrop, CropNumbers DEF Turning, Ripe
  <2>2. /\ b \in Turning /\ b.coins = a.coins + Sell[a.plot.crop] /\ ~b.plot.autoSow
    BY <1>2, <2>1, CycleIs
  <2>3. d \in S
    <3>1. CASE d = a
      BY <3>1
    <3>2. CASE d # a
      <4>1. PICK n \in Nat \ {0} :
               /\ d \in Turning
               /\ d.plot = [a.plot EXCEPT !.planted = @ + n * Grow(f, a.plot.crop)]
               /\ d.coins = a.coins + n * (Sell[a.plot.crop] - Seed[a.plot.crop])
               /\ Sell[a.plot.crop] > Seed[a.plot.crop]
        BY <1>2, <2>1, <3>2, BatchIs
      <4>2. Sell[a.plot.crop] - Seed[a.plot.crop] \in Nat
        BY <2>1, <4>1, CropNumbers
      <4> DEFINE gain == n * (Sell[a.plot.crop] - Seed[a.plot.crop])
      <4>3. gain \in Nat
        BY <4>2, Product
      <4> HIDE DEF gain
      <4>4. d.coins = a.coins + gain
        BY <4>1 DEF gain
      <4> HIDE DEF d
      <4>5. d.plot.autoSow = a.plot.autoSow
        BY <2>1, <4>1 DEF PlotSet
      <4>6. ~d.plot.autoSow
        BY <2>1, <4>5
      <4>7. d.coins >= start.coins
        BY <2>1, <4>3, <4>4
      <4> QED
        BY <4>1, <4>6, <4>7
    <3> QED
      BY <3>1, <3>2
  <2> HIDE DEF b, d
  <2>4. b \in S
    BY <2>1, <2>2
  <2> QED
    BY <2>3, <2>4 DEF b, d
<1> HIDE DEF S
<1>3. S \in SUBSET Turning
  BY DEF S
<1>4. Settle(f, to, start) \in S
  BY <1>1, <1>2, <1>3, SettleKeeps
<1> QED
  BY <1>4 DEF S

-----------------------------------------------------------------------------
(* The plots, one after the other.                                         *)

Under == [farm : FarmSet, gathered : [Plots -> Nat]]

Start(plot, coins) == [plot |-> plot, coins |-> coins, n |-> 0]

SameRest(g, f) ==
    /\ g.eventEnds = f.eventEnds /\ g.last = f.last
    /\ g.pouches = f.pouches /\ g.clock = f.clock

LEMMA SettledIs ==
    ASSUME NEW f \in FarmSet, NEW to \in Times, NEW done \in Under, NEW p \in Plots
    PROVE  LET a == Settle(f, to, Start(f.plots[p], done.farm.coins))
               d == Settled(f, to, done, p)
           IN  /\ d \in Under /\ a \in Turning /\ SamePlan(a, f.plots[p])
               /\ d.farm.plots = [done.farm.plots EXCEPT ![p] = a.plot]
               /\ d.farm.coins = a.coins /\ d.farm.updated = done.farm.updated
               /\ SameRest(d.farm, done.farm)
               /\ d.gathered = [done.gathered EXCEPT ![p] = a.n]
<1> DEFINE start == Start(f.plots[p], done.farm.coins)
           a == Settle(f, to, start)
           d == Settled(f, to, done, p)
<1>1. done.farm \in FarmSet /\ done.gathered \in [Plots -> Nat]
  BY DEF Under
<1>2. start \in Turning /\ start.plot = f.plots[p]
  <2>1. f.plots[p] \in PlotSet /\ done.farm.coins \in Nat
    BY <1>1 DEF FarmSet
  <2> QED
    BY <2>1 DEF Start, Turning
<1>3. a \in Turning /\ SamePlan(a, f.plots[p])
  BY <1>2, SettleType
<1>4. d = [farm     |-> [done.farm EXCEPT !.plots[p] = a.plot, !.coins = a.coins],
           gathered |-> [done.gathered EXCEPT ![p] = a.n]]
  BY DEF Settled, Start
<1> HIDE DEF a, d, start
<1>5. a.plot \in PlotSet /\ a.coins \in Nat /\ a.n \in Nat
  BY <1>3 DEF Turning
<1> DEFINE g == [done.farm EXCEPT !.plots[p] = a.plot, !.coins = a.coins]
<1>6. g = [done.farm EXCEPT !.plots = [done.farm.plots EXCEPT ![p] = a.plot], !.coins = a.coins]
  BY <1>1 DEF FarmSet
<1>7. done.farm.plots \in [Plots -> PlotSet]
  BY <1>1 DEF FarmSet
<1>8. [done.farm.plots EXCEPT ![p] = a.plot] \in [Plots -> PlotSet]
  BY <1>5, <1>7
<1>9. [done.gathered EXCEPT ![p] = a.n] \in [Plots -> Nat]
  BY <1>1, <1>5
<1> HIDE DEF g
<1>10. /\ g.plots = [done.farm.plots EXCEPT ![p] = a.plot] /\ g.coins = a.coins
       /\ g.updated = done.farm.updated /\ SameRest(g, done.farm)
  BY <1>1, <1>6 DEF FarmSet, SameRest
<1>11. g \in FarmSet
  BY <1>1, <1>5, <1>6, <1>8 DEF FarmSet
<1>12. d.farm = g /\ d.gathered = [done.gathered EXCEPT ![p] = a.n] /\ d \in Under
  BY <1>4, <1>9, <1>11 DEF Under, g
<1> QED
  BY <1>3, <1>10, <1>12 DEF a, d, start

LEMMA RoundRun ==
    ASSUME NEW f \in FarmSet, NEW to \in Times
    PROVE  /\ Round(f, to) \in [0 .. NPlots -> Under]
           /\ Round(f, to)[0] = [farm |-> [f EXCEPT !.updated = to], gathered |-> NoHarvests]
           /\ \A p \in Plots : Round(f, to)[p] = Settled(f, to, Round(f, to)[p - 1], p)
<1> DEFINE first == [farm |-> [f EXCEPT !.updated = to], gathered |-> NoHarvests]
           Body(g) == [p \in 0 .. NPlots |-> IF p = 0 THEN first ELSE Settled(f, to, g[p - 1], p)]
           step == [x \in Under \X (1 .. NPlots) |-> Settled(f, to, x[1], x[2])]
<1>1. NPlots \in Nat /\ Plots = 1 .. NPlots
  BY ClockAssumption DEF Plots
<1>2. first \in Under
  BY DEF Under, FarmSet, NoHarvests
<1>3. step \in StepsOn(Under, NPlots)
  BY <1>1, SettledIs DEF StepsOn
<1>4. \A x \in Under, p \in 1 .. NPlots : step[<<x, p>>] = Settled(f, to, x, p)
  OBVIOUS
<1> HIDE DEF step, first
<1>5. PICK g : Runs(g, Under, NPlots, first, step)
  BY <1>1, <1>2, <1>3, RunExists
<1>6. ASSUME NEW p \in 1 .. NPlots PROVE g[p] = Settled(f, to, g[p - 1], p)
  <2>1. g[p - 1] \in Under
    BY <1>1, <1>5 DEF Runs
  <2>2. g[p] = step[<<g[p - 1], p>>]
    BY <1>5 DEF Runs
  <2> QED
    BY <1>4, <2>1, <2>2
<1>7. g = Body(g)
  BY <1>5, <1>6 DEF Runs
<1>8. Round(f, to) = CHOOSE h : h = Body(h)
  BY DEF Round, first
<1> DEFINE r == Round(f, to)
<1>9. r = Body(r)
  BY <1>7, <1>8
<1> HIDE DEF r
<1>10. r[0] = first /\ \A p \in 1 .. NPlots : r[p] = Settled(f, to, r[p - 1], p)
  BY <1>1, <1>9
<1> DEFINE In == {p \in 0 .. NPlots : r[p] \in Under}
<1>11. 0 \in In
  BY <1>1, <1>2, <1>10
<1>12. ASSUME NEW p \in 0 .. NPlots - 1, p \in In PROVE p + 1 \in In
  <2>1. p + 1 \in 1 .. NPlots /\ (p + 1) - 1 = p
    BY <1>1
  <2>2. r[p + 1] = Settled(f, to, r[p], p + 1)
    BY <1>10, <2>1
  <2>3. r[p] \in Under /\ p + 1 \in Plots
    BY <1>1, <1>12, <2>1
  <2>4. Settled(f, to, r[p], p + 1) \in Under
    BY <2>3, SettledIs
  <2> QED
    BY <1>1, <2>1, <2>2, <2>4
<1> HIDE DEF In
<1>13. \A p \in 0 .. NPlots : p \in In
  BY <1>1, <1>11, <1>12, UpTo
<1>14. r \in [0 .. NPlots -> Under]
  BY <1>9, <1>13 DEF In
<1> QED
  BY <1>1, <1>10, <1>14 DEF r, first

(* Every plot is settled once, from what it was, and the rest is untouched. *)
LEMMA RoundIs ==
    ASSUME NEW f \in FarmSet, NEW to \in Times
    PROVE  LET r == Round(f, to)
               end == r[NPlots]
           IN  /\ end \in Under /\ end.farm.updated = to /\ SameRest(end.farm, f)
               /\ \A p \in Plots :
                    LET a == Settle(f, to, Start(f.plots[p], r[p - 1].farm.coins))
                    IN  /\ r[p - 1] \in Under /\ Start(f.plots[p], r[p - 1].farm.coins) \in Turning
                        /\ end.farm.plots[p] = a.plot /\ end.gathered[p] = a.n
                        /\ r[p].farm.coins = a.coins
<1> DEFINE r == Round(f, to)
           end == r[NPlots]
<1>1. NPlots \in Nat /\ Plots = 1 .. NPlots
  BY ClockAssumption DEF Plots
<1>2. /\ r \in [0 .. NPlots -> Under]
      /\ r[0] = [farm |-> [f EXCEPT !.updated = to], gathered |-> NoHarvests]
      /\ \A p \in Plots : r[p] = Settled(f, to, r[p - 1], p)
  BY RoundRun
<1> HIDE DEF r
<1>3. /\ \A p \in Plots : r[p - 1] \in Under /\ r[p] \in Under
      /\ r[0].farm.updated = to /\ SameRest(r[0].farm, f) /\ end \in Under
  BY SMTT(30), <1>1, <1>2 DEF FarmSet, SameRest
<1> DEFINE a(p) == Settle(f, to, Start(f.plots[p], r[p - 1].farm.coins))
<1>4. ASSUME NEW p \in Plots
      PROVE  /\ r[p].farm.plots = [r[p - 1].farm.plots EXCEPT ![p] = a(p).plot]
             /\ r[p].farm.coins = a(p).coins /\ r[p].farm.updated = r[p - 1].farm.updated
             /\ SameRest(r[p].farm, r[p - 1].farm)
             /\ r[p].gathered = [r[p - 1].gathered EXCEPT ![p] = a(p).n]
  <2>1. r[p - 1] \in Under /\ r[p] = Settled(f, to, r[p - 1], p)
    BY <1>2, <1>3
  <2> DEFINE done == r[p - 1]
  <2> HIDE DEF done
  <2>2. done \in Under /\ r[p] = Settled(f, to, done, p) /\ a(p) = Settle(f, to, Start(f.plots[p], done.farm.coins))
    BY <2>1 DEF done
  <2> HIDE DEF a
  <2>3. /\ r[p].farm.plots = [done.farm.plots EXCEPT ![p] = a(p).plot]
        /\ r[p].farm.coins = a(p).coins /\ r[p].farm.updated = done.farm.updated
        /\ SameRest(r[p].farm, done.farm)
        /\ r[p].gathered = [done.gathered EXCEPT ![p] = a(p).n]
    BY <2>2, SettledIs
  <2> QED
    BY <2>3 DEF done
<1> HIDE DEF a
<1>5. end.farm.updated = to /\ SameRest(end.farm, f)
  <2> DEFINE T == {k \in 0 .. NPlots : r[k].farm.updated = to /\ SameRest(r[k].farm, f)}
  <2>1. 0 \in T
    BY <1>1, <1>3
  <2>2. ASSUME NEW k \in 0 .. NPlots - 1, k \in T PROVE k + 1 \in T
    <3>1. k + 1 \in Plots /\ (k + 1) - 1 = k /\ k + 1 \in 0 .. NPlots
      BY <1>1
    <3>2. r[k + 1].farm.updated = r[k].farm.updated /\ SameRest(r[k + 1].farm, r[k].farm)
      BY <1>4, <3>1
    <3> QED
      BY <2>2, <3>1, <3>2 DEF SameRest
  <2> HIDE DEF T
  <2>3. 0 .. NPlots \subseteq T
    BY <1>1, <2>1, <2>2, UpTo
  <2>4. NPlots \in T
    BY <1>1, <2>3
  <2> QED
    BY <2>4 DEF T
<1>6. ASSUME NEW p \in Plots
      PROVE  end.farm.plots[p] = a(p).plot /\ end.gathered[p] = a(p).n
  <2> DEFINE T == {k \in 0 .. NPlots : k >= p => /\ r[k].farm.plots[p] = a(p).plot
                                                 /\ r[k].gathered[p] = a(p).n}
  <2>1. 0 \in T
    BY <1>1
  <2>2. ASSUME NEW k \in 0 .. NPlots - 1, k \in T PROVE k + 1 \in T
    <3> DEFINE m == k + 1
    <3>1. m \in Plots /\ m - 1 = k /\ m \in 0 .. NPlots /\ k \in Int /\ p \in Int
      BY <1>1
    <3>2. /\ r[m].farm.plots = [r[k].farm.plots EXCEPT ![m] = a(m).plot]
          /\ r[m].gathered = [r[k].gathered EXCEPT ![m] = a(m).n]
      BY <1>4, <3>1
    <3>3. r[k].farm.plots \in [Plots -> PlotSet] /\ r[k].gathered \in [Plots -> Nat]
      <4>1. r[k] \in Under
        BY <1>1, <1>2
      <4> QED
        BY <4>1 DEF Under, FarmSet
    <3> HIDE DEF m
    <3>4. CASE m = p
      <4>1. r[m].farm.plots[p] = a(p).plot /\ r[m].gathered[p] = a(p).n
        BY <3>2, <3>3, <3>4
      <4> QED
        BY <3>1, <4>1 DEF m
    <3>5. CASE m # p
      <4>1. r[m].farm.plots[p] = r[k].farm.plots[p] /\ r[m].gathered[p] = r[k].gathered[p]
        BY <3>1, <3>2, <3>3, <3>5
      <4>2. m >= p => k >= p
        BY <3>1, <3>5 DEF m
      <4> QED
        BY <2>2, <3>1, <4>1, <4>2 DEF m
    <3> QED
      BY <3>4, <3>5
  <2> HIDE DEF T
  <2>3. 0 .. NPlots \subseteq T
    BY <1>1, <2>1, <2>2, UpTo
  <2>4. NPlots \in T
    BY <1>1, <2>3
  <2> QED
    BY <1>1, <2>4 DEF T
<1>7. ASSUME NEW p \in Plots
      PROVE  r[p - 1] \in Under /\ Start(f.plots[p], r[p - 1].farm.coins) \in Turning
  <2>1. r[p - 1] \in Under /\ f.plots[p] \in PlotSet
    BY <1>3 DEF FarmSet
  <2>2. r[p - 1].farm.coins \in Nat
    BY <2>1 DEF Under, FarmSet
  <2> QED
    BY <2>1, <2>2 DEF Start, Turning
<1> HIDE DEF end
<1>8. /\ end \in Under /\ end.farm.updated = to /\ SameRest(end.farm, f)
      /\ \A p \in Plots : /\ r[p - 1] \in Under /\ Start(f.plots[p], r[p - 1].farm.coins) \in Turning
                          /\ end.farm.plots[p] = a(p).plot /\ end.gathered[p] = a(p).n
                          /\ r[p].farm.coins = a(p).coins
  BY <1>3, <1>4, <1>5, <1>6, <1>7 DEF end
<1> QED
  BY <1>8 DEF end, r, a

-----------------------------------------------------------------------------
(* What the plots take from the wallet they share.                         *)

LEMMA SumsAre ==
    ASSUME NEW n \in Nat, NEW fn \in [1 .. n -> Nat]
    PROVE  /\ Sums(fn, n) \in [0 .. n -> Nat] /\ Sums(fn, n)[0] = 0
           /\ \A k \in 1 .. n : Sums(fn, n)[k] = Sums(fn, n)[k - 1] + fn[k]
           /\ \A k \in 0 .. n : Sums(fn, n)[k] <= Sums(fn, n)[n]
<1> DEFINE Body(g) == [k \in 0 .. n |-> IF k = 0 THEN 0 ELSE g[k - 1] + fn[k]]
           step == [x \in Nat \X (1 .. n) |-> x[1] + fn[x[2]]]
<1>1. step \in StepsOn(Nat, n)
  BY DEF StepsOn
<1>2. \A x \in Nat, k \in 1 .. n : step[<<x, k>>] = x + fn[k]
  OBVIOUS
<1> HIDE DEF step
<1>3. PICK g : Runs(g, Nat, n, 0, step)
  BY <1>1, RunExists
<1>4. ASSUME NEW k \in 1 .. n PROVE g[k] = g[k - 1] + fn[k]
  <2>1. g[k - 1] \in Nat /\ g[k] = step[<<g[k - 1], k>>]
    BY <1>3 DEF Runs
  <2> QED
    BY <1>2, <2>1
<1>5. g = Body(g)
  BY <1>3, <1>4 DEF Runs
<1>6. Sums(fn, n) = CHOOSE h : h = Body(h)
  BY DEF Sums
<1> DEFINE s == Sums(fn, n)
<1>7. s = Body(s)
  BY <1>5, <1>6
<1> HIDE DEF s
<1>8. s[0] = 0 /\ \A k \in 1 .. n : s[k] = s[k - 1] + fn[k]
  BY <1>7
<1> DEFINE In == {k \in 0 .. n : s[k] \in Nat}
<1>9. 0 \in In /\ \A k \in 0 .. n - 1 : k \in In => k + 1 \in In
  <2>1. 0 \in In
    BY <1>8
  <2>2. ASSUME NEW k \in 0 .. n - 1, k \in In PROVE k + 1 \in In
    <3>1. k + 1 \in 1 .. n /\ (k + 1) - 1 = k
      OBVIOUS
    <3>2. s[k + 1] = s[k] + fn[k + 1] /\ fn[k + 1] \in Nat
      BY <1>8, <3>1
    <3> QED
      BY <2>2, <3>1, <3>2
  <2> QED
    BY <2>1, <2>2
<1> HIDE DEF In
<1>10. \A k \in 0 .. n : k \in In
  BY <1>9, UpTo
<1>11. s \in [0 .. n -> Nat]
  BY <1>7, <1>10 DEF In
<1>12. ASSUME NEW k \in 0 .. n PROVE s[k] <= s[n]
  <2> DEFINE T == {m \in 0 .. n : m >= k => s[k] <= s[m]}
  <2>1. 0 \in T
    BY <1>11
  <2>2. ASSUME NEW m \in 0 .. n - 1, m \in T PROVE m + 1 \in T
    <3>1. m + 1 \in 1 .. n /\ (m + 1) - 1 = m
      OBVIOUS
    <3>2. s[m + 1] = s[m] + fn[m + 1] /\ fn[m + 1] \in Nat /\ s[m] \in Nat /\ s[k] \in Nat
      BY <1>8, <1>11, <3>1
    <3>3. CASE m >= k
      BY <2>2, <3>1, <3>2, <3>3
    <3>4. CASE ~(m >= k)
      <4>1. m + 1 >= k => m + 1 = k
        BY <3>4
      <4> QED
        BY <1>11, <3>1, <4>1
    <3> QED
      BY <3>3, <3>4
  <2> HIDE DEF T
  <2>3. 0 .. n \subseteq T
    BY <2>1, <2>2, UpTo
  <2>4. n \in T
    BY <2>3
  <2> QED
    BY <2>4 DEF T
<1> QED
  BY <1>8, <1>11, <1>12 DEF s

PaysItsWay(f) ==
    \A p \in Sowing(f) : LET c == SowCrop(f.plots[p])
                         IN  Sell[c] > Seed[c] /\ c \notin Festival

(* Whatever the order, each plot finds what its first turn needs.          *)
LEMMA RoundPays ==
    ASSUME NEW f \in FarmSet, NEW to \in Times,
           f.coins >= Shortfalls(f)[NPlots], PaysItsWay(f)
    PROVE  /\ \A p \in Sowing(f) : Round(f, to)[NPlots].farm.plots[p].crop # NoCrop
           /\ \A p \in Plots : Round(f, to)[p - 1].farm.coins >= Shortfall(f.plots[p])
           /\ Round(f, to)[0].farm.coins = f.coins
<1> DEFINE r == Round(f, to)
           fn == [p \in Plots |-> Shortfall(f.plots[p])]
           s == Shortfalls(f)
           start(p) == Start(f.plots[p], r[p - 1].farm.coins)
           a(p) == Settle(f, to, start(p))
<1>1. NPlots \in Nat /\ Plots = 1 .. NPlots
  BY ClockAssumption DEF Plots
<1>2. \A p \in Plots : f.plots[p] \in PlotSet /\ Shortfall(f.plots[p]) \in Nat
  BY ShortfallIs DEF FarmSet
<1>3. fn \in [1 .. NPlots -> Nat]
  BY <1>1, <1>2
<1>4. s = Sums(fn, NPlots)
  BY DEF Shortfalls
<1> HIDE DEF fn, s
<1>5. /\ s \in [0 .. NPlots -> Nat] /\ s[0] = 0
      /\ \A p \in Plots : s[p] = s[p - 1] + fn[p]
      /\ \A p \in 0 .. NPlots : s[p] <= s[NPlots]
  BY <1>1, <1>3, <1>4, SumsAre
<1>6. \A p \in Plots : fn[p] = Shortfall(f.plots[p]) /\ fn[p] \in Nat
  BY <1>2 DEF fn
<1>7. f.coins \in Nat /\ f.coins >= s[NPlots]
  BY DEF FarmSet, s
<1>8. r[0].farm.coins = f.coins
  <2>1. r[0] = [farm |-> [f EXCEPT !.updated = to], gathered |-> NoHarvests]
    BY RoundRun
  <2> HIDE DEF r
  <2> QED
    BY SMTT(30), <2>1 DEF FarmSet
<1>9. \A p \in Plots : /\ start(p) \in Turning /\ r[p - 1] \in Under
                       /\ r[NPlots].farm.plots[p] = a(p).plot /\ r[p].farm.coins = a(p).coins
  BY RoundIs
<1>10. \A p \in Plots : start(p).plot = f.plots[p] /\ start(p).coins = r[p - 1].farm.coins
  BY DEF Start
<1>11. \A p \in Plots : r[p - 1].farm.coins \in Nat /\ r[p].farm.coins \in Nat
  <2>1. \A p \in Plots : r[p] \in Under
    <3>1. r \in [0 .. NPlots -> Under]
      BY RoundRun
    <3> HIDE DEF r
    <3> QED
      BY <1>1, <3>1
  <2> QED
    BY <1>9, <2>1 DEF Under, FarmSet
<1> HIDE DEF r, start, a
<1>12. ASSUME NEW p \in Plots, r[p - 1].farm.coins >= f.coins - s[p - 1]
       PROVE  /\ r[p].farm.coins >= f.coins - s[p]
              /\ p \in Sowing(f) => r[NPlots].farm.plots[p].crop # NoCrop
  <2>1. /\ p - 1 \in 0 .. NPlots /\ p \in 0 .. NPlots /\ s[p] \in Nat /\ s[p - 1] \in Nat
        /\ s[NPlots] \in Nat /\ s[p] <= s[NPlots] /\ s[p] = s[p - 1] + fn[p] /\ fn[p] \in Nat
    BY <1>1, <1>5, <1>6
  <2>2. start(p).coins >= fn[p]
    BY <1>7, <1>10, <1>11, <1>12, <2>1
  <2>3. CASE p \in Sowing(f)
    <3>1. /\ start(p).plot.autoSow /\ start(p).plot.crop # NoCrop
          /\ Sell[SowCrop(start(p).plot)] > Seed[SowCrop(start(p).plot)]
          /\ SowCrop(start(p).plot) \notin Festival
      BY <1>10, <2>3 DEF Sowing, PaysItsWay
    <3>2. start(p).coins >= Shortfall(start(p).plot) /\ fn[p] = Shortfall(start(p).plot)
      BY <1>6, <1>10, <2>2
    <3>3. start(p) \in Turning
      BY <1>9
    <3>4. a(p).plot.crop # NoCrop /\ a(p).coins >= start(p).coins - Shortfall(start(p).plot)
      BY <3>1, <3>2, <3>3, SettlePays DEF a
    <3>5. r[p].farm.coins >= r[p - 1].farm.coins - fn[p]
      BY <1>9, <1>10, <3>2, <3>4
    <3>6. r[p].farm.coins >= f.coins - s[p]
      BY <1>7, <1>11, <1>12, <2>1, <3>5
    <3> QED
      BY <1>9, <3>4, <3>6
  <2>4. CASE p \notin Sowing(f)
    <3>1. ~(start(p).plot.autoSow /\ start(p).plot.crop # NoCrop) /\ start(p) \in Turning
      BY <1>9, <1>10, <2>4 DEF Sowing
    <3>2. a(p).coins >= start(p).coins
      BY <3>1, SettleEarns DEF a
    <3>3. r[p].farm.coins >= r[p - 1].farm.coins
      BY <1>9, <1>10, <3>2
    <3>4. r[p].farm.coins >= f.coins - s[p]
      BY <1>7, <1>11, <1>12, <2>1, <3>3
    <3> QED
      BY <2>4, <3>4
  <2> QED
    BY <2>3, <2>4
<1> DEFINE T == {k \in 0 .. NPlots : r[k].farm.coins >= f.coins - s[k]}
<1>13. 0 \in T
  BY <1>1, <1>5, <1>7, <1>8
<1>14. ASSUME NEW k \in 0 .. NPlots - 1, k \in T PROVE k + 1 \in T
  <2>1. k + 1 \in Plots /\ (k + 1) - 1 = k /\ k + 1 \in 0 .. NPlots
    BY <1>1
  <2> QED
    BY <1>12, <1>14, <2>1
<1> HIDE DEF T
<1>15. \A k \in 0 .. NPlots : k \in T
  BY <1>1, <1>13, <1>14, UpTo
<1>16. ASSUME NEW p \in Sowing(f) PROVE r[NPlots].farm.plots[p].crop # NoCrop
  <2>1. p \in Plots /\ p - 1 \in 0 .. NPlots
    BY <1>1 DEF Sowing
  <2>2. r[p - 1].farm.coins >= f.coins - s[p - 1]
    BY <1>15, <2>1 DEF T
  <2> QED
    BY <1>12, <2>1, <2>2
<1>17. ASSUME NEW p \in Plots PROVE r[p - 1].farm.coins >= Shortfall(f.plots[p])
  <2>1. /\ p - 1 \in 0 .. NPlots /\ p \in 0 .. NPlots /\ s[p] \in Nat /\ s[p - 1] \in Nat
        /\ s[NPlots] \in Nat /\ s[p] <= s[NPlots] /\ s[p] = s[p - 1] + fn[p] /\ fn[p] \in Nat
    BY <1>1, <1>5, <1>6
  <2>2. r[p - 1].farm.coins >= f.coins - s[p - 1]
    BY <1>15, <2>1 DEF T
  <2> QED
    BY <1>6, <1>7, <1>11, <2>1, <2>2
<1> QED
  BY <1>8, <1>16, <1>17 DEF r

-----------------------------------------------------------------------------
(* The whole of Advance.                                                   *)

LEMMA TargetIsPositive == ClockTarget \in Nat \ {0}
<1>1. DropInterval \in Nat \ {0} /\ OfflineSlowdown \in Nat \ {0}
  BY ScarecrowAssumption
<1> QED
  BY <1>1, Z3 DEF ClockTarget

LEMMA FoundIs ==
    ASSUME NEW f \in FarmSet, NEW to \in Times, to >= f.updated, NEW begins \in BOOLEAN
    PROVE  LET g == Found(f, to, begins)
           IN  /\ g \in FarmSet /\ g.plots = f.plots /\ g.coins = f.coins
               /\ g.updated = f.updated /\ g.last = f.last
              /\ g.eventEnds = EventAt(f, to, begins)
<1> DEFINE g == [f EXCEPT !.eventEnds = EventAt(f, to, begins)]
           elapsed == to - g.updated
           pace == IF elapsed <= OnlineThreshold THEN OfflineSlowdown ELSE 1
           clock == g.clock + elapsed * pace
           drops == clock \div ClockTarget
           pouches == [i \in DOMAIN g.pouches |->
                          g.pouches[i] + drops * DropCoins[Len(g.pouches)]]
<1>1. EventAt(f, to, begins) \in 0 .. Horizon + EventLasts
  BY ClockAssumption DEF EventAt, FarmSet, Times
<1>2. /\ g \in FarmSet /\ g.plots = f.plots /\ g.coins = f.coins
      /\ g.updated = f.updated /\ g.last = f.last /\ g.eventEnds = EventAt(f, to, begins)
  BY <1>1 DEF FarmSet
<1>3. Found(f, to, begins) = WithDrops(g, to)
  BY DEF Found
<1> HIDE DEF g
<1>4. CASE g.pouches = <<>>
  BY <1>2, <1>3, <1>4 DEF WithDrops
<1>5. CASE g.pouches # <<>>
  <2>1. /\ g.pouches \in Seq(Nat) /\ Len(g.pouches) \in 1 .. Len(CrowPrice)
        /\ g.clock \in Nat /\ elapsed \in Nat /\ pace \in Nat
    <3>1. g.pouches \in Seq(Nat) /\ Len(g.pouches) <= Len(CrowPrice) /\ g.clock \in Nat
          /\ g.updated = f.updated /\ g.updated \in Nat
      BY <1>2, ClockAssumption DEF FarmSet, Times
    <3>2. Len(g.pouches) \in Nat \ {0} /\ Len(CrowPrice) \in Nat
      BY <1>5, <3>1, ScarecrowAssumption
    <3>3. elapsed \in Nat /\ pace \in Nat
      BY <3>1, ScarecrowAssumption, ClockAssumption DEF Times
    <3> QED
      BY <3>1, <3>2, <3>3
  <2>2. elapsed * pace \in Nat
    BY <2>1, Product
  <2> HIDE DEF elapsed, pace
  <2>3. clock \in Nat
    BY <2>1, <2>2
  <2> HIDE DEF clock
  <2>4. drops \in Nat /\ clock % ClockTarget \in 0 .. ClockTarget - 1
    BY <2>3, Quotient, TargetIsPositive
  <2> HIDE DEF drops
  <2>5. DropCoins[Len(g.pouches)] \in Nat
    BY <2>1, ScarecrowAssumption
  <2>6. drops * DropCoins[Len(g.pouches)] \in Nat
    BY <2>4, <2>5, Product
  <2>7. pouches \in Seq(Nat) /\ Len(pouches) = Len(g.pouches)
    <3> DEFINE more == drops * DropCoins[Len(g.pouches)]
    <3> HIDE DEF more
    <3>1. pouches = [i \in 1 .. Len(g.pouches) |-> g.pouches[i] + more]
      BY <2>1 DEF more
    <3>2. \A i \in 1 .. Len(g.pouches) : g.pouches[i] + more \in Nat
      BY <2>1, <2>6 DEF more
    <3> HIDE DEF pouches
    <3> QED
      BY <2>1, <3>1, <3>2
  <2>8. WithDrops(g, to) = [g EXCEPT !.clock = clock % ClockTarget, !.pouches = pouches]
    BY <1>2, <1>5 DEF WithDrops, FarmSet, drops, clock, elapsed, pace
  <2> HIDE DEF pouches
  <2>9. pouches \in {s \in Seq(Nat) : Len(s) <= Len(CrowPrice)}
    BY <2>1, <2>7
  <2> DEFINE w == [g EXCEPT !.clock = clock % ClockTarget, !.pouches = pouches]
  <2>10. /\ w \in FarmSet /\ w.plots = g.plots /\ w.coins = g.coins
         /\ w.updated = g.updated /\ w.last = g.last /\ w.eventEnds = g.eventEnds
    BY <1>2, <2>4, <2>9 DEF FarmSet
  <2> HIDE DEF w
  <2> QED
    BY <1>2, <1>3, <2>8, <2>10 DEF w
<1> QED
  BY <1>4, <1>5

LEMMA NoHarvestsType == NoHarvests \in [Plots -> Nat]
  BY DEF NoHarvests

LEMMA AdvancedType ==
    ASSUME NEW f \in FarmSet, NEW to \in Times, to >= f.updated, NEW begins \in BOOLEAN
    PROVE  Advanced(f, to, begins) \in Under /\ Advanced(f, to, begins).farm.updated = to
<1>1. CASE to <= f.updated
  <2>1. f.updated = to
    BY <1>1, ClockAssumption DEF FarmSet, Times
  <2> QED
    BY <1>1, <2>1, NoHarvestsType DEF Advanced, Under
<1>2. CASE ~(to <= f.updated)
  <2> DEFINE g == Found(f, to, begins)
  <2>1. g \in FarmSet
    BY FoundIs
  <2>2. Advanced(f, to, begins) = Round(g, to)[NPlots]
    BY <1>2 DEF Advanced
  <2> HIDE DEF g
  <2> QED
    BY <2>1, <2>2, RoundIs
<1> QED
  BY <1>1, <1>2

(* Growth depends on a farm through its event alone.                       *)
LEMMA SameGrowth ==
    ASSUME NEW f, NEW g, g.eventEnds = f.eventEnds, NEW plot, NEW to, NEW c
    PROVE  Grow(g, c) = Grow(f, c) /\ (Ripe(g, plot, to) <=> Ripe(f, plot, to))
<1>1. \A d : Grow(g, d) = Grow(f, d)
  BY DEF Grow
<1> QED
  BY <1>1 DEF Ripe, RipeAt

LEMMA AdvancedCursor ==
    ASSUME NEW f \in FarmSet, NEW to \in Times, to >= f.updated, NEW begins \in BOOLEAN,
           NEW p \in Plots, Advanced(f, to, begins).farm.plots[p].crop # NoCrop
    PROVE  LET a == Advanced(f, to, begins)
               old == f.plots[p]
               new == a.farm.plots[p]
           IN  /\ (new.crop = old.crop /\ SowCrop(old) = old.crop)
                     => new.planted = old.planted + a.gathered[p] * Grow(a.farm, new.crop)
               /\ (new.autoHarvest /\ to > f.updated /\ Ripe(a.farm, new, to))
                     => a.gathered[p] = BatchCap
<1> DEFINE a == Advanced(f, to, begins)
           old == f.plots[p]
           new == a.farm.plots[p]
<1>1. old \in PlotSet
  BY DEF FarmSet
<1>2. CASE to <= f.updated
  <2>1. a.farm = f /\ a.gathered[p] = 0
    BY <1>2 DEF Advanced, NoHarvests
  <2>2. ~(to > f.updated)
    BY <1>2, ClockAssumption DEF FarmSet, Times
  <2>3. new.crop \in Crops /\ new.planted = old.planted /\ old.planted \in Nat
    BY <1>1, <2>1, ClockAssumption DEF PlotSet, MaybeCrop, Times
  <2>4. Grow(a.farm, new.crop) \in Nat
    BY <2>3, GrowIsPositive
  <2>5. 0 * Grow(a.farm, new.crop) = 0
    BY <2>4, Distribute
  <2> QED
    BY <2>1, <2>2, <2>3, <2>5
<1>3. CASE ~(to <= f.updated)
  <2> DEFINE g == Found(f, to, begins)
             r == Round(g, to)
             start == Start(g.plots[p], r[p - 1].farm.coins)
             z == Settle(g, to, start)
  <2>1. g \in FarmSet /\ g.plots = f.plots
    BY FoundIs
  <2>2. a = r[NPlots]
    BY <1>3 DEF Advanced
  <2> HIDE DEF g, a
  <2>3. /\ start \in Turning /\ SameRest(a.farm, g)
        /\ new = z.plot /\ a.gathered[p] = z.n
    BY <2>1, <2>2, RoundIs
  <2>4. start.plot = old /\ start.n = 0
    BY <2>1 DEF Start
  <2> HIDE DEF start, z
  <2>5. ASSUME new.crop = old.crop, SowCrop(old) = old.crop
        PROVE  new.planted = old.planted + a.gathered[p] * Grow(a.farm, new.crop)
    <3>1. z.plot.planted = start.plot.planted + z.n * Grow(g, start.plot.crop)
      <4>1. SowCrop(start.plot) = start.plot.crop /\ z.plot.crop # NoCrop
        BY <2>3, <2>4, <2>5 DEF a
      <4> QED
        BY <2>3, <2>4, <4>1, SettleCursor DEF z
    <3>2. Grow(a.farm, new.crop) = Grow(g, old.crop)
      BY <2>3, <2>5, SameGrowth DEF SameRest
    <3> QED
      BY <2>3, <2>4, <3>1, <3>2
  <2>6. ASSUME new.autoHarvest, Ripe(a.farm, new, to) PROVE a.gathered[p] = BatchCap
    <3>1. Ripe(g, z.plot, to)
      BY <2>3, <2>6, SameGrowth DEF SameRest
    <3>2. start.plot.autoHarvest
      <4>1. SamePlan(z, start.plot)
        BY <2>3, SettleType DEF z
      <4> QED
        BY <2>3, <2>6, <4>1 DEF SamePlan
    <3>3. z.n = BatchCap
      BY <2>3, <2>4, <3>1, <3>2, SettleLeaves DEF z
    <3> QED
      BY <2>3, <3>3
  <2> QED
    BY <2>5, <2>6 DEF a
<1> QED
  BY <1>2, <1>3

LEMMA AdvancedSolvent ==
    ASSUME NEW f \in FarmSet, NEW to \in Times, to >= f.updated, NEW begins \in BOOLEAN,
           Solvent(f), NEW p \in Sowing(f)
    PROVE  Advanced(f, to, begins).farm.plots[p].crop # NoCrop
<1>1. CASE to <= f.updated
  BY <1>1 DEF Advanced, Sowing
<1>2. CASE ~(to <= f.updated)
  <2> DEFINE g == Found(f, to, begins)
  <2>1. g \in FarmSet /\ g.plots = f.plots /\ g.coins = f.coins
    BY FoundIs
  <2>2. Advanced(f, to, begins) = Round(g, to)[NPlots]
    BY <1>2 DEF Advanced
  <2> HIDE DEF g
  <2>3. Sowing(g) = Sowing(f) /\ Shortfalls(g) = Shortfalls(f)
    BY <2>1 DEF Sowing, Shortfalls
  <2>4. PaysItsWay(g) /\ g.coins >= Shortfalls(g)[NPlots]
    BY <2>1, <2>3 DEF Solvent, PaysItsWay
  <2> QED
    BY <2>1, <2>2, <2>3, <2>4, RoundPays
<1> QED
  BY <1>1, <1>2

-----------------------------------------------------------------------------
(* The actions keep the farm a farm.                                       *)

FarmInv == farm \in FarmSet /\ gathered \in [Plots -> Nat]

LEMMA CaughtUpIs ==
    ASSUME FarmInv, NEW now \in Moments, NEW a \in CaughtUp(now)
    PROVE  /\ now \in Times /\ now >= farm.updated
           /\ a \in Under /\ a.farm \in FarmSet /\ a.farm.updated = now
           /\ \E begins \in BOOLEAN : a = Advanced(farm, now, begins)
<1>1. farm \in FarmSet /\ farm.updated \in Times
  BY DEF FarmInv, FarmSet
<1>2. now \in Times /\ now >= farm.updated
  BY <1>1, ClockAssumption DEF Moments, Times
<1>3. PICK begins \in BOOLEAN : a = Advanced(farm, now, begins)
  BY DEF CaughtUp
<1>4. a \in Under /\ a.farm.updated = now
  BY <1>1, <1>2, <1>3, AdvancedType
<1> QED
  BY <1>2, <1>3, <1>4 DEF Under

LEMMA BecomeKeeps ==
    ASSUME NEW a, NEW f \in FarmSet, Become(a, f)
    PROVE  FarmInv'
  BY NoHarvestsType DEF Become, FarmInv

(* The fields of a farm that an intent may write.                          *)
LEMMA Rewritten ==
    ASSUME NEW f \in FarmSet, NEW p \in Plots, NEW plot \in PlotSet, NEW coins \in Nat
    PROVE  [f EXCEPT !.plots = [f.plots EXCEPT ![p] = plot], !.coins = coins] \in FarmSet
<1>1. [f.plots EXCEPT ![p] = plot] \in [Plots -> PlotSet]
  BY DEF FarmSet
<1> QED
  BY <1>1 DEF FarmSet

LEMMA SownIs ==
    ASSUME NEW f \in FarmSet, NEW p \in Plots, NEW c \in Crops, NEW t \in Times
    PROVE  Sown(f, p, c, t) \in FarmSet /\ Sown(f, p, c, t).coins = f.coins
<1> DEFINE plot == [f.plots[p] EXCEPT !.crop = c, !.planted = t, !.queued = NoCrop, !.last = c]
           plots == [f.plots EXCEPT ![p] = plot]
<1>1. f.plots[p] \in PlotSet /\ f.plots \in [Plots -> PlotSet]
  BY DEF FarmSet
<1>2. plot \in PlotSet
  BY <1>1 DEF PlotSet, MaybeCrop
<1>3. plots \in [Plots -> PlotSet]
  BY <1>1, <1>2
<1>4. Sown(f, p, c, t) = [f EXCEPT !.plots = plots, !.last = c]
  BY <1>1 DEF Sown, FarmSet
<1> HIDE DEF plots
<1> QED
  BY <1>3, <1>4 DEF FarmSet, MaybeCrop

LEMMA WithCoins ==
    ASSUME NEW f \in FarmSet, NEW coins \in Nat
    PROVE  [f EXCEPT !.coins = coins] \in FarmSet /\ [f EXCEPT !.coins = coins].coins = coins
  BY DEF FarmSet

LEMMA PlantKeeps ==
    ASSUME FarmInv, NEW p \in Plots, NEW c \in Crops, Plant(p, c)
    PROVE  FarmInv'
<1>1. PICK now, a : now \in Moments /\ a \in CaughtUp(now) /\
         LET f == a.farm
             cost == IF Mercy(f, c) THEN 0 ELSE Seed[c]
         IN  /\ f.coins >= cost
             /\ Become(a, [Sown(f, p, c, now) EXCEPT !.coins = @ - cost])
  BY DEF Plant
<1> DEFINE f == a.farm
           cost == IF Mercy(f, c) THEN 0 ELSE Seed[c]
           g == Sown(f, p, c, now)
<1>2. f \in FarmSet /\ now \in Times /\ f.coins \in Nat /\ cost \in Nat
  <2>1. f \in FarmSet /\ now \in Times
    BY <1>1, CaughtUpIs
  <2> HIDE DEF f
  <2> QED
    BY <2>1, CropNumbers DEF FarmSet
<1>3. g \in FarmSet /\ g.coins = f.coins
  BY <1>2, SownIs
<1>4. f.coins - cost \in Nat
  BY <1>1, <1>2
<1> HIDE DEF g, f, cost
<1>5. Become(a, [g EXCEPT !.coins = f.coins - cost])
  BY <1>1, <1>3 DEF g, f, cost, FarmSet
<1> QED
  BY <1>3, <1>4, <1>5, WithCoins, BecomeKeeps

LEMMA HarvestKeeps ==
    ASSUME FarmInv, NEW p \in Plots, Harvest(p)
    PROVE  FarmInv'
<1>1. PICK now, a : now \in Moments /\ a \in CaughtUp(now) /\
         LET f == a.farm
             crop == f.plots[p].crop
         IN  /\ Ripe(f, f.plots[p], now)
             /\ Become(a, [f EXCEPT !.coins = @ + Sell[crop],
                               !.plots[p] = [@ EXCEPT !.crop = NoCrop, !.planted = 0,
                                                      !.queued = NoCrop, !.last = crop]])
  BY DEF Harvest
<1> DEFINE f == a.farm
           old == f.plots[p]
           new == [old EXCEPT !.crop = NoCrop, !.planted = 0, !.queued = NoCrop, !.last = old.crop]
<1>2. f \in FarmSet /\ now \in Times /\ f.coins \in Nat /\ old \in PlotSet
  <2>1. f \in FarmSet /\ now \in Times
    BY <1>1, CaughtUpIs
  <2> HIDE DEF f
  <2> QED
    BY <2>1 DEF FarmSet
<1>3. Sell[old.crop] \in Nat /\ old.crop \in MaybeCrop
  BY <1>1, <1>2, RipeCrop, CropNumbers DEF PlotSet
<1>4. new \in PlotSet
  <2> HIDE DEF old
  <2>1. 0 \in Times /\ NoCrop \in MaybeCrop
    BY ClockAssumption DEF MaybeCrop, Times
  <2> QED
    BY <1>2, <1>3, <2>1 DEF PlotSet
<1>5. f.coins + Sell[old.crop] \in Nat
  BY <1>2, <1>3
<1>6. Become(a, [f EXCEPT !.plots = [f.plots EXCEPT ![p] = new],
                          !.coins = f.coins + Sell[old.crop]])
  BY <1>1, <1>2 DEF FarmSet
<1> HIDE DEF f, new
<1> QED
  BY <1>2, <1>4, <1>5, <1>6, Rewritten, BecomeKeeps

LEMMA BuyAutoHarvestKeeps ==
    ASSUME FarmInv, NEW p \in Plots, BuyAutoHarvest(p)
    PROVE  FarmInv'
<1>1. PICK now, a : now \in Moments /\ a \in CaughtUp(now) /\
         LET f == a.farm
             cost == HarvestPrice[Cardinality({q \in Plots : f.plots[q].autoHarvest})]
         IN  /\ f.coins >= cost
             /\ Become(a, [f EXCEPT !.coins = @ - cost, !.plots[p].autoHarvest = TRUE])
  BY DEF BuyAutoHarvest
<1> DEFINE f == a.farm
           had == {q \in Plots : f.plots[q].autoHarvest}
           cost == HarvestPrice[Cardinality(had)]
           new == [f.plots[p] EXCEPT !.autoHarvest = TRUE]
<1>2. f \in FarmSet /\ f.coins \in Nat /\ f.plots[p] \in PlotSet
  <2>1. f \in FarmSet /\ now \in Times
    BY <1>1, CaughtUpIs
  <2> HIDE DEF f
  <2> QED
    BY <2>1 DEF FarmSet
<1>3. Cardinality(had) \in 0 .. NPlots
  <2>1. IsFiniteSet(Plots) /\ Cardinality(Plots) = NPlots
    BY FS_Interval, ClockAssumption DEF Plots
  <2>2. Cardinality(had) <= Cardinality(Plots) /\ IsFiniteSet(had)
    BY <2>1, FS_Subset
  <2>3. Cardinality(had) \in Nat
    BY <2>2, FS_CardinalityType
  <2> QED
    BY <2>1, <2>2, <2>3, ClockAssumption
<1>4. cost \in Nat
  BY <1>3, PriceAssumption
<1>5. new \in PlotSet
  BY <1>2 DEF PlotSet
<1> HIDE DEF had, cost
<1>6. f.coins - cost \in Nat
  BY <1>1, <1>2, <1>4 DEF cost, had
<1>7. Become(a, [f EXCEPT !.plots = [f.plots EXCEPT ![p] = new], !.coins = f.coins - cost])
  BY <1>1, <1>2 DEF FarmSet, cost, had
<1> HIDE DEF f, new
<1> QED
  BY <1>2, <1>5, <1>6, <1>7, Rewritten, BecomeKeeps

LEMMA BuyAutoSowKeeps ==
    ASSUME FarmInv, NEW p \in Plots, BuyAutoSow(p)
    PROVE  FarmInv'
<1>1. PICK now, a : now \in Moments /\ a \in CaughtUp(now) /\
         LET f == a.farm
         IN  /\ f.coins >= SowPrice
             /\ Become(a, [f EXCEPT !.coins = @ - SowPrice, !.plots[p].autoSow = TRUE])
  BY DEF BuyAutoSow
<1> DEFINE f == a.farm
           new == [f.plots[p] EXCEPT !.autoSow = TRUE]
<1>2. f \in FarmSet /\ f.coins \in Nat /\ f.plots[p] \in PlotSet
  <2>1. f \in FarmSet /\ now \in Times
    BY <1>1, CaughtUpIs
  <2> HIDE DEF f
  <2> QED
    BY <2>1 DEF FarmSet
<1>3. new \in PlotSet
  BY <1>2 DEF PlotSet
<1>4. f.coins - SowPrice \in Nat
  BY <1>1, <1>2, PriceAssumption
<1>5. Become(a, [f EXCEPT !.plots = [f.plots EXCEPT ![p] = new], !.coins = f.coins - SowPrice])
  BY <1>1, <1>2 DEF FarmSet
<1> HIDE DEF f, new
<1> QED
  BY <1>2, <1>3, <1>4, <1>5, Rewritten, BecomeKeeps

LEMMA SetAutoSowCropKeeps ==
    ASSUME FarmInv, NEW p \in Plots, NEW c \in Crops, SetAutoSowCrop(p, c)
    PROVE  FarmInv'
<1>1. PICK now, a : now \in Moments /\ a \in CaughtUp(now) /\
         LET f == a.farm
         IN  Become(a, [f EXCEPT !.plots[p].queued = IF c = f.plots[p].crop THEN NoCrop ELSE c])
  BY DEF SetAutoSowCrop
<1> DEFINE f == a.farm
           next == IF c = f.plots[p].crop THEN NoCrop ELSE c
           new == [f.plots[p] EXCEPT !.queued = next]
<1>2. f \in FarmSet /\ f.coins \in Nat /\ f.plots[p] \in PlotSet
  <2>1. f \in FarmSet /\ now \in Times
    BY <1>1, CaughtUpIs
  <2> HIDE DEF f
  <2> QED
    BY <2>1 DEF FarmSet
<1>3. new \in PlotSet
  BY <1>2 DEF PlotSet, MaybeCrop
<1>4. Become(a, [f EXCEPT !.plots = [f.plots EXCEPT ![p] = new], !.coins = f.coins])
  BY <1>1, <1>2 DEF FarmSet
<1> HIDE DEF f, new
<1> QED
  BY <1>2, <1>3, <1>4, Rewritten, BecomeKeeps

LEMMA BuyScarecrowKeeps ==
    ASSUME FarmInv, BuyScarecrow
    PROVE  FarmInv'
<1>1. PICK now, a : now \in Moments /\ a \in CaughtUp(now) /\
         LET f == a.farm
             next == Len(f.pouches) + 1
         IN  /\ next <= Len(CrowPrice)
             /\ f.coins >= CrowPrice[next]
             /\ Become(a, [f EXCEPT !.coins = @ - CrowPrice[next], !.pouches = Append(@, 0)])
  BY DEF BuyScarecrow
<1> DEFINE f == a.farm
           next == Len(f.pouches) + 1
           more == Append(f.pouches, 0)
<1>2. f \in FarmSet /\ f.coins \in Nat /\ f.pouches \in Seq(Nat)
  <2>1. f \in FarmSet /\ now \in Times
    BY <1>1, CaughtUpIs
  <2> HIDE DEF f
  <2> QED
    BY <2>1 DEF FarmSet
<1>3. next \in 1 .. Len(CrowPrice)
  BY <1>1, <1>2, ScarecrowAssumption
<1>4. f.coins - CrowPrice[next] \in Nat
  BY SMTT(30), <1>1, <1>2, <1>3, ScarecrowAssumption
<1>5. more \in {s \in Seq(Nat) : Len(s) <= Len(CrowPrice)}
  BY <1>2, <1>3
<1>6. Become(a, [f EXCEPT !.coins = f.coins - CrowPrice[next], !.pouches = more])
  BY <1>1, <1>2 DEF FarmSet
<1> HIDE DEF f, next, more
<1>7. [f EXCEPT !.coins = f.coins - CrowPrice[next], !.pouches = more] \in FarmSet
  BY <1>2, <1>4, <1>5 DEF FarmSet
<1> QED
  BY <1>6, <1>7, BecomeKeeps

LEMMA CollectKeeps ==
    ASSUME FarmInv, NEW these, Collect(these)
    PROVE  FarmInv'
<1>1. PICK now, a : now \in Moments /\ a \in CaughtUp(now) /\
         LET f == a.farm
             full == {i \in DOMAIN f.pouches \cap these : f.pouches[i] > 0}
         IN  Become(a, [f EXCEPT
                 !.coins   = @ + Sums([i \in DOMAIN f.pouches |->
                                          IF i \in full THEN f.pouches[i] ELSE 0],
                                      Len(f.pouches))[Len(f.pouches)],
                 !.pouches = [i \in DOMAIN @ |-> IF i \in full THEN 0 ELSE @[i]]])
  BY DEF Collect
<1> DEFINE f == a.farm
           full == {i \in DOMAIN f.pouches \cap these : f.pouches[i] > 0}
           n == Len(f.pouches)
           fn == [i \in DOMAIN f.pouches |-> IF i \in full THEN f.pouches[i] ELSE 0]
           rest == [i \in DOMAIN f.pouches |-> IF i \in full THEN 0 ELSE f.pouches[i]]
<1>2. /\ f \in FarmSet /\ f.coins \in Nat /\ f.pouches \in Seq(Nat)
      /\ n <= Len(CrowPrice) /\ n \in Nat /\ DOMAIN f.pouches = 1 .. n
  <2>1. f \in FarmSet /\ now \in Times
    BY <1>1, CaughtUpIs
  <2> HIDE DEF f
  <2> QED
    BY <2>1 DEF FarmSet
<1> HIDE DEF full
<1>3. \A i \in 1 .. n : f.pouches[i] \in Nat
  BY <1>2
<1>4. fn \in [1 .. n -> Nat]
  BY <1>2, <1>3
<1>5. rest \in Seq(Nat) /\ Len(rest) = n
  <2>1. rest = [i \in 1 .. n |-> IF i \in full THEN 0 ELSE f.pouches[i]]
    BY <1>2
  <2>2. \A i \in 1 .. n : (IF i \in full THEN 0 ELSE f.pouches[i]) \in Nat
    BY <1>3
  <2> HIDE DEF rest
  <2> QED
    BY <1>2, <2>1, <2>2
<1> HIDE DEF fn
<1>6. f.coins + Sums(fn, n)[n] \in Nat
  <2>1. Sums(fn, n) \in [0 .. n -> Nat]
    BY <1>2, <1>4, SumsAre
  <2>2. Sums(fn, n)[n] \in Nat
    BY <1>2, <2>1
  <2> QED
    BY <1>2, <2>2
<1>7. Become(a, [f EXCEPT !.coins = f.coins + Sums(fn, n)[n], !.pouches = rest])
  BY <1>1, <1>2 DEF FarmSet, fn, full
<1> HIDE DEF rest, f, n
<1>8. [f EXCEPT !.coins = f.coins + Sums(fn, n)[n], !.pouches = rest] \in FarmSet
  BY <1>2, <1>5, <1>6 DEF FarmSet
<1> QED
  BY <1>7, <1>8, BecomeKeeps

(* Of a set of plots there is one with the dearest seed.                   *)
LEMMA DearestIsOne ==
    ASSUME NEW f \in FarmSet, NEW left \in SUBSET Plots, left # {},
           \A p \in left : Remembered(f, p) \in Crops
    PROVE  Dearest(f, left) \in left
<1> DEFINE cost(p) == Seed[Remembered(f, p)]
           Before(p, q) == cost(p) > cost(q) \/ (cost(p) = cost(q) /\ p <= q)
           Upto(k) == left \cap (1 .. k)
           T == {k \in 0 .. NPlots :
                    Upto(k) # {} => \E p \in Upto(k) : \A q \in Upto(k) : Before(p, q)}
<1>1. NPlots \in Nat /\ left \subseteq 1 .. NPlots
  BY ClockAssumption DEF Plots
<1>2. \A p \in left : cost(p) \in Nat
  BY CropNumbers
<1> HIDE DEF cost
<1>3. 0 \in T
  BY <1>1
<1>4. ASSUME NEW k \in 0 .. NPlots - 1, k \in T PROVE k + 1 \in T
  <2>1. k + 1 \in 0 .. NPlots /\ k \in Nat
    BY <1>1
  <2>2. CASE k + 1 \notin left
    <3>1. Upto(k + 1) = Upto(k)
      BY <2>1, <2>2
    <3> QED
      BY <1>4, <2>1, <3>1
  <2>3. CASE k + 1 \in left
    <3>1. Upto(k + 1) = Upto(k) \cup {k + 1}
      BY <2>1, <2>3
    <3>2. CASE Upto(k) = {}
      <4>1. \A q \in Upto(k + 1) : Before(k + 1, q)
        BY <2>1, <3>1, <3>2
      <4> QED
        BY <2>1, <3>1, <4>1
    <3>3. CASE Upto(k) # {}
      <4>1. PICK p \in Upto(k) : \A q \in Upto(k) : Before(p, q)
        BY <1>4, <3>3
      <4>2. p \in left /\ p \in Nat /\ p <= k /\ cost(p) \in Nat /\ cost(k + 1) \in Nat
        BY <1>1, <1>2, <2>1, <2>3
      <4>3. CASE cost(p) >= cost(k + 1)
        <5>1. Before(p, k + 1)
          BY <2>1, <4>2, <4>3
        <5> QED
          BY <2>1, <3>1, <4>1, <5>1
      <4>4. CASE cost(k + 1) > cost(p)
        <5>1. ASSUME NEW q \in Upto(k) PROVE Before(k + 1, q)
          <6>1. cost(q) \in Nat /\ cost(p) >= cost(q)
            BY <1>2, <4>1, <4>2
          <6> QED
            BY <4>2, <4>4, <6>1
        <5>2. Before(k + 1, k + 1)
          BY <2>1
        <5> QED
          BY <2>1, <3>1, <5>1, <5>2
      <4> QED
        BY <4>2, <4>3, <4>4
    <3> QED
      BY <3>2, <3>3
  <2> QED
    BY <2>2, <2>3
<1> HIDE DEF T
<1>5. 0 .. NPlots \subseteq T
  BY <1>1, <1>3, <1>4, UpTo
<1>6. NPlots \in T
  BY <1>1, <1>5
<1>7. Upto(NPlots) = left
  BY <1>1
<1>8. \E p \in left : \A q \in left : Before(p, q)
  BY <1>6, <1>7 DEF T
<1> QED
  BY <1>8 DEF Dearest, cost

(* Whatever is bought, the wallet pays for it.                             *)
LEMMA ReplantedIs ==
    ASSUME NEW f \in FarmSet, NEW now \in Times
    PROVE  Replanted(f, now) \in FarmSet
<1> DEFINE first == [farm |-> f, left |-> ToReplant(f, now)]
           Body(g) == [k \in 0 .. NPlots |-> IF k = 0 THEN first ELSE BuyNext(f, now, g[k - 1])]
           S == [farm : FarmSet, left : SUBSET ToReplant(f, now)]
           step == [x \in S \X (1 .. NPlots) |-> BuyNext(f, now, x[1])]
<1>1. NPlots \in Nat
  BY ClockAssumption
<1>2. first \in S
  OBVIOUS
<1>3. ASSUME NEW p \in ToReplant(f, now) PROVE p \in Plots /\ Remembered(f, p) \in Crops
  <2>1. p \in Plots /\ f.plots[p] \in PlotSet /\ f.last \in MaybeCrop
    BY DEF ToReplant, FarmSet
  <2> QED
    BY <2>1 DEF ToReplant, Remembered, PlotSet, MaybeCrop
<1>4. ASSUME NEW b \in S PROVE BuyNext(f, now, b) \in S
  <2> DEFINE p == Dearest(f, b.left)
             c == Remembered(f, p)
             h == b.farm
             g == Sown(h, p, c, now)
  <2>1. CASE b.left = {}
    BY <2>1 DEF BuyNext
  <2>2. CASE b.left # {}
    <3>1. b.left \in SUBSET Plots /\ \A q \in b.left : Remembered(f, q) \in Crops
      BY <1>3
    <3>2. p \in b.left /\ p \in Plots /\ c \in Crops /\ h \in FarmSet
      BY <2>2, <3>1, DearestIsOne
    <3> HIDE DEF p, c, h, S
    <3>3. Buy(h, p, c, now) \in FarmSet
      <4>1. CASE h.coins < Seed[c]
        BY <3>2, <4>1 DEF Buy
      <4>2. CASE ~(h.coins < Seed[c])
        <5>1. g \in FarmSet /\ g.coins = h.coins
          BY <3>2, SownIs
        <5>2. g.coins - Seed[c] \in Nat
          <6>1. h.coins \in Nat /\ Seed[c] \in Nat
            BY <3>2, CropNumbers DEF FarmSet
          <6> QED
            BY <4>2, <5>1, <6>1
        <5>3. Buy(h, p, c, now) = [g EXCEPT !.coins = g.coins - Seed[c]]
          BY <4>2 DEF Buy
        <5> HIDE DEF g
        <5> QED
          BY <5>1, <5>2, <5>3, WithCoins
      <4> QED
        BY <4>1, <4>2
    <3>4. BuyNext(f, now, b) = [farm |-> Buy(h, p, c, now), left |-> b.left \ {p}]
      BY <2>2 DEF BuyNext, p, c, h
    <3>5. b.left \ {p} \in SUBSET ToReplant(f, now)
      BY DEF S
    <3> QED
      BY <3>3, <3>4, <3>5 DEF S
  <2> QED
    BY <2>1, <2>2
<1> HIDE DEF S, first
<1>5. step \in StepsOn(S, NPlots)
  BY <1>4 DEF StepsOn
<1>6. \A x \in S, k \in 1 .. NPlots : step[<<x, k>>] = BuyNext(f, now, x)
  OBVIOUS
<1> HIDE DEF step
<1>7. PICK g : Runs(g, S, NPlots, first, step)
  BY <1>1, <1>2, <1>5, RunExists
<1>8. ASSUME NEW k \in 1 .. NPlots PROVE g[k] = BuyNext(f, now, g[k - 1])
  <2>1. g[k - 1] \in S
    BY <1>1, <1>7 DEF Runs
  <2>2. g[k] = step[<<g[k - 1], k>>]
    BY <1>7 DEF Runs
  <2> QED
    BY <1>6, <2>1, <2>2
<1>9. g = Body(g)
  BY <1>7, <1>8 DEF Runs
<1> DEFINE r == CHOOSE h : h = Body(h)
<1>10. r = Body(r)
  BY <1>9
<1>11. Replanted(f, now) = r[NPlots].farm
  BY DEF Replanted, first
<1> HIDE DEF r
<1>12. r[0] = first /\ \A k \in 1 .. NPlots : r[k] = BuyNext(f, now, r[k - 1])
  BY <1>1, <1>10
<1> DEFINE In == {k \in 0 .. NPlots : r[k] \in S}
<1>13. 0 \in In
  BY <1>1, <1>2, <1>12
<1>14. ASSUME NEW k \in 0 .. NPlots - 1, k \in In PROVE k + 1 \in In
  <2>1. k + 1 \in 1 .. NPlots /\ (k + 1) - 1 = k
    BY <1>1
  <2>2. r[k + 1] = BuyNext(f, now, r[k])
    BY <1>12, <2>1
  <2> QED
    BY <1>1, <1>4, <1>14, <2>1, <2>2
<1> HIDE DEF In
<1>15. 0 .. NPlots \subseteq In
  BY <1>1, <1>13, <1>14, UpTo
<1>16. r[NPlots] \in S
  BY <1>1, <1>15 DEF In
<1> QED
  BY <1>11, <1>16 DEF S

LEMMA ReplantAllKeeps ==
    ASSUME FarmInv, ReplantAll
    PROVE  FarmInv'
<1>1. PICK now, a : /\ now \in Moments /\ a \in CaughtUp(now)
                    /\ Become(a, Replanted(a.farm, now))
  BY DEF ReplantAll
<1>2. a.farm \in FarmSet /\ now \in Times
  BY <1>1, CaughtUpIs
<1> QED
  BY <1>1, <1>2, ReplantedIs, BecomeKeeps

LEMMA AdvanceKeeps ==
    ASSUME FarmInv, Advance
    PROVE  FarmInv'
<1>1. PICK now, a : /\ now \in Moments /\ a \in CaughtUp(now)
                    /\ farm' = a.farm /\ gathered' = a.gathered
  BY DEF Advance, AdvanceTo
<1>2. a \in Under
  BY <1>1, CaughtUpIs
<1> QED
  BY <1>1, <1>2 DEF FarmInv, Under

LEMMA InitIsAFarm == Init => FarmInv
<1> SUFFICES ASSUME Init PROVE FarmInv
  OBVIOUS
<1>1. EmptyPlot \in PlotSet
  BY ClockAssumption DEF EmptyPlot, PlotSet, MaybeCrop, Times
<1>2. [p \in Plots |-> EmptyPlot] \in [Plots -> PlotSet]
  BY <1>1
<1>3. <<>> \in {s \in Seq(Nat) : Len(s) <= Len(CrowPrice)}
  BY ScarecrowAssumption
<1>4. 0 \in Times /\ 0 \in 0 .. Horizon + EventLasts /\ 0 \in 0 .. ClockTarget - 1
  BY ClockAssumption, TargetIsPositive DEF Times
<1>5. StartCoins \in Nat /\ NoCrop \in MaybeCrop
  BY PriceAssumption DEF MaybeCrop
<1> QED
  BY <1>2, <1>3, <1>4, <1>5, NoHarvestsType DEF Init, FarmInv, FarmSet

(* No sequence of intents and absences, of whatever length, takes the farm *)
(* out of its shape: no price, seed or batch overdraws the wallet, and no  *)
(* plot is planted later than the farm has come to.                        *)
THEOREM FarmStaysAFarm == Spec => []FarmInv
<1>1. Init => FarmInv
  BY InitIsAFarm
<1>2. FarmInv /\ [Next]_vars => FarmInv'
  <2> SUFFICES ASSUME FarmInv, [Next]_vars PROVE FarmInv'
    OBVIOUS
  <2>1. CASE Advance
    BY <2>1, AdvanceKeeps
  <2>2. CASE ReplantAll
    BY <2>2, ReplantAllKeeps
  <2>3. CASE BuyScarecrow
    BY <2>3, BuyScarecrowKeeps
  <2>4. CASE CollectScarecrows
    BY <2>4, CollectKeeps DEF CollectScarecrows
  <2>5. ASSUME NEW i \in DOMAIN CrowPrice, CollectScarecrow(i) PROVE FarmInv'
    BY <2>5, CollectKeeps DEF CollectScarecrow
  <2>6. ASSUME NEW p \in Plots, Harvest(p) PROVE FarmInv'
    BY <2>6, HarvestKeeps
  <2>7. ASSUME NEW p \in Plots, BuyAutoHarvest(p) PROVE FarmInv'
    BY <2>7, BuyAutoHarvestKeeps
  <2>8. ASSUME NEW p \in Plots, BuyAutoSow(p) PROVE FarmInv'
    BY <2>8, BuyAutoSowKeeps
  <2>9. ASSUME NEW p \in Plots, NEW c \in Crops, Plant(p, c) PROVE FarmInv'
    BY <2>9, PlantKeeps
  <2>10. ASSUME NEW p \in Plots, NEW c \in Crops, SetAutoSowCrop(p, c) PROVE FarmInv'
    BY <2>10, SetAutoSowCropKeeps
  <2>11. CASE UNCHANGED vars
    BY <2>11 DEF FarmInv, vars
  <2> QED
    BY <2>1, <2>2, <2>3, <2>4, <2>5, <2>6, <2>7, <2>8, <2>9, <2>10, <2>11 DEF Next
<1> QED
  BY <1>1, <1>2, PTL DEF Spec

(* TypeOK of FarmClock: the wallet is a number and the clock in its range. *)
THEOREM FarmTypeCorrect == Spec => []TypeOK
<1>1. FarmInv => TypeOK
  BY DEF FarmInv, TypeOK, FarmSet, PlotSet, MaybeCrop
<1> QED
  BY <1>1, FarmStaysAFarm, PTL

LEMMA AdvancesIs ==
    ASSUME FarmInv, FarmInv', Advances
    PROVE  /\ farm \in FarmSet /\ farm'.updated \in Times /\ farm'.updated >= farm.updated
           /\ \E begins \in BOOLEAN :
                LET a == Advanced(farm, farm'.updated, begins)
                IN  farm' = a.farm /\ gathered' = a.gathered
<1>1. farm \in FarmSet /\ farm' \in FarmSet
  BY DEF FarmInv
<1>2. PICK begins \in BOOLEAN :
         LET a == Advanced(farm, farm'.updated, begins)
         IN  farm' = a.farm /\ gathered' = a.gathered
  BY DEF Advances, AdvanceTo, CaughtUp
<1>3. farm'.updated \in Times /\ farm.updated \in Times
  BY <1>1 DEF FarmSet
<1>4. farm'.updated >= farm.updated
  <2>1. CASE farm'.updated <= farm.updated
    <3>1. farm' = farm
      BY <1>2, <2>1 DEF Advanced
    <3> QED
      BY <1>3, <3>1, ClockAssumption DEF Times
  <2> QED
    BY <1>3, <2>1, ClockAssumption DEF Times
<1> QED
  BY <1>1, <1>2, <1>3, <1>4

(* CursorCountsHarvests, for every catalogue, farm and length of absence:  *)
(* the invariant is the type alone, and an Advance owes the rest.          *)
THEOREM TheCursorCounts == Spec => CursorCountsHarvests
<1> DEFINE Counts(p) ==
         LET old == farm.plots[p]
             new == farm'.plots[p]
         IN  (new.crop # NoCrop /\ Advances) =>
               /\ (new.crop = old.crop /\ SowCrop(old) = old.crop)
                     => new.planted = old.planted + gathered'[p] * Grow(farm', new.crop)
               /\ (new.autoHarvest /\ farm'.updated > farm.updated
                                   /\ Ripe(farm', new, farm'.updated))
                     => gathered'[p] = BatchCap
<1>1. ASSUME FarmInv, FarmInv', NEW p \in Plots PROVE Counts(p)
  <2> SUFFICES ASSUME farm'.plots[p].crop # NoCrop, Advances PROVE Counts(p)
    OBVIOUS
  <2> DEFINE to == farm'.updated
  <2>1. farm \in FarmSet /\ to \in Times /\ to >= farm.updated
    BY <1>1, AdvancesIs
  <2>2. PICK begins \in BOOLEAN : /\ farm' = Advanced(farm, to, begins).farm
                                  /\ gathered' = Advanced(farm, to, begins).gathered
    BY <1>1, AdvancesIs
  <2> DEFINE a == Advanced(farm, to, begins)
  <2>3. LET old == farm.plots[p]
            new == a.farm.plots[p]
        IN  /\ (new.crop = old.crop /\ SowCrop(old) = old.crop)
                  => new.planted = old.planted + a.gathered[p] * Grow(a.farm, new.crop)
            /\ (new.autoHarvest /\ to > farm.updated /\ Ripe(a.farm, new, to))
                  => a.gathered[p] = BatchCap
    <3>1. a.farm.plots[p].crop # NoCrop
      BY <2>2
    <3> HIDE DEF to
    <3> QED
      BY <2>1, <3>1, AdvancedCursor
  <2>4. farm' = a.farm /\ gathered' = a.gathered
    BY <2>2
  <2> HIDE DEF a
  <2> QED
    BY <2>3, <2>4
<1>2. FarmInv /\ FarmInv' => \A p \in Plots : Counts(p)
  BY <1>1
<1> QED
  BY <1>2, FarmStaysAFarm, PTL DEF CursorCountsHarvests

(* PlotsAreKeptSown, for every order and number of plots on the wallet.    *)
THEOREM AbsencesKeepPlotsSown == Spec => PlotsAreKeptSown
<1> DEFINE Kept(p) == (p \in Sowing(farm) /\ farm'.plots[p].crop = NoCrop /\ Solvent(farm))
                         => ~Advances
<1>1. ASSUME FarmInv, FarmInv', NEW p \in Plots PROVE Kept(p)
  <2> SUFFICES ASSUME Advances, p \in Sowing(farm), Solvent(farm)
               PROVE  farm'.plots[p].crop # NoCrop
    OBVIOUS
  <2> DEFINE to == farm'.updated
  <2>1. farm \in FarmSet /\ to \in Times /\ to >= farm.updated
    BY <1>1, AdvancesIs
  <2>2. PICK begins \in BOOLEAN : farm' = Advanced(farm, to, begins).farm
    BY <1>1, AdvancesIs
  <2>3. Advanced(farm, to, begins).farm.plots[p].crop # NoCrop
    <3> HIDE DEF to
    <3> QED
      BY <2>1, AdvancedSolvent
  <2> QED
    BY <2>2, <2>3
<1>2. FarmInv /\ FarmInv' => \A p \in Plots : Kept(p)
  BY <1>1
<1> QED
  BY <1>2, FarmStaysAFarm, PTL DEF PlotsAreKeptSown

-----------------------------------------------------------------------------
(* What an absence comes to, for a plot that pays its way: a closed form   *)
(* of the loop and its batch, in which the cap and the wallet are gone.    *)

LEMMA ProductGrows ==
    ASSUME NEW m \in Nat, NEW n \in Nat, NEW g \in Nat
    PROVE  /\ m <= n => m * g <= n * g
           /\ m < n => m * g + g <= n * g
<1>1. CASE m <= n
  <2>1. n - m \in Nat /\ n = m + (n - m)
    BY <1>1
  <2> DEFINE d == n - m
  <2> HIDE DEF d
  <2>2. n * g = m * g + d * g /\ d * g \in Nat /\ m * g \in Nat /\ d \in Nat
    BY <2>1, Distribute, Product DEF d
  <2>3. m < n => d * g >= g
    <3>1. ASSUME m < n PROVE d * g >= g
      <4>1. d - 1 \in Nat /\ d = (d - 1) + 1
        BY <2>1, <3>1 DEF d
      <4>2. d * g = (d - 1) * g + 1 * g /\ 1 * g = g /\ (d - 1) * g \in Nat
        BY SMTT(30), <4>1, Distribute, Product
      <4> QED
        BY <4>2
    <3> QED
      BY <3>1
  <2> QED
    BY <2>2, <2>3
<1>2. CASE ~(m <= n)
  BY <1>2
<1> QED
  BY <1>1, <1>2

LEMMA QuotientIs ==
    ASSUME NEW x \in Nat, NEW g \in Nat \ {0}, NEW q \in Nat,
           q * g <= x, x < q * g + g
    PROVE  x \div g = q /\ x % g = x - q * g
<1> DEFINE k == x \div g
<1>1. k \in Nat /\ k * g <= x /\ x < k * g + g
  BY Quotient
<1>2. x = g * k + (x % g) /\ x % g \in Int
  BY Z3
<1>3. g * k = k * g
  BY <1>1, Z3
<1> HIDE DEF k
<1>4. k * g \in Nat /\ q * g \in Nat
  BY <1>1, Product
<1>5. k = q
  <2>1. ~(k < q)
    BY <1>1, <1>4, ProductGrows
  <2>2. ~(q < k)
    BY <1>1, <1>4, ProductGrows
  <2> QED
    BY <1>1, <2>1, <2>2
<1>6. x % g = x - q * g
  <2> DEFINE rest == x % g
             p == q * g
  <2>1. x = p + rest /\ rest \in Int /\ p \in Nat
    BY <1>2, <1>3, <1>4, <1>5
  <2> HIDE DEF rest, p
  <2>2. rest = x - p
    BY <2>1
  <2> QED
    BY <2>2 DEF rest, p
<1> QED
  BY <1>5, <1>6 DEF k

(* The loop ends with nothing ripe or at its cap, and then comes the batch. *)
LEMMA SettleSplits ==
    ASSUME NEW f, NEW to \in Times, NEW S \in SUBSET Turning, NEW start \in S,
           start.n = 0, start.plot.autoHarvest,
           \A a \in S : Ripe(f, a.plot, to) => Cycle(f, to, a) \in S
    PROVE  \E a \in S : /\ Ripe(f, a.plot, to) => a.n = BatchCap
                        /\ Settle(f, to, start) =
                             IF Ripe(f, a.plot, to) THEN Batch(f, to, a) ELSE a
<1> DEFINE t == Turns(f, to, start)
           a == t[BatchCap]
           T == {k \in 0 .. BatchCap : Ripe(f, t[k].plot, to) => t[k].n = k}
<1>1. /\ t \in [0 .. BatchCap -> S] /\ t[0] = start
      /\ \A k \in 1 .. BatchCap : t[k] = Turn(f, to, t[k - 1])
  <2>1. \A b \in S : Turn(f, to, b) \in S
    BY DEF Turn
  <2> QED
    BY <2>1, TurnsRun
<1>2. BatchCap \in Nat
  BY ClockAssumption
<1> HIDE DEF t
<1>3. 0 \in T
  BY <1>1, <1>2
<1>4. ASSUME NEW k \in 0 .. BatchCap - 1, k \in T PROVE k + 1 \in T
  <2>1. k + 1 \in 0 .. BatchCap /\ t[k] \in Turning /\ t[k + 1] = Turn(f, to, t[k])
    BY <1>1, <1>2
  <2>2. CASE Ripe(f, t[k].plot, to)
    BY <1>4, <2>1, <2>2, CycleIs DEF Turn
  <2>3. CASE ~Ripe(f, t[k].plot, to)
    BY <2>1, <2>3 DEF Turn
  <2> QED
    BY <2>2, <2>3
<1> HIDE DEF T
<1>5. 0 .. BatchCap \subseteq T
  BY <1>2, <1>3, <1>4, UpTo
<1>6. BatchCap \in T
  BY <1>2, <1>5
<1>7. a \in S /\ (Ripe(f, a.plot, to) => a.n = BatchCap)
  BY <1>1, <1>2, <1>6 DEF T
<1>8. Settle(f, to, start) = IF Ripe(f, a.plot, to) THEN Batch(f, to, a) ELSE a
  BY DEF Settle, t
<1> QED
  BY <1>7, <1>8

(* What the absence leaves of the plot, pays into the wallet and gathers.  *)
Outcome(f, plot, to) ==
    LET c == SowCrop(plot)
        again == (to - RipeAt(f, plot)) \div Grow(f, c)
    IN  IF ~(plot.autoHarvest /\ Ripe(f, plot, to)) THEN [plot |-> plot, gain |-> 0, n |-> 0]
        ELSE IF ~plot.autoSow
          THEN [plot |-> [plot EXCEPT !.crop = NoCrop, !.planted = 0],
                gain |-> Sell[plot.crop], n |-> 1]
        ELSE [plot |-> [plot EXCEPT !.crop = c,
                                    !.planted = RipeAt(f, plot) + again * Grow(f, c)],
              gain |-> (Sell[plot.crop] - Seed[c]) + again * (Sell[c] - Seed[c]),
              n    |-> again + 1]

Pays(plot) ==
    (plot.autoSow /\ plot.crop # NoCrop) =>
       Sell[SowCrop(plot)] > Seed[SowCrop(plot)] /\ SowCrop(plot) \notin Festival

Is(a, o, coins) == a.plot = o.plot /\ a.coins = coins + o.gain /\ a.n = o.n

LEMMA SamePlot ==
    ASSUME NEW p \in PlotSet, NEW q \in PlotSet,
           p.crop = q.crop, p.planted = q.planted,
           p.autoHarvest = q.autoHarvest, p.autoSow = q.autoSow,
           p.queued = q.queued, p.last = q.last
    PROVE  p = q
  BY DEF PlotSet

LEMMA OutcomeAtRest ==
    ASSUME NEW f, NEW to \in Times, NEW start \in Turning, start.n = 0,
           ~(start.plot.autoHarvest /\ Ripe(f, start.plot, to))
    PROVE  Is(Settle(f, to, start), Outcome(f, start.plot, to), start.coins)
<1>1. Settle(f, to, start) = start
  <2>1. CASE ~start.plot.autoHarvest
    BY <2>1 DEF Settle
  <2>2. CASE ~Ripe(f, start.plot, to)
    <3> DEFINE S == {start}
    <3>1. S \in SUBSET Turning /\ start \in S
      OBVIOUS
    <3>2. \A a \in S : Ripe(f, a.plot, to) => Cycle(f, to, a) \in S /\ Batch(f, to, a) \in S
      BY <2>2
    <3> HIDE DEF S
    <3>3. Settle(f, to, start) \in S
      BY <3>1, <3>2, SettleKeeps
    <3> QED
      BY <3>3 DEF S
  <2> QED
    BY <2>1, <2>2
<1>2. start.coins \in Nat
  BY DEF Turning
<1>3. Outcome(f, start.plot, to) = [plot |-> start.plot, gain |-> 0, n |-> 0]
  BY DEF Outcome
<1> QED
  BY <1>1, <1>2, <1>3 DEF Is

LEMMA OutcomeOfOne ==
    ASSUME NEW f, NEW to \in Times, NEW start \in Turning, start.n = 0,
           start.plot.autoHarvest, Ripe(f, start.plot, to), ~start.plot.autoSow
    PROVE  Is(Settle(f, to, start), Outcome(f, start.plot, to), start.coins)
<1> DEFINE P == start.plot
           Done(a) == /\ a.n = 1 /\ a.plot.crop = NoCrop /\ a.plot.planted = 0
                      /\ a.coins = start.coins + Sell[P.crop] /\ SamePlan(a, P)
           S == {a \in Turning : a = start \/ Done(a)}
           z == Settle(f, to, start)
<1>1. S \in SUBSET Turning /\ start \in S
  OBVIOUS
<1>2. ASSUME NEW a \in S, Ripe(f, a.plot, to) PROVE Cycle(f, to, a) \in S
  <2>1. a = start
    BY <1>2 DEF Ripe
  <2> DEFINE b == Cycle(f, to, a)
  <2>2. a \in Turning /\ ~a.plot.autoSow /\ a.n = 0
    BY <2>1
  <2>3. /\ b \in Turning /\ b.n = a.n + 1 /\ b.plot.crop = NoCrop /\ b.plot.planted = 0
        /\ b.coins = a.coins + Sell[a.plot.crop] /\ SamePlan(b, a.plot)
    BY <1>2, <2>2, CycleIs DEF SamePlan
  <2> HIDE DEF b
  <2>4. Done(b)
    BY <2>1, <2>2, <2>3
  <2> QED
    BY <2>3, <2>4 DEF b
<1> HIDE DEF S
<1>3. PICK a \in S : /\ Ripe(f, a.plot, to) => a.n = BatchCap
                     /\ z = IF Ripe(f, a.plot, to) THEN Batch(f, to, a) ELSE a
  BY <1>1, <1>2, SettleSplits
<1>4. ~Ripe(f, a.plot, to)
  <2>1. BatchCap # 0
    BY ClockAssumption
  <2> QED
    BY <1>3, <2>1 DEF S, Ripe
<1>5. z \in Turning /\ Done(z)
  BY <1>3, <1>4 DEF S
<1> HIDE DEF z
<1> DEFINE o == Outcome(f, P, to)
<1>6. o = [plot |-> [P EXCEPT !.crop = NoCrop, !.planted = 0], gain |-> Sell[P.crop], n |-> 1]
  BY DEF Outcome
<1>7. z.plot = o.plot
  <2>1. P \in PlotSet /\ z.plot \in PlotSet
    BY <1>5 DEF Turning
  <2> DEFINE e == [P EXCEPT !.crop = NoCrop, !.planted = 0]
  <2>2. 0 \in Times /\ NoCrop \in MaybeCrop
    BY ClockAssumption DEF MaybeCrop, Times
  <2> HIDE DEF P
  <2>3. /\ e.crop = NoCrop /\ e.planted = 0 /\ e.autoHarvest = P.autoHarvest
        /\ e.autoSow = P.autoSow /\ e.queued = P.queued /\ e.last = P.last
        /\ e \in PlotSet
    BY <2>1, <2>2 DEF PlotSet
  <2> HIDE DEF e
  <2>4. z.plot = e
    BY <1>5, <2>1, <2>3, SamePlot DEF SamePlan
  <2> QED
    BY <1>6, <2>4 DEF e
<1> HIDE DEF o
<1>8. z.coins = start.coins + o.gain /\ z.n = o.n
  BY <1>5, <1>6
<1> QED
  BY <1>7, <1>8 DEF Is, o, z

(* After the first turn the plot grows c and every turn pays the same.     *)
LEMMA OutcomeOfMany ==
    ASSUME NEW f, NEW to \in Times, NEW start \in Turning, start.n = 0,
           start.plot.autoHarvest, Ripe(f, start.plot, to), start.plot.autoSow,
           Pays(start.plot), start.coins >= Shortfall(start.plot)
    PROVE  Is(Settle(f, to, start), Outcome(f, start.plot, to), start.coins)
<1> DEFINE P == start.plot
           c == SowCrop(P)
           G == Grow(f, c)
           r == RipeAt(f, P)
           d == Sell[c] - Seed[c]
           base == start.coins + (Sell[P.crop] - Seed[c])
           Later(a) == /\ a.n \in Nat \ {0} /\ SamePlan(a, P) /\ a.plot.crop = c
                       /\ a.plot.planted = r + (a.n - 1) * G /\ a.plot.planted <= to
                       /\ a.coins = base + (a.n - 1) * d
           S == {a \in Turning : a = start \/ Later(a)}
           z == Settle(f, to, start)
<1>1. /\ P \in PlotSet /\ P.crop \in Crops /\ c \in Crops /\ start.coins \in Nat
      /\ r \in Times /\ r \in Nat /\ r <= to /\ to \in Nat
      /\ G \in Nat \ {0} /\ Seed[c] \in Nat /\ Sell[c] \in Nat /\ Sell[P.crop] \in Nat
      /\ P.crop # NoCrop
  <2>1. P \in PlotSet /\ start.coins \in Nat
    BY DEF Turning
  <2>2. P.crop \in Crops /\ c \in Crops /\ r \in Times /\ r <= to
    BY <2>1, RipeCrop
  <2>3. \A x \in Times : x \in Nat
    BY ClockAssumption DEF Times
  <2> QED
    BY <2>1, <2>2, <2>3, CropNumbers, GrowIsPositive
<1>2. Sell[c] > Seed[c] /\ c \notin Festival /\ d \in Nat \ {0}
  <2>1. Sell[c] > Seed[c] /\ c \notin Festival
    BY <1>1 DEF Pays
  <2> QED
    BY <1>1, <2>1
<1>3. base \in Nat
  <2>1. Shortfall(P) \in Nat /\ Shortfall(P) >= Seed[c] - Sell[P.crop]
    BY <1>1, ShortfallIs
  <2> HIDE DEF P, c
  <2> QED
    BY <1>1, <2>1 DEF P
<1> HIDE DEF G, r, d, base, c
<1>4. start \in S /\ S \in SUBSET Turning
  OBVIOUS
<1>5. \A coins : coins \in Nat /\ coins >= Seed[c] => MaySow(c, coins, to)
  BY <1>2 DEF MaySow, Plantable
<1>6. ASSUME NEW a \in S, Ripe(f, a.plot, to) PROVE Cycle(f, to, a) \in S
  <2> DEFINE b == Cycle(f, to, a)
  <2>1. CASE a = start
    <3>1. SowCrop(a.plot) = c /\ a.plot.autoSow /\ a.n = 0 /\ RipeAt(f, a.plot) = r
      BY <2>1 DEF c, r
    <3>2. MaySow(c, a.coins + Sell[a.plot.crop], to)
      <4>1. a.coins + Sell[a.plot.crop] >= Seed[c] /\ a.coins + Sell[a.plot.crop] \in Nat
        BY <1>1, <1>3, <2>1 DEF base
      <4> QED
        BY <1>5, <4>1
    <3>3. /\ b \in Turning /\ b.n = a.n + 1 /\ SamePlan(b, a.plot)
          /\ b.plot.crop = c /\ b.plot.planted = r
          /\ b.coins = (a.coins + Sell[a.plot.crop]) - Seed[c]
      <4>1. /\ b \in Turning /\ b.n = a.n + 1 /\ SamePlan(b, a.plot)
            /\ \/ /\ b.plot.crop = SowCrop(a.plot) /\ b.plot.planted = RipeAt(f, a.plot)
                  /\ b.coins = (a.coins + Sell[a.plot.crop]) - Seed[SowCrop(a.plot)]
               \/ ~(a.plot.autoSow /\ MaySow(SowCrop(a.plot), a.coins + Sell[a.plot.crop], to))
        <5> HIDE DEF S
        <5>1. a \in Turning
          BY <1>4
        <5> QED
          BY <1>6, <5>1, CycleIs DEF SamePlan
      <4> HIDE DEF b
      <4> QED
        BY <3>1, <3>2, <4>1
    <3> HIDE DEF b
    <3>4. 0 * G = 0 /\ 0 * d = 0
      BY <1>1, <1>2, Distribute
    <3>5. b.n = 1 /\ (b.n - 1) * G = 0 /\ (b.n - 1) * d = 0
      BY <3>1, <3>3, <3>4
    <3>6. b.coins = base
      BY <1>1, <2>1, <3>3 DEF base
    <3>7. Later(b)
      BY <1>1, <1>3, <2>1, <3>3, <3>5, <3>6
    <3> QED
      BY <3>3, <3>7 DEF b
  <2>2. CASE Later(a)
    <3> DEFINE k == a.n - 1
    <3>1. k \in Nat /\ a.n = k + 1 /\ a \in Turning /\ a.plot \in PlotSet /\ a.coins \in Nat
      BY <2>2 DEF Turning
    <3>2. SowCrop(a.plot) = c /\ a.plot.autoSow
      BY <2>2 DEF SowCrop, SamePlan, c
    <3>3. a.plot.planted = r + k * G /\ a.coins = base + k * d /\ a.plot.crop = c
      BY <2>2
    <3>4. RipeAt(f, a.plot) = a.plot.planted + G /\ RipeAt(f, a.plot) <= to
      BY <1>6, <3>1, <3>3, RipeCrop DEF G
    <3> HIDE DEF k
    <3>5. k * G \in Nat /\ k * d \in Nat /\ (k + 1) * G = k * G + G /\ (k + 1) * d = k * d + d
      BY <1>1, <1>2, <3>1, Product, Distribute
    <3>6. MaySow(c, a.coins + Sell[a.plot.crop], to)
      <4>1. a.coins + Sell[a.plot.crop] >= Seed[c] /\ a.coins + Sell[a.plot.crop] \in Nat
        BY <1>1, <1>2, <3>1, <3>3
      <4> QED
        BY <1>5, <4>1
    <3>7. /\ b \in Turning /\ b.n = a.n + 1 /\ SamePlan(b, P)
          /\ b.plot.crop = c /\ b.plot.planted = RipeAt(f, a.plot)
          /\ b.coins = (a.coins + Sell[c]) - Seed[c]
      <4>1. /\ b \in Turning /\ b.n = a.n + 1 /\ SamePlan(b, a.plot)
            /\ b.plot.crop = c /\ b.plot.planted = RipeAt(f, a.plot)
            /\ b.coins = (a.coins + Sell[a.plot.crop]) - Seed[c]
        BY ZenonT(30), <1>6, <3>1, <3>2, <3>6, CycleIs DEF SamePlan
      <4> HIDE DEF b
      <4>2. SamePlan(b, P)
        BY <2>2, <4>1 DEF SamePlan
      <4> QED
        BY <3>3, <4>1, <4>2
    <3> HIDE DEF b
    <3>8. b.n - 1 = k + 1 /\ b.n \in Nat \ {0}
      BY <3>1, <3>7
    <3>9. b.plot.planted = r + (k + 1) * G /\ b.plot.planted <= to
      BY <1>1, <3>3, <3>4, <3>5, <3>7
    <3>10. b.coins = base + (k + 1) * d
      <4>1. d \in Nat /\ d = Sell[c] - Seed[c]
        BY <1>2 DEF d
      <4> QED
        BY <1>1, <1>3, <3>3, <3>5, <3>7, <4>1
    <3>11. Later(b)
      BY <3>7, <3>8, <3>9, <3>10
    <3> QED
      BY <3>7, <3>11 DEF b
  <2> QED
    BY <1>6, <2>1, <2>2
<1>7. PICK a \in S : /\ Ripe(f, a.plot, to) => a.n = BatchCap
                     /\ z = IF Ripe(f, a.plot, to) THEN Batch(f, to, a) ELSE a
  <2> HIDE DEF S
  <2> QED
    BY <1>4, <1>6, SettleSplits
<1>8. a \in Turning /\ Later(a)
  <2>1. BatchCap # 0
    BY ClockAssumption
  <2> QED
    BY <1>7, <2>1
<1> DEFINE k == a.n - 1
<1>9. /\ k \in Nat /\ a.n = k + 1 /\ a.plot \in PlotSet /\ a.coins \in Nat
      /\ a.plot.planted = r + k * G /\ a.coins = base + k * d /\ a.plot.crop = c
      /\ SamePlan(a, P) /\ a.plot.planted <= to /\ a.plot.planted \in Nat
  BY <1>8, ClockAssumption DEF Turning, PlotSet, Times
<1> DEFINE Closed(m) == /\ z \in Turning /\ z.n = m + 1 /\ SamePlan(z, P)
                        /\ z.plot.crop = c /\ z.plot.planted = r + m * G
                        /\ z.coins = base + m * d
                        /\ m * G <= to - r /\ to - r < m * G + G
<1>10. \E m \in Nat : Closed(m)
  <2> HIDE DEF k
  <2>1. k * G \in Nat /\ k * d \in Nat
    BY <1>1, <1>2, <1>9, Product
  <2>2. CASE ~Ripe(f, a.plot, to)
    <3>1. z = a
      BY <1>7, <2>2
    <3>2. to < a.plot.planted + G
      <4>1. c # NoCrop
        BY <1>1, CropNumbers
      <4>2. RipeAt(f, a.plot) = a.plot.planted + G
        BY <1>9 DEF RipeAt, G
      <4>3. ~(RipeAt(f, a.plot) <= to)
        BY <1>9, <2>2, <4>1 DEF Ripe
      <4> QED
        BY <1>1, <1>9, <4>2, <4>3
    <3>3. k * G <= to - r /\ to - r < k * G + G
      BY <1>1, <1>9, <2>1, <3>2
    <3> HIDE DEF z
    <3>4. Closed(k)
      BY <1>8, <1>9, <3>1, <3>3
    <3> QED
      BY <1>9, <3>4
  <2>3. CASE Ripe(f, a.plot, to)
    <3>1. z = Batch(f, to, a) /\ a.n = BatchCap
      BY <1>7, <2>3
    <3>2. a.coins >= Seed[c]
      <4>1. k = BatchCap - 1 /\ k * d >= Seed[c]
        <5>1. k = BatchCap - 1
          BY <1>9, <3>1
        <5>2. (BatchCap - 1) * d >= Seed[c]
          BY <1>1, <1>2, CapAssumption DEF d
        <5> QED
          BY <5>1, <5>2
      <4> QED
        BY <1>1, <1>3, <1>9, <2>1, <4>1
    <3>3. MaySow(a.plot.crop, a.coins, to) /\ Sell[a.plot.crop] > Seed[a.plot.crop]
      BY <1>2, <1>5, <1>9, <3>2
    <3>4. PICK n \in Nat \ {0} :
             /\ z \in Turning /\ z.n = a.n + n
             /\ z.plot = [a.plot EXCEPT !.planted = @ + n * Grow(f, a.plot.crop)]
             /\ z.coins = a.coins + n * (Sell[a.plot.crop] - Seed[a.plot.crop])
             /\ z.plot.planted <= to /\ to < z.plot.planted + Grow(f, a.plot.crop)
      BY <1>8, <2>3, <3>1, <3>3, BatchIs
    <3> HIDE DEF z
    <3>5. /\ z.plot = [a.plot EXCEPT !.planted = @ + n * G]
          /\ z.coins = a.coins + n * d /\ to < z.plot.planted + G
      BY <1>9, <3>4 DEF G, d
    <3>6. z.plot.planted = a.plot.planted + n * G /\ z.plot.crop = c /\ SamePlan(z, P)
      BY <1>9, <3>5 DEF PlotSet, SamePlan
    <3>7. /\ (k + n) * G = k * G + n * G /\ (k + n) * d = k * d + n * d
          /\ n * G \in Nat /\ n * d \in Nat
      BY <1>1, <1>2, <1>9, Product, Distribute
    <3>8. z.plot.planted = r + (k + n) * G /\ z.coins = base + (k + n) * d /\ z.n = (k + n) + 1
      BY <1>1, <1>3, <1>9, <2>1, <3>4, <3>5, <3>6, <3>7
    <3>9. (k + n) * G <= to - r /\ to - r < (k + n) * G + G
      BY <1>1, <2>1, <3>4, <3>5, <3>7, <3>8
    <3>10. Closed(k + n) /\ k + n \in Nat
      BY <1>9, <3>4, <3>6, <3>8, <3>9
    <3> QED
      BY <3>10
  <2> QED
    BY <2>2, <2>3
<1>11. PICK m \in Nat : Closed(m)
  BY <1>10
<1>12. m = (to - r) \div G
  <2> DEFINE left == to - r
  <2>1. left \in Nat /\ m * G <= left /\ left < m * G + G
    BY <1>1, <1>11
  <2> HIDE DEF left, Closed
  <2>2. m \in Nat /\ G \in Nat \ {0}
    BY <1>1
  <2>3. left \div G = m
    BY <2>1, <2>2, QuotientIs
  <2> QED
    BY <2>3 DEF left
<1> DEFINE o == Outcome(f, P, to)
           e == [P EXCEPT !.crop = c, !.planted = r + m * G]
<1>13. o = [plot |-> e, gain |-> (Sell[P.crop] - Seed[c]) + m * d, n |-> m + 1]
  BY <1>12 DEF Outcome, c, G, r, d
<1>14. z.plot = e
  <2>1. z.plot \in PlotSet /\ c \in MaybeCrop /\ z.plot.planted \in Times
    BY <1>1, <1>11 DEF Turning, PlotSet, MaybeCrop
  <2> DEFINE planted == r + m * G
  <2>2. planted \in Times
    BY <1>11, <2>1
  <2> HIDE DEF planted, P, z
  <2>3. /\ e.crop = c /\ e.planted = planted /\ e.autoHarvest = P.autoHarvest
        /\ e.autoSow = P.autoSow /\ e.queued = P.queued /\ e.last = P.last
        /\ e \in PlotSet
    BY <1>1, <2>1, <2>2 DEF PlotSet, planted
  <2>4. z.plot.planted = planted
    BY <1>11 DEF planted
  <2> HIDE DEF e
  <2> QED
    BY <1>11, <2>1, <2>3, <2>4, SamePlot DEF SamePlan
<1> HIDE DEF z, o, e
<1>15. m * d \in Nat
  BY <1>2, <1>11, Product
<1>16. z.coins = start.coins + o.gain /\ z.n = o.n
  <2>1. z.coins = base + m * d
    BY <1>11
  <2> QED
    BY <1>1, <1>11, <1>13, <1>15, <2>1 DEF base
<1> QED
  BY <1>13, <1>14, <1>16 DEF Is, o, z

LEMMA SettleOutcome ==
    ASSUME NEW f, NEW to \in Times, NEW start \in Turning, start.n = 0,
           Pays(start.plot), start.coins >= Shortfall(start.plot)
    PROVE  Is(Settle(f, to, start), Outcome(f, start.plot, to), start.coins)
<1>1. CASE ~(start.plot.autoHarvest /\ Ripe(f, start.plot, to))
  BY <1>1, OutcomeAtRest
<1>2. CASE start.plot.autoHarvest /\ Ripe(f, start.plot, to) /\ ~start.plot.autoSow
  BY <1>2, OutcomeOfOne
<1>3. CASE start.plot.autoHarvest /\ Ripe(f, start.plot, to) /\ start.plot.autoSow
  BY <1>3, OutcomeOfMany
<1> QED
  BY <1>1, <1>2, <1>3

(* The third form of an outcome, told by how often the loop turns again.   *)
Again(f, plot, q) ==
    LET c == SowCrop(plot)
    IN  [plot |-> [plot EXCEPT !.crop = c, !.planted = RipeAt(f, plot) + q * Grow(f, c)],
         gain |-> (Sell[plot.crop] - Seed[c]) + q * (Sell[c] - Seed[c]),
         n    |-> q + 1]

LEMMA OutcomeAgain ==
    ASSUME NEW f, NEW to \in Times, NEW plot \in PlotSet,
           plot.autoHarvest, plot.autoSow, Ripe(f, plot, to)
    PROVE  LET G == Grow(f, SowCrop(plot))
           IN  /\ \A q \in Nat : /\ RipeAt(f, plot) + q * G <= to
                                 /\ to < RipeAt(f, plot) + q * G + G
                                 => Outcome(f, plot, to) = Again(f, plot, q)
               /\ \E q \in Nat : /\ RipeAt(f, plot) + q * G <= to
                                 /\ to < RipeAt(f, plot) + q * G + G
<1> DEFINE G == Grow(f, SowCrop(plot))
           r == RipeAt(f, plot)
           left == to - r
<1>1. G \in Nat \ {0} /\ r \in Nat /\ to \in Nat /\ left \in Nat
  <2>1. SowCrop(plot) \in Crops /\ r \in Times /\ r <= to
    BY RipeCrop
  <2>2. \A x \in Times : x \in Nat
    BY ClockAssumption DEF Times
  <2>3. G \in Nat \ {0}
    BY <2>1, GrowIsPositive
  <2> HIDE DEF G, r
  <2> QED
    BY <2>1, <2>2, <2>3
<1>2. Outcome(f, plot, to) = Again(f, plot, left \div G)
  BY DEF Outcome, Again
<1>3. ASSUME NEW q \in Nat, r + q * G <= to, to < r + q * G + G
      PROVE  left \div G = q
  <2> HIDE DEF G, r
  <2>1. q * G \in Nat
    BY <1>1, Product
  <2>2. q * G <= left /\ left < q * G + G
    BY <1>1, <1>3, <2>1
  <2> HIDE DEF left
  <2> QED
    BY <1>1, <2>2, QuotientIs
<1>4. \E q \in Nat : r + q * G <= to /\ to < r + q * G + G
  <2> DEFINE q == left \div G
  <2> HIDE DEF G, r, left
  <2>1. q \in Nat /\ q * G <= left /\ left < q * G + G
    BY <1>1, Quotient
  <2> HIDE DEF q
  <2>2. q * G \in Nat
    BY <1>1, <2>1, Product
  <2>3. r + q * G <= to /\ to < r + q * G + G
    BY <1>1, <2>1, <2>2 DEF left
  <2> QED
    BY <2>1, <2>3
<1> QED
  BY <1>2, <1>3, <1>4

(* The types of an outcome; and the plot pays its way from then on, with   *)
(* what it has earned.                                                     *)
LEMMA OutcomeType ==
    ASSUME NEW f, NEW to \in Times, NEW plot \in PlotSet, Pays(plot)
    PROVE  LET o == Outcome(f, plot, to)
           IN  /\ o.plot \in PlotSet /\ o.gain \in Int /\ o.n \in Nat
               /\ Pays(o.plot) /\ Shortfall(o.plot) <= Shortfall(plot) + o.gain
<1> DEFINE o == Outcome(f, plot, to)
           c == SowCrop(plot)
           r == RipeAt(f, plot)
           G == Grow(f, c)
<1>1. Shortfall(plot) \in Nat
  BY ShortfallIs
<1>2. CASE ~(plot.autoHarvest /\ Ripe(f, plot, to))
  <2>1. o = [plot |-> plot, gain |-> 0, n |-> 0]
    BY <1>2 DEF Outcome
  <2> HIDE DEF o
  <2> QED
    BY <1>1, <2>1 DEF o
<1>3. CASE plot.autoHarvest /\ Ripe(f, plot, to) /\ ~plot.autoSow
  <2> DEFINE e == [plot EXCEPT !.crop = NoCrop, !.planted = 0]
  <2>1. o = [plot |-> e, gain |-> Sell[plot.crop], n |-> 1]
    BY <1>3 DEF Outcome
  <2>2. Sell[plot.crop] \in Nat
    BY <1>3, RipeCrop, CropNumbers
  <2>3. e \in PlotSet /\ e.crop = NoCrop /\ ~e.autoSow
    <3>1. 0 \in Times /\ NoCrop \in MaybeCrop
      BY ClockAssumption DEF Times, MaybeCrop
    <3> QED
      BY <1>3, <3>1 DEF PlotSet
  <2>4. Pays(e) /\ Shortfall(e) = 0
    BY <2>3 DEF Pays, Shortfall
  <2> HIDE DEF o, e
  <2> QED
    BY <1>1, <2>1, <2>2, <2>3, <2>4 DEF o
<1>4. CASE plot.autoHarvest /\ Ripe(f, plot, to) /\ plot.autoSow
  <2>1. PICK q \in Nat : r + q * G <= to /\ to < r + q * G + G /\ o = Again(f, plot, q)
    BY <1>4, OutcomeAgain
  <2> DEFINE e == [plot EXCEPT !.crop = c, !.planted = r + q * G]
             d == Sell[c] - Seed[c]
             lack == Seed[c] - Sell[plot.crop]
  <2>2. o = [plot |-> e, gain |-> (Sell[plot.crop] - Seed[c]) + q * d, n |-> q + 1]
    BY <2>1 DEF Again
  <2>3. /\ plot.crop \in Crops /\ c \in Crops /\ r \in Nat /\ G \in Nat \ {0} /\ to \in Nat
        /\ plot.crop # NoCrop /\ c # NoCrop
        /\ Sell[plot.crop] \in Nat /\ Sell[c] \in Nat /\ Seed[c] \in Nat
    BY <1>4, RipeCrop, GrowIsPositive, CropNumbers, ClockAssumption DEF Times
  <2>4. Sell[c] > Seed[c] /\ c \notin Festival
    BY <1>4, <2>3 DEF Pays
  <2>5. r + q * G \in Times
    <3>1. q * G \in Nat
      BY <2>3, Product
    <3> DEFINE sown == r + q * G
    <3>2. sown \in Nat /\ sown <= to
      BY <2>1, <2>3, <3>1
    <3> HIDE DEF sown
    <3>3. sown \in Times
      BY <3>2, ClockAssumption DEF Times
    <3> QED
      BY <3>3 DEF sown
  <2>6. /\ e \in PlotSet /\ e.crop = c /\ e.autoSow /\ SowCrop(e) = c
    <3> DEFINE sown == r + q * G
    <3>1. sown \in Times /\ c \in MaybeCrop
      BY <2>3, <2>5 DEF MaybeCrop
    <3> HIDE DEF sown
    <3>2. e \in PlotSet /\ e.crop = c /\ e.autoSow /\ e.queued = plot.queued
      <4> HIDE DEF c
      <4> QED
        BY <1>4, <3>1 DEF PlotSet, sown
    <3> QED
      BY <3>2 DEF SowCrop
  <2>7. d \in Nat /\ q * d \in Nat
    BY <2>3, <2>4, Product
  <2> HIDE DEF o, e, c, r, G
  <2>8. Pays(e) /\ Shortfall(e) = 0
    <3>1. Pays(e)
      BY <2>4, <2>6 DEF Pays
    <3>2. Shortfall(e) = IF Seed[c] >= Sell[c] THEN Seed[c] - Sell[c] ELSE 0
      BY <2>3, <2>6, ShortfallIs
    <3> QED
      BY <2>3, <2>4, <3>1, <3>2
  <2>9. Shortfall(plot) >= lack
    BY <1>1, <1>4, <2>3, ShortfallIs DEF c
  <2> DEFINE paid == q * d
  <2>10. paid \in Nat
    BY <2>7
  <2>11. /\ o.plot = e /\ o.gain = (Sell[plot.crop] - Seed[c]) + paid /\ o.n = q + 1
    BY <2>2
  <2> HIDE DEF paid, d
  <2>12. o.gain \in Int /\ o.n \in Nat /\ 0 <= Shortfall(plot) + o.gain
    BY <1>1, <2>3, <2>9, <2>10, <2>11
  <2> QED
    BY <2>6, <2>8, <2>11, <2>12 DEF o
<1> QED
  BY <1>2, <1>3, <1>4

(* Two absences in a row come to one.                                      *)
LEMMA OutcomeComposes ==
    ASSUME NEW f, NEW cut \in Times, NEW t \in Times, cut <= t,
           NEW plot \in PlotSet, Pays(plot)
    PROVE  LET one  == Outcome(f, plot, cut)
               two  == Outcome(f, one.plot, t)
               both == Outcome(f, plot, t)
           IN  /\ two.plot = both.plot /\ both.gain = one.gain + two.gain
               /\ both.n = one.n + two.n
<1> DEFINE one  == Outcome(f, plot, cut)
           two  == Outcome(f, one.plot, t)
           both == Outcome(f, plot, t)
           c == SowCrop(plot)
           r == RipeAt(f, plot)
           G == Grow(f, c)
           d == Sell[c] - Seed[c]
<1>1. both.gain \in Int /\ both.n \in Nat
  BY OutcomeType
<1>2. CASE ~(plot.autoHarvest /\ Ripe(f, plot, cut))
  <2>1. one = [plot |-> plot, gain |-> 0, n |-> 0]
    BY <1>2 DEF Outcome
  <2>2. one.plot = plot /\ one.gain = 0 /\ one.n = 0
    BY <2>1
  <2> HIDE DEF one
  <2>3. two = both
    BY <2>2
  <2> HIDE DEF two, both
  <2> QED
    BY <1>1, <2>2, <2>3 DEF one, two, both
<1>3. CASE plot.autoHarvest /\ Ripe(f, plot, cut)
  <2>1. Ripe(f, plot, t) /\ t \in Nat /\ cut \in Nat
    BY <1>3, RipeCrop, ClockAssumption DEF Ripe, Times
  <2>2. CASE ~plot.autoSow
    <3>1. both = one /\ one.gain = Sell[plot.crop] /\ one.n = 1
          /\ one.plot = [plot EXCEPT !.crop = NoCrop, !.planted = 0]
      BY <1>3, <2>1, <2>2 DEF Outcome
    <3> HIDE DEF one
    <3>2. one.plot.crop = NoCrop
      BY <3>1 DEF PlotSet
    <3>3. two = [plot |-> one.plot, gain |-> 0, n |-> 0]
      BY <3>2 DEF Outcome, Ripe
    <3> HIDE DEF two, both
    <3> QED
      BY <1>1, <3>1, <3>3 DEF one, two, both
  <2>3. CASE plot.autoSow
    <3>1. PICK q \in Nat : r + q * G <= cut /\ cut < r + q * G + G /\ one = Again(f, plot, q)
      BY <1>3, <2>3, OutcomeAgain
    <3> DEFINE sown == r + q * G
               e == [plot EXCEPT !.crop = c, !.planted = sown]
    <3>2. one = [plot |-> e, gain |-> (Sell[plot.crop] - Seed[c]) + q * d, n |-> q + 1]
      BY <3>1 DEF Again
    <3>3. /\ plot.crop \in Crops /\ c \in Crops /\ r \in Nat /\ G \in Nat \ {0} /\ c # NoCrop
          /\ Sell[plot.crop] \in Nat /\ Sell[c] \in Nat /\ Seed[c] \in Nat /\ d \in Int
          /\ plot.crop # NoCrop
      BY <1>3, RipeCrop, GrowIsPositive, CropNumbers, ClockAssumption DEF Times
    <3>4. q * G \in Nat
      BY <3>3, Product
    <3>5. sown \in Nat /\ sown <= cut /\ sown \in Times
      <4> HIDE DEF r, G
      <4>1. sown \in Nat /\ sown <= cut
        BY <2>1, <3>1, <3>3, <3>4
      <4> HIDE DEF sown
      <4> QED
        BY <4>1, ClockAssumption DEF Times
    <3>6. /\ e \in PlotSet /\ e.crop = c /\ e.planted = sown /\ e.autoSow /\ e.autoHarvest
          /\ e.queued = plot.queued /\ e.last = plot.last
      <4>1. c \in MaybeCrop
        BY <3>3 DEF MaybeCrop
      <4> HIDE DEF sown, c
      <4> QED
        BY <1>3, <2>3, <3>5, <4>1 DEF PlotSet
    <3>7. SowCrop(e) = c
      BY <3>6 DEF SowCrop
    <3>8. RipeAt(f, e) = sown + G /\ (Ripe(f, e, t) <=> sown + G <= t)
      <4> HIDE DEF sown, e, c
      <4>1. RipeAt(f, e) = sown + Grow(f, c)
        BY <3>6 DEF RipeAt
      <4> QED
        BY <3>3, <3>6, <4>1 DEF Ripe
    <3>9. one.plot = e /\ one.gain = (Sell[plot.crop] - Seed[c]) + q * d /\ one.n = q + 1
      BY <3>2
    <3>10. /\ \A m \in Nat : r + m * G <= t /\ t < r + m * G + G => both = Again(f, plot, m)
      BY <1>3, <2>1, <2>3, OutcomeAgain
    <3>11. CASE ~Ripe(f, e, t)
      <4>1. two = [plot |-> e, gain |-> 0, n |-> 0]
        BY <3>9, <3>11 DEF Outcome
      <4>2. t < sown + G /\ sown <= t
        <5> HIDE DEF sown, G, e
        <5> QED
          BY <2>1, <3>3, <3>5, <3>8, <3>11
      <4>3. both = one
        BY <3>1, <3>10, <4>2
      <4> HIDE DEF one, two, both
      <4> QED
        BY <1>1, <3>9, <4>1, <4>3 DEF one, two, both
    <3>12. CASE Ripe(f, e, t)
      <4>1. PICK m \in Nat : /\ (sown + G) + m * G <= t /\ t < (sown + G) + m * G + G
                             /\ two = Again(f, e, m)
        <5> HIDE DEF e, sown
        <5>1. \E m \in Nat : /\ RipeAt(f, e) + m * Grow(f, SowCrop(e)) <= t
                             /\ t < RipeAt(f, e) + m * Grow(f, SowCrop(e)) + Grow(f, SowCrop(e))
                             /\ Outcome(f, e, t) = Again(f, e, m)
          <6> HIDE DEF c, r, G, d
          <6> QED
            BY <3>6, <3>12, OutcomeAgain
        <5> QED
          BY <3>7, <3>8, <3>9, <5>1
      <4> DEFINE k == (q + 1) + m
      <4>2. /\ k \in Nat /\ m * G \in Nat /\ (q + 1) * G = q * G + G
            /\ k * G = (q * G + G) + m * G
        <5>1. q + 1 \in Nat /\ G \in Nat /\ 1 \in Nat
          BY <3>3
        <5> HIDE DEF G
        <5> QED
          BY <3>3, <5>1, Product, Distribute
      <4>3. r + k * G = (sown + G) + m * G
        <5> HIDE DEF r, G, k
        <5> QED
          BY <3>3, <3>4, <4>2
      <4>4. both = Again(f, plot, k)
        <5>1. r + k * G <= t /\ t < r + k * G + G
          BY <4>1, <4>3
        <5> QED
          BY <3>10, <4>2, <5>1
      <4>5. Sell[c] > Seed[c]
        BY <2>3, <3>3 DEF Pays
      <4>6. /\ d \in Nat /\ q * d \in Nat /\ m * d \in Nat
            /\ k * d = (q * d + d) + m * d
        <5>1. d \in Nat /\ q + 1 \in Nat /\ 1 \in Nat
          BY <3>3, <4>5
        <5> HIDE DEF d
        <5>2. k * d = (q + 1) * d + m * d /\ (q + 1) * d = q * d + 1 * d /\ 1 * d = d
          BY <5>1, Distribute
        <5> QED
          BY <5>1, <5>2, Product
      <4>7. two.plot = both.plot
        <5> DEFINE x == [e EXCEPT !.crop = c, !.planted = (sown + G) + m * G]
                   y == [plot EXCEPT !.crop = c, !.planted = r + k * G]
        <5>1. two.plot = x /\ both.plot = y
          <6>1. two.plot = [e EXCEPT !.crop = SowCrop(e),
                                     !.planted = RipeAt(f, e) + m * Grow(f, SowCrop(e))]
            BY <4>1 DEF Again
          <6>2. both.plot = y
            BY <4>4 DEF Again
          <6> HIDE DEF e, sown, c, two
          <6>3. two.plot = x
            BY <3>7, <3>8, <6>1
          <6> QED
            BY <6>2, <6>3
        <5>2. x = y
          <6> DEFINE v == r + k * G
          <6>1. x = [e EXCEPT !.crop = c, !.planted = v]
            BY <4>3
          <6>2. y = [plot EXCEPT !.crop = c, !.planted = v]
            OBVIOUS
          <6> HIDE DEF v, x, y, c, sown
          <6> QED
            BY <6>1, <6>2 DEF PlotSet
        <5> QED
          BY <5>1, <5>2
      <4>8. two.gain = d + m * d /\ two.n = m + 1
        <5>1. two.gain = (Sell[e.crop] - Seed[SowCrop(e)])
                           + m * (Sell[SowCrop(e)] - Seed[SowCrop(e)])
          BY <4>1 DEF Again
        <5>2. two.n = m + 1
          BY <4>1 DEF Again
        <5> HIDE DEF two, e, c
        <5> QED
          BY <3>6, <3>7, <5>1, <5>2
      <4>9. both.gain = (Sell[plot.crop] - Seed[c]) + k * d /\ both.n = k + 1
        BY <4>4 DEF Again
      <4>10. both.gain = one.gain + two.gain
        <5> DEFINE qd == q * d
                   md == m * d
                   first == Sell[plot.crop] - Seed[c]
        <5>1. qd \in Nat /\ md \in Nat /\ first \in Int /\ d \in Nat
          BY <3>3, <4>6
        <5>2. both.gain = first + ((qd + d) + md) /\ one.gain = first + qd /\ two.gain = d + md
          BY <3>9, <4>6, <4>8, <4>9
        <5> HIDE DEF qd, md, first, d, one, two, both
        <5> QED
          BY <5>1, <5>2
      <4>11. both.n = one.n + two.n
        <5> HIDE DEF one, two, both
        <5> QED
          BY <3>9, <4>8, <4>9
      <4> QED
        BY <4>7, <4>10, <4>11
    <3> QED
      BY <3>11, <3>12
  <2> QED
    BY <2>2, <2>3
<1> QED
  BY <1>2, <1>3

LEMMA OutcomeSame ==
    ASSUME NEW f, NEW g, g.eventEnds = f.eventEnds, NEW plot, NEW to
    PROVE  Outcome(g, plot, to) = Outcome(f, plot, to)
<1>1. Grow(g, plot.crop) = Grow(f, plot.crop) /\ Grow(g, SowCrop(plot)) = Grow(f, SowCrop(plot))
  BY DEF Grow
<1>2. RipeAt(g, plot) = RipeAt(f, plot)
  BY <1>1 DEF RipeAt
<1>3. Ripe(g, plot, to) = Ripe(f, plot, to)
  BY <1>2 DEF Ripe
<1> QED
  BY <1>1, <1>2, <1>3, Zenon DEF Outcome

(* On a farm that pays its way every plot comes to its own outcome.        *)
LEMMA RoundOutcomes ==
    ASSUME NEW f \in FarmSet, NEW to \in Times,
           f.coins >= Shortfalls(f)[NPlots], PaysItsWay(f)
    PROVE  \A p \in Plots :
             LET r == Round(f, to)
                 o == Outcome(f, f.plots[p], to)
             IN  /\ f.plots[p] \in PlotSet /\ Pays(f.plots[p])
                 /\ r[NPlots].farm.plots[p] = o.plot /\ r[NPlots].gathered[p] = o.n
                 /\ r[p].farm.coins = r[p - 1].farm.coins + o.gain
<1> SUFFICES ASSUME NEW p \in Plots
             PROVE  LET r == Round(f, to)
                        o == Outcome(f, f.plots[p], to)
                    IN  /\ f.plots[p] \in PlotSet /\ Pays(f.plots[p])
                        /\ r[NPlots].farm.plots[p] = o.plot /\ r[NPlots].gathered[p] = o.n
                        /\ r[p].farm.coins = r[p - 1].farm.coins + o.gain
  OBVIOUS
<1> DEFINE r == Round(f, to)
           start == Start(f.plots[p], r[p - 1].farm.coins)
           a == Settle(f, to, start)
<1>1. /\ start \in Turning /\ r[NPlots].farm.plots[p] = a.plot
      /\ r[NPlots].gathered[p] = a.n /\ r[p].farm.coins = a.coins
  BY RoundIs
<1>2. r[p - 1].farm.coins >= Shortfall(f.plots[p])
  BY RoundPays
<1> HIDE DEF r
<1>3. start.plot = f.plots[p] /\ start.coins = r[p - 1].farm.coins /\ start.n = 0
  BY DEF Start
<1>4. f.plots[p] \in PlotSet /\ Pays(f.plots[p])
  BY DEF FarmSet, PaysItsWay, Pays, Sowing
<1> HIDE DEF start
<1>5. Is(a, Outcome(f, start.plot, to), start.coins)
  BY <1>1, <1>2, <1>3, <1>4, SettleOutcome
<1> QED
  BY <1>1, <1>3, <1>4, <1>5 DEF Is, r

(* What the first absence leaves pays its way, too: a plot that took from  *)
(* the wallet takes no more, and one that still has to take finds it there. *)
LEMMA StaysSolvent ==
    ASSUME NEW f \in FarmSet, NEW to \in Times, NEW g \in FarmSet,
           f.coins >= Shortfalls(f)[NPlots], PaysItsWay(f),
           g.plots = Round(f, to)[NPlots].farm.plots,
           g.coins = Round(f, to)[NPlots].farm.coins
    PROVE  g.coins >= Shortfalls(g)[NPlots] /\ PaysItsWay(g)
<1> DEFINE r == Round(f, to)
           o(p) == Outcome(f, f.plots[p], to)
           w == [k \in 0 .. NPlots |-> r[k].farm.coins]
           ff == [p \in Plots |-> Shortfall(f.plots[p])]
           gg == [p \in Plots |-> Shortfall(g.plots[p])]
           sf == Shortfalls(f)
           sg == Shortfalls(g)
<1>1. NPlots \in Nat /\ Plots = 1 .. NPlots
  BY ClockAssumption DEF Plots
<1>2. \A p \in Plots : /\ f.plots[p] \in PlotSet /\ Pays(f.plots[p])
                       /\ g.plots[p] = o(p).plot
                       /\ r[p].farm.coins = r[p - 1].farm.coins + o(p).gain
  BY RoundOutcomes
<1>3. r \in [0 .. NPlots -> Under] /\ r[0].farm.coins = f.coins
  BY RoundRun, RoundPays
<1> HIDE DEF r
<1>4. /\ w \in [0 .. NPlots -> Nat] /\ w[0] = f.coins
      /\ \A p \in Plots : w[p] = w[p - 1] + o(p).gain
  <2>1. \A k \in 0 .. NPlots : r[k].farm.coins \in Nat
    BY <1>3 DEF Under, FarmSet
  <2>2. \A p \in Plots : p \in 0 .. NPlots /\ p - 1 \in 0 .. NPlots
    BY <1>1
  <2>3. 0 \in 0 .. NPlots
    BY <1>1
  <2> HIDE DEF o
  <2> QED
    BY <1>2, <1>3, <2>1, <2>2, <2>3
<1>5. g.coins = w[NPlots]
  BY <1>1 DEF r
<1>6. \A p \in Plots : /\ o(p).gain \in Int /\ Pays(g.plots[p])
                       /\ Shortfall(g.plots[p]) <= Shortfall(f.plots[p]) + o(p).gain
  BY <1>2, OutcomeType
<1> HIDE DEF o, w
<1>7. \A p \in Plots : ff[p] \in Nat /\ gg[p] \in Nat
  <2>1. \A p \in Plots : f.plots[p] \in PlotSet /\ g.plots[p] \in PlotSet
    BY DEF FarmSet
  <2> QED
    BY <2>1, ShortfallIs
<1>8. /\ \A p \in Plots : gg[p] <= ff[p] + o(p).gain
      /\ ff \in [1 .. NPlots -> Nat] /\ gg \in [1 .. NPlots -> Nat]
  BY <1>1, <1>6, <1>7
<1>9. sf = Sums(ff, NPlots) /\ sg = Sums(gg, NPlots)
  BY DEF Shortfalls
<1>10. f.coins >= sf[NPlots]
  OBVIOUS
<1> HIDE DEF ff, gg, sf, sg
<1>11. /\ sf \in [0 .. NPlots -> Nat] /\ sg \in [0 .. NPlots -> Nat] /\ sf[0] = 0 /\ sg[0] = 0
       /\ \A p \in Plots : sf[p] = sf[p - 1] + ff[p] /\ sg[p] = sg[p - 1] + gg[p]
  BY <1>1, <1>8, <1>9, SumsAre
<1>12. f.coins \in Nat
  BY DEF FarmSet
<1> DEFINE T == {k \in 0 .. NPlots : w[k] - sg[k] >= f.coins - sf[k]}
<1>13. 0 \in T
  BY <1>1, <1>4, <1>11, <1>12
<1>14. ASSUME NEW k \in 0 .. NPlots - 1, k \in T PROVE k + 1 \in T
  <2> DEFINE m == k + 1
  <2>1. m \in Plots /\ m - 1 = k /\ m \in 0 .. NPlots /\ k \in 0 .. NPlots
    BY <1>1
  <2> HIDE DEF m
  <2>2. /\ w[m] = w[k] + o(m).gain /\ sf[m] = sf[k] + ff[m] /\ sg[m] = sg[k] + gg[m]
        /\ gg[m] <= ff[m] + o(m).gain
    BY <1>4, <1>8, <1>11, <2>1
  <2>3. /\ w[m] \in Nat /\ w[k] \in Nat /\ sf[k] \in Nat /\ sg[k] \in Nat
        /\ ff[m] \in Nat /\ gg[m] \in Nat /\ o(m).gain \in Int
    BY <1>4, <1>6, <1>7, <1>11, <2>1
  <2>4. w[k] - sg[k] >= f.coins - sf[k]
    BY <1>14
  <2>5. w[m] - sg[m] >= f.coins - sf[m]
    BY <1>12, <2>2, <2>3, <2>4
  <2> QED
    BY <2>1, <2>5 DEF m
<1> HIDE DEF T
<1>15. 0 .. NPlots \subseteq T
  BY <1>1, <1>13, <1>14, UpTo
<1>16. NPlots \in T
  BY <1>1, <1>15
<1>17. g.coins >= sg[NPlots]
  <2>1. /\ w[NPlots] - sg[NPlots] >= f.coins - sf[NPlots] /\ w[NPlots] \in Nat
        /\ sg[NPlots] \in Nat /\ sf[NPlots] \in Nat
    BY <1>1, <1>4, <1>11, <1>16 DEF T
  <2> QED
    BY <1>5, <1>10, <1>12, <2>1
<1>18. PaysItsWay(g)
  BY <1>6 DEF PaysItsWay, Pays, Sowing
<1> QED
  BY <1>17, <1>18 DEF sg

(* Two rounds in a row come to one: plots, harvests, and the wallet.       *)
LEMMA RoundsCompose ==
    ASSUME NEW f \in FarmSet, NEW cut \in Times, NEW t \in Times, cut <= t,
           f.coins >= Shortfalls(f)[NPlots], PaysItsWay(f),
           NEW h \in FarmSet, h.eventEnds = f.eventEnds, h.coins = f.coins, h.plots = f.plots,
           NEW g \in FarmSet, g.eventEnds = f.eventEnds,
           g.plots = Round(f, cut)[NPlots].farm.plots,
           g.coins = Round(f, cut)[NPlots].farm.coins
    PROVE  LET one  == Round(f, cut)[NPlots]
               two  == Round(g, t)[NPlots]
               both == Round(h, t)[NPlots]
           IN  /\ two.farm.plots = both.farm.plots /\ two.farm.coins = both.farm.coins
               /\ \A p \in Plots : both.gathered[p] = one.gathered[p] + two.gathered[p]
<1> DEFINE rf == Round(f, cut)
           rg == Round(g, t)
           rh == Round(h, t)
           one(p)  == Outcome(f, f.plots[p], cut)
           two(p)  == Outcome(g, g.plots[p], t)
           both(p) == Outcome(h, h.plots[p], t)
<1>1. NPlots \in Nat /\ Plots = 1 .. NPlots
  BY ClockAssumption DEF Plots
<1>2. g.coins >= Shortfalls(g)[NPlots] /\ PaysItsWay(g)
  BY StaysSolvent
<1>3. h.coins >= Shortfalls(h)[NPlots] /\ PaysItsWay(h)
  BY DEF Shortfalls, PaysItsWay, Sowing
<1>4. /\ rf \in [0 .. NPlots -> Under] /\ rg \in [0 .. NPlots -> Under]
      /\ rh \in [0 .. NPlots -> Under]
      /\ rf[0].farm.coins = f.coins /\ rg[0].farm.coins = g.coins /\ rh[0].farm.coins = f.coins
  BY <1>2, <1>3, RoundRun, RoundPays
<1>5. \A p \in Plots :
         /\ rf[NPlots].farm.plots[p] = one(p).plot /\ rf[NPlots].gathered[p] = one(p).n
         /\ rf[p].farm.coins = rf[p - 1].farm.coins + one(p).gain
         /\ f.plots[p] \in PlotSet /\ Pays(f.plots[p])
  BY RoundOutcomes
<1>6. \A p \in Plots :
         /\ rg[NPlots].farm.plots[p] = two(p).plot /\ rg[NPlots].gathered[p] = two(p).n
         /\ rg[p].farm.coins = rg[p - 1].farm.coins + two(p).gain
         /\ g.plots[p] \in PlotSet /\ Pays(g.plots[p])
  BY <1>2, RoundOutcomes
<1>7. \A p \in Plots :
         /\ rh[NPlots].farm.plots[p] = both(p).plot /\ rh[NPlots].gathered[p] = both(p).n
         /\ rh[p].farm.coins = rh[p - 1].farm.coins + both(p).gain
         /\ h.plots[p] \in PlotSet /\ Pays(h.plots[p])
  BY <1>3, RoundOutcomes
<1>8. ASSUME NEW p \in Plots
      PROVE  /\ two(p).plot = both(p).plot /\ both(p).gain = one(p).gain + two(p).gain
             /\ both(p).n = one(p).n + two(p).n
             /\ one(p).gain \in Int /\ two(p).gain \in Int
  <2>1. g.plots[p] = one(p).plot
    BY <1>5
  <2>2. two(p) = Outcome(f, one(p).plot, t)
    BY <2>1, OutcomeSame
  <2>3. both(p) = Outcome(f, f.plots[p], t)
    BY OutcomeSame
  <2>4. one(p).gain \in Int
    BY <1>5, OutcomeType
  <2>5. two(p).gain \in Int
    BY <1>6, OutcomeType
  <2>6. /\ Outcome(f, one(p).plot, t).plot = Outcome(f, f.plots[p], t).plot
        /\ Outcome(f, f.plots[p], t).gain = one(p).gain + Outcome(f, one(p).plot, t).gain
        /\ Outcome(f, f.plots[p], t).n = one(p).n + Outcome(f, one(p).plot, t).n
    BY <1>5, OutcomeComposes
  <2> HIDE DEF one, two, both
  <2> QED
    BY <2>2, <2>3, <2>4, <2>5, <2>6
<1> HIDE DEF one, two, both
<1>9. rg[NPlots].farm.plots = rh[NPlots].farm.plots
  <2>1. /\ rg[NPlots].farm.plots \in [Plots -> PlotSet]
        /\ rh[NPlots].farm.plots \in [Plots -> PlotSet]
    <3>1. rg[NPlots] \in Under /\ rh[NPlots] \in Under
      <4> HIDE DEF rg, rh
      <4> QED
        BY <1>1, <1>4
    <3> QED
      BY <3>1 DEF Under, FarmSet
  <2>2. \A p \in Plots : rg[NPlots].farm.plots[p] = rh[NPlots].farm.plots[p]
    BY <1>6, <1>7, <1>8
  <2> HIDE DEF rg, rh
  <2> QED
    BY <2>1, <2>2
<1>10. \A p \in Plots : rh[NPlots].gathered[p] = rf[NPlots].gathered[p] + rg[NPlots].gathered[p]
  BY <1>5, <1>6, <1>7, <1>8
<1> DEFINE A(k) == rh[k].farm.coins
           B(k) == rf[k].farm.coins
           D(k) == rg[k].farm.coins
<1>11. \A k \in 0 .. NPlots : A(k) \in Nat /\ B(k) \in Nat /\ D(k) \in Nat
  <2> HIDE DEF rf, rg, rh
  <2>1. \A k \in 0 .. NPlots : rf[k] \in Under /\ rg[k] \in Under /\ rh[k] \in Under
    BY <1>4
  <2> QED
    BY <2>1 DEF Under, FarmSet
<1>12. /\ A(0) = f.coins /\ B(0) = f.coins /\ D(0) = g.coins /\ g.coins = B(NPlots)
       /\ \A p \in Plots : /\ A(p) = A(p - 1) + both(p).gain
                           /\ B(p) = B(p - 1) + one(p).gain
                           /\ D(p) = D(p - 1) + two(p).gain
  BY <1>4, <1>5, <1>6, <1>7
<1> HIDE DEF A, B, D
<1> DEFINE T == {k \in 0 .. NPlots : A(k) + B(NPlots) = B(k) + D(k)}
<1>13. 0 \in T
  BY <1>1, <1>11, <1>12
<1>14. ASSUME NEW k \in 0 .. NPlots - 1, k \in T PROVE k + 1 \in T
  <2> DEFINE m == k + 1
  <2>1. m \in Plots /\ m - 1 = k /\ m \in 0 .. NPlots /\ k \in 0 .. NPlots /\ NPlots \in 0 .. NPlots
    BY <1>1
  <2> HIDE DEF m
  <2>2. /\ A(m) = A(k) + both(m).gain /\ B(m) = B(k) + one(m).gain /\ D(m) = D(k) + two(m).gain
        /\ both(m).gain = one(m).gain + two(m).gain
        /\ one(m).gain \in Int /\ two(m).gain \in Int
    BY <1>8, <1>12, <2>1
  <2>3. A(k) \in Nat /\ B(k) \in Nat /\ D(k) \in Nat /\ B(NPlots) \in Nat
    BY <1>11, <2>1
  <2>4. A(k) + B(NPlots) = B(k) + D(k)
    BY <1>14
  <2>5. A(m) + B(NPlots) = B(m) + D(m)
    BY <2>2, <2>3, <2>4
  <2> QED
    BY <2>1, <2>5 DEF m
<1> HIDE DEF T
<1>15. 0 .. NPlots \subseteq T
  BY <1>1, <1>13, <1>14, UpTo
<1>16. A(NPlots) = D(NPlots)
  <2>1. NPlots \in T /\ NPlots \in 0 .. NPlots
    BY <1>1, <1>15
  <2>2. A(NPlots) + B(NPlots) = B(NPlots) + D(NPlots)
    BY <2>1 DEF T
  <2> QED
    BY <1>11, <2>1, <2>2
<1> QED
  BY <1>9, <1>10, <1>16 DEF A, D, rf, rg, rh

-----------------------------------------------------------------------------
(* The scarecrows.                                                         *)

Pace(elapsed) == IF elapsed <= OnlineThreshold THEN OfflineSlowdown ELSE 1
Worth(elapsed) == elapsed * Pace(elapsed)

\* What the clock reads before the drops are taken off it.
Clocked(f, to) == f.clock + Worth(to - f.updated)

LEMMA WorthAdds ==
    ASSUME NEW d \in Nat, NEW e \in Nat
    PROVE  /\ Worth(d) \in Nat /\ Worth(e) \in Nat /\ Worth(d + e) \in Nat
           /\ Worth(d + e) <= Worth(d) + Worth(e)
           /\ (Pace(d) = Pace(d + e) /\ Pace(e) = Pace(d + e))
                 => Worth(d + e) = Worth(d) + Worth(e)
<1> DEFINE p == Pace(d)
           q == Pace(e)
           both == Pace(d + e)
<1>1. /\ p \in Nat \ {0} /\ q \in Nat \ {0} /\ both \in Nat \ {0}
      /\ (both = p /\ both = q) \/ both = 1
  <2>1. OfflineSlowdown \in Nat \ {0} /\ OnlineThreshold \in Nat
    BY ScarecrowAssumption, ClockAssumption
  <2> QED
    BY <2>1 DEF Pace
<1>2. Worth(d) = d * p /\ Worth(e) = e * q /\ Worth(d + e) = (d + e) * both
  BY DEF Worth
<1> HIDE DEF p, q, both
<1>3. d * p \in Nat /\ e * q \in Nat /\ (d + e) * both = d * both + e * both
      /\ d * both \in Nat /\ e * both \in Nat
  BY <1>1, Product, Distribute
<1>4. \A n \in Nat, m \in Nat \ {0} : n * 1 = n /\ n <= n * m
  <2> TAKE n \in Nat, m \in Nat \ {0}
  <2>1. 1 * n <= m * n
    BY ProductGrows
  <2>2. 1 * n = n /\ n * 1 = n /\ m * n = n * m
    BY Z3
  <2> QED
    BY <2>1, <2>2
<1>5. CASE both = p /\ both = q
  BY <1>2, <1>3, <1>5 DEF p, q, both
<1>6. CASE both = 1 /\ ~(both = p /\ both = q)
  <2>1. d * both = d /\ e * both = e /\ d <= d * p /\ e <= e * q
    BY <1>1, <1>4, <1>6
  <2>2. Worth(d + e) <= Worth(d) + Worth(e)
    BY <1>2, <1>3, <2>1
  <2> QED
    BY <1>2, <1>3, <1>6, <2>2 DEF p, q, both
<1> QED
  BY <1>1, <1>5, <1>6

(* Advance, for the scarecrows: as many drops as the clock has room for.   *)
LEMMA FoundDrops ==
    ASSUME NEW f \in FarmSet, NEW to \in Times, to >= f.updated, NEW begins \in BOOLEAN
    PROVE  LET g == Found(f, to, begins)
               x == Clocked(f, to)
               n == Len(f.pouches)
           IN  /\ f.pouches = <<>> => g.pouches = <<>> /\ g.clock = f.clock
               /\ f.pouches # <<>> =>
                    /\ g.clock = x % ClockTarget
                    /\ g.pouches = [i \in 1 .. n |->
                                      f.pouches[i] + (x \div ClockTarget) * DropCoins[n]]
<1> DEFINE e == [f EXCEPT !.eventEnds = EventAt(f, to, begins)]
           g == Found(f, to, begins)
           x == Clocked(f, to)
<1>1. g = WithDrops(e, to)
  BY DEF Found
<1>2. /\ e.pouches = f.pouches /\ e.clock = f.clock /\ e.updated = f.updated
  BY DEF FarmSet
<1>3. DOMAIN f.pouches = 1 .. Len(f.pouches)
  BY DEF FarmSet
<1>4. e.clock + (to - e.updated) * (IF to - e.updated <= OnlineThreshold
                                      THEN OfflineSlowdown ELSE 1) = x
  BY <1>2 DEF Clocked, Worth, Pace
<1>5. CASE f.pouches = <<>>
  BY <1>1, <1>2, <1>5 DEF WithDrops
<1>6. CASE f.pouches # <<>>
  <2> DEFINE pouches == [i \in DOMAIN e.pouches |->
                           e.pouches[i] + (x \div ClockTarget) * DropCoins[Len(e.pouches)]]
  <2>1. g = [e EXCEPT !.clock = x % ClockTarget, !.pouches = pouches]
    <3>1. g = [e EXCEPT !.clock = x % ClockTarget,
                        !.pouches = [i \in DOMAIN @ |->
                                       @[i] + (x \div ClockTarget) * DropCoins[Len(@)]]]
      <4> DEFINE clock == e.clock + (to - e.updated) * (IF to - e.updated <= OnlineThreshold
                                                          THEN OfflineSlowdown ELSE 1)
      <4>1. e.pouches # <<>>
        BY <1>2, <1>6
      <4> HIDE DEF e
      <4>2. g = [e EXCEPT !.clock = clock % ClockTarget,
                          !.pouches = [i \in DOMAIN @ |->
                                         @[i] + (clock \div ClockTarget) * DropCoins[Len(@)]]]
        BY <1>1, <4>1 DEF WithDrops
      <4>3. clock = x
        BY <1>4
      <4> HIDE DEF clock, x
      <4> QED
        BY <4>2, <4>3
    <3> QED
      BY <3>1 DEF FarmSet
  <2> HIDE DEF x, g, pouches
  <2>2. g.clock = x % ClockTarget /\ g.pouches = pouches
    BY <2>1 DEF FarmSet
  <2>3. pouches = [i \in 1 .. Len(f.pouches) |->
                     f.pouches[i] + (x \div ClockTarget) * DropCoins[Len(f.pouches)]]
    BY <1>2, <1>3 DEF pouches
  <2> QED
    BY <1>6, <2>2, <2>3 DEF g, x
<1> QED
  BY <1>5, <1>6

LEMMA AdvancedDrops ==
    ASSUME NEW f \in FarmSet, NEW to \in Times, to >= f.updated, NEW begins \in BOOLEAN
    PROVE  LET g == Advanced(f, to, begins).farm
               x == Clocked(f, to)
               n == Len(f.pouches)
           IN  /\ f.pouches = <<>> => g.pouches = <<>> /\ g.clock = f.clock
               /\ f.pouches # <<>> =>
                    /\ g.clock = x % ClockTarget
                    /\ g.pouches = [i \in 1 .. n |->
                                      f.pouches[i] + (x \div ClockTarget) * DropCoins[n]]
<1> DEFINE g == Advanced(f, to, begins).farm
           x == Clocked(f, to)
           n == Len(f.pouches)
<1>1. CASE to <= f.updated
  <2>1. g = f
    BY <1>1 DEF Advanced
  <2>2. x = f.clock
    <3>1. to - f.updated = 0 /\ 0 * Pace(0) = 0 /\ f.clock \in Nat
      <4>1. to \in Nat /\ f.updated \in Nat /\ f.clock \in Nat
        BY ClockAssumption, TargetIsPositive DEF FarmSet, Times
      <4>2. Pace(0) \in Nat
        BY ScarecrowAssumption DEF Pace
      <4> QED
        BY <1>1, <4>1, <4>2, Distribute
    <3> QED
      BY <3>1 DEF Clocked, Worth
  <2>3. f.clock \in Nat /\ f.clock < ClockTarget
    BY TargetIsPositive DEF FarmSet
  <2>4. 0 * ClockTarget = 0
    BY TargetIsPositive, Distribute
  <2>5. x \div ClockTarget = 0 /\ x % ClockTarget = f.clock
    <3> HIDE DEF x
    <3>1. x \in Nat /\ 0 * ClockTarget <= x /\ x < 0 * ClockTarget + ClockTarget
      BY <2>2, <2>3, <2>4, TargetIsPositive
    <3>2. x \div ClockTarget = 0 /\ x % ClockTarget = x - 0 * ClockTarget
      BY <3>1, TargetIsPositive, QuotientIs
    <3> QED
      BY <2>2, <2>3, <2>4, <3>2
  <2>6. f.pouches # <<>> =>
          f.pouches = [i \in 1 .. n |-> f.pouches[i] + (x \div ClockTarget) * DropCoins[n]]
    <3>1. ASSUME f.pouches # <<>>
          PROVE  f.pouches = [i \in 1 .. n |-> f.pouches[i] + 0 * DropCoins[n]]
      <4>1. f.pouches \in Seq(Nat) /\ n \in 1 .. Len(CrowPrice)
        BY <3>1, ScarecrowAssumption DEF FarmSet
      <4>2. DropCoins[n] \in Nat
        BY <4>1, ScarecrowAssumption
      <4> DEFINE more == 0 * DropCoins[n]
      <4>3. more = 0
        BY <4>2, Distribute
      <4> HIDE DEF more
      <4>4. f.pouches = [i \in 1 .. n |-> f.pouches[i] + more]
        BY <4>1, <4>3
      <4> QED
        BY <4>4 DEF more
    <3> QED
      BY <2>5, <3>1
  <2> HIDE DEF x, g, n
  <2>7. f.pouches # <<>> =>
          /\ g.clock = x % ClockTarget
          /\ g.pouches = [i \in 1 .. n |-> f.pouches[i] + (x \div ClockTarget) * DropCoins[n]]
    BY <2>1, <2>5, <2>6
  <2>8. f.pouches = <<>> => g.pouches = <<>> /\ g.clock = f.clock
    BY <2>1
  <2> QED
    BY <2>7, <2>8 DEF x, g, n
<1>2. CASE ~(to <= f.updated)
  <2> DEFINE e == Found(f, to, begins)
  <2>1. e \in FarmSet
    BY FoundIs
  <2>2. g = Round(e, to)[NPlots].farm
    BY <1>2 DEF Advanced
  <2> HIDE DEF e, g
  <2>3. g.pouches = e.pouches /\ g.clock = e.clock
    BY <2>1, <2>2, RoundIs DEF SameRest
  <2>4. /\ f.pouches = <<>> => e.pouches = <<>> /\ e.clock = f.clock
        /\ f.pouches # <<>> =>
             /\ e.clock = x % ClockTarget
             /\ e.pouches = [i \in 1 .. n |->
                               f.pouches[i] + (x \div ClockTarget) * DropCoins[n]]
    BY FoundDrops DEF e
  <2> HIDE DEF x, n
  <2> QED
    BY <2>3, <2>4 DEF g, x, n
<1> QED
  BY <1>1, <1>2

(* A clock that is read in between counts the same drops.                  *)
LEMMA ReadBetween ==
    ASSUME NEW T \in Nat \ {0}, NEW x \in Nat, NEW w \in Nat
    PROVE  /\ x \div T \in Nat /\ x % T \in Nat /\ ((x % T) + w) \div T \in Nat
           /\ (x + w) \div T = x \div T + ((x % T) + w) \div T
           /\ (x + w) % T = ((x % T) + w) % T
<1> DEFINE q    == x \div T
           left == x % T
           y    == left + w
           r    == y \div T
           end  == y % T
           n    == q + r
<1>1. q \in Nat /\ q * T <= x /\ x < q * T + T
  BY Quotient
<1> HIDE DEF q
<1>2. q * T \in Nat /\ left = x - q * T
  BY <1>1, Product, QuotientIs
<1> HIDE DEF left
<1>3. y \in Nat /\ left \in Nat
  BY <1>1, <1>2
<1> HIDE DEF y
<1>4. r \in Nat /\ r * T <= y /\ y < r * T + T
  BY <1>3, Quotient
<1> HIDE DEF r
<1>5. r * T \in Nat /\ end = y - r * T
  BY <1>3, <1>4, Product, QuotientIs
<1> HIDE DEF end
<1>6. n \in Nat /\ n * T = q * T + r * T /\ n * T \in Nat
  BY <1>1, <1>2, <1>4, <1>5, Distribute
<1> HIDE DEF n
<1> DEFINE all == x + w
<1>7. /\ all \in Nat /\ n * T <= all /\ all < n * T + T /\ end = all - n * T
  <2> DEFINE qT == q * T
             rT == r * T
             nT == n * T
  <2>1. /\ qT \in Nat /\ rT \in Nat /\ nT = qT + rT /\ rT <= y /\ y < rT + T
        /\ left = x - qT /\ end = y - rT /\ left \in Nat /\ y = left + w
    BY <1>2, <1>3, <1>4, <1>5, <1>6 DEF y
  <2> HIDE DEF qT, rT, nT
  <2>2. /\ all \in Nat /\ nT <= all /\ all < nT + T /\ end = all - nT
    BY <2>1
  <2> QED
    BY <2>2 DEF nT
<1> HIDE DEF all
<1>8. all \div T = n /\ all % T = all - n * T
  BY <1>6, <1>7, QuotientIs
<1> QED
  BY <1>1, <1>3, <1>4, <1>7, <1>8 DEF all, n, r, q, end, y, left

(* A clock that runs ahead has dropped more, or is nearer to the next drop. *)
LEMMA RunsAhead ==
    ASSUME NEW T \in Nat \ {0}, NEW x \in Nat, NEW y \in Nat, x <= y
    PROVE  /\ x \div T <= y \div T
           /\ x \div T = y \div T => x % T <= y % T
<1> DEFINE q == x \div T
           r == y \div T
           qT == q * T
           rT == r * T
<1>1. q \in Nat /\ qT <= x /\ x < qT + T /\ r \in Nat /\ rT <= y /\ y < rT + T
  BY Quotient
<1> HIDE DEF q, r
<1>2. qT \in Nat /\ rT \in Nat
  BY <1>1, Product
<1>3. x % T = x - qT /\ y % T = y - rT
  BY <1>1, QuotientIs
<1>4. r < q => rT + T <= qT
  BY <1>1, ProductGrows
<1>5. q = r => qT = rT
  OBVIOUS
<1> HIDE DEF qT, rT
<1>6. ~(r < q)
  BY <1>1, <1>2, <1>4
<1>7. q <= r
  BY <1>1, <1>6
<1>8. ASSUME q = r PROVE x % T <= y % T
  BY <1>2, <1>3, <1>5, <1>8
<1> QED
  BY <1>7, <1>8 DEF q, r

LEMMA DropsCompose ==
    ASSUME NEW f \in FarmSet, NEW cut \in Times, NEW t \in Times,
           f.updated <= cut, cut <= t
    PROVE  LET g    == Advanced(f, cut, FALSE).farm
               two  == Advanced(g, t, FALSE).farm
               both == Advanced(f, t, FALSE).farm
           IN  /\ NotBehind(two, both)
               /\ ({Pace(cut - f.updated), Pace(t - cut)} = {Pace(t - f.updated)})
                     => two.clock = both.clock /\ two.pouches = both.pouches
<1> DEFINE g    == Advanced(f, cut, FALSE).farm
           two  == Advanced(g, t, FALSE).farm
           both == Advanced(f, t, FALSE).farm
           n    == Len(f.pouches)
           d    == cut - f.updated
           e    == t - cut
           T    == ClockTarget
           x    == f.clock + Worth(d)
           y    == (x % T) + Worth(e)
           z    == f.clock + Worth(d + e)
<1>1. cut \in Nat /\ t \in Nat /\ f.updated \in Nat /\ t >= f.updated
  BY ClockAssumption DEF FarmSet, Times
<1>2. g \in FarmSet /\ g.updated = cut
  BY AdvancedType DEF Under
<1>3. d \in Nat /\ e \in Nat /\ t - f.updated = d + e /\ t - g.updated = e
  <2> HIDE DEF g
  <2> QED
    BY <1>1, <1>2
<1>4. CASE f.pouches = <<>>
  <2>1. g.pouches = <<>> /\ g.clock = f.clock
    BY <1>4, AdvancedDrops
  <2>2. both.pouches = <<>> /\ both.clock = f.clock
    BY <1>1, <1>4, AdvancedDrops
  <2> HIDE DEF g
  <2>3. two.pouches = <<>> /\ two.clock = g.clock
    BY <1>2, <2>1, AdvancedDrops
  <2> HIDE DEF two, both
  <2>4. two.clock = both.clock /\ two.pouches = both.pouches
    BY <2>1, <2>2, <2>3
  <2>5. NotBehind(two, both)
    <3>1. DOMAIN both.pouches = {}
      BY <2>2
    <3> QED
      BY <3>1, Zenon DEF NotBehind
  <2> QED
    BY <2>4, <2>5 DEF two, both, g
<1>5. CASE f.pouches # <<>>
  <2>1. /\ g.clock = x % T
        /\ g.pouches = [i \in 1 .. n |-> f.pouches[i] + (x \div T) * DropCoins[n]]
    BY <1>5, AdvancedDrops DEF Clocked
  <2>2. /\ both.clock = z % T
        /\ both.pouches = [i \in 1 .. n |-> f.pouches[i] + (z \div T) * DropCoins[n]]
    <3>1. Clocked(f, t) = z
      BY <1>3 DEF Clocked
    <3> HIDE DEF z
    <3> QED
      BY <1>1, <1>5, <3>1, AdvancedDrops
  <2>3. f.pouches \in Seq(Nat) /\ n \in 1 .. Len(CrowPrice)
    BY <1>5, ScarecrowAssumption DEF FarmSet
  <2>4. DropCoins[n] \in Nat \ {0}
    BY <2>3, ScarecrowAssumption
  <2> HIDE DEF n, x, z, g, both
  <2>5. Len(g.pouches) = n /\ g.pouches # <<>>
    <3>1. n \in Nat \ {0}
      BY <2>3
    <3>2. DOMAIN g.pouches = 1 .. n
      BY <2>1
    <3>3. g.pouches \in Seq(Nat)
      BY <1>2 DEF FarmSet
    <3>4. Len(g.pouches) = n
      BY <3>1, <3>2, <3>3
    <3> QED
      BY <3>1, <3>4
  <2>6. /\ two.clock = y % T
        /\ two.pouches = [i \in 1 .. n |-> g.pouches[i] + (y \div T) * DropCoins[n]]
    <3>1. Clocked(g, t) = y
      BY <1>3, <2>1 DEF Clocked
    <3> HIDE DEF y
    <3>2. cut <= t /\ t >= g.updated /\ g \in FarmSet
      BY <1>1, <1>2
    <3>3. /\ two.clock = Clocked(g, t) % ClockTarget
          /\ two.pouches = [i \in 1 .. Len(g.pouches) |-> g.pouches[i]
                             + (Clocked(g, t) \div ClockTarget) * DropCoins[Len(g.pouches)]]
      BY <2>5, <3>2, AdvancedDrops
    <3> HIDE DEF two
    <3> QED
      BY <2>5, <3>1, <3>3
  <2> HIDE DEF two
  <2>7. /\ Worth(d) \in Nat /\ Worth(e) \in Nat /\ Worth(d + e) \in Nat
        /\ Worth(d + e) <= Worth(d) + Worth(e)
        /\ (Pace(d) = Pace(d + e) /\ Pace(e) = Pace(d + e))
              => Worth(d + e) = Worth(d) + Worth(e)
    BY <1>3, WorthAdds
  <2>8. f.clock \in Nat /\ T \in Nat \ {0}
    BY TargetIsPositive DEF FarmSet
  <2>9. /\ x \div T \in Nat /\ y \div T \in Nat /\ z \div T \in Nat
        /\ z \div T <= x \div T + y \div T
        /\ z \div T = x \div T + y \div T => z % T <= y % T
        /\ Worth(d + e) = Worth(d) + Worth(e) =>
              z \div T = x \div T + y \div T /\ z % T = y % T
    <3> DEFINE w == Worth(e)
               all == x + w
    <3>1. y = (x % T) + w
      BY DEF y
    <3>2. /\ x \in Nat /\ w \in Nat /\ z \in Nat /\ all \in Nat /\ z <= all
          /\ Worth(d + e) = Worth(d) + w => z = all
      <4> HIDE DEF T, d, e
      <4> QED
        BY <2>7, <2>8 DEF x, z
    <3> HIDE DEF T, w
    <3>3. /\ x \div T \in Nat /\ y \div T \in Nat
          /\ all \div T = x \div T + y \div T /\ all % T = y % T
      <4>1. T \in Nat \ {0} /\ x \in Nat /\ w \in Nat
        BY <2>8, <3>2
      <4>2. /\ x \div T \in Nat /\ ((x % T) + w) \div T \in Nat
            /\ (x + w) \div T = x \div T + ((x % T) + w) \div T
            /\ (x + w) % T = ((x % T) + w) % T
        BY <4>1, ReadBetween
      <4> QED
        BY <3>1, <4>2, Zenon
    <3> HIDE DEF all
    <3>4. /\ z \div T \in Nat /\ z \div T <= all \div T
          /\ z \div T = all \div T => z % T <= all % T
      BY <2>8, <3>2, Quotient, RunsAhead
    <3>5. Worth(d + e) = Worth(d) + w => z \div T = all \div T /\ z % T = all % T
      BY <3>2
    <3> QED
      BY <3>3, <3>4, <3>5 DEF w
  <2> DEFINE D == DropCoins[n]
             a == x \div T
             b == y \div T
             s == z \div T
  <2>10. /\ a \in Nat /\ b \in Nat /\ s \in Nat /\ D \in Nat \ {0} /\ s <= a + b
         /\ a * D \in Nat /\ b * D \in Nat /\ s * D \in Nat /\ (a + b) * D = a * D + b * D
    <3>1. a \in Nat /\ b \in Nat /\ s \in Nat /\ D \in Nat \ {0} /\ s <= a + b
      BY <2>4, <2>9
    <3> HIDE DEF a, b, s, D
    <3> QED
      BY <3>1, Product, Distribute
  <2> HIDE DEF a, b, s, D
  <2>11. s < a + b => (a + b) * D > s * D
    <3>1. ASSUME s < a + b PROVE s * D + D <= (a + b) * D
      BY <2>10, <3>1, ProductGrows
    <3> QED
      BY <2>10, <3>1
  <2>12. two.pouches = [i \in 1 .. n |-> f.pouches[i] + (a + b) * D]
    <3>1. \A i \in 1 .. n : f.pouches[i] \in Nat
      BY <2>3 DEF n
    <3>2. g.pouches = [i \in 1 .. n |-> f.pouches[i] + a * D]
      BY <2>1 DEF a, D
    <3>3. two.pouches = [i \in 1 .. n |-> g.pouches[i] + b * D]
      BY <2>6 DEF b, D
    <3>4. \A i \in 1 .. n : g.pouches[i] + b * D = f.pouches[i] + (a + b) * D
      <4>1. \A i \in 1 .. n : g.pouches[i] = f.pouches[i] + a * D
        BY <3>2
      <4> QED
        BY <2>10, <3>1, <4>1
    <3> QED
      BY <3>3, <3>4
  <2>13. both.pouches = [i \in 1 .. n |-> f.pouches[i] + s * D]
    BY <2>2 DEF s, D
  <2>14. NotBehind(two, both)
    <3>1. DOMAIN both.pouches = 1 .. n
      BY <2>13
    <3>2. ASSUME NEW i \in 1 .. n
          PROVE  \/ two.pouches[i] > both.pouches[i]
                 \/ two.pouches[i] = both.pouches[i] /\ two.clock >= both.clock
      <4>1. two.pouches[i] = f.pouches[i] + (a + b) * D /\ both.pouches[i] = f.pouches[i] + s * D
        BY <2>12, <2>13
      <4>2. f.pouches[i] \in Nat
        BY <2>3 DEF n
      <4>3. CASE s < a + b
        BY <2>10, <2>11, <4>1, <4>2, <4>3
      <4>4. CASE s = a + b
        <5>1. z % T <= y % T
          BY <2>9, <4>4 DEF s, a, b
        <5>2. two.clock = y % T /\ both.clock = z % T
          BY <2>2, <2>6
        <5>3. y % T \in Int /\ z % T \in Int
          <6>1. two \in FarmSet /\ both \in FarmSet
            BY <1>1, <1>2, AdvancedType DEF Under, two, both
          <6> QED
            BY <5>2, <6>1, TargetIsPositive DEF FarmSet
        <5> QED
          BY <4>1, <4>4, <5>1, <5>2, <5>3
      <4> QED
        BY <2>10, <4>3, <4>4
    <3> QED
      BY <3>1, <3>2 DEF NotBehind
  <2>15. ASSUME {Pace(d), Pace(e)} = {Pace(d + e)}
         PROVE  two.clock = both.clock /\ two.pouches = both.pouches
    <3>1. Pace(d) = Pace(d + e) /\ Pace(e) = Pace(d + e)
      BY <2>15
    <3>2. s = a + b /\ z % T = y % T
      BY <2>7, <2>9, <3>1 DEF s, a, b
    <3> QED
      BY <2>2, <2>6, <2>12, <2>13, <3>2
  <2> QED
    BY <1>3, <2>14, <2>15 DEF two, both, g
<1> QED
  BY <1>4, <1>5

-----------------------------------------------------------------------------
(* AbsencesAddUp, for one farm and one place of the cut.                   *)

LEMMA FarmsCompose ==
    ASSUME NEW f \in FarmSet, NEW cut \in Times, NEW t \in Times,
           f.updated <= cut, cut <= t, Solvent(f), f.eventEnds = 0
    PROVE  LET one  == Advanced(f, cut, FALSE)
               two  == Advanced(one.farm, t, FALSE)
               both == Advanced(f, t, FALSE)
           IN  /\ Fields(two.farm) = Fields(both.farm)
               /\ \A p \in Plots : both.gathered[p] = one.gathered[p] + two.gathered[p]
<1> DEFINE one  == Advanced(f, cut, FALSE)
           g    == one.farm
           two  == Advanced(g, t, FALSE)
           both == Advanced(f, t, FALSE)
<1>1. cut \in Nat /\ t \in Nat /\ f.updated \in Nat /\ f.updated <= t
  BY ClockAssumption DEF FarmSet, Times
<1>2. /\ g \in FarmSet /\ g.updated = cut /\ one.gathered \in [Plots -> Nat]
  BY AdvancedType DEF Under
<1>3. /\ both.gathered \in [Plots -> Nat]
  BY <1>1, AdvancedType DEF Under
<1>4. \A p \in Plots : one.gathered[p] \in Nat /\ both.gathered[p] \in Nat /\ NoHarvests[p] = 0
  BY <1>2, <1>3 DEF NoHarvests
<1>5. CASE cut = f.updated
  <2>1. one = [farm |-> f, gathered |-> NoHarvests]
    BY <1>1, <1>5 DEF Advanced
  <2> HIDE DEF one
  <2>2. g = f /\ one.gathered = NoHarvests
    BY <2>1
  <2> HIDE DEF g
  <2>3. two = both
    BY <2>2
  <2> HIDE DEF two, both
  <2>4. \A p \in Plots : both.gathered[p] = one.gathered[p] + two.gathered[p]
    BY <1>4, <2>2, <2>3
  <2> QED
    BY <2>3, <2>4 DEF one, two, both, g
<1>6. CASE cut = t
  <2>1. two = [farm |-> g, gathered |-> NoHarvests] /\ both = one
    <3> HIDE DEF g
    <3> QED
      BY <1>1, <1>2, <1>6 DEF Advanced, g
  <2> HIDE DEF two, both, one
  <2>2. two.farm = g /\ two.gathered = NoHarvests
    BY <2>1
  <2>3. \A p \in Plots : both.gathered[p] = one.gathered[p] + two.gathered[p]
    BY <1>4, <2>1, <2>2
  <2> QED
    BY <2>1, <2>2, <2>3 DEF one, two, both
<1>7. CASE f.updated < cut /\ cut < t
  <2> DEFINE e == Found(f, cut, FALSE)
             h == Found(f, t, FALSE)
             i == Found(g, t, FALSE)
  <2>1. ~(cut <= f.updated) /\ ~(t <= f.updated) /\ ~(t <= g.updated) /\ t >= g.updated /\ t >= f.updated
    <3> HIDE DEF g
    <3> QED
      BY <1>1, <1>2, <1>7
  <2>2. one = Round(e, cut)[NPlots] /\ both = Round(h, t)[NPlots]
    BY <2>1 DEF Advanced
  <2>3. two = Round(i, t)[NPlots]
    <3> HIDE DEF g
    <3> QED
      BY <2>1 DEF Advanced
  <2>4. EventAt(f, cut, FALSE) = 0 /\ EventAt(f, t, FALSE) = 0
    BY <1>1 DEF EventAt
  <2>5. /\ e \in FarmSet /\ e.plots = f.plots /\ e.coins = f.coins /\ e.updated = f.updated
        /\ e.last = f.last /\ e.eventEnds = 0
    <3>1. cut >= f.updated
      BY <1>1
    <3> QED
      BY <2>4, <3>1, FoundIs
  <2>6. /\ h \in FarmSet /\ h.plots = f.plots /\ h.coins = f.coins /\ h.updated = f.updated
        /\ h.last = f.last /\ h.eventEnds = 0
    BY <2>1, <2>4, FoundIs
  <2> HIDE DEF e, h
  <2>7. /\ one.farm.eventEnds = 0 /\ one.farm.last = f.last
    <3>1. SameRest(Round(e, cut)[NPlots].farm, e)
      BY <2>5, RoundIs
    <3> HIDE DEF one
    <3> QED
      BY <2>2, <2>5, <3>1 DEF SameRest
  <2>8. /\ i \in FarmSet /\ i.plots = g.plots /\ i.coins = g.coins /\ i.updated = g.updated
        /\ i.last = g.last /\ i.eventEnds = 0
    <3>1. g.eventEnds = 0
      BY <2>7
    <3> HIDE DEF g
    <3> QED
      <4>1. EventAt(g, t, FALSE) = 0
        BY <1>1, <3>1 DEF EventAt
      <4> QED
        BY <1>2, <2>1, <4>1, FoundIs
  <2> HIDE DEF i, one, two, both
  <2>9. /\ both.farm.updated = t /\ both.farm.eventEnds = 0 /\ both.farm.last = f.last
    BY <2>2, <2>6, RoundIs DEF SameRest
  <2>10. /\ two.farm.updated = t /\ two.farm.eventEnds = 0 /\ two.farm.last = f.last
    BY <2>3, <2>7, <2>8, RoundIs DEF SameRest
  <2>11. e.coins >= Shortfalls(e)[NPlots] /\ PaysItsWay(e)
    <3>1. Sowing(e) = Sowing(f) /\ Shortfalls(e) = Shortfalls(f)
      BY <2>5 DEF Sowing, Shortfalls
    <3> QED
      BY <2>5, <3>1 DEF Solvent, PaysItsWay
  <2>12. i.plots = Round(e, cut)[NPlots].farm.plots /\ i.coins = Round(e, cut)[NPlots].farm.coins
    BY <2>2, <2>8
  <2>13. /\ two.farm.plots = both.farm.plots /\ two.farm.coins = both.farm.coins
         /\ \A p \in Plots : both.gathered[p] = one.gathered[p] + two.gathered[p]
    BY <2>2, <2>3, <2>5, <2>6, <2>8, <2>11, <2>12, RoundsCompose
  <2>14. Fields(two.farm) = Fields(both.farm)
    BY <2>9, <2>10, <2>13 DEF Fields
  <2> QED
    BY <2>13, <2>14 DEF one, two, both
<1>8. cut = f.updated \/ cut = t \/ (f.updated < cut /\ cut < t)
  BY <1>1
<1> HIDE DEF one, two, both
<1> QED
  BY <1>5, <1>6, <1>7, <1>8 DEF one, two, both, g

LEMMA SamePace ==
    ASSUME NEW d \in Nat, NEW e \in Nat, NEW all \in Nat,
           {d > OnlineThreshold, e > OnlineThreshold} = {all > OnlineThreshold}
    PROVE  {Pace(d), Pace(e)} = {Pace(all)}
<1>1. (d > OnlineThreshold) = (all > OnlineThreshold) /\ (e > OnlineThreshold) = (all > OnlineThreshold)
  OBVIOUS
<1>2. \A n \in Nat : (n <= OnlineThreshold) = ~(n > OnlineThreshold)
  BY ClockAssumption
<1> QED
  BY <1>1, <1>2 DEF Pace

(* An absence that is cut in two anywhere comes to the same farm as one    *)
(* that is not: Advance is called when somebody looks, and it must not     *)
(* matter when that is.                                                    *)
THEOREM HoweverOftenSomebodyLooks == Spec => []AbsencesAddUp
<1>1. FarmInv => AbsencesAddUp
  <2> SUFFICES ASSUME FarmInv PROVE AbsencesAddUp
    OBVIOUS
  <2> DEFINE until == [t \in farm.updated .. Horizon |-> Advanced(farm, t, FALSE)]
             Away(t, u) == u - t > OnlineThreshold
  <2>1. farm \in FarmSet /\ farm.updated \in Nat /\ farm.updated \in Times /\ Horizon \in Nat
    BY ClockAssumption DEF FarmInv, FarmSet, Times
  <2>2. ASSUME NEW t \in farm.updated .. Horizon, NEW cut \in farm.updated .. t
        PROVE  LET rest == Advanced(until[cut].farm, t, FALSE)
               IN  /\ NotBehind(rest.farm, until[t].farm)
                   /\ ({Away(farm.updated, cut), Away(cut, t)} = {Away(farm.updated, t)})
                         => /\ rest.farm.clock = until[t].farm.clock
                            /\ rest.farm.pouches = until[t].farm.pouches
                   /\ (Solvent(farm) /\ farm.eventEnds = 0)
                         => /\ Fields(rest.farm) = Fields(until[t].farm)
                            /\ \A p \in Plots :
                                 until[t].gathered[p] = until[cut].gathered[p] + rest.gathered[p]
    <3>1. /\ t \in Times /\ cut \in Times /\ t \in Nat /\ cut \in Nat
          /\ farm.updated <= cut /\ cut <= t
      BY <2>1 DEF Times
    <3>2. until[t] = Advanced(farm, t, FALSE) /\ until[cut] = Advanced(farm, cut, FALSE)
      <4>1. cut \in farm.updated .. Horizon
        BY <2>1
      <4> QED
        BY <4>1
    <3> DEFINE one  == Advanced(farm, cut, FALSE)
               two  == Advanced(one.farm, t, FALSE)
               both == Advanced(farm, t, FALSE)
    <3>3. /\ NotBehind(two.farm, both.farm)
          /\ ({Pace(cut - farm.updated), Pace(t - cut)} = {Pace(t - farm.updated)})
                => two.farm.clock = both.farm.clock /\ two.farm.pouches = both.farm.pouches
      BY <2>1, <3>1, DropsCompose
    <3>4. ASSUME {Away(farm.updated, cut), Away(cut, t)} = {Away(farm.updated, t)}
          PROVE  {Pace(cut - farm.updated), Pace(t - cut)} = {Pace(t - farm.updated)}
      <4>1. cut - farm.updated \in Nat /\ t - cut \in Nat /\ t - farm.updated \in Nat
        BY <2>1, <3>1
      <4> DEFINE d == cut - farm.updated
                 e == t - cut
                 all == t - farm.updated
      <4>2. {d > OnlineThreshold, e > OnlineThreshold} = {all > OnlineThreshold}
        BY <3>4
      <4>3. d \in Nat /\ e \in Nat /\ all \in Nat
        BY <4>1
      <4> HIDE DEF d, e, all
      <4>4. {Pace(d), Pace(e)} = {Pace(all)}
        BY <4>2, <4>3, SamePace, ZenonT(30)
      <4> QED
        BY <4>4 DEF d, e, all
    <3>5. ASSUME Solvent(farm), farm.eventEnds = 0
          PROVE  /\ Fields(two.farm) = Fields(both.farm)
                 /\ \A p \in Plots : both.gathered[p] = one.gathered[p] + two.gathered[p]
      BY <2>1, <3>1, <3>5, FarmsCompose
    <3> HIDE DEF Away, until, one, two, both
    <3>6. until[t] = both /\ until[cut] = one /\ two = Advanced(until[cut].farm, t, FALSE)
      BY <3>2 DEF one, two, both
    <3> QED
      BY <3>3, <3>4, <3>5, <3>6
  <2>3. DOMAIN until = farm.updated .. Horizon
    OBVIOUS
  <2> HIDE DEF until
  <2>4. \A t \in DOMAIN until : \A cut \in farm.updated .. t :
           LET rest == Advanced(until[cut].farm, t, FALSE)
           IN  /\ NotBehind(rest.farm, until[t].farm)
               /\ ({Away(farm.updated, cut), Away(cut, t)} = {Away(farm.updated, t)})
                     => /\ rest.farm.clock = until[t].farm.clock
                        /\ rest.farm.pouches = until[t].farm.pouches
               /\ (Solvent(farm) /\ farm.eventEnds = 0)
                     => /\ Fields(rest.farm) = Fields(until[t].farm)
                        /\ \A p \in Plots :
                             until[t].gathered[p] = until[cut].gathered[p] + rest.gathered[p]
    BY <2>2, <2>3
  <2> QED
    BY <2>4 DEF AbsencesAddUp, until
<1> QED
  BY <1>1, FarmStaysAFarm, PTL
=============================================================================
