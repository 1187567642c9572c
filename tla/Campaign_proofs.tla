-------------------------- MODULE Campaign_proofs --------------------------
(***************************************************************************)
(* The campaign for all goals, prices and amounts.  What an operation does *)
(* to a farm is a composition of a few functions on sim.State, so the      *)
(* lemmas are about these: each takes a sound farm to a sound farm, and    *)
(* gains what the properties of a step ask for.                            *)
(***************************************************************************)
EXTENDS Campaign, FiniteSetTheorems, TLAPS

Acceptance == [lifetime : Amount, rebirths : Nat]

(* The parts of the invariant, of a farm whose contract was accepted at a. *)
InOrder(f) ==
    f.active # NoContract =>
        f.unlocked /\ f.completed < 3 /\ f.active = Order[f.completed + 1]

Cleared(f) ==
    f.active = NoContract => f.cEarnings = 0 /\ f.cStarseeds = 0 /\ f.cRebirths = 0

Honest(f, a) ==
    f.active # NoContract =>
        /\ f.cRebirths = Least(MaxCoin, f.rebirths - a.rebirths)
        /\ f.cEarnings >= f.lifetime - a.lifetime
        /\ f.lifetime < MaxCoin => f.cEarnings = f.lifetime - a.lifetime
        /\ f.cStarseeds = Least(MaxCoin, f.starseeds + f.upgrades)

Restricted(f) ==
    /\ f.active \in {BareHands, ClockworkDenied} => f.automated = 0
    /\ f.active = LeanSeason => f.plots <= LeanMax /\ ~f.greenhouse
    /\ f.active = ClockworkDenied =>
          ~f.event /\ ~f.gift /\ f.scarecrows = 0 /\ f.pouch = 0

(* What the properties leave out: lifetime counts only grow, and a style   *)
(* once available stays so.                                                *)
Since(f, a) == a.lifetime <= f.lifetime /\ a.rebirths <= f.rebirths
Dressed(f)  == f.style \in AvailableStyles(f)

Sound(f, a) ==
    /\ f \in Farms /\ a \in Acceptance
    /\ InOrder(f) /\ Cleared(f) /\ Honest(f, a) /\ Restricted(f)
    /\ Since(f, a) /\ Dressed(f)

CInv == Sound(s, accepted) /\ ~GoalReached(s)

(* The seal of contract c is deserved by what farm g has done since a.     *)
Deserved(c, g, a) ==
    /\ c = BareHands       => (g.lifetime < MaxCoin => g.lifetime - a.lifetime >= BareGoal)
    /\ c = LeanSeason      => g.starseeds + g.upgrades >= SeedGoal
    /\ c = ClockworkDenied => g.rebirths - a.rebirths >= RebirthGoal

(* From f to g something was earned: perhaps the contract, once.           *)
Gains(f, g, a) ==
    /\ g.lifetime >= f.lifetime /\ g.rebirths >= f.rebirths /\ g.starseeds >= f.starseeds
    /\ g.upgrades = f.upgrades /\ g.unlocked = f.unlocked /\ g.style = f.style
    /\ \/ g.completed = f.completed /\ g.active = f.active
       \/ /\ g.completed = f.completed + 1
          /\ f.active # NoContract /\ g.active = NoContract /\ Deserved(f.active, g, a)

(* A farm is as it must be, and came from f by earning.                    *)
Earns(f, g, a) == Sound(g, a) /\ ~GoalReached(g) /\ Gains(f, g, a)

-----------------------------------------------------------------------------
(* What the functions on a farm keep.                                      *)

LEMMA Names ==
    /\ NoContract \notin {BareHands, LeanSeason, ClockworkDenied}
    /\ BareHands # LeanSeason /\ BareHands # ClockworkDenied /\ LeanSeason # ClockworkDenied
    /\ Len(Order) = 3
    /\ Order[1] = BareHands /\ Order[2] = LeanSeason /\ Order[3] = ClockworkDenied
BY DEF NoContract, BareHands, LeanSeason, ClockworkDenied, Order

LEMMA Bounds ==
    /\ MaxCoin \in Nat /\ 0 \in Amount /\ 0 \in 0 .. MaxScarecrows /\ 0 \in 0 .. UpgradeLevels
    /\ StartPlots \in Nat /\ LeanMax \in Nat /\ StartPlots <= LeanMax
    /\ ZonePlots \in Nat /\ UpgradeLevels \in Nat /\ MaxScarecrows \in Nat
    /\ BareGoal \in Nat /\ SeedGoal \in Nat /\ RebirthGoal \in Nat
    /\ BareGoal > 0 /\ SeedGoal > 0 /\ RebirthGoal > 0
BY GoalsAssumption, LandAssumption, ShopAssumption, MoneyAssumption DEF Amount

LEMMA Numbers ==
    \A f \in Farms :
        /\ f.lifetime \in Nat /\ f.lifetime <= MaxCoin /\ f.run \in Nat /\ f.run <= MaxCoin
        /\ f.cEarnings \in Nat /\ f.cStarseeds \in Nat /\ f.cRebirths \in Nat
        /\ f.rebirths \in Nat /\ f.starseeds \in Nat /\ f.upgrades \in Nat
        /\ f.completed \in Nat /\ f.pouch \in Nat /\ f.pouch <= MaxCoin
        /\ f.plots \in Nat /\ f.automated \in Nat
BY Bounds DEF Farms, Amount

LEMMA AcceptedNumbers == \A a \in Acceptance : a.lifetime \in Nat /\ a.rebirths \in Nat
BY Bounds DEF Acceptance, Amount

(* satAdd stays in range and is a sum cut at the largest amount. *)
LEMMA SatAddBounds ==
    \A x \in Amount, y \in Nat :
        SatAdd(x, y) \in Amount /\ SatAdd(x, y) >= x /\ SatAdd(x, y) = Least(MaxCoin, x + y)
BY Bounds DEF Amount, SatAdd, Least

(* Styles are never taken away. *)
LEMMA StylesStay ==
    ASSUME NEW f \in Farms, NEW g \in Farms, Dressed(f),
           g.style = f.style, g.completed >= f.completed
    PROVE  Dressed(g)
BY Numbers DEF Dressed, AvailableStyles

(* checkContractCompletion: nothing, or the seal. *)
LEMMA CompletionFields ==
    ASSUME NEW f \in Farms, f.completed < 3, GoalReached(f),
           NEW g, g = CheckCompletion(f)
    PROVE  /\ g \in Farms
           /\ g.completed = f.completed + 1 /\ g.active = NoContract
           /\ g.cRebirths = 0 /\ g.cEarnings = 0 /\ g.cStarseeds = 0
           /\ g.lifetime = f.lifetime /\ g.rebirths = f.rebirths /\ g.run = f.run
           /\ g.starseeds = f.starseeds /\ g.upgrades = f.upgrades
           /\ g.unlocked = f.unlocked /\ g.style = f.style /\ g.pouch = f.pouch
<1>1. PICK n \in 0 .. 3 : n = f.completed + 1 /\ ~(f.completed + 1 > 3)
  BY Numbers
<1>2. g = [f EXCEPT !.completed = n, !.active = NoContract,
                    !.cRebirths = 0, !.cEarnings = 0, !.cStarseeds = 0]
  BY <1>1, Names DEF CheckCompletion
<1>3. 0 \in Amount /\ 0 \in Nat
  BY Bounds
<1>4. g \in Farms
  BY ZenonT(30), <1>2, <1>3 DEF Farms
<1>5. /\ g.completed = n /\ g.active = NoContract
      /\ g.cRebirths = 0 /\ g.cEarnings = 0 /\ g.cStarseeds = 0
      /\ g.lifetime = f.lifetime /\ g.rebirths = f.rebirths /\ g.run = f.run
      /\ g.starseeds = f.starseeds /\ g.upgrades = f.upgrades
      /\ g.unlocked = f.unlocked /\ g.style = f.style /\ g.pouch = f.pouch
  BY <1>2 DEF Farms
<1> QED
  BY <1>1, <1>4, <1>5

(* Nothing that is bought, and no statistic, is touched by it.             *)
SameFarm(f, g) ==
    /\ g.plots = f.plots /\ g.bought = f.bought
    /\ g.greenhouse = f.greenhouse /\ g.scarecrows = f.scarecrows

LEMMA CompletionLooks ==
    ASSUME NEW f \in Farms, NEW g, g = CheckCompletion(f)
    PROVE  /\ SameFarm(f, g) /\ g.run = f.run
           /\ g.lifetime = f.lifetime /\ g.rebirths = f.rebirths
<1>1. CASE ~GoalReached(f)
  BY <1>1 DEF CheckCompletion, SameFarm
<1>2. CASE GoalReached(f)
  <2>1. PICK n : g = [f EXCEPT !.completed = n, !.active = NoContract,
                               !.cRebirths = 0, !.cEarnings = 0, !.cStarseeds = 0]
    BY <1>2 DEF CheckCompletion
  <2> QED
    BY <2>1 DEF Farms, SameFarm
<1> QED
  BY <1>1, <1>2

LEMMA CheckIsSound ==
    ASSUME NEW f, NEW a, Sound(f, a), NEW g, g = CheckCompletion(f)
    PROVE  Earns(f, g, a) /\ g.run = f.run /\ g.starseeds = f.starseeds /\ g.rebirths = f.rebirths
<1>1. CASE ~GoalReached(f)
  <2>1. g = f
    BY <1>1 DEF CheckCompletion
  <2> QED
    BY <1>1, <2>1, Numbers DEF Earns, Gains, Sound
<1>2. CASE GoalReached(f)
  <2>1. f.active # NoContract /\ f.completed < 3 /\ f \in Farms /\ a \in Acceptance
    BY <1>2, Names DEF GoalReached, Sound, InOrder
  <2>2. /\ g \in Farms
        /\ g.completed = f.completed + 1 /\ g.active = NoContract
        /\ g.cRebirths = 0 /\ g.cEarnings = 0 /\ g.cStarseeds = 0
        /\ g.lifetime = f.lifetime /\ g.rebirths = f.rebirths /\ g.run = f.run
        /\ g.starseeds = f.starseeds /\ g.upgrades = f.upgrades
        /\ g.unlocked = f.unlocked /\ g.style = f.style
    BY <1>2, <2>1, CompletionFields
  <2>3. Deserved(f.active, g, a)
    <3>1. /\ f.cRebirths = Least(MaxCoin, f.rebirths - a.rebirths)
          /\ f.lifetime < MaxCoin => f.cEarnings = f.lifetime - a.lifetime
          /\ f.cStarseeds = Least(MaxCoin, f.starseeds + f.upgrades)
      BY <2>1 DEF Sound, Honest
    <3>2. /\ f.rebirths \in Nat /\ f.lifetime \in Nat /\ a.lifetime \in Nat /\ a.rebirths \in Nat
          /\ f.starseeds \in Nat /\ f.upgrades \in Nat
      BY <2>1, Numbers, AcceptedNumbers
    <3>3. CASE f.active = BareHands
      BY <1>2, <2>2, <3>1, <3>2, <3>3, Names, Bounds DEF Deserved, GoalReached
    <3>4. CASE f.active = LeanSeason
      BY <1>2, <2>2, <3>1, <3>2, <3>4, Names, Bounds DEF Deserved, GoalReached, Least
    <3>5. CASE f.active = ClockworkDenied
      BY <1>2, <2>2, <3>1, <3>2, <3>5, Names, Bounds DEF Deserved, GoalReached, Least
    <3> QED
      BY <1>2, <3>3, <3>4, <3>5 DEF GoalReached
  <2>4. Dressed(g)
    BY <2>1, <2>2, Numbers, StylesStay DEF Sound
  <2>5. Sound(g, a) /\ ~GoalReached(g)
    BY <2>1, <2>2, <2>4, Names
       DEF Sound, InOrder, Cleared, Honest, Restricted, Since, GoalReached
  <2>6. Gains(f, g, a)
    BY <2>1, <2>2, <2>3, Numbers DEF Gains
  <2> QED
    BY <2>2, <2>5, <2>6 DEF Earns
<1> QED
  BY <1>1, <1>2

(* Earning twice is earning: the second time no contract is left to win.   *)
LEMMA EarnsTwice ==
    ASSUME NEW e \in Farms, NEW a, NEW f, NEW g, Sound(f, a), Gains(e, f, a), Earns(f, g, a)
    PROVE  Earns(e, g, a)
<1>1. f \in Farms /\ g \in Farms /\ a \in Acceptance
  BY DEF Earns, Sound
<1>2. /\ e.lifetime \in Nat /\ e.rebirths \in Nat /\ e.starseeds \in Nat /\ e.completed \in Nat
      /\ f.lifetime \in Nat /\ f.rebirths \in Nat /\ f.starseeds \in Nat /\ f.upgrades \in Nat
      /\ g.lifetime \in Nat /\ g.rebirths \in Nat /\ g.starseeds \in Nat /\ g.upgrades \in Nat
      /\ a.lifetime \in Nat /\ a.rebirths \in Nat
  BY <1>1, Numbers, AcceptedNumbers
<1>3. CASE f.completed = e.completed /\ f.active = e.active
  BY <1>2, <1>3 DEF Earns, Gains
<1>4. CASE f.completed = e.completed + 1 /\ f.active = NoContract
  <2>1. g.completed = f.completed /\ g.active = f.active
    BY <1>4 DEF Earns, Gains
  <2>2. e.active # NoContract /\ Deserved(e.active, f, a)
    BY <1>2, <1>4 DEF Gains
  <2>3. Deserved(e.active, g, a)
    BY <1>2, <2>2, Bounds DEF Deserved, Earns, Gains
  <2> QED
    BY <1>2, <1>4, <2>1, <2>2, <2>3 DEF Earns, Gains
<1> QED
  BY <1>3, <1>4 DEF Gains

(* credit *)
LEMMA CreditIsSound ==
    ASSUME NEW f, NEW a, NEW n \in Nat, Sound(f, a), ~GoalReached(f), NEW g, g = Credit(f, n)
    PROVE  /\ Earns(f, g, a)
           /\ g.run = SatAdd(f.run, n) /\ g.starseeds = f.starseeds /\ g.rebirths = f.rebirths
<1>1. f \in Farms /\ a \in Acceptance
  BY DEF Sound
<1>2. CASE n = 0
  <2>1. g = f /\ SatAdd(f.run, n) = f.run
    BY <1>1, <1>2, Numbers, Bounds DEF Credit, SatAdd
  <2> QED
    BY <1>1, <2>1, Numbers DEF Earns, Gains
<1>3. CASE n > 0
  <2>1. PICK run, life, c :
           /\ run = SatAdd(f.run, n) /\ life = SatAdd(f.lifetime, n) /\ c = SatAdd(f.cEarnings, n)
    OBVIOUS
  <2>2. /\ run \in Amount /\ life \in Amount /\ c \in Amount
        /\ life >= f.lifetime /\ life = Least(MaxCoin, f.lifetime + n)
        /\ c = Least(MaxCoin, f.cEarnings + n)
    BY <1>1, <2>1, SatAddBounds DEF Farms
  <2>3. PICK paid : paid = [f EXCEPT !.run = run, !.lifetime = life]
    OBVIOUS
  <2>4. CASE f.active = NoContract
    <3>1. g = paid
      BY <1>1, <1>3, <2>1, <2>3, <2>4 DEF Credit, Farms
    <3>2. /\ g \in Farms /\ g.run = run /\ g.lifetime = life
          /\ g.active = f.active /\ g.completed = f.completed /\ g.unlocked = f.unlocked
          /\ g.cEarnings = f.cEarnings /\ g.cRebirths = f.cRebirths /\ g.cStarseeds = f.cStarseeds
          /\ g.rebirths = f.rebirths /\ g.starseeds = f.starseeds /\ g.upgrades = f.upgrades
          /\ g.style = f.style
      BY ZenonT(30), <1>1, <2>2, <2>3, <3>1 DEF Farms
    <3>3. Dressed(g)
      BY <1>1, <3>2, Numbers, StylesStay DEF Sound
    <3>4. Since(g, a)
      BY <1>1, <2>2, <3>2, Numbers, AcceptedNumbers, Bounds DEF Sound, Since, Least
    <3>5. Sound(g, a) /\ ~GoalReached(g)
      BY <1>1, <2>4, <3>2, <3>3, <3>4, Names
         DEF Sound, InOrder, Cleared, Honest, Restricted, GoalReached
    <3>6. Gains(f, g, a)
      BY <1>1, <2>2, <3>2, Numbers, Bounds DEF Gains, Least
    <3> QED
      BY <2>1, <3>2, <3>5, <3>6 DEF Earns
  <2>5. CASE f.active # NoContract
    <3>1. PICK h : h = [paid EXCEPT !.cEarnings = c]
      OBVIOUS
    <3>2. /\ h \in Farms /\ h.run = run /\ h.lifetime = life /\ h.cEarnings = c
          /\ h.active = f.active /\ h.completed = f.completed /\ h.unlocked = f.unlocked
          /\ h.cRebirths = f.cRebirths /\ h.cStarseeds = f.cStarseeds
          /\ h.rebirths = f.rebirths /\ h.starseeds = f.starseeds /\ h.upgrades = f.upgrades
          /\ h.style = f.style /\ h.automated = f.automated /\ h.plots = f.plots
          /\ h.greenhouse = f.greenhouse /\ h.event = f.event /\ h.gift = f.gift
          /\ h.scarecrows = f.scarecrows /\ h.pouch = f.pouch
      BY <1>1, <2>2, <2>3, <3>1 DEF Farms
    <3>3. g = CheckCompletion(h)
      <4>1. paid.cEarnings = f.cEarnings
        BY <1>1, <2>3 DEF Farms
      <4> QED
        BY <1>3, <2>1, <2>3, <2>5, <3>1, <4>1 DEF Credit
    <3>4. Sound(h, a)
      <4>1. InOrder(h) /\ Cleared(h) /\ Restricted(h)
        BY <2>5, <3>2 DEF Sound, InOrder, Cleared, Restricted
      <4>2. f.lifetime \in Nat /\ f.cEarnings \in Nat /\ a.lifetime \in Nat /\ f.lifetime <= MaxCoin
        BY <1>1, Numbers, AcceptedNumbers
      <4>3. Honest(h, a) /\ Since(h, a)
        BY <2>2, <2>5, <3>2, <4>2, Bounds DEF Sound, Since, Honest, Least
      <4>4. Dressed(h)
        BY <1>1, <3>2, Numbers, StylesStay DEF Sound
      <4> QED
        BY <1>1, <3>2, <4>1, <4>3, <4>4 DEF Sound
    <3>5. Gains(f, h, a)
      BY <1>1, <2>2, <3>2, Numbers, Bounds DEF Gains, Least
    <3>6. Earns(h, g, a) /\ g.run = h.run /\ g.starseeds = h.starseeds /\ g.rebirths = h.rebirths
      BY <3>3, <3>4, CheckIsSound
    <3> QED
      BY <1>1, <2>1, <3>2, <3>4, <3>5, <3>6, EarnsTwice
  <2> QED
    BY <2>4, <2>5
<1> QED
  BY <1>2, <1>3

(* No credit fills a pouch. *)
LEMMA BankedPouch ==
    ASSUME NEW f \in Farms, NEW n \in Nat, InOrder(f) PROVE Credit(f, n).pouch = f.pouch
<1>1. CASE n = 0
  BY <1>1 DEF Credit
<1>2. CASE n > 0 /\ f.active = NoContract
  BY <1>2 DEF Credit, Farms
<1>3. CASE n > 0 /\ f.active # NoContract
  <2>1. PICK run, life, c : /\ run = SatAdd(f.run, n) /\ life = SatAdd(f.lifetime, n)
                            /\ c = SatAdd(f.cEarnings, n)
    OBVIOUS
  <2>2. run \in Amount /\ life \in Amount /\ c \in Amount
    BY <2>1, SatAddBounds DEF Farms
  <2>3. PICK h : h = [[f EXCEPT !.run = run, !.lifetime = life] EXCEPT !.cEarnings = c]
    OBVIOUS
  <2>4. /\ h \in Farms /\ h.pouch = f.pouch /\ h.completed = f.completed
        /\ f.completed < 3
    BY <1>3, <2>2, <2>3 DEF Farms, InOrder
  <2>5. Credit(f, n) = CheckCompletion(h)
    BY <1>3, <2>1, <2>3 DEF Credit, Farms
  <2>6. CASE GoalReached(h)
    BY <2>4, <2>5, <2>6, CompletionFields
  <2>7. CASE ~GoalReached(h)
    BY <2>4, <2>5, <2>7 DEF CheckCompletion
  <2> QED
    BY <2>6, <2>7
<1> QED
  BY <1>1, <1>2, <1>3

(* creditStarseeds *)
LEMMA StarseedsAreSound ==
    ASSUME NEW f, NEW a, NEW n \in Nat, Sound(f, a), ~GoalReached(f),
           NEW g, g = CreditStarseeds(f, n)
    PROVE  Earns(f, g, a) /\ g.rebirths = f.rebirths
<1>1. f \in Farms /\ a \in Acceptance
  BY DEF Sound
<1>2. PICK seeds, c : seeds = SatAdd(f.starseeds, n) /\ c = SatAdd(f.cStarseeds, n)
  OBVIOUS
<1>3. /\ seeds \in Amount /\ seeds >= f.starseeds /\ seeds = Least(MaxCoin, f.starseeds + n)
      /\ c \in Amount /\ c = Least(MaxCoin, f.cStarseeds + n)
  <2>1. f.starseeds \in Amount /\ f.cStarseeds \in Amount
    BY <1>1 DEF Farms
  <2> QED
    BY <1>2, <2>1, SatAddBounds
<1>4. CASE f.active = NoContract
  <2>1. g = [f EXCEPT !.starseeds = seeds]
    BY <1>2, <1>4 DEF CreditStarseeds
  <2>2. /\ g \in Farms /\ g.starseeds = seeds /\ g.lifetime = f.lifetime
        /\ g.active = f.active /\ g.completed = f.completed /\ g.unlocked = f.unlocked
        /\ g.cEarnings = f.cEarnings /\ g.cRebirths = f.cRebirths /\ g.cStarseeds = f.cStarseeds
        /\ g.rebirths = f.rebirths /\ g.upgrades = f.upgrades /\ g.style = f.style
    BY <1>1, <1>3, <2>1 DEF Farms
  <2>3. Dressed(g)
    BY <1>1, <2>2, Numbers, StylesStay DEF Sound
  <2>4. Sound(g, a) /\ ~GoalReached(g)
    BY <1>1, <1>4, <2>2, <2>3, Names
       DEF Sound, InOrder, Cleared, Honest, Restricted, Since, GoalReached
  <2>5. Gains(f, g, a)
    BY <1>1, <1>3, <2>2, Numbers DEF Gains
  <2> QED
    BY <2>2, <2>4, <2>5 DEF Earns
<1>5. CASE f.active # NoContract
  <2>1. PICK h : h = [f EXCEPT !.starseeds = seeds, !.cStarseeds = c]
    OBVIOUS
  <2>2. /\ h \in Farms /\ h.starseeds = seeds /\ h.cStarseeds = c
        /\ h.active = f.active /\ h.completed = f.completed /\ h.unlocked = f.unlocked
        /\ h.cRebirths = f.cRebirths /\ h.cEarnings = f.cEarnings /\ h.lifetime = f.lifetime
        /\ h.rebirths = f.rebirths /\ h.upgrades = f.upgrades
        /\ h.style = f.style /\ h.automated = f.automated /\ h.plots = f.plots
        /\ h.greenhouse = f.greenhouse /\ h.event = f.event /\ h.gift = f.gift
        /\ h.scarecrows = f.scarecrows /\ h.pouch = f.pouch
    BY <1>1, <1>3, <2>1 DEF Farms
  <2>3. g = CheckCompletion(h)
    BY <1>2, <1>5, <2>1 DEF CreditStarseeds
  <2>4. InOrder(h) /\ Cleared(h) /\ Restricted(h) /\ Since(h, a)
    BY <1>5, <2>2 DEF Sound, InOrder, Cleared, Restricted, Since
  <2>5. Honest(h, a)
    BY <1>1, <1>3, <1>5, <2>2, Numbers, Bounds DEF Sound, Honest, Least
  <2>6. Dressed(h)
    BY <1>1, <2>2, Numbers, StylesStay DEF Sound
  <2>7. Sound(h, a)
    BY <1>1, <2>2, <2>4, <2>5, <2>6 DEF Sound
  <2>8. Gains(f, h, a)
    BY <1>1, <1>3, <2>2, Numbers DEF Gains
  <2>9. Earns(h, g, a) /\ g.rebirths = h.rebirths
    BY <2>3, <2>7, CheckIsSound
  <2> QED
    BY <1>1, <2>2, <2>7, <2>8, <2>9, EarnsTwice
<1> QED
  BY <1>4, <1>5

-----------------------------------------------------------------------------
(* Rebirths and resets. *)

LEMMA FreshFields ==
    ASSUME NEW f \in Farms, NEW g, g = FreshRun(f)
    PROVE  /\ g \in Farms
           /\ g.plots = StartPlots /\ g.automated = 0 /\ g.greenhouse = FALSE /\ g.run = 0
           /\ g.bought = 0
           /\ g.scarecrows = 0 /\ g.pouch = 0 /\ g.event = FALSE /\ g.gift = f.gift
           /\ g.active = f.active /\ g.completed = f.completed /\ g.unlocked = f.unlocked
           /\ g.cRebirths = f.cRebirths /\ g.cEarnings = f.cEarnings
           /\ g.cStarseeds = f.cStarseeds /\ g.lifetime = f.lifetime
           /\ g.rebirths = f.rebirths /\ g.starseeds = f.starseeds
           /\ g.upgrades = f.upgrades /\ g.style = f.style
<1>1. PICK land : land = [f EXCEPT !.plots = StartPlots, !.bought = 0, !.automated = 0,
                                   !.greenhouse = FALSE]
  OBVIOUS
<1>2. g = [land EXCEPT !.run = 0, !.scarecrows = 0, !.pouch = 0, !.event = FALSE]
  BY <1>1 DEF FreshRun
<1>3. 0 \in Amount /\ 0 \in 0 .. MaxScarecrows /\ StartPlots \in Nat
  BY Bounds
<1>4. land \in Farms
  BY <1>1, <1>3 DEF Farms
<1>5. g \in Farms
  BY ZenonT(30), <1>2, <1>3, <1>4 DEF Farms
<1> QED
  BY <1>1, <1>2, <1>5 DEF Farms

LEMMA ResetFields ==
    ASSUME NEW f \in Farms, NEW g, g = ResetGameplay(f)
    PROVE  /\ g \in Farms
           /\ g.plots = StartPlots /\ g.automated = 0 /\ g.greenhouse = FALSE
           /\ g.bought = 0 /\ g.run = 0
           /\ g.scarecrows = 0 /\ g.pouch = 0 /\ g.event = FALSE /\ g.gift = FALSE
           /\ g.active = f.active /\ g.completed = f.completed /\ g.unlocked = f.unlocked
           /\ g.cRebirths = 0 /\ g.cEarnings = 0 /\ g.cStarseeds = 0
           /\ g.starseeds = 0 /\ g.upgrades = 0
           /\ g.lifetime = f.lifetime /\ g.rebirths = f.rebirths /\ g.style = f.style
<1>1. PICK h : h = FreshRun(f)
  OBVIOUS
<1>2. /\ h \in Farms
      /\ h.plots = StartPlots /\ h.automated = 0 /\ h.greenhouse = FALSE
      /\ h.bought = 0 /\ h.run = 0
      /\ h.scarecrows = 0 /\ h.pouch = 0 /\ h.event = FALSE
      /\ h.active = f.active /\ h.completed = f.completed /\ h.unlocked = f.unlocked
      /\ h.lifetime = f.lifetime /\ h.rebirths = f.rebirths /\ h.style = f.style
  BY <1>1, FreshFields
<1>3. g = [h EXCEPT !.gift = FALSE, !.starseeds = 0, !.upgrades = 0,
                    !.cRebirths = 0, !.cEarnings = 0, !.cStarseeds = 0]
  BY <1>1 DEF ResetGameplay
<1>4. 0 \in Amount /\ 0 \in 0 .. UpgradeLevels
  BY Bounds
<1>5. g \in Farms
  BY ZenonT(30), <1>2, <1>3, <1>4 DEF Farms
<1> QED
  BY <1>2, <1>3, <1>5 DEF Farms

(* What Rebirth does once the pouches are banked. *)
LEMMA PayRebirthIsSound ==
    ASSUME NEW f, NEW a, NEW gain \in Nat, Sound(f, a), NEW g, g = PayRebirth(f, gain)
    PROVE  /\ Earns(f, g, a) /\ g.starseeds = SatAdd(f.starseeds, gain)
           /\ g.plots = StartPlots /\ g.bought = 0 /\ g.greenhouse = FALSE /\ g.scarecrows = 0
           /\ g.run = 0 /\ g.lifetime = f.lifetime /\ g.rebirths = f.rebirths + 1
<1>1. f \in Farms /\ a \in Acceptance
  BY DEF Sound
<1>2. PICK seeds, cSeeds, cRebirths :
         /\ seeds = SatAdd(f.starseeds, gain)
         /\ cSeeds = (IF f.active # NoContract THEN SatAdd(f.cStarseeds, gain) ELSE f.cStarseeds)
         /\ cRebirths = (IF f.active # NoContract THEN SatAdd(f.cRebirths, 1) ELSE f.cRebirths)
  OBVIOUS
<1>3. PICK h : h = FreshRun(f)
  OBVIOUS
<1>4. PICK r : r = [h EXCEPT !.starseeds = seeds, !.cStarseeds = cSeeds,
                             !.cRebirths = cRebirths, !.rebirths = @ + 1]
  OBVIOUS
<1>5. /\ h \in Farms
      /\ h.plots = StartPlots /\ h.automated = 0 /\ h.greenhouse = FALSE
      /\ h.bought = 0 /\ h.run = 0
      /\ h.scarecrows = 0 /\ h.pouch = 0 /\ h.event = FALSE /\ h.gift = f.gift
      /\ h.active = f.active /\ h.completed = f.completed /\ h.unlocked = f.unlocked
      /\ h.cRebirths = f.cRebirths /\ h.cEarnings = f.cEarnings
      /\ h.cStarseeds = f.cStarseeds /\ h.lifetime = f.lifetime
      /\ h.rebirths = f.rebirths /\ h.starseeds = f.starseeds
      /\ h.upgrades = f.upgrades /\ h.style = f.style
  BY ZenonT(30), <1>1, <1>3, FreshFields
<1>6. r = Reborn(f, gain)
  BY <1>2, <1>3, <1>4, <1>5 DEF Reborn
<1>7. /\ f.starseeds \in Amount /\ f.cStarseeds \in Amount /\ f.rebirths + 1 \in Nat
      /\ f.cRebirths \in Nat /\ (f.active # NoContract => f.cRebirths \in Amount)
  <2>1. f.active # NoContract => f.cRebirths \in Amount
    BY <1>1, Numbers, AcceptedNumbers, Bounds DEF Sound, Since, Honest, Amount, Least
  <2> QED
    BY <1>1, <2>1, Numbers DEF Farms
<1>8. /\ seeds \in Amount /\ seeds >= f.starseeds /\ seeds = Least(MaxCoin, f.starseeds + gain)
      /\ cSeeds \in Amount /\ cRebirths \in Nat
      /\ f.active # NoContract => /\ cSeeds = Least(MaxCoin, f.cStarseeds + gain)
                                  /\ cRebirths = Least(MaxCoin, f.cRebirths + 1)
      /\ f.active = NoContract => cSeeds = f.cStarseeds /\ cRebirths = f.cRebirths
  <2>1. CASE f.active = NoContract
    BY <1>2, <1>7, <2>1, SatAddBounds
  <2>2. CASE f.active # NoContract
    <3>1. cRebirths \in Amount /\ cRebirths = Least(MaxCoin, f.cRebirths + 1)
      BY <1>2, <1>7, <2>2, SatAddBounds
    <3>2. cRebirths \in Nat
      BY <3>1, Bounds DEF Amount
    <3> QED
      BY <1>2, <1>7, <2>2, <3>1, <3>2, SatAddBounds
  <2> QED
    BY <2>1, <2>2
<1>9. /\ r \in Farms /\ r.starseeds = seeds /\ r.cStarseeds = cSeeds
      /\ r.cRebirths = cRebirths /\ r.rebirths = f.rebirths + 1
      /\ r.plots = StartPlots /\ r.automated = 0 /\ r.greenhouse = FALSE
      /\ r.bought = 0 /\ r.run = 0
      /\ r.scarecrows = 0 /\ r.pouch = 0 /\ r.event = FALSE /\ r.gift = f.gift
      /\ r.active = f.active /\ r.completed = f.completed /\ r.unlocked = f.unlocked
      /\ r.cEarnings = f.cEarnings /\ r.lifetime = f.lifetime
      /\ r.upgrades = f.upgrades /\ r.style = f.style
  BY ZenonT(30), <1>4, <1>5, <1>7, <1>8 DEF Farms
<1>10. InOrder(r) /\ Cleared(r) /\ Restricted(r) /\ Since(r, a)
  BY <1>1, <1>8, <1>9, Bounds, Numbers, AcceptedNumbers
     DEF Sound, InOrder, Cleared, Restricted, Since
<1>11. Honest(r, a)
  <2> SUFFICES ASSUME f.active # NoContract PROVE Honest(r, a)
    BY <1>9 DEF Honest
  <2>1. r.cRebirths = Least(MaxCoin, r.rebirths - a.rebirths)
    BY <1>1, <1>8, <1>9, Bounds, Numbers, AcceptedNumbers DEF Sound, Since, Honest, Least
  <2>2. r.cStarseeds = Least(MaxCoin, r.starseeds + r.upgrades)
    BY <1>1, <1>8, <1>9, Bounds, Numbers DEF Sound, Honest, Least
  <2> QED
    BY <1>9, <2>1, <2>2 DEF Sound, Honest
<1>12. Dressed(r)
  BY <1>1, <1>9, Numbers, StylesStay DEF Sound
<1>13. Sound(r, a)
  BY <1>1, <1>9, <1>10, <1>11, <1>12 DEF Sound
<1>14. Gains(f, r, a)
  BY <1>1, <1>8, <1>9, Numbers DEF Gains
<1>15. Earns(r, g, a) /\ g.starseeds = r.starseeds
  BY <1>6, <1>13, CheckIsSound DEF PayRebirth
<1>16. SameFarm(r, g) /\ g.run = r.run /\ g.lifetime = r.lifetime /\ g.rebirths = r.rebirths
  BY <1>6, <1>9, CompletionLooks DEF PayRebirth
<1>17. Earns(f, g, a) /\ g.starseeds = seeds
  BY <1>1, <1>9, <1>13, <1>14, <1>15, EarnsTwice
<1> QED
  BY <1>2, <1>9, <1>16, <1>17 DEF SameFarm

-----------------------------------------------------------------------------
(* The actions.  Those that earn change the farm a little and credit it.   *)

LEMMA CInvFacts ==
    ASSUME CInv
    PROVE  s \in Farms /\ accepted \in Acceptance /\ Sound(s, accepted) /\ ~GoalReached(s)
BY DEF CInv, Sound

LEMMA PayoutsAreAmounts == \A n \in Payouts \cup {0} : n \in Nat
BY MoneyAssumption

(* Two farms that are the same to contracts, seals and lifetime counts.    *)
Alike(f, g) ==
    /\ g.active = f.active /\ g.completed = f.completed /\ g.unlocked = f.unlocked
    /\ g.cRebirths = f.cRebirths /\ g.cEarnings = f.cEarnings /\ g.cStarseeds = f.cStarseeds
    /\ g.lifetime = f.lifetime /\ g.rebirths = f.rebirths /\ g.starseeds = f.starseeds
    /\ g.upgrades = f.upgrades /\ g.style = f.style

(* A change that the campaign does not see, before something is credited.  *)
LEMMA Tidied ==
    ASSUME CInv, NEW f \in Farms, Restricted(f), Alike(s, f)
    PROVE  Sound(f, accepted) /\ ~GoalReached(f) /\ Gains(s, f, accepted)
<1>1. Dressed(f)
  BY CInvFacts, Numbers, StylesStay DEF Sound, Alike
<1>2. InOrder(f) /\ Cleared(f) /\ Honest(f, accepted) /\ Since(f, accepted) /\ ~GoalReached(f)
  BY CInvFacts DEF Alike, Sound, InOrder, Cleared, Honest, Since, GoalReached
<1> QED
  BY <1>1, <1>2, CInvFacts, Numbers DEF Alike, Sound, Gains

LEMMA AdvanceEarns ==
    ASSUME CInv, Advance
    PROVE  accepted' = accepted /\ Earns(s, s', accepted) /\ s'.rebirths = s.rebirths
<1>1. PICK event \in BOOLEAN, gift \in BOOLEAN, drop \in Payouts \cup {0}, harvest \in Payouts \cup {0} :
         /\ Blocks(s).passive => ~event /\ ~gift
         /\ s.scarecrows = 0 \/ Blocks(s).passive => drop = 0
         /\ s' = Credit([s EXCEPT !.event = event, !.gift = @ \/ gift,
                                  !.pouch = SatAdd(@, drop)], harvest)
         /\ UNCHANGED accepted
  BY DEF Advance
<1>2. PICK p \in Amount : p = SatAdd(s.pouch, drop) /\ (drop = 0 => p = s.pouch)
  <2>1. s.pouch \in Amount
    BY CInvFacts DEF Farms
  <2> QED
    BY <2>1, PayoutsAreAmounts, SatAddBounds, Bounds DEF SatAdd, Amount
<1>3. PICK g \in BOOLEAN : g = (s.gift \/ gift)
  OBVIOUS
<1>4. PICK f : f = [s EXCEPT !.event = event, !.gift = g, !.pouch = p]
  OBVIOUS
<1>5. /\ f \in Farms /\ f.event = event /\ f.gift = g /\ f.pouch = p
      /\ Alike(s, f) /\ f.automated = s.automated
      /\ f.plots = s.plots /\ f.greenhouse = s.greenhouse /\ f.scarecrows = s.scarecrows
  BY <1>4, CInvFacts DEF Farms, Alike
<1>6. s' = Credit(f, harvest)
  BY <1>1, <1>2, <1>3, <1>4
<1>7. Restricted(f)
  BY <1>1, <1>2, <1>3, <1>5, CInvFacts DEF Sound, Restricted, Blocks, Alike
<1>8. Sound(f, accepted) /\ ~GoalReached(f) /\ Gains(s, f, accepted)
  BY <1>5, <1>7, Tidied
<1>9. Earns(f, s', accepted) /\ s'.rebirths = f.rebirths
  BY <1>6, <1>8, PayoutsAreAmounts, CreditIsSound
<1> QED
  BY <1>1, <1>5, <1>8, <1>9, CInvFacts, EarnsTwice DEF Alike

LEMMA HarvestEarns ==
    ASSUME CInv, Harvest \/ ShooCritter
    PROVE  accepted' = accepted /\ Earns(s, s', accepted) /\ s'.rebirths = s.rebirths
<1>1. CASE ShooCritter
  <2>1. PICK reward \in Payouts : s' = Credit(s, reward) /\ accepted' = accepted
    BY <1>1 DEF ShooCritter
  <2> QED
    BY <2>1, CInvFacts, PayoutsAreAmounts, CreditIsSound
<1>2. CASE Harvest
  <2>1. PICK payout \in Payouts, discovery \in Payouts \cup {0} :
           s' = Credit(Credit(s, payout), discovery) /\ accepted' = accepted
    BY <1>2 DEF Harvest
  <2>2. PICK f : f = Credit(s, payout)
    OBVIOUS
  <2>3. Earns(s, f, accepted) /\ f.rebirths = s.rebirths
    BY <2>2, CInvFacts, PayoutsAreAmounts, CreditIsSound
  <2>4. Earns(f, s', accepted) /\ s'.rebirths = f.rebirths
    BY <2>1, <2>2, <2>3, PayoutsAreAmounts, CreditIsSound DEF Earns
  <2> QED
    BY <2>1, <2>3, <2>4, CInvFacts, EarnsTwice DEF Earns
<1> QED
  BY <1>1, <1>2

(* Taking coins out of the pouches. *)
LEMMA Emptied ==
    ASSUME CInv, NEW p \in Amount, p <= s.pouch, NEW f, f = [s EXCEPT !.pouch = p]
    PROVE  /\ Sound(f, accepted) /\ ~GoalReached(f) /\ Gains(s, f, accepted)
           /\ f.run = s.run /\ f.rebirths = s.rebirths /\ f.starseeds = s.starseeds /\ f.pouch = p
<1>1. /\ f \in Farms /\ f.pouch = p /\ f.run = s.run
      /\ Alike(s, f) /\ f.automated = s.automated
      /\ f.plots = s.plots /\ f.greenhouse = s.greenhouse /\ f.scarecrows = s.scarecrows
      /\ f.event = s.event /\ f.gift = s.gift
  BY CInvFacts DEF Farms, Alike
<1>2. p \in Nat
  BY Bounds DEF Amount
<1>3. Restricted(f)
  BY <1>1, <1>2, CInvFacts DEF Sound, Restricted
<1> QED
  BY <1>1, <1>3, Tidied DEF Alike

LEMMA CollectEarns ==
    ASSUME CInv, Collect
    PROVE  accepted' = accepted /\ Earns(s, s', accepted) /\ s'.rebirths = s.rebirths
<1>1. PICK coins \in 1 .. s.pouch :
         s' = Credit([s EXCEPT !.pouch = @ - coins], coins) /\ accepted' = accepted
  BY DEF Collect
<1>2. PICK p \in Amount : p = s.pouch - coins /\ p <= s.pouch
  BY CInvFacts, Numbers, Bounds DEF Amount
<1>3. PICK f : f = [s EXCEPT !.pouch = p]
  OBVIOUS
<1>4. Sound(f, accepted) /\ ~GoalReached(f) /\ Gains(s, f, accepted) /\ f.rebirths = s.rebirths
  BY <1>2, <1>3, Emptied
<1>5. coins \in Nat /\ s' = Credit(f, coins)
  BY <1>1, <1>2, <1>3
<1>6. Earns(f, s', accepted) /\ s'.rebirths = f.rebirths
  BY <1>4, <1>5, CreditIsSound
<1> QED
  BY <1>1, <1>4, <1>6, CInvFacts, EarnsTwice

LEMMA RedeemEarns ==
    ASSUME CInv, RedeemGift
    PROVE  accepted' = accepted /\ Earns(s, s', accepted) /\ s'.rebirths = s.rebirths
<1>1. PICK f : f = [s EXCEPT !.gift = FALSE]
  OBVIOUS
<1>2. PICK n \in Payouts : s' = Credit(f, n) \/ s' = CreditStarseeds(f, n)
  BY <1>1 DEF RedeemGift
<1>3. /\ f \in Farms /\ f.gift = FALSE
      /\ Alike(s, f) /\ f.automated = s.automated
      /\ f.plots = s.plots /\ f.greenhouse = s.greenhouse /\ f.scarecrows = s.scarecrows
      /\ f.event = s.event /\ f.pouch = s.pouch
  BY <1>1, CInvFacts DEF Farms, Alike
<1>4. Restricted(f)
  BY <1>3, CInvFacts DEF Sound, Restricted, Alike
<1>5. Sound(f, accepted) /\ ~GoalReached(f) /\ Gains(s, f, accepted)
  BY <1>3, <1>4, Tidied
<1>6. Earns(f, s', accepted) /\ s'.rebirths = f.rebirths
  BY <1>2, <1>5, PayoutsAreAmounts, CreditIsSound, StarseedsAreSound
<1> QED
  BY <1>3, <1>5, <1>6, CInvFacts, EarnsTwice DEF RedeemGift, Alike

(* isqrt gives a number. *)
LEMMA RootIsNat == ASSUME NEW n \in Int PROVE Root(n) \in Nat
<1>1. IsFiniteSet(1 .. n)
  BY FS_Interval
<1> QED
  BY <1>1, FS_Subset, FS_CardinalityType DEF Root

(* Rebirth: the pouches are banked, which may win the contract, then the   *)
(* gain is paid; what it is does not depend on that.                       *)
LEMMA RebirthEarns ==
    ASSUME CInv, Rebirth
    PROVE  /\ accepted' = accepted /\ Earns(s, s', accepted)
           /\ s'.starseeds = SatAdd(s.starseeds, Root(SatAdd(s.run, s.pouch) \div Divisor))
<1>1. PICK f : f = [s EXCEPT !.pouch = 0]
  OBVIOUS
<1>2. /\ Sound(f, accepted) /\ ~GoalReached(f) /\ Gains(s, f, accepted)
      /\ f.run = s.run /\ f.starseeds = s.starseeds /\ f.pouch = 0
  BY <1>1, CInvFacts, Numbers, Bounds, Emptied
<1>3. PICK banked : banked = Credit(f, s.pouch)
  OBVIOUS
<1>4. /\ Earns(f, banked, accepted)
      /\ banked.run = SatAdd(s.run, s.pouch) /\ banked.starseeds = s.starseeds
  BY <1>2, <1>3, CInvFacts, Numbers, CreditIsSound
<1>5. banked.pouch = 0
  BY <1>2, <1>3, CInvFacts, Numbers, BankedPouch DEF Sound
<1>6. PrestigeGain(banked) = Root(SatAdd(s.run, s.pouch) \div Divisor)
  BY <1>4, <1>5, Numbers, Bounds DEF PrestigeGain, RebirthEarnings, SatAdd, Earns, Sound
<1>7. s' = PayRebirth(banked, PrestigeGain(banked)) /\ accepted' = accepted
  BY <1>1, <1>3 DEF Rebirth
<1>8. PrestigeGain(banked) \in Nat
  <2>1. SatAdd(s.run, s.pouch) \in Nat
    BY <1>4, Numbers DEF Earns, Sound
  <2>2. SatAdd(s.run, s.pouch) \div Divisor \in Int
    BY <2>1, MoneyAssumption
  <2> QED
    BY <1>6, <2>2, RootIsNat
<1>9. Earns(banked, s', accepted) /\ s'.starseeds = SatAdd(banked.starseeds, PrestigeGain(banked))
  BY <1>4, <1>7, <1>8, PayRebirthIsSound DEF Earns
<1>10. Earns(s, banked, accepted)
  BY <1>2, <1>4, CInvFacts, EarnsTwice
<1> QED
  BY <1>4, <1>6, <1>7, <1>9, <1>10, CInvFacts, EarnsTwice DEF Earns

-----------------------------------------------------------------------------
(* What is bought touches neither what a contract counts nor its reward.   *)
Kept(f, g) ==
    /\ g.completed = f.completed /\ g.lifetime = f.lifetime /\ g.rebirths = f.rebirths
    /\ f.unlocked => g.unlocked
    /\ Dressed(g)

LEMMA PlotsAreSound ==
    ASSUME CInv, BuyPlot \/ BuyZone \/ UpgradePlotAuto
    PROVE  CInv' /\ Kept(s, s')
<1>1. accepted' = accepted
  BY DEF BuyPlot, BuyZone, UpgradePlotAuto
<1>2. s.plots \in Nat /\ s.bought + 1 \in Nat /\ s.automated + 1 \in Nat
  BY CInvFacts DEF Farms
<1>3. CASE BuyPlot
  <2>1. /\ s' \in Farms /\ Alike(s, s') /\ s'.plots = s.plots + 1
        /\ s'.automated = s.automated /\ s'.greenhouse = s.greenhouse /\ s'.pouch = s.pouch
        /\ s'.scarecrows = s.scarecrows /\ s'.event = s.event /\ s'.gift = s.gift
    <3>1. PICK plots \in Nat : plots = s.plots + 1
      BY <1>2
    <3>2. PICK bought \in Nat : bought = s.bought + 1
      BY <1>2
    <3>3. s' = [s EXCEPT !.bought = bought, !.plots = plots]
      BY <1>3, <3>1, <3>2 DEF BuyPlot
    <3> QED
      BY <3>1, <3>3, CInvFacts DEF Farms, Alike
  <2>2. s.active = LeanSeason => s.plots + 1 <= LeanMax
    <3>1. s.active = LeanSeason => ~(s.plots >= LeanMax)
      BY <1>3, Zenon DEF BuyPlot, Blocks
    <3> QED
      BY <1>2, <3>1, Bounds
  <2>3. Restricted(s')
    BY <2>1, <2>2, CInvFacts DEF Sound, Restricted, Alike
  <2> QED
    BY <1>1, <2>1, <2>3, Tidied DEF CInv, Kept, Sound, Alike
<1>4. CASE BuyZone
  <2>1. /\ s' \in Farms /\ Alike(s, s')
        /\ s'.automated = s.automated /\ s'.pouch = s.pouch
        /\ s'.scarecrows = s.scarecrows /\ s'.event = s.event /\ s'.gift = s.gift
    <3>1. PICK plots \in Nat : plots = s.plots + ZonePlots
      BY <1>2, Bounds
    <3>2. s' = [s EXCEPT !.greenhouse = TRUE, !.plots = plots]
      BY <1>4, <3>1 DEF BuyZone
    <3> QED
      BY <3>2, CInvFacts DEF Farms, Alike
  <2>2. s.active # LeanSeason
    BY <1>4 DEF BuyZone, Blocks
  <2>3. Restricted(s')
    BY <2>1, <2>2, CInvFacts DEF Sound, Restricted, Alike
  <2> QED
    BY <1>1, <2>1, <2>3, Tidied DEF CInv, Kept, Sound, Alike
<1>5. CASE UpgradePlotAuto
  <2>1. /\ s' \in Farms /\ Alike(s, s') /\ s'.plots = s.plots
        /\ s'.greenhouse = s.greenhouse /\ s'.pouch = s.pouch
        /\ s'.scarecrows = s.scarecrows /\ s'.event = s.event /\ s'.gift = s.gift
    <3>1. PICK automated \in Nat : s' = [s EXCEPT !.automated = automated]
      BY <1>2, <1>5 DEF UpgradePlotAuto
    <3> QED
      BY <3>1, CInvFacts DEF Farms, Alike
  <2>2. s.active \notin {BareHands, ClockworkDenied}
    BY <1>5 DEF UpgradePlotAuto, Blocks
  <2>3. Restricted(s')
    BY <2>1, <2>2, CInvFacts DEF Sound, Restricted, Alike
  <2> QED
    BY <1>1, <2>1, <2>3, Tidied DEF CInv, Kept, Sound, Alike
<1> QED
  BY <1>3, <1>4, <1>5

LEMMA GoodsAreSound ==
    ASSUME CInv, BuyScarecrow \/ BuyUpgrade \/ SetLeaderboardNameStyle
    PROVE  CInv' /\ Kept(s, s')
<1>1. accepted' = accepted
  BY DEF BuyScarecrow, BuyUpgrade, SetLeaderboardNameStyle
<1>2. CASE BuyScarecrow
  <2>1. PICK crows \in 0 .. MaxScarecrows : s' = [s EXCEPT !.scarecrows = crows]
    <3>1. s.scarecrows + 1 \in 0 .. MaxScarecrows
      BY <1>2, CInvFacts, ShopAssumption DEF BuyScarecrow, Farms
    <3> QED
      BY <1>2, <3>1 DEF BuyScarecrow
  <2>2. /\ s' \in Farms /\ s'.plots = s.plots /\ s'.automated = s.automated
        /\ s'.greenhouse = s.greenhouse
        /\ Alike(s, s') /\ s'.pouch = s.pouch
        /\ s'.event = s.event /\ s'.gift = s.gift
    BY <2>1, CInvFacts DEF Farms, Alike
  <2>3. s.active # ClockworkDenied
    BY <1>2 DEF BuyScarecrow, Blocks
  <2>4. Restricted(s')
    BY <2>2, <2>3, CInvFacts DEF Sound, Restricted, Alike
  <2>5. Sound(s', accepted) /\ ~GoalReached(s')
    BY <2>2, <2>4, Tidied
  <2> QED
    BY <1>1, <2>2, <2>5 DEF CInv, Kept, Sound, Alike
<1>3. CASE BuyUpgrade
  <2>1. PICK seeds \in Amount, ups \in 0 .. UpgradeLevels :
           /\ s' = [s EXCEPT !.starseeds = seeds, !.upgrades = ups]
           /\ seeds + ups = s.starseeds + s.upgrades
    <3>1. s.starseeds - 1 \in Amount /\ s.upgrades + 1 \in 0 .. UpgradeLevels
      <4>1. s.starseeds \in Amount /\ s.upgrades \in 0 .. UpgradeLevels
        BY CInvFacts DEF Farms
      <4> QED
        BY <1>3, <4>1, Bounds DEF BuyUpgrade, Amount
    <3>2. (s.starseeds - 1) + (s.upgrades + 1) = s.starseeds + s.upgrades
      BY CInvFacts, Numbers
    <3> QED
      BY <1>3, <3>1, <3>2 DEF BuyUpgrade
  <2>2. /\ s' \in Farms /\ s'.plots = s.plots /\ s'.automated = s.automated
        /\ s'.greenhouse = s.greenhouse /\ s'.starseeds = seeds /\ s'.upgrades = ups
        /\ s'.active = s.active /\ s'.completed = s.completed /\ s'.unlocked = s.unlocked
        /\ s'.cRebirths = s.cRebirths /\ s'.cEarnings = s.cEarnings /\ s'.cStarseeds = s.cStarseeds
        /\ s'.lifetime = s.lifetime /\ s'.rebirths = s.rebirths
        /\ s'.style = s.style /\ s'.pouch = s.pouch /\ s'.scarecrows = s.scarecrows
        /\ s'.event = s.event /\ s'.gift = s.gift
    BY <2>1, CInvFacts DEF Farms
  <2>3. Dressed(s')
    BY <2>2, CInvFacts, Numbers, StylesStay DEF Sound
  <2>4. InOrder(s') /\ Cleared(s') /\ Restricted(s') /\ Since(s', accepted) /\ ~GoalReached(s')
    BY <2>2, CInvFacts DEF Sound, InOrder, Cleared, Restricted, Since, GoalReached
  <2>5. Honest(s', accepted)
    BY <2>1, <2>2, CInvFacts DEF Sound, Honest
  <2> QED
    BY <1>1, <2>2, <2>3, <2>4, <2>5, CInvFacts DEF CInv, Kept, Sound
<1>4. CASE SetLeaderboardNameStyle
  <2>1. PICK style \in Styles : s' = [s EXCEPT !.style = style] /\ style \in AvailableStyles(s)
    BY <1>4 DEF SetLeaderboardNameStyle, AvailableStyles, Styles
  <2>2. /\ s' \in Farms /\ s'.plots = s.plots /\ s'.automated = s.automated
        /\ s'.greenhouse = s.greenhouse /\ s'.starseeds = s.starseeds /\ s'.upgrades = s.upgrades
        /\ s'.active = s.active /\ s'.completed = s.completed /\ s'.unlocked = s.unlocked
        /\ s'.cRebirths = s.cRebirths /\ s'.cEarnings = s.cEarnings /\ s'.cStarseeds = s.cStarseeds
        /\ s'.lifetime = s.lifetime /\ s'.rebirths = s.rebirths
        /\ s'.style = style /\ s'.pouch = s.pouch /\ s'.scarecrows = s.scarecrows
        /\ s'.event = s.event /\ s'.gift = s.gift
    BY <2>1, CInvFacts DEF Farms
  <2>3. Dressed(s')
    BY <2>1, <2>2 DEF Dressed, AvailableStyles
  <2>4. InOrder(s') /\ Cleared(s') /\ Restricted(s') /\ Since(s', accepted) /\ ~GoalReached(s')
    BY <2>2, CInvFacts DEF Sound, InOrder, Cleared, Restricted, Since, GoalReached
  <2>5. Honest(s', accepted)
    BY <2>2, CInvFacts DEF Sound, Honest
  <2> QED
    BY <1>1, <2>2, <2>3, <2>4, <2>5, CInvFacts DEF CInv, Kept, Sound
<1> QED
  BY <1>2, <1>3, <1>4

(* A contract starts on a farm that is reset: nothing of the old one       *)
(* counts, and nothing it forbids is left.                                 *)
LEMMA StartIsSound ==
    ASSUME CInv, NEW i \in 1 .. Len(Order), StartContract(Order[i])
    PROVE  CInv' /\ Kept(s, s') /\ s'.unlocked
<1>1. PICK id : id = Order[i]
  OBVIOUS
<1>2. /\ id \in {BareHands, LeanSeason, ClockworkDenied} /\ id # NoContract
      /\ s.completed < 3 /\ id = Order[s.completed + 1]
  BY <1>1, Names DEF StartContract, IsNext
<1>3. PICK r : r = ResetGameplay(s)
  OBVIOUS
<1>4. /\ r \in Farms
      /\ r.plots = StartPlots /\ r.automated = 0 /\ r.greenhouse = FALSE
      /\ r.scarecrows = 0 /\ r.pouch = 0 /\ r.event = FALSE /\ r.gift = FALSE
      /\ r.completed = s.completed /\ r.cRebirths = 0 /\ r.cEarnings = 0 /\ r.cStarseeds = 0
      /\ r.starseeds = 0 /\ r.upgrades = 0
      /\ r.lifetime = s.lifetime /\ r.rebirths = s.rebirths /\ r.style = s.style
  BY <1>3, CInvFacts, ResetFields
<1>5. s' = [r EXCEPT !.unlocked = TRUE, !.active = id]
  BY <1>1, <1>3 DEF StartContract
<1>6. /\ s' \in Farms /\ s'.unlocked = TRUE /\ s'.active = id
      /\ s'.plots = StartPlots /\ s'.automated = 0 /\ s'.greenhouse = FALSE
      /\ s'.scarecrows = 0 /\ s'.pouch = 0 /\ s'.event = FALSE /\ s'.gift = FALSE
      /\ s'.completed = s.completed /\ s'.cRebirths = 0 /\ s'.cEarnings = 0 /\ s'.cStarseeds = 0
      /\ s'.starseeds = 0 /\ s'.upgrades = 0
      /\ s'.lifetime = s.lifetime /\ s'.rebirths = s.rebirths /\ s'.style = s.style
  BY <1>2, <1>4, <1>5 DEF Farms
<1>7. accepted' = [lifetime |-> s.lifetime, rebirths |-> s.rebirths]
  BY DEF StartContract
<1>8. accepted' \in Acceptance
  BY <1>7, CInvFacts DEF Farms, Acceptance
<1>9. Honest(s', accepted') /\ Since(s', accepted')
  BY <1>6, <1>7, CInvFacts, Numbers, Bounds DEF Honest, Since, Least
<1>10. Dressed(s')
  BY <1>6, CInvFacts, Numbers, StylesStay DEF Sound
<1>11. InOrder(s') /\ Cleared(s') /\ Restricted(s') /\ ~GoalReached(s')
  BY <1>2, <1>6, Bounds DEF InOrder, Cleared, Restricted, GoalReached
<1> QED
  BY <1>6, <1>8, <1>9, <1>10, <1>11 DEF CInv, Kept, Sound

LEMMA AbandonIsSound ==
    ASSUME CInv, AbandonContract
    PROVE  CInv' /\ Kept(s, s')
<1>1. PICK r : r = ResetGameplay(s)
  OBVIOUS
<1>2. /\ r \in Farms /\ r.unlocked = s.unlocked
      /\ r.completed = s.completed /\ r.cRebirths = 0 /\ r.cEarnings = 0 /\ r.cStarseeds = 0
      /\ r.lifetime = s.lifetime /\ r.rebirths = s.rebirths /\ r.style = s.style
  BY <1>1, CInvFacts, ResetFields
<1>3. s' = [r EXCEPT !.active = NoContract] /\ accepted' = accepted
  BY <1>1 DEF AbandonContract
<1>4. /\ s' \in Farms /\ s'.unlocked = s.unlocked /\ s'.active = NoContract
      /\ s'.completed = s.completed /\ s'.cRebirths = 0 /\ s'.cEarnings = 0 /\ s'.cStarseeds = 0
      /\ s'.lifetime = s.lifetime /\ s'.rebirths = s.rebirths /\ s'.style = s.style
  BY <1>2, <1>3 DEF Farms
<1>5. Dressed(s')
  BY <1>4, CInvFacts, Numbers, StylesStay DEF Sound
<1>6. /\ InOrder(s') /\ Cleared(s') /\ Honest(s', accepted) /\ Restricted(s')
      /\ Since(s', accepted) /\ ~GoalReached(s')
  BY <1>4, CInvFacts, Names
     DEF Sound, InOrder, Cleared, Honest, Restricted, Since, GoalReached
<1> QED
  BY <1>3, <1>4, <1>5, <1>6, CInvFacts DEF CInv, Kept, Sound

-----------------------------------------------------------------------------
(* The whole step. *)

LEMMA NewFarmIsSound == Init => CInv
<1> SUFFICES ASSUME Init PROVE CInv
  OBVIOUS
<1>1. s \in Farms
  BY Bounds DEF Init, New, Farms, Styles
<1>2. /\ s.active = NoContract /\ s.completed = 0 /\ s.cEarnings = 0 /\ s.cStarseeds = 0
      /\ s.cRebirths = 0 /\ s.lifetime = 0 /\ s.rebirths = 0 /\ s.style = "traditional"
  BY DEF Init, New
<1>3. accepted \in Acceptance /\ accepted.lifetime = 0 /\ accepted.rebirths = 0
  BY Bounds DEF Init, Acceptance
<1> QED
  BY <1>1, <1>2, <1>3, Names
     DEF CInv, Sound, InOrder, Cleared, Honest, Restricted, Since, Dressed, AvailableStyles,
         GoalReached

(* A step earns, or leaves what counts for the campaign as it is.          *)
LEMMA StepsEarnOrKeep ==
    ASSUME CInv, [Next]_vars
    PROVE  /\ CInv'
           /\ \/ accepted' = accepted /\ Gains(s, s', accepted)
              \/ Kept(s, s')
           /\ s'.rebirths # s.rebirths =>
                 s'.starseeds = SatAdd(s.starseeds, Root(SatAdd(s.run, s.pouch) \div Divisor))
<1>1. CASE Advance \/ Harvest \/ ShooCritter \/ Collect \/ RedeemGift
  <2>1. accepted' = accepted /\ Earns(s, s', accepted) /\ s'.rebirths = s.rebirths
    BY <1>1, AdvanceEarns, HarvestEarns, CollectEarns, RedeemEarns
  <2> QED
    BY <2>1 DEF Earns, CInv
<1>2. CASE Rebirth
  BY <1>2, RebirthEarns DEF Earns, CInv
<1>3. CASE BuyPlot \/ BuyZone \/ UpgradePlotAuto
  BY <1>3, PlotsAreSound DEF Kept
<1>4. CASE BuyScarecrow \/ BuyUpgrade \/ SetLeaderboardNameStyle
  BY <1>4, GoodsAreSound DEF Kept
<1>5. CASE \E i \in 1 .. Len(Order) : StartContract(Order[i])
  BY <1>5, StartIsSound DEF Kept
<1>6. CASE AbandonContract
  BY <1>6, AbandonIsSound DEF Kept
<1>7. CASE UNCHANGED vars
  <2>1. s' = s /\ accepted' = accepted
    BY <1>7 DEF vars
  <2> QED
    BY <2>1, CInvFacts DEF CInv, Kept, Sound
<1> QED
  BY <1>1, <1>2, <1>3, <1>4, <1>5, <1>6, <1>7 DEF Next

(* Starseeds and upgrades are given up with a run of the campaign only.     *)
GivesUp(f, g) ==
    g.upgrades < f.upgrades \/ Holdings(g) < Holdings(f) =>
        g.active # f.active /\ g.completed = f.completed

LEMMA HoldingsOfShops ==
    ASSUME CInv, \/ BuyPlot \/ BuyZone \/ UpgradePlotAuto
                 \/ BuyScarecrow \/ SetLeaderboardNameStyle \/ BuyUpgrade
    PROVE  GivesUp(s, s')
<1>1. s.starseeds \in Nat /\ s.upgrades \in Nat
  BY CInvFacts, Numbers
<1>2. CASE BuyUpgrade
  <2>1. s' = [s EXCEPT !.starseeds = @ - 1, !.upgrades = @ + 1]
    BY <1>2 DEF BuyUpgrade
  <2>2. s'.starseeds = s.starseeds - 1 /\ s'.upgrades = s.upgrades + 1
    BY <2>1, CInvFacts DEF Farms
  <2> QED
    BY <1>1, <2>2 DEF GivesUp, Holdings
<1>3. CASE \/ BuyPlot \/ BuyZone \/ UpgradePlotAuto
           \/ BuyScarecrow \/ SetLeaderboardNameStyle
  <2>1. s'.starseeds = s.starseeds /\ s'.upgrades = s.upgrades
    BY <1>3, CInvFacts
       DEF BuyPlot, BuyZone, UpgradePlotAuto, BuyScarecrow, SetLeaderboardNameStyle, Farms
  <2> QED
    BY <1>1, <2>1 DEF GivesUp, Holdings
<1> QED
  BY <1>2, <1>3

LEMMA StepsGiveUp == ASSUME CInv, [Next]_vars PROVE GivesUp(s, s')
<1>1. /\ s.starseeds \in Nat /\ s.upgrades \in Nat
      /\ s'.starseeds \in Nat /\ s'.upgrades \in Nat
  <2>1. s \in Farms /\ s' \in Farms
    BY StepsEarnOrKeep DEF CInv, Sound
  <2> QED
    BY <2>1, Numbers
<1>2. ASSUME Gains(s, s', accepted) PROVE GivesUp(s, s')
  BY <1>1, <1>2 DEF Gains, GivesUp, Holdings
<1>3. CASE Advance \/ Harvest \/ ShooCritter \/ Collect \/ RedeemGift \/ Rebirth
  <2>1. Gains(s, s', accepted)
    BY <1>3, AdvanceEarns, HarvestEarns, CollectEarns, RedeemEarns, RebirthEarns DEF Earns
  <2> QED
    BY <1>2, <2>1
<1>4. CASE \/ BuyPlot \/ BuyZone \/ UpgradePlotAuto
           \/ BuyScarecrow \/ SetLeaderboardNameStyle \/ BuyUpgrade
  BY <1>4, HoldingsOfShops
<1>5. ASSUME NEW i \in 1 .. Len(Order), StartContract(Order[i]) PROVE GivesUp(s, s')
  <2>1. s.active = NoContract /\ s'.active = Order[i] /\ Order[i] # NoContract
    <3>1. s' = [ResetGameplay(s) EXCEPT !.unlocked = TRUE, !.active = Order[i]]
      BY <1>5 DEF StartContract
    <3>2. ResetGameplay(s) \in Farms
      BY CInvFacts, ResetFields
    <3> QED
      BY <1>5, <3>1, <3>2, Names DEF StartContract, IsNext, Farms
  <2>2. s'.completed = s.completed
    BY <1>5, StartIsSound DEF Kept
  <2> QED
    BY <2>1, <2>2 DEF GivesUp
<1>6. CASE AbandonContract
  <2>1. s.active # NoContract /\ s'.active = NoContract
    <3>1. s' = [ResetGameplay(s) EXCEPT !.active = NoContract]
      BY <1>6 DEF AbandonContract
    <3>2. ResetGameplay(s) \in Farms
      BY CInvFacts, ResetFields
    <3> QED
      BY <1>6, <3>1, <3>2 DEF AbandonContract, Farms
  <2>2. s'.completed = s.completed
    BY <1>6, AbandonIsSound DEF Kept
  <2> QED
    BY <2>1, <2>2 DEF GivesUp
<1>7. CASE UNCHANGED vars
  BY <1>1, <1>7 DEF vars, GivesUp, Holdings
<1> QED
  BY <1>3, <1>4, <1>5, <1>6, <1>7 DEF Next

LEMMA CInvImplies == CInv => CampaignInv
<1> SUFFICES ASSUME CInv PROVE CampaignInv
  OBVIOUS
<1>1. TypeOK
  BY CInvFacts DEF TypeOK, Acceptance
<1>2. ContractsInOrder /\ NoGoalIsMissed /\ CountersAreHonest /\ RestrictionsHold
  BY CInvFacts
     DEF Sound, InOrder, Cleared, Honest, Restricted,
         ContractsInOrder, NoGoalIsMissed, CountersAreHonest, RestrictionsHold
<1> QED
  BY <1>1, <1>2 DEF CampaignInv

-----------------------------------------------------------------------------
(* The inductive invariant: the campaign's, with what it leaves out. *)
THEOREM CampaignIsInductive == Spec => []CInv
<1>1. CInv /\ [Next]_vars => CInv'
  BY StepsEarnOrKeep
<1> QED
  BY <1>1, NewFarmIsSound, PTL DEF Spec

(* Contracts are taken in order, no goal is reached unnoticed, counters    *)
(* agree with the lifetime statistics and the purse, what a contract       *)
(* forbids its farm does not have, and no amount overflows.                *)
THEOREM CampaignHolds == Spec => []CampaignInv
<1> QED
  BY CInvImplies, CampaignIsInductive, PTL

(* Seals are won one at a time, for what the contract asked since it was   *)
(* accepted, whichever of credit, creditStarseeds and Rebirth noticed.     *)
THEOREM SealsAreDeserved == Spec => SealsAreEarned
<1> DEFINE Step == s'.completed # s.completed =>
        /\ s'.completed = s.completed + 1
        /\ CASE s.active = BareHands ->
                  s'.lifetime < MaxCoin => s'.lifetime - accepted.lifetime >= BareGoal
             [] s.active = LeanSeason ->
                  s'.starseeds + s'.upgrades >= SeedGoal
             [] s.active = ClockworkDenied ->
                  s'.rebirths - accepted.rebirths >= RebirthGoal
<1>1. ASSUME CInv, [Next]_vars PROVE Step
  <2>1. s'.completed # s.completed =>
          /\ s'.completed = s.completed + 1
          /\ s.active # NoContract /\ Deserved(s.active, s', accepted)
    BY <1>1, StepsEarnOrKeep DEF Gains, Kept
  <2>2. s.active # NoContract => s.active \in {BareHands, LeanSeason, ClockworkDenied}
    BY <1>1, CInvFacts DEF Farms
  <2> QED
    BY <2>1, <2>2, Names DEF Deserved
<1> QED
  BY <1>1, CampaignIsInductive, PTL DEF Spec, SealsAreEarned

(* Whatever is reset, bought or reborn: seals, lifetime earnings, the      *)
(* number of rebirths, the way into the campaign and the style worn stay;  *)
(* Starseeds and upgrades go with a contract's start or abandonment only.  *)
THEOREM NoResetTakesProgress == Spec => ProgressIsKept
<1> DEFINE Step == /\ s'.completed >= s.completed
                   /\ s'.lifetime >= s.lifetime /\ s'.rebirths >= s.rebirths
                   /\ s.unlocked \/ s.completed > 0 => ContractsAvailable(s')
                   /\ s'.style \in AvailableStyles(s')
                   /\ s'.upgrades < s.upgrades \/ Holdings(s') < Holdings(s) =>
                         s'.active # s.active /\ s'.completed = s.completed
<1>1. ASSUME CInv, [Next]_vars PROVE Step
  <2>1. CInv'
    BY <1>1, StepsEarnOrKeep
  <2>2. s \in Farms /\ s'.style \in AvailableStyles(s')
    BY <1>1, <2>1 DEF CInv, Sound, Dressed
  <2>3. /\ s'.completed >= s.completed
        /\ s'.lifetime >= s.lifetime /\ s'.rebirths >= s.rebirths
        /\ s.unlocked => s'.unlocked
    BY <1>1, <2>2, StepsEarnOrKeep, Numbers DEF Gains, Kept
  <2>4. s' \in Farms
    BY <2>1 DEF CInv, Sound
  <2>5. s.unlocked \/ s.completed > 0 => ContractsAvailable(s')
    BY <2>2, <2>3, <2>4, Numbers DEF ContractsAvailable
  <2>6. GivesUp(s, s')
    BY <1>1, StepsGiveUp
  <2> QED
    BY <2>2, <2>3, <2>5, <2>6 DEF GivesUp
<1> QED
  BY <1>1, CampaignIsInductive, PTL DEF Spec, ProgressIsKept

(* A rebirth pays the gain its screen showed, although banking the pouches *)
(* comes first and may complete a contract.                                *)
THEOREM PreviewIsPaid == Spec => RebirthPaysPreview
<1>1. CInv /\ [Next]_vars =>
        (s'.rebirths # s.rebirths =>
            s'.starseeds = SatAdd(s.starseeds, Root(SatAdd(s.run, s.pouch) \div Divisor)))
  BY StepsEarnOrKeep
<1> QED
  BY <1>1, CampaignIsInductive, PTL DEF Spec, RebirthPaysPreview

-----------------------------------------------------------------------------
(* What the terminal UI sees of a farm.  The books agree: a run's coins are *)
(* lifetime coins, a farm that was reborn earned what that asks for, and   *)
(* every plot was given, bought or came with the Greenhouse.               *)
Earned(f) == f.run <= f.lifetime /\ (f.rebirths >= 1 => f.lifetime >= MinEarnings)
Surveyed(f) ==
    /\ f.plots = StartPlots + f.bought + (IF f.greenhouse THEN ZonePlots ELSE 0)
    /\ StartPlots + f.bought <= LandMax

Ledger == Earned(s) /\ Surveyed(s)

DoorOf(f) ==
    IF f.unlocked \/ f.completed > 0 \/ f.active # NoContract THEN "begun"
    ELSE IF BaseGameComplete(f) THEN "contracts"
    ELSE IF ProgressionRebirths(f) >= 1 THEN "stars" ELSE "closed"

(* From f to g something was paid, which can win the contracts of W only.  *)
Pays(f, g, W) ==
    /\ SameFarm(f, g) /\ g.rebirths = f.rebirths
    /\ g.lifetime >= f.lifetime
    /\ f.run <= f.lifetime => g.run <= g.lifetime
    /\ f.active \notin W => g.active = f.active /\ g.completed = f.completed

LEMMA DoorIs == Door = DoorOf(s) /\ Door' = DoorOf(s')
BY DEF Door, DoorOf, Begun

LEMMA NumbersOfContracts ==
    /\ Number(NoContract) = 0 /\ Number(BareHands) = 1
    /\ Number(LeanSeason) = 2 /\ Number(ClockworkDenied) = 3
    /\ \A i \in 1..3 : Number(Order[i]) = i
<1>1. /\ Number(NoContract) = 0 /\ Number(BareHands) = 1
      /\ Number(LeanSeason) = 2 /\ Number(ClockworkDenied) = 3
  BY Names DEF Number
<1> QED
  BY <1>1, Names

(* A credit of coins can win the contract of the coins, and no other.      *)
LEMMA CreditPays ==
    ASSUME NEW f, NEW a, NEW n \in Nat, Sound(f, a), ~GoalReached(f), NEW g, g = Credit(f, n)
    PROVE  /\ Pays(f, g, IF n = 0 THEN {} ELSE {BareHands})
           /\ g.run = SatAdd(f.run, n)
<1>1. f \in Farms
  BY DEF Sound
<1>2. CASE n = 0
  <2>1. g = f /\ SatAdd(f.run, n) = f.run
    BY <1>1, <1>2, Numbers, Bounds DEF Credit, SatAdd
  <2> QED
    BY <1>1, <2>1, Numbers DEF Pays, SameFarm
<1>3. CASE n > 0
  <2>1. PICK run, life, c :
           /\ run = SatAdd(f.run, n) /\ life = SatAdd(f.lifetime, n) /\ c = SatAdd(f.cEarnings, n)
    OBVIOUS
  <2>2. /\ run \in Amount /\ life \in Amount /\ c \in Amount
        /\ life >= f.lifetime /\ (f.run <= f.lifetime => run <= life)
    <3>1. /\ run \in Amount /\ life \in Amount /\ c \in Amount /\ life >= f.lifetime
          /\ run = Least(MaxCoin, f.run + n) /\ life = Least(MaxCoin, f.lifetime + n)
      BY <1>1, <2>1, SatAddBounds DEF Farms
    <3> QED
      BY <1>1, <3>1, Numbers, Bounds DEF Least
  <2>3. PICK paid : paid = [f EXCEPT !.run = run, !.lifetime = life]
    OBVIOUS
  <2>4. CASE f.active = NoContract
    <3>1. g = paid
      BY <1>1, <1>3, <2>1, <2>3, <2>4 DEF Credit, Farms
    <3> QED
      BY <1>1, <1>3, <2>1, <2>2, <2>3, <3>1 DEF Farms, Pays, SameFarm
  <2>5. CASE f.active # NoContract
    <3>1. PICK h : h = [paid EXCEPT !.cEarnings = c]
      OBVIOUS
    <3>2. /\ h \in Farms /\ SameFarm(f, h) /\ h.run = run /\ h.lifetime = life
          /\ h.active = f.active /\ h.completed = f.completed /\ h.rebirths = f.rebirths
          /\ h.cRebirths = f.cRebirths /\ h.cStarseeds = f.cStarseeds
      BY <1>1, <2>2, <2>3, <3>1 DEF Farms, SameFarm
    <3>3. g = CheckCompletion(h)
      <4>1. paid.cEarnings = f.cEarnings
        BY <1>1, <2>3 DEF Farms
      <4> QED
        BY <1>3, <2>1, <2>3, <2>5, <3>1, <4>1 DEF Credit
    <3>4. SameFarm(h, g) /\ g.run = run /\ g.lifetime = life /\ g.rebirths = f.rebirths
      BY <3>2, <3>3, CompletionLooks
    <3>5. f.active # BareHands => g = h
      BY <3>2, <3>3 DEF CheckCompletion, GoalReached
    <3> QED
      BY <1>3, <2>1, <2>2, <3>2, <3>4, <3>5 DEF Pays, SameFarm
  <2> QED
    BY <2>4, <2>5
<1> QED
  BY <1>2, <1>3

LEMMA StarseedsPay ==
    ASSUME NEW f, NEW a, NEW n \in Nat, Sound(f, a), ~GoalReached(f),
           NEW g, g = CreditStarseeds(f, n)
    PROVE  Pays(f, g, {LeanSeason})
<1>1. f \in Farms
  BY DEF Sound
<1>2. PICK seeds, c : seeds = SatAdd(f.starseeds, n) /\ c = SatAdd(f.cStarseeds, n)
  OBVIOUS
<1>3. seeds \in Amount /\ c \in Amount
  BY <1>1, <1>2, SatAddBounds DEF Farms
<1>4. CASE f.active = NoContract
  <2>1. g = [f EXCEPT !.starseeds = seeds]
    BY <1>2, <1>4 DEF CreditStarseeds
  <2> QED
    BY <1>1, <2>1, Numbers DEF Farms, Pays, SameFarm
<1>5. CASE f.active # NoContract
  <2>1. PICK h : h = [f EXCEPT !.starseeds = seeds, !.cStarseeds = c]
    OBVIOUS
  <2>2. /\ h \in Farms /\ SameFarm(f, h) /\ h.run = f.run /\ h.lifetime = f.lifetime
        /\ h.active = f.active /\ h.completed = f.completed /\ h.rebirths = f.rebirths
        /\ h.cRebirths = f.cRebirths /\ h.cEarnings = f.cEarnings
    BY <1>1, <1>3, <2>1 DEF Farms, SameFarm
  <2>3. g = CheckCompletion(h)
    BY <1>2, <1>5, <2>1 DEF CreditStarseeds
  <2>4. SameFarm(h, g) /\ g.run = h.run /\ g.lifetime = h.lifetime /\ g.rebirths = h.rebirths
    BY <2>2, <2>3, CompletionLooks
  <2>5. f.active # LeanSeason => g = h
    BY <2>2, <2>3 DEF CheckCompletion, GoalReached
  <2> QED
    BY <1>1, <2>2, <2>4, <2>5, Numbers DEF Pays, SameFarm
<1> QED
  BY <1>4, <1>5

LEMMA PaysTwice ==
    ASSUME NEW e \in Farms, NEW f \in Farms, NEW g \in Farms, NEW V, NEW W, V \subseteq W,
           Pays(e, f, V), Pays(f, g, W)
    PROVE  Pays(e, g, W)
BY Numbers DEF Pays, SameFarm

(* The calls that earn.                                                    *)
(* Before anything is credited: only parcels, pouches and events change.   *)
LEMMA TidyPays ==
    ASSUME CInv, NEW f \in Farms, Alike(s, f), SameFarm(s, f), f.run = s.run, NEW W
    PROVE  Pays(s, f, W)
BY CInvFacts, Numbers DEF Alike, Pays

LEMMA AdvancePays == ASSUME CInv, Advance PROVE Pays(s, s', {})
<1>1. PICK event \in BOOLEAN, gift \in BOOLEAN, drop \in Payouts \cup {0}, harvest \in Payouts \cup {0} :
         /\ Blocks(s).passive => ~event /\ ~gift
         /\ s.scarecrows = 0 \/ Blocks(s).passive => drop = 0
         /\ s.automated = 0 \/ Blocks(s).automation => harvest = 0
         /\ s' = Credit([s EXCEPT !.event = event, !.gift = @ \/ gift,
                                  !.pouch = SatAdd(@, drop)], harvest)
  BY DEF Advance
<1>2. PICK p \in Amount : p = SatAdd(s.pouch, drop) /\ (drop = 0 => p = s.pouch)
  <2>1. s.pouch \in Amount
    BY CInvFacts DEF Farms
  <2> QED
    BY <2>1, PayoutsAreAmounts, SatAddBounds, Bounds DEF SatAdd, Amount
<1>3. PICK g \in BOOLEAN : g = (s.gift \/ gift)
  OBVIOUS
<1>4. PICK f : f = [s EXCEPT !.event = event, !.gift = g, !.pouch = p]
  OBVIOUS
<1>5. /\ f \in Farms /\ f.event = event /\ f.gift = g /\ f.pouch = p
      /\ Alike(s, f) /\ SameFarm(s, f) /\ f.automated = s.automated /\ f.run = s.run
  BY <1>4, CInvFacts DEF Farms, Alike, SameFarm
<1>6. s' = Credit(f, harvest)
  BY <1>1, <1>2, <1>3, <1>4
<1>7. Restricted(f)
  BY <1>1, <1>2, <1>3, <1>5, CInvFacts DEF Sound, Restricted, Blocks, Alike, SameFarm
<1>8. Sound(f, accepted) /\ ~GoalReached(f) /\ Pays(s, f, {})
  BY <1>5, <1>7, Tidied, TidyPays
<1>9. Pays(f, s', IF harvest = 0 THEN {} ELSE {BareHands})
  BY <1>6, <1>8, PayoutsAreAmounts, CreditPays
<1>10. f.active = BareHands => harvest = 0
  BY <1>1, <1>5 DEF Blocks, Alike
<1>11. Pays(f, s', {})
  BY <1>9, <1>10 DEF Pays
<1>12. s' \in Farms
  BY AdvanceEarns DEF Earns, Sound
<1> QED
  BY <1>5, <1>8, <1>11, <1>12, CInvFacts, PaysTwice

LEMMA HarvestPays ==
    ASSUME CInv, Harvest \/ ShooCritter
    PROVE  Pays(s, s', {BareHands})
<1>1. ASSUME NEW f, NEW n \in Nat, Sound(f, accepted), ~GoalReached(f)
      PROVE  Pays(f, Credit(f, n), {BareHands})
  BY <1>1, CreditPays DEF Pays
<1>2. CASE ShooCritter
  <2>1. PICK reward \in Payouts : s' = Credit(s, reward)
    BY <1>2 DEF ShooCritter
  <2> QED
    BY <1>1, <2>1, CInvFacts, PayoutsAreAmounts
<1>3. CASE Harvest
  <2>1. PICK payout \in Payouts, discovery \in Payouts \cup {0} :
           s' = Credit(Credit(s, payout), discovery)
    BY <1>3 DEF Harvest
  <2>2. PICK f : f = Credit(s, payout)
    OBVIOUS
  <2>3. Earns(s, f, accepted) /\ Pays(s, f, {BareHands})
    BY <1>1, <2>2, CInvFacts, PayoutsAreAmounts, CreditIsSound
  <2>4. Pays(f, s', {BareHands})
    BY <1>1, <2>1, <2>2, <2>3, PayoutsAreAmounts DEF Earns
  <2>5. s' \in Farms /\ f \in Farms
    BY <1>3, <2>3, HarvestEarns DEF Earns, Sound
  <2> QED
    BY <2>3, <2>4, <2>5, CInvFacts, PaysTwice
<1> QED
  BY <1>2, <1>3

LEMMA CollectPays == ASSUME CInv, Collect PROVE Pays(s, s', {BareHands})
<1>1. PICK coins \in 1 .. s.pouch : s' = Credit([s EXCEPT !.pouch = @ - coins], coins)
  BY DEF Collect
<1>2. PICK p \in Amount : p = s.pouch - coins /\ p <= s.pouch
  BY CInvFacts, Numbers, Bounds DEF Amount
<1>3. PICK f : f = [s EXCEPT !.pouch = p]
  OBVIOUS
<1>4. Sound(f, accepted) /\ ~GoalReached(f)
  BY <1>2, <1>3, Emptied
<1>5. f \in Farms /\ Alike(s, f) /\ SameFarm(s, f) /\ f.run = s.run
  BY <1>3, CInvFacts DEF Farms, Alike, SameFarm
<1>6. coins \in Nat /\ coins # 0 /\ s' = Credit(f, coins)
  BY <1>1, <1>2, <1>3
<1>7. Pays(f, s', {BareHands})
  BY <1>4, <1>6, CreditPays
<1>8. s' \in Farms
  BY CollectEarns DEF Earns, Sound
<1> QED
  BY <1>5, <1>7, <1>8, CInvFacts, TidyPays, PaysTwice

LEMMA RedeemPays == ASSUME CInv, RedeemGift PROVE Pays(s, s', {BareHands, LeanSeason})
<1>1. PICK f : f = [s EXCEPT !.gift = FALSE]
  OBVIOUS
<1>2. PICK n \in Payouts : s' = Credit(f, n) \/ s' = CreditStarseeds(f, n)
  BY <1>1 DEF RedeemGift
<1>3. /\ f \in Farms /\ f.gift = FALSE /\ Alike(s, f) /\ SameFarm(s, f) /\ f.run = s.run
      /\ f.automated = s.automated /\ f.event = s.event /\ f.pouch = s.pouch
  BY <1>1, CInvFacts DEF Farms, Alike, SameFarm
<1>4. Restricted(f)
  BY <1>3, CInvFacts DEF Sound, Restricted, Alike, SameFarm
<1>5. Sound(f, accepted) /\ ~GoalReached(f)
  BY <1>3, <1>4, Tidied
<1>6. Pays(f, s', {BareHands, LeanSeason})
  <2>1. CASE s' = Credit(f, n)
    <3>1. Pays(f, s', IF n = 0 THEN {} ELSE {BareHands})
      BY <1>5, <2>1, PayoutsAreAmounts, CreditPays
    <3> QED
      BY <3>1 DEF Pays
  <2>2. CASE s' = CreditStarseeds(f, n)
    <3>1. Pays(f, s', {LeanSeason})
      BY <1>5, <2>2, PayoutsAreAmounts, StarseedsPay
    <3> QED
      BY <3>1 DEF Pays
  <2> QED
    BY <1>2, <2>1, <2>2
<1>7. s' \in Farms
  BY RedeemEarns DEF Earns, Sound
<1> QED
  BY <1>3, <1>6, <1>7, CInvFacts, TidyPays, PaysTwice

(* The shop's door is where it was: to be paid opens no contracts, since a *)
(* farm that was ever reborn has earned enough.                            *)
LEMMA DoorStays ==
    ASSUME NEW f \in Farms, NEW g \in Farms, InOrder(f), Earned(f),
           g.upgrades = f.upgrades, g.unlocked = f.unlocked, g.rebirths = f.rebirths,
           g.lifetime >= f.lifetime,
           \/ g.completed = f.completed /\ g.active = f.active
           \/ g.completed = f.completed + 1 /\ f.active # NoContract
    PROVE  DoorOf(g) = DoorOf(f)
<1>1. CASE f.unlocked
  BY <1>1 DEF DoorOf
<1>2. CASE ~f.unlocked
  <2>1. g.completed = f.completed /\ g.active = f.active /\ f.active = NoContract
    BY <1>2 DEF InOrder
  <2>2. BaseGameComplete(g) <=> BaseGameComplete(f)
    BY Numbers, CatalogueAssumption, ShopAssumption, MoneyAssumption DEF BaseGameComplete, Earned
  <2>3. ProgressionRebirths(g) = ProgressionRebirths(f)
    BY <2>1 DEF ProgressionRebirths
  <2> QED
    BY <1>2, <2>1, <2>2, <2>3 DEF DoorOf
<1> QED
  BY <1>1, <1>2

LEMMA EarnsAsSeen ==
    ASSUME CInv, CInv', Ledger, NEW W \in SUBSET {BareHands, LeanSeason},
           Gains(s, s', accepted), Pays(s, s', W)
    PROVE  Ledger' /\ Seen!Earn({Number(c) : c \in W}) /\ (W = {} => UNCHANGED Seen!farm)
<1>1. s \in Farms /\ s' \in Farms /\ InOrder(s)
  BY CInvFacts DEF CInv, Sound
<1>2. Ledger'
  BY <1>1, Numbers, MoneyAssumption DEF Ledger, Earned, Surveyed, Pays, SameFarm
<1>3. Door' = Door
  BY <1>1, DoorIs, DoorStays DEF Ledger, Pays, Gains
<1>4. CASE s'.completed = s.completed /\ s'.active = s.active
  <2>1. UNCHANGED Seen!farm
    BY <1>3, <1>4 DEF Seen!farm, Pays, SameFarm
  <2> QED
    BY <1>2, <2>1 DEF Seen!Earn
<1>5. CASE ~(s'.completed = s.completed /\ s'.active = s.active)
  <2>1. s'.completed = s.completed + 1 /\ s'.active = NoContract /\ s.active \in W
    BY <1>5 DEF Gains, Pays
  <2>2. Number(s.active) # 0 /\ Number(s'.active) = 0
    BY <2>1, NumbersOfContracts
  <2>3. Seen!Win
    BY <1>3, <2>1, <2>2 DEF Seen!Win, Seen!Won, Seen!None, Pays, SameFarm
  <2> QED
    BY <1>2, <2>1, <2>3 DEF Seen!Earn
<1> QED
  BY <1>4, <1>5

(* The purchases. *)
LEMMA Bought ==
    ASSUME CInv, Ledger, NEW p \in Nat, NEW b \in Nat, NEW h \in BOOLEAN, NEW k \in Nat,
           s' = [s EXCEPT !.plots = p, !.bought = b, !.greenhouse = h, !.scarecrows = k]
    PROVE  /\ s'.plots = p /\ s'.scarecrows = k
           /\ s'.active = s.active /\ s'.completed = s.completed /\ Door' = Door
           /\ /\ p = StartPlots + b + (IF h THEN ZonePlots ELSE 0)
              /\ StartPlots + b <= LandMax
              => Ledger' /\ p <= Followed.land
<1>1. /\ s'.plots = p /\ s'.bought = b /\ s'.greenhouse = h /\ s'.scarecrows = k
      /\ s'.active = s.active /\ s'.completed = s.completed /\ s'.unlocked = s.unlocked
      /\ s'.run = s.run /\ s'.lifetime = s.lifetime /\ s'.rebirths = s.rebirths
      /\ s'.upgrades = s.upgrades /\ s'.cRebirths = s.cRebirths
  BY CInvFacts DEF Farms
<1>2. Door' = Door
  BY <1>1, DoorIs DEF DoorOf, BaseGameComplete, ProgressionRebirths
<1> QED
  BY <1>1, <1>2, LandAssumption DEF Ledger, Earned, Surveyed, Followed

LEMMA PlotsAsSeen == ASSUME CInv, Ledger, BuyPlot PROVE Ledger' /\ Seen!BuyPlot
<1>1. s \in Farms /\ s.plots \in Nat /\ s.bought \in Nat /\ s.scarecrows \in 0 .. MaxScarecrows
  BY CInvFacts DEF Farms
<1>2. PICK p \in Nat, b \in Nat : p = s.plots + 1 /\ b = s.bought + 1
  BY <1>1
<1>3. PICK h \in BOOLEAN, k \in 0 .. MaxScarecrows : h = s.greenhouse /\ k = s.scarecrows
  BY <1>1 DEF Farms
<1>4. s' = [s EXCEPT !.plots = p, !.bought = b, !.greenhouse = h, !.scarecrows = k]
  <2>1. s' = [s EXCEPT !.bought = b, !.plots = p]
    BY <1>2 DEF BuyPlot
  <2> QED
    BY <1>1, <1>3, <2>1 DEF Farms
<1>5. p = StartPlots + b + (IF h THEN ZonePlots ELSE 0) /\ StartPlots + b <= LandMax
  BY <1>1, <1>2, <1>3, LandAssumption DEF BuyPlot, Ledger, Surveyed
<1>6. k \in Nat /\ k <= MaxScarecrows
  BY Bounds
<1>7. /\ s'.plots = p /\ s'.scarecrows = k
      /\ s'.active = s.active /\ s'.completed = s.completed /\ Door' = Door
      /\ Ledger' /\ p <= Followed.land
  BY <1>4, <1>5, <1>6, Bought
<1> QED
  BY <1>2, <1>3, <1>6, <1>7 DEF Seen!BuyPlot, Seen!Grow, Followed

LEMMA ZonesAsSeen == ASSUME CInv, Ledger, BuyZone PROVE Ledger' /\ Seen!BuyZone
<1>1. s \in Farms /\ s.plots \in Nat /\ s.bought \in Nat /\ s.scarecrows \in 0 .. MaxScarecrows
  BY CInvFacts DEF Farms
<1>2. PICK p \in Nat, b \in Nat : p = s.plots + ZonePlots /\ b = s.bought
  BY <1>1, Bounds
<1>3. PICK k \in 0 .. MaxScarecrows : k = s.scarecrows
  BY <1>1
<1>4. s' = [s EXCEPT !.plots = p, !.bought = b, !.greenhouse = TRUE, !.scarecrows = k]
  <2>1. s' = [s EXCEPT !.greenhouse = TRUE, !.plots = p]
    BY <1>2 DEF BuyZone
  <2> QED
    BY <1>1, <1>2, <1>3, <2>1 DEF Farms
<1>5. ~s.greenhouse /\ s.active # LeanSeason
  BY DEF BuyZone, Blocks
<1>6. p = StartPlots + b + ZonePlots /\ StartPlots + b <= LandMax
  BY <1>1, <1>2, <1>5, LandAssumption DEF Ledger, Surveyed
<1>7. k \in Nat /\ k <= MaxScarecrows
  BY Bounds
<1>8. /\ s'.plots = p /\ s'.scarecrows = k
      /\ s'.active = s.active /\ s'.completed = s.completed /\ Door' = Door
      /\ Ledger' /\ p <= Followed.land
  BY <1>4, <1>6, <1>7, Bought
<1>9. p \in s.plots .. Followed.land
  BY <1>1, <1>2, <1>8, LandAssumption DEF Followed
<1>10. Seen!Grow(p, s.scarecrows)
  BY <1>3, <1>7, <1>8 DEF Seen!Grow, Followed
<1>11. Number(s.active) # 2
  BY <1>1, <1>5, NumbersOfContracts DEF Farms
<1> QED
  BY <1>8, <1>9, <1>10, <1>11 DEF Seen!BuyZone, Seen!LeanSeason

LEMMA ScarecrowsAsSeen == ASSUME CInv, Ledger, BuyScarecrow PROVE Ledger' /\ Seen!BuyScarecrow
<1>1. s \in Farms /\ s.plots \in Nat /\ s.bought \in Nat /\ s.scarecrows \in 0 .. MaxScarecrows
  BY CInvFacts DEF Farms
<1>2. PICK p \in Nat, b \in Nat, h \in BOOLEAN :
         p = s.plots /\ b = s.bought /\ h = s.greenhouse
  BY <1>1 DEF Farms
<1>3. PICK k \in Nat : k = s.scarecrows + 1
  BY <1>1, Bounds
<1>4. s' = [s EXCEPT !.plots = p, !.bought = b, !.greenhouse = h, !.scarecrows = k]
  <2>1. s' = [s EXCEPT !.scarecrows = k]
    BY <1>3 DEF BuyScarecrow
  <2> QED
    BY <1>1, <1>2, <2>1 DEF Farms
<1>5. p = StartPlots + b + (IF h THEN ZonePlots ELSE 0) /\ StartPlots + b <= LandMax
  BY <1>2 DEF Ledger, Surveyed
<1>6. s.active # ClockworkDenied /\ k <= MaxScarecrows
  <2>1. s.active # ClockworkDenied
    BY Zenon DEF BuyScarecrow, Blocks
  <2>2. s.scarecrows < MaxScarecrows
    BY Zenon DEF BuyScarecrow
  <2> QED
    BY <1>1, <1>3, <2>1, <2>2, Bounds
<1>7. /\ s'.plots = p /\ s'.scarecrows = k
      /\ s'.active = s.active /\ s'.completed = s.completed /\ Door' = Door
      /\ Ledger' /\ p <= Followed.land
  BY <1>4, <1>5, Bought
<1>8. Number(s.active) # 3
  BY <1>1, <1>6, NumbersOfContracts DEF Farms
<1> QED
  BY <1>2, <1>3, <1>6, <1>7, <1>8 DEF Seen!BuyScarecrow, Seen!Grow, Seen!Clockwork, Followed

LEMMA UnseenCalls ==
    ASSUME CInv, Ledger, UpgradePlotAuto \/ SetLeaderboardNameStyle \/ UNCHANGED vars
    PROVE  Ledger' /\ UNCHANGED Seen!farm
<1>1. /\ SameFarm(s, s') /\ s'.run = s.run /\ s'.lifetime = s.lifetime
      /\ s'.rebirths = s.rebirths /\ s'.active = s.active /\ s'.completed = s.completed
      /\ s'.unlocked = s.unlocked /\ s'.upgrades = s.upgrades /\ s'.cRebirths = s.cRebirths
  <2>1. CASE UpgradePlotAuto
    <3>1. PICK automated : s' = [s EXCEPT !.automated = automated]
      BY <2>1 DEF UpgradePlotAuto
    <3> QED
      BY <3>1, CInvFacts DEF Farms, SameFarm
  <2>2. CASE SetLeaderboardNameStyle
    BY <2>2, CInvFacts DEF SetLeaderboardNameStyle, Farms, SameFarm
  <2>3. CASE UNCHANGED vars
    BY <2>3 DEF vars, SameFarm
  <2> QED
    BY <2>1, <2>2, <2>3
<1>2. Door' = Door
  BY <1>1, DoorIs DEF DoorOf, BaseGameComplete, ProgressionRebirths
<1> QED
  BY <1>1, <1>2 DEF Ledger, Earned, Surveyed, SameFarm, Seen!farm

(* The last upgrade may be what the base game still lacked.                *)
LEMMA UpgradesAsSeen ==
    ASSUME CInv, Ledger, BuyUpgrade
    PROVE  Ledger' /\ Seen!BuyLast
<1>1. /\ SameFarm(s, s') /\ s'.run = s.run /\ s'.lifetime = s.lifetime
      /\ s'.rebirths = s.rebirths /\ s'.active = s.active /\ s'.completed = s.completed
      /\ s'.unlocked = s.unlocked /\ s'.cRebirths = s.cRebirths
  <2>1. PICK seeds, ups : s' = [s EXCEPT !.starseeds = seeds, !.upgrades = ups]
    BY DEF BuyUpgrade
  <2> QED
    BY <2>1, CInvFacts DEF Farms, SameFarm
<1>2. ~BaseGameComplete(s)
  BY CInvFacts, Numbers, Bounds DEF BuyUpgrade, BaseGameComplete
<1>3. Door' \in {Door} \cup {d \in {"contracts"} : Seen!MayOpen(d) /\ ~Seen!Available}
  BY <1>1, <1>2, DoorIs
     DEF DoorOf, ProgressionRebirths, Seen!MayOpen, Seen!Available, Followed
<1> QED
  BY <1>1, <1>3 DEF Ledger, Earned, Surveyed, SameFarm, Seen!BuyLast

(* Rebirth: whoever could do it has earned what it asks for, and its star  *)
(* shop is open from now on.                                               *)
LEMMA RebirthAsSeen == ASSUME CInv, Ledger, Rebirth PROVE Ledger' /\ Seen!Rebirth
<1>1. PICK f : f = [s EXCEPT !.pouch = 0]
  OBVIOUS
<1>2. Sound(f, accepted) /\ ~GoalReached(f) /\ f.run = s.run
  BY <1>1, CInvFacts, Numbers, Bounds, Emptied
<1>3. PICK banked : banked = Credit(f, s.pouch)
  OBVIOUS
<1>4. /\ Earns(f, banked, accepted) /\ banked.run = SatAdd(s.run, s.pouch)
      /\ banked.rebirths = f.rebirths
  BY <1>2, <1>3, CInvFacts, Numbers, CreditIsSound
<1>5. Pays(f, banked, IF s.pouch = 0 THEN {} ELSE {BareHands})
  BY <1>2, <1>3, CInvFacts, Numbers, CreditPays
<1>6. f \in Farms /\ banked \in Farms /\ s \in Farms
      /\ f.lifetime = s.lifetime /\ f.rebirths = s.rebirths
  BY <1>1, <1>2, <1>4, CInvFacts DEF Earns, Sound, Farms
<1>7. banked.run <= banked.lifetime /\ banked.run >= MinEarnings
  BY <1>2, <1>4, <1>5, <1>6 DEF Pays, Ledger, Earned, Rebirth, CanRebirth, RebirthEarnings
<1>8. PICK gain : gain = PrestigeGain(banked) /\ s' = PayRebirth(banked, gain)
  BY <1>1, <1>3 DEF Rebirth
<1>9. gain \in Nat
  <2>1. RebirthEarnings(banked) \in Nat
    <3>1. SatAdd(banked.run, banked.pouch) \in Amount
      BY <1>6, Numbers, SatAddBounds DEF Farms
    <3> QED
      BY <3>1, Bounds DEF RebirthEarnings, Amount
  <2>2. RebirthEarnings(banked) \div Divisor \in Int
    BY <2>1, MoneyAssumption
  <2> QED
    BY <1>8, <2>2, RootIsNat DEF PrestigeGain
<1>10. /\ s'.plots = StartPlots /\ s'.bought = 0 /\ s'.greenhouse = FALSE /\ s'.scarecrows = 0
       /\ s'.run = 0 /\ s'.lifetime = banked.lifetime /\ s'.rebirths = s.rebirths + 1
  <2>1. Sound(banked, accepted)
    BY <1>4 DEF Earns
  <2>2. banked.rebirths = s.rebirths
    BY <1>4, <1>6
  <2>3. PICK g : g = PayRebirth(banked, gain) /\ s' = g
    BY <1>8
  <2>4. /\ g.plots = StartPlots /\ g.bought = 0 /\ g.greenhouse = FALSE /\ g.scarecrows = 0
        /\ g.run = 0 /\ g.lifetime = banked.lifetime /\ g.rebirths = banked.rebirths + 1
    BY <1>9, <2>1, <2>3, PayRebirthIsSound, ZenonT(30)
  <2> QED
    BY <2>2, <2>3, <2>4
<1>11. s' \in Farms /\ Gains(s, s', accepted) /\ InOrder(s)
  BY RebirthEarns, CInvFacts DEF Earns, Sound
<1>12. Ledger'
  BY <1>6, <1>7, <1>10, Numbers, LandAssumption, MoneyAssumption DEF Ledger, Earned, Surveyed
<1>13. Door' \in {IF Seen!StarShopIsOpen THEN Door ELSE "stars"}
                   \cup {d \in {"contracts"} : Seen!MayOpen(d) /\ ~Seen!Available}
  <2>1. CASE s.unlocked
    BY <1>11, <2>1, DoorIs DEF Gains, DoorOf, Seen!StarShopIsOpen
  <2>2. CASE ~s.unlocked
    <3>1. /\ s.active = NoContract /\ s'.active = NoContract /\ s'.completed = s.completed
          /\ s'.unlocked = s.unlocked /\ s'.upgrades = s.upgrades /\ s'.lifetime >= s.lifetime
      BY <1>11, <2>2 DEF Gains, InOrder
    <3>2. s.rebirths \in Nat /\ s.lifetime \in Nat /\ s'.lifetime \in Nat
      BY <1>6, <1>11, Numbers
    <3>3. BaseGameComplete(s) => BaseGameComplete(s')
      BY <1>10, <3>1, <3>2, ShopAssumption DEF BaseGameComplete
    <3>4. ProgressionRebirths(s') >= 1
      BY <1>10, <3>1, <3>2 DEF ProgressionRebirths
    <3>5. CASE s.completed > 0
      BY <3>1, <3>5, DoorIs DEF DoorOf, Seen!StarShopIsOpen
    <3>6. CASE ~(s.completed > 0)
      <4>1. /\ Door = IF BaseGameComplete(s) THEN "contracts"
                      ELSE IF ProgressionRebirths(s) >= 1 THEN "stars" ELSE "closed"
            /\ Door' = IF BaseGameComplete(s') THEN "contracts" ELSE "stars"
        BY <2>2, <3>1, <3>4, <3>6, DoorIs DEF DoorOf
      <4> QED
        BY <3>3, <4>1 DEF Seen!StarShopIsOpen, Seen!Available, Seen!MayOpen, Followed
    <3> QED
      BY <3>5, <3>6
  <2> QED
    BY <2>1, <2>2
<1>14. UNCHANGED <<Number(s.active), s.completed>> \/ Seen!Won
  <2>1. s.active # NoContract => Number(s.active) # 0
    BY <1>6, NumbersOfContracts DEF Farms
  <2> QED
    BY <1>11, <2>1, NumbersOfContracts DEF Gains, Seen!Won, Seen!None
<1> QED
  BY <1>10, <1>12, <1>13, <1>14 DEF Seen!Rebirth

(* The two resets: the contract that starts is the one that is due.        *)
LEMMA StartAsSeen ==
    ASSUME CInv, Ledger, NEW i \in 1..3, StartContract(Order[i])
    PROVE  Ledger' /\ Seen!StartContract(i)
<1>1. s \in Farms /\ s.completed \in Nat /\ InOrder(s)
  BY CInvFacts DEF Sound, Farms
<1>2. s.active = NoContract /\ i = s.completed + 1
  <2>1. s.active = NoContract /\ s.completed < 3 /\ Order[i] = Order[s.completed + 1]
    BY Names DEF StartContract, IsNext
  <2>2. s.completed + 1 \in 1..3
    BY <1>1, <2>1
  <2> QED
    BY <2>1, <2>2, NumbersOfContracts
<1>3. PICK r : r = ResetGameplay(s)
  OBVIOUS
<1>4. /\ r \in Farms /\ r.plots = StartPlots /\ r.bought = 0 /\ r.greenhouse = FALSE
      /\ r.scarecrows = 0 /\ r.run = 0 /\ r.completed = s.completed
      /\ r.lifetime = s.lifetime /\ r.rebirths = s.rebirths
  BY <1>1, <1>3, ResetFields
<1>5. s' = [r EXCEPT !.unlocked = TRUE, !.active = Order[i]]
  BY <1>3 DEF StartContract
<1>6. /\ s'.plots = StartPlots /\ s'.bought = 0 /\ s'.greenhouse = FALSE
      /\ s'.scarecrows = 0 /\ s'.run = 0 /\ s'.completed = s.completed
      /\ s'.lifetime = s.lifetime /\ s'.rebirths = s.rebirths
      /\ s'.unlocked /\ s'.active = Order[i]
  BY <1>4, <1>5 DEF Farms
<1>7. Ledger'
  BY <1>1, <1>6, Numbers, LandAssumption DEF Ledger, Earned, Surveyed
<1>8. Seen!Available
  <2>1. s.unlocked \/ s.completed > 0 \/ BaseGameComplete(s)
    BY <1>2 DEF StartContract, ContractsAvailable
  <2> QED
    BY <2>1, DoorIs DEF DoorOf, Seen!Available
<1>9. Seen!Reset(i)
  BY <1>6, DoorIs, NumbersOfContracts DEF DoorOf, Seen!Reset
<1> QED
  BY <1>2, <1>7, <1>8, <1>9, NumbersOfContracts DEF Seen!StartContract, Seen!None, Followed

LEMMA AbandonAsSeen == ASSUME CInv, Ledger, AbandonContract PROVE Ledger' /\ Seen!AbandonContract
<1>1. s \in Farms /\ InOrder(s) /\ s.active # NoContract
  BY CInvFacts DEF Sound, AbandonContract
<1>2. PICK r : r = ResetGameplay(s)
  OBVIOUS
<1>3. /\ r \in Farms /\ r.plots = StartPlots /\ r.bought = 0 /\ r.greenhouse = FALSE
      /\ r.scarecrows = 0 /\ r.run = 0 /\ r.completed = s.completed /\ r.unlocked = s.unlocked
      /\ r.lifetime = s.lifetime /\ r.rebirths = s.rebirths
  BY <1>1, <1>2, ResetFields
<1>4. s' = [r EXCEPT !.active = NoContract]
  BY <1>2 DEF AbandonContract
<1>5. /\ s'.plots = StartPlots /\ s'.bought = 0 /\ s'.greenhouse = FALSE
      /\ s'.scarecrows = 0 /\ s'.run = 0 /\ s'.completed = s.completed
      /\ s'.lifetime = s.lifetime /\ s'.rebirths = s.rebirths
      /\ s'.unlocked = s.unlocked /\ s'.active = NoContract
  BY <1>3, <1>4 DEF Farms
<1>6. Ledger'
  BY <1>1, <1>5, Numbers, LandAssumption DEF Ledger, Earned, Surveyed
<1>7. Number(s.active) # 0 /\ Number(s'.active) = 0
  BY <1>1, <1>5, NumbersOfContracts DEF Farms
<1>8. Door' = "begun"
  BY <1>1, <1>5, DoorIs DEF DoorOf, InOrder
<1> QED
  BY <1>5, <1>6, <1>7, <1>8 DEF Seen!AbandonContract, Seen!Reset, Seen!None

-----------------------------------------------------------------------------
(* The two theorems of the farm that the terminal UI runs over.            *)

LEMMA EarningAsSeen ==
    ASSUME CInv, Ledger, Advance \/ Harvest \/ ShooCritter \/ Collect \/ RedeemGift
    PROVE  /\ Ledger'
           /\ Advance => UNCHANGED Seen!farm
           /\ Harvest \/ ShooCritter \/ Collect => Seen!Earn({Seen!BareHands})
           /\ RedeemGift => Seen!Earn({Seen!BareHands, Seen!LeanSeason})
<1>1. CInv' /\ Gains(s, s', accepted)
  BY AdvanceEarns, HarvestEarns, CollectEarns, RedeemEarns DEF Earns, CInv
<1>2. ASSUME Advance PROVE Ledger' /\ UNCHANGED Seen!farm
  <2>1. Pays(s, s', {})
    BY <1>2, AdvancePays
  <2> QED
    BY <1>1, <2>1, EarnsAsSeen
<1>3. ASSUME Harvest \/ ShooCritter \/ Collect PROVE Ledger' /\ Seen!Earn({Seen!BareHands})
  <2>1. Pays(s, s', {BareHands})
    BY <1>3, HarvestPays, CollectPays
  <2>2. {Number(c) : c \in {BareHands}} = {Seen!BareHands}
    BY NumbersOfContracts DEF Seen!BareHands
  <2>3. Ledger' /\ Seen!Earn({Number(c) : c \in {BareHands}})
    BY <1>1, <2>1, EarnsAsSeen
  <2> QED
    BY <2>2, <2>3
<1>4. ASSUME RedeemGift PROVE Ledger' /\ Seen!Earn({Seen!BareHands, Seen!LeanSeason})
  <2>1. Pays(s, s', {BareHands, LeanSeason})
    BY <1>4, RedeemPays
  <2>2. {Number(c) : c \in {BareHands, LeanSeason}} = {Seen!BareHands, Seen!LeanSeason}
    BY NumbersOfContracts DEF Seen!BareHands, Seen!LeanSeason
  <2>3. Ledger' /\ Seen!Earn({Number(c) : c \in {BareHands, LeanSeason}})
    BY <1>1, <2>1, EarnsAsSeen
  <2> QED
    BY <2>2, <2>3
<1> QED
  BY <1>2, <1>3, <1>4

LEMMA NewLedger == Init => Ledger
BY MoneyAssumption, LandAssumption DEF Init, New, Ledger, Earned, Surveyed

LEMMA LedgerSteps == ASSUME CInv, Ledger, [Next]_vars PROVE Ledger'
<1>1. \A i \in 1 .. Len(Order) : i \in 1..3
  BY Names
<1> QED
  BY <1>1, EarningAsSeen, PlotsAsSeen, ZonesAsSeen, ScarecrowsAsSeen, UnseenCalls,
     UpgradesAsSeen, RebirthAsSeen, StartAsSeen, AbandonAsSeen DEF Next

(* A run's coins are lifetime coins, whoever was reborn has earned what    *)
(* that asks for, and no plot is there that was not given, bought or       *)
(* brought by the Greenhouse.                                              *)
THEOREM BooksAgree == Spec => []Ledger
<1>1. CInv /\ Ledger /\ [Next]_vars => Ledger'
  BY LedgerSteps
<1> QED
  BY <1>1, NewLedger, CampaignIsInductive, PTL DEF Spec

(* Any farm that the simulation reaches is one that a session of the UI    *)
(* model may be opened on.                                                 *)
THEOREM SessionsOpenOnAnyFarm == Spec => []FarmsAreDue
<1>1. ASSUME CInv, Ledger PROVE FarmsAreDue
  <2>1. /\ s.plots \in Nat /\ s.bought \in Nat /\ s.scarecrows \in 0 .. MaxScarecrows
        /\ s.active \in {NoContract, BareHands, LeanSeason, ClockworkDenied}
        /\ s.completed \in 0 .. 3
    BY <1>1, CInvFacts DEF Farms
  <2>2. s.plots \in StartPlots .. Followed.land
    BY <1>1, <2>1, LandAssumption DEF Ledger, Surveyed, Followed
  <2>3. /\ Number(s.active) \in 0 .. 3
        /\ Number(s.active) # 0 => Number(s.active) = s.completed + 1
    <3>1. s.active # NoContract =>
             s.completed + 1 \in 1..3 /\ s.active = Order[s.completed + 1]
      BY <1>1, <2>1, CInvFacts DEF Sound, InOrder
    <3> QED
      BY <3>1, NumbersOfContracts
  <2>4. Door \in Seen!Doors /\ (Number(s.active) # 0 \/ s.completed > 0 => Door = "begun")
    BY DoorIs, NumbersOfContracts DEF DoorOf, Seen!Doors
  <2> QED
    BY <2>1, <2>2, <2>3, <2>4
       DEF FarmsAreDue, Seen!FarmIsDue, Seen!MayOpen, Seen!None, Followed
<1> QED
  BY <1>1, CampaignIsInductive, BooksAgree, PTL

(* Nothing but a rebirth counts as one.                                    *)
LEMMA RebirthsAreCounted ==
    ASSUME CInv, [Next]_vars, s'.rebirths # s.rebirths
    PROVE  Rebirth
<1>1. CASE Advance \/ Harvest \/ ShooCritter \/ Collect \/ RedeemGift
  BY <1>1, AdvanceEarns, HarvestEarns, CollectEarns, RedeemEarns
<1>2. CASE BuyPlot \/ BuyZone \/ UpgradePlotAuto
  BY <1>2, PlotsAreSound DEF Kept
<1>3. CASE BuyScarecrow \/ BuyUpgrade \/ SetLeaderboardNameStyle
  BY <1>3, GoodsAreSound DEF Kept
<1>4. CASE \E i \in 1 .. Len(Order) : StartContract(Order[i])
  BY <1>4, StartIsSound DEF Kept
<1>5. CASE AbandonContract
  BY <1>5, AbandonIsSound DEF Kept
<1>6. CASE UNCHANGED vars
  BY <1>6 DEF vars
<1> QED
  BY <1>1, <1>2, <1>3, <1>4, <1>5, <1>6 DEF Next

(* Call by call: what the handlers of the UI suppose of a call is what the *)
(* simulation does, in every farm that can be reached.                     *)
THEOREM CallsDoWhatTheyShow == Spec => CallsAreAsSeen
<1> DEFINE Step ==
       /\ s'.rebirths # s.rebirths => Seen!Rebirth
       /\ Seen!farm' # Seen!farm =>
            /\ ~(Advance \/ UpgradePlotAuto \/ SetLeaderboardNameStyle)
            /\ Harvest \/ ShooCritter \/ Collect => Seen!Earn({Seen!BareHands})
            /\ RedeemGift => Seen!Earn({Seen!BareHands, Seen!LeanSeason})
            /\ (BuyPlot => Seen!BuyPlot) /\ (BuyZone => Seen!BuyZone)
            /\ (BuyScarecrow => Seen!BuyScarecrow) /\ (BuyUpgrade => Seen!BuyLast)
            /\ \A i \in 1..3 : StartContract(Order[i]) => Seen!StartContract(i)
            /\ AbandonContract => Seen!AbandonContract
<1>1. ASSUME CInv, Ledger, [Next]_vars PROVE Step
  <2>1. Advance \/ UpgradePlotAuto \/ SetLeaderboardNameStyle => UNCHANGED Seen!farm
    BY <1>1, EarningAsSeen, UnseenCalls
  <2>2. s'.rebirths # s.rebirths => Seen!Rebirth
    BY <1>1, RebirthsAreCounted, RebirthAsSeen
  <2>3. /\ Harvest \/ ShooCritter \/ Collect => Seen!Earn({Seen!BareHands})
        /\ RedeemGift => Seen!Earn({Seen!BareHands, Seen!LeanSeason})
    BY <1>1, EarningAsSeen
  <2>4. /\ (BuyPlot => Seen!BuyPlot) /\ (BuyZone => Seen!BuyZone)
        /\ (BuyScarecrow => Seen!BuyScarecrow) /\ (BuyUpgrade => Seen!BuyLast)
        /\ \A i \in 1..3 : StartContract(Order[i]) => Seen!StartContract(i)
        /\ AbandonContract => Seen!AbandonContract
    BY <1>1, PlotsAsSeen, ZonesAsSeen, ScarecrowsAsSeen, UpgradesAsSeen, StartAsSeen,
       AbandonAsSeen
  <2> QED
    BY <2>1, <2>2, <2>3, <2>4
<1> QED
  BY <1>1, CampaignIsInductive, BooksAgree, PTL DEF Spec, CallsAreAsSeen

(* The simulation implements the farm that the UI runs over: with its      *)
(* purse, counters and dice out of sight, each operation is one of that    *)
(* farm's, or a stutter.                                                   *)
LEMMA StepsAsSeen ==
    ASSUME CInv, Ledger, [Next]_vars
    PROVE  Seen!FarmNext \/ UNCHANGED <<Followed, Seen!farm>>
<1>1. UNCHANGED Followed
  BY DEF Followed
<1>2. CASE Advance \/ UpgradePlotAuto \/ SetLeaderboardNameStyle \/ UNCHANGED vars
  BY <1>1, <1>2, EarningAsSeen, UnseenCalls
<1>3. ASSUME NEW S, S \subseteq {Seen!BareHands, Seen!LeanSeason}, Seen!Earn(S)
      PROVE  Seen!Earn({Seen!BareHands, Seen!LeanSeason})
  BY <1>3 DEF Seen!Earn
<1>4. CASE Harvest \/ ShooCritter \/ Collect \/ RedeemGift
  BY <1>1, <1>3, <1>4, EarningAsSeen DEF Seen!FarmNext
<1>5. CASE BuyPlot \/ BuyZone \/ BuyScarecrow \/ BuyUpgrade
  BY <1>1, <1>5, PlotsAsSeen, ZonesAsSeen, ScarecrowsAsSeen, UpgradesAsSeen DEF Seen!FarmNext
<1>6. CASE Rebirth \/ AbandonContract
  BY <1>1, <1>6, RebirthAsSeen, AbandonAsSeen DEF Seen!FarmNext
<1>7. CASE \E i \in 1 .. Len(Order) : StartContract(Order[i])
  BY <1>1, <1>7, Names, StartAsSeen DEF Seen!FarmNext
<1> QED
  BY <1>2, <1>4, <1>5, <1>6, <1>7 DEF Next

THEOREM SimulationIsTheFarm == Spec => ImplementsFarmSeen
<1>1. Init => Seen!NewFarm
  <2> SUFFICES ASSUME Init PROVE Seen!NewFarm
    OBVIOUS
  <2>1. /\ s.plots = StartPlots /\ s.scarecrows = 0 /\ s.active = NoContract /\ s.completed = 0
        /\ s.unlocked = FALSE /\ s.rebirths = 0
    BY DEF Init, New
  <2>2. Door = "closed"
    BY <2>1, DoorIs, CatalogueAssumption, ShopAssumption
       DEF DoorOf, BaseGameComplete, ProgressionRebirths
  <2> QED
    BY <2>1, <2>2, NumbersOfContracts DEF Seen!NewFarm, Seen!None
<1>2. CInv /\ Ledger /\ [Next]_vars => [Seen!FarmNext]_<<Followed, Seen!farm>>
  BY StepsAsSeen
<1> QED
  BY <1>1, <1>2, CampaignIsInductive, BooksAgree, CallsDoWhatTheyShow, SessionsOpenOnAnyFarm, PTL
     DEF Spec, ImplementsFarmSeen, Seen!FarmSpec
=============================================================================
