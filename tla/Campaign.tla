------------------------------- MODULE Campaign -------------------------------
(***************************************************************************)
(* internal/sim: the endgame campaign of three contracts, over everything  *)
(* in a farm that earns, spends, forbids or resets.                        *)
(*                                                                         *)
(* The unit is one operation on a sim.State; a session runs Advance and    *)
(* then one of the others in one closure, which is two steps here.  Coins  *)
(* in the wallet, crops, prices and dice are abstracted: a purchase may be *)
(* affordable, and an amount is any member of a small set.  The pouches of *)
(* the scarecrows are one sum: a contract that completes between two       *)
(* pouches leaves the same state as one that completes at the last.        *)
(***************************************************************************)
EXTENDS Integers, Sequences, FiniteSets

CONSTANTS
    BareGoal, SeedGoal, RebirthGoal,  \* what the three contracts ask for
    StartPlots, LandMax, LeanMax,     \* plots: at the start, on sale, in Lean Season
    ZonePlots,                        \* plots of the Greenhouse
    MaxScarecrows, UnlockRebirths,    \* how many, and the rebirths each asks for
    UpgradeLevels,                    \* of the permanent upgrades, all together
    BaseRebirths, BaseEarnings,       \* what the base game's last crop asks for
    MinEarnings, Divisor,             \* of a rebirth
    Payouts,                          \* amounts that one credit may have
    MaxCoin,                          \* math.MaxInt64
    MaxRebirths                       \* bound on the rebirths of a behaviour

ASSUME GoalsAssumption ==
    /\ BareGoal \in Nat \ {0} /\ SeedGoal \in Nat \ {0} /\ RebirthGoal \in Nat \ {0}
ASSUME LandAssumption ==
    /\ StartPlots \in Nat \ {0} /\ LandMax \in Nat /\ ZonePlots \in Nat
    /\ LeanMax \in Nat /\ StartPlots <= LeanMax /\ StartPlots <= LandMax
ASSUME ShopAssumption ==
    /\ MaxScarecrows \in Nat /\ UpgradeLevels \in Nat /\ UnlockRebirths \in Seq(Nat)
    /\ BaseRebirths \in Nat /\ BaseEarnings \in Nat
ASSUME MoneyAssumption ==
    /\ MinEarnings \in Nat /\ Divisor \in Nat \ {0}
    /\ MaxCoin \in Nat /\ Payouts \subseteq 1 .. MaxCoin /\ MaxRebirths \in Nat

(* data/: the last crop that asks for earnings asks for less (2,000) than a *)
(* rebirth (10,000), and a later one asks for rebirths.                    *)
ASSUME CatalogueAssumption == BaseRebirths >= 1 /\ BaseEarnings <= MinEarnings

VARIABLES
    s,         \* the sim.State
    accepted   \* history: the lifetime counts when the contract was accepted

vars == <<s, accepted>>

BareHands       == "bare_hands"
LeanSeason      == "lean_season"
ClockworkDenied == "clockwork_denied"
NoContract      == ""
Order           == <<BareHands, LeanSeason, ClockworkDenied>>

Styles == {"traditional", "leaf", "purple_wave"}   \* leaf: any of the plain colours

(***************************************************************************)
(* A definition whose name ends in _Faulty is the next one with a bug, and *)
(* is used by no action.                                                   *)
(***************************************************************************)
SatAdd(a, b) == IF a > MaxCoin - b THEN MaxCoin ELSE a + b

Blocks_Faulty(f) ==                               \* Bare Hands may automate
    [automation |-> f.active = ClockworkDenied,
     passive    |-> f.active = ClockworkDenied,
     land       |-> f.active = LeanSeason]

(* contractBlocksAutomation; ...Events, ...Gifts and ...Scarecrow; contractCapsLand. *)
Blocks(f) ==
    [automation |-> f.active \in {BareHands, ClockworkDenied},
     passive    |-> f.active = ClockworkDenied,
     land       |-> f.active = LeanSeason]

ProgressionRebirths(f) ==
    IF f.active # NoContract THEN f.cRebirths ELSE f.rebirths

(* A contract completes as soon as its own counter reaches its goal. *)
GoalReached_Faulty(f) ==                          \* compares the wrong counter
    \/ f.active = BareHands       /\ f.lifetime  >= BareGoal
    \/ f.active = LeanSeason      /\ f.cStarseeds >= SeedGoal
    \/ f.active = ClockworkDenied /\ f.cRebirths >= RebirthGoal
GoalReached(f) ==
    \/ f.active = BareHands       /\ f.cEarnings  >= BareGoal
    \/ f.active = LeanSeason      /\ f.cStarseeds >= SeedGoal
    \/ f.active = ClockworkDenied /\ f.cRebirths  >= RebirthGoal

CheckCompletion(f) ==
    IF GoalReached(f)
      THEN [f EXCEPT !.completed = IF @ + 1 > Len(Order) THEN Len(Order) ELSE @ + 1,
                     !.active = NoContract,
                     !.cRebirths = 0, !.cEarnings = 0, !.cStarseeds = 0]
      ELSE f

Credit(f, n) ==
    LET paid == [f EXCEPT !.run = SatAdd(@, n), !.lifetime = SatAdd(@, n)]
    IN  IF n <= 0 THEN f
        ELSE IF f.active = NoContract THEN paid
        ELSE CheckCompletion([paid EXCEPT !.cEarnings = SatAdd(@, n)])

CreditStarseeds(f, n) ==
    IF f.active = NoContract
      THEN [f EXCEPT !.starseeds = SatAdd(@, n)]
      ELSE CheckCompletion([f EXCEPT !.starseeds  = SatAdd(@, n),
                                     !.cStarseeds = SatAdd(@, n)])

FreshRun_Faulty(f) ==                              \* the permanent upgrades go too
    [f EXCEPT !.plots = StartPlots, !.bought = 0, !.automated = 0,
              !.greenhouse = FALSE, !.run = 0, !.upgrades = 0,
              !.scarecrows = 0, !.pouch = 0, !.event = FALSE]

(* What resets with every run: the fields that Rebirth and resetGameplay    *)
(* both clear.                                                              *)
FreshRun(f) ==
    [f EXCEPT !.plots = StartPlots, !.bought = 0, !.automated = 0,
              !.greenhouse = FALSE, !.run = 0,
              !.scarecrows = 0, !.pouch = 0, !.event = FALSE]

ResetGameplay_Faulty(f) ==                         \* upgrades survive
    [FreshRun(f) EXCEPT !.gift = FALSE, !.starseeds = 0,
                        !.cRebirths = 0, !.cEarnings = 0, !.cStarseeds = 0]
ResetGameplay(f) ==
    [FreshRun(f) EXCEPT !.gift = FALSE, !.starseeds = 0, !.upgrades = 0,
                        !.cRebirths = 0, !.cEarnings = 0, !.cStarseeds = 0]

BaseGameComplete(f) ==
    /\ f.upgrades = UpgradeLevels
    /\ f.rebirths >= BaseRebirths
    /\ f.lifetime >= BaseEarnings

ContractsAvailable(f) ==
    \/ f.unlocked
    \/ f.completed > 0
    \/ f.active # NoContract
    \/ BaseGameComplete(f)

IsNext_Faulty(f, id) == \E i \in f.completed + 1 .. Len(Order) : id = Order[i]
IsNext(f, id) == f.completed < Len(Order) /\ id = Order[f.completed + 1]

(* isqrt *)
Root(n) == Cardinality({r \in 1 .. n : r * r <= n})

RebirthEarnings(f) == SatAdd(f.run, f.pouch)
PrestigeGain(f)    == Root(RebirthEarnings(f) \div Divisor)
CanRebirth(f)      == RebirthEarnings(f) >= MinEarnings /\ PrestigeGain(f) >= 1

AvailableStyles(f) ==
    {"traditional"}
        \cup (IF f.completed >= 2 THEN {"leaf"} ELSE {})
        \cup (IF f.completed >= 3 THEN {"purple_wave"} ELSE {})

New == [active |-> NoContract, completed |-> 0, unlocked |-> FALSE,
        cEarnings |-> 0, cStarseeds |-> 0, cRebirths |-> 0,
        lifetime |-> 0, rebirths |-> 0, run |-> 0, starseeds |-> 0, upgrades |-> 0,
        plots |-> StartPlots, bought |-> 0, automated |-> 0, greenhouse |-> FALSE,
        scarecrows |-> 0, pouch |-> 0, gift |-> FALSE, event |-> FALSE,
        style |-> "traditional"]

Init ==
    /\ s = New
    /\ accepted = [lifetime |-> 0, rebirths |-> 0]

-----------------------------------------------------------------------------
(* Time passes: events end and begin, parcels arrive, pouches fill, and     *)
(* plots that are automated and may be are harvested.                       *)
Advance ==
    \E event, gift \in BOOLEAN, drop, harvest \in Payouts \cup {0} :
        /\ Blocks(s).passive => ~event /\ ~gift
        /\ s.scarecrows = 0 \/ Blocks(s).passive => drop = 0
        /\ s.automated = 0 \/ Blocks(s).automation => harvest = 0
        /\ s' = Credit([s EXCEPT !.event = event, !.gift = @ \/ gift,
                                 !.pouch = SatAdd(@, drop)], harvest)
        /\ UNCHANGED accepted

(* Harvest credits the payout and then what was found in the field. *)
Harvest ==
    \E payout \in Payouts, discovery \in Payouts \cup {0} :
        /\ s' = Credit(Credit(s, payout), discovery)
        /\ UNCHANGED accepted

ShooCritter == \E reward \in Payouts : s' = Credit(s, reward) /\ UNCHANGED accepted

(* CollectScarecrow: one pouch; CollectScarecrows and a single scarecrow: all. *)
Collect ==
    \E coins \in 1 .. s.pouch :
        /\ s' = Credit([s EXCEPT !.pouch = @ - coins], coins)
        /\ UNCHANGED accepted

RedeemGift ==
    /\ ~Blocks(s).passive /\ s.gift
    /\ LET opened == [s EXCEPT !.gift = FALSE]
       IN  \E n \in Payouts :
             \/ s' = Credit(opened, n)
             \/ ProgressionRebirths(s) >= 1 /\ s' = CreditStarseeds(opened, n)
    /\ UNCHANGED accepted

BuyPlot_Faulty ==                                 \* the plots of the start do not count
    /\ ~(Blocks(s).land /\ s.plots >= LeanMax)
    /\ s.bought < LandMax
    /\ s' = [s EXCEPT !.bought = @ + 1, !.plots = @ + 1]
    /\ UNCHANGED accepted
BuyPlot ==
    /\ ~(Blocks(s).land /\ s.plots >= LeanMax)
    /\ StartPlots + s.bought < LandMax
    /\ s' = [s EXCEPT !.bought = @ + 1, !.plots = @ + 1]
    /\ UNCHANGED accepted

BuyZone ==
    /\ ~Blocks(s).land /\ ~s.greenhouse
    /\ s' = [s EXCEPT !.greenhouse = TRUE, !.plots = @ + ZonePlots]
    /\ UNCHANGED accepted

UpgradePlotAuto ==
    /\ ~Blocks(s).automation /\ s.automated < s.plots
    /\ s' = [s EXCEPT !.automated = @ + 1]
    /\ UNCHANGED accepted

BuyScarecrow ==
    /\ ~Blocks(s).passive /\ s.scarecrows < MaxScarecrows
    /\ s.scarecrows < Len(UnlockRebirths) =>
          ProgressionRebirths(s) >= UnlockRebirths[s.scarecrows + 1]
    /\ s' = [s EXCEPT !.scarecrows = @ + 1]
    /\ UNCHANGED accepted

(* Every level costs one Starseed here. *)
BuyUpgrade ==
    /\ s.upgrades < UpgradeLevels /\ s.starseeds >= 1
    /\ s' = [s EXCEPT !.starseeds = @ - 1, !.upgrades = @ + 1]
    /\ UNCHANGED accepted

SetLeaderboardNameStyle ==
    \E style \in AvailableStyles(s) :
        s' = [s EXCEPT !.style = style] /\ UNCHANGED accepted

(* The pouches are banked first, which may complete the contract; gain and  *)
(* rebirth count for a contract that is still active after that.            *)
Reborn(f, gain) ==
    [FreshRun(f) EXCEPT
        !.starseeds  = SatAdd(@, gain),
        !.cStarseeds = IF f.active # NoContract THEN SatAdd(@, gain) ELSE @,
        !.cRebirths  = IF f.active # NoContract THEN SatAdd(@, 1) ELSE @,
        !.rebirths   = @ + 1]

PayRebirth(f, gain) == CheckCompletion(Reborn(f, gain))

Rebirth_Faulty ==                                 \* the gain is computed first
    LET banked == Credit([s EXCEPT !.pouch = 0], s.pouch)
    IN  /\ CanRebirth(s) /\ s.rebirths < MaxRebirths
        /\ s' = PayRebirth(banked, PrestigeGain([s EXCEPT !.pouch = 0]))
        /\ UNCHANGED accepted
Rebirth ==
    LET banked == Credit([s EXCEPT !.pouch = 0], s.pouch)
    IN  /\ CanRebirth(s) /\ s.rebirths < MaxRebirths
        /\ s' = PayRebirth(banked, PrestigeGain(banked))
        /\ UNCHANGED accepted

StartContract(id) ==
    /\ s.active = NoContract
    /\ IsNext(s, id)
    /\ ContractsAvailable(s)
    /\ s' = [ResetGameplay(s) EXCEPT !.unlocked = TRUE, !.active = id]
    /\ accepted' = [lifetime |-> s.lifetime, rebirths |-> s.rebirths]

AbandonContract_Faulty ==                         \* a new save, not a reset one
    /\ s.active # NoContract
    /\ s' = [New EXCEPT !.unlocked = TRUE, !.completed = s.completed]
    /\ UNCHANGED accepted
AbandonContract ==
    /\ s.active # NoContract
    /\ s' = [ResetGameplay(s) EXCEPT !.active = NoContract]
    /\ UNCHANGED accepted

Next ==
    \/ Advance
    \/ Harvest \/ ShooCritter \/ Collect \/ RedeemGift
    \/ BuyPlot \/ BuyZone \/ UpgradePlotAuto \/ BuyScarecrow \/ BuyUpgrade
    \/ SetLeaderboardNameStyle
    \/ Rebirth
    \/ \E i \in 1 .. Len(Order) : StartContract(Order[i])
    \/ AbandonContract

Spec == Init /\ [][Next]_vars

-----------------------------------------------------------------------------
Amount == 0 .. MaxCoin
Farms ==
    [active : {NoContract, BareHands, LeanSeason, ClockworkDenied},
     completed : 0 .. 3, unlocked : BOOLEAN,
     cEarnings : Amount, cStarseeds : Amount, cRebirths : Nat,
     lifetime : Amount, rebirths : Nat, run : Amount,
     starseeds : Amount, upgrades : 0 .. UpgradeLevels,
     plots : Nat, bought : Nat, automated : Nat, greenhouse : BOOLEAN,
     scarecrows : 0 .. MaxScarecrows, pouch : Amount,
     gift : BOOLEAN, event : BOOLEAN, style : Styles]

(* The type invariant: no amount leaves the range of an int64. *)
TypeOK == s \in Farms /\ accepted \in [lifetime : Amount, rebirths : Nat]

(* The campaign is taken in its order, one contract at a time and each one *)
(* once, whatever is bought, reborn, abandoned or finished in between.     *)
ContractsInOrder ==
    s.active # NoContract =>
        s.unlocked /\ s.completed < 3 /\ s.active = Order[s.completed + 1]

(* No goal is reached unnoticed: credit, creditStarseeds and Rebirth all   *)
(* look after what they add, so an active contract is short of its goal,   *)
(* and nothing of an ended contract is left to count for the next.         *)
NoGoalIsMissed ==
    /\ ~GoalReached(s)
    /\ s.active = NoContract =>
          s.cEarnings = 0 /\ s.cStarseeds = 0 /\ s.cRebirths = 0

Least(a, b) == IF a <= b THEN a ELSE b

(* The contract's own counters say what happened since it was accepted:    *)
(* rebirths and earnings as in the lifetime statistics, and every Starseed *)
(* is in the purse or in an upgrade, up to saturation.                     *)
CountersAreHonest ==
    s.active # NoContract =>
        /\ s.cRebirths = Least(MaxCoin, s.rebirths - accepted.rebirths)
        /\ s.cEarnings >= s.lifetime - accepted.lifetime
        /\ s.lifetime < MaxCoin => s.cEarnings = s.lifetime - accepted.lifetime
        /\ s.cStarseeds = Least(MaxCoin, s.starseeds + s.upgrades)

(* What a contract forbids, its farm does not have: not from before, not   *)
(* by buying it, and not by waiting for it.                                *)
RestrictionsHold ==
    /\ s.active \in {BareHands, ClockworkDenied} => s.automated = 0
    /\ s.active = LeanSeason => s.plots <= LeanMax /\ ~s.greenhouse
    /\ s.active = ClockworkDenied =>
          ~s.event /\ ~s.gift /\ s.scarecrows = 0 /\ s.pouch = 0

(* All of it together: the contract in force is the one that is due, its   *)
(* goal is still ahead, its counters tell the truth and its rules hold, and *)
(* no amount leaves the range of an int64.                                 *)
CampaignInv ==
    /\ TypeOK
    /\ ContractsInOrder
    /\ NoGoalIsMissed
    /\ CountersAreHonest
    /\ RestrictionsHold

(* A seal is won one at a time and only for what the contract asked, as    *)
(* the lifetime statistics and the purse tell it.                          *)
SealsAreEarned ==
    [][s'.completed # s.completed =>
        /\ s'.completed = s.completed + 1
        /\ CASE s.active = BareHands ->
                  s'.lifetime < MaxCoin => s'.lifetime - accepted.lifetime >= BareGoal
             [] s.active = LeanSeason ->
                  s'.starseeds + s'.upgrades >= SeedGoal
             [] s.active = ClockworkDenied ->
                  s'.rebirths - accepted.rebirths >= RebirthGoal]_vars

(* What a player has of Starseeds: in the purse, and spent for good.       *)
Holdings(f) == f.starseeds + f.upgrades

(* No reset takes what it should not: seals, lifetime earnings, the number *)
(* of rebirths, the way into the campaign and the style that is worn with  *)
(* a seal survive everything; Starseeds and permanent upgrades are lost to *)
(* a contract's start or abandonment only, not to a rebirth or with a seal. *)
ProgressIsKept ==
    [][/\ s'.completed >= s.completed
       /\ s'.lifetime >= s.lifetime /\ s'.rebirths >= s.rebirths
       /\ s.unlocked \/ s.completed > 0 => ContractsAvailable(s')
       /\ s'.style \in AvailableStyles(s')
       /\ s'.upgrades < s.upgrades \/ Holdings(s') < Holdings(s) =>
             s'.active # s.active /\ s'.completed = s.completed]_vars

(* A rebirth pays what its screen previewed, pouches included, although    *)
(* banking them first may complete a contract on the way.                  *)
RebirthPaysPreview ==
    [][s'.rebirths # s.rebirths =>
        s'.starseeds = SatAdd(s.starseeds, Root(SatAdd(s.run, s.pouch) \div Divisor))]_vars

-----------------------------------------------------------------------------
(* The farm as GameUI runs over it: contracts by their number, the doors   *)
(* of the star shop, and as much land as is on sale.                       *)
Number(id) == CASE id = NoContract -> 0 [] id = BareHands -> 1
                [] id = LeanSeason -> 2 [] id = ClockworkDenied -> 3

Begun == s.unlocked \/ s.completed > 0 \/ s.active # NoContract
Door == IF Begun THEN "begun"
        ELSE IF BaseGameComplete(s) THEN "contracts"
        ELSE IF ProgressionRebirths(s) >= 1 THEN "stars" ELSE "closed"

Followed == [guest |-> FALSE, land |-> LandMax + ZonePlots,
             posts |-> MaxScarecrows, contracts |-> 3]

Seen == INSTANCE FarmSeen WITH
    Saves <- {Followed}, save <- Followed, plots <- s.plots, scares <- s.scarecrows,
    active <- Number(s.active), done <- s.completed, shop <- Door

(* Whatever farm a session is opened on is one that GameUI starts with:    *)
(* its contract is the one that is due, its land was on sale, and whoever  *)
(* began the campaign finds the way back to it.                            *)
FarmsAreDue == Seen!FarmIsDue

(* Call by call: time alone wins no contract and opens no shop, so a tick  *)
(* has nothing to announce; what is paid for crops, critters and pouches   *)
(* wins the contract of coins only, a parcel that or the one of Starseeds, *)
(* and a rebirth any; nothing else ends a contract unasked.                *)
CallsAreAsSeen ==
    [][/\ s'.rebirths # s.rebirths => Seen!Rebirth
       /\ Seen!farm' # Seen!farm =>
            /\ ~(Advance \/ UpgradePlotAuto \/ SetLeaderboardNameStyle)
            /\ Harvest \/ ShooCritter \/ Collect => Seen!Earn({Seen!BareHands})
            /\ RedeemGift => Seen!Earn({Seen!BareHands, Seen!LeanSeason})
            /\ (BuyPlot => Seen!BuyPlot) /\ (BuyZone => Seen!BuyZone)
            /\ (BuyScarecrow => Seen!BuyScarecrow) /\ (BuyUpgrade => Seen!BuyLast)
            /\ \A i \in 1..3 : StartContract(Order[i]) => Seen!StartContract(i)
            /\ AbandonContract => Seen!AbandonContract]_vars

(* The simulation is a farm as the UI supposes it to be: it begins as one, *)
(* it changes as one, also call by call, and a session may be opened on it *)
(* at any time.                                                            *)
ImplementsFarmSeen == Seen!FarmSpec /\ CallsAreAsSeen /\ []FarmsAreDue
=============================================================================
