------------------------------ MODULE FarmClock ------------------------------
(***************************************************************************)
(* internal/sim: time passes over a farm.  Nothing runs while nobody is    *)
(* looking: a farm is brought up to date by one call to Advance, a second  *)
(* or a year late, and every intent of a session begins with that call.    *)
(*                                                                         *)
(* Left out: the dice (a crop pays the same at every harvest, and one that *)
(* pays less than its seed stands for one that keeps failing; a scarecrow  *)
(* drops the same every time), the unlock gates (Crops are the unlocked    *)
(* ones), the cap of the wallet and the contracts (Campaign), the          *)
(* multipliers that shorten growth, gifts, critters, achievements.         *)
(***************************************************************************)
EXTENDS Integers, Sequences, FiniteSets, FiniteSetsExt

CONSTANTS
    NPlots,                        \* the land, bought already
    Seed, Sell, Growth,            \* per crop, in the order of crops.toml
    Festival,                      \* the crops with a seasonal unlock
    FestivalDays,                  \* the moments at which their festival is on
    BatchCap,                      \* autoCycleCap
    OnlineThreshold,               \* onlineTickThreshold
    EventPct, EventLasts,          \* the event that shortens growth
    HarvestPrice, SowPrice,        \* of a plot's automation, by plots that have it
    CrowPrice,                     \* of the first scarecrow, the second, ... the last
    DropCoins,                     \* of each of them at a drop, by how many there are
    DropInterval, OfflineSlowdown, \* seconds to a drop, and how much slower unwatched
    StartCoins,
    Horizon                        \* bound on the clock

Crops  == 1 .. Len(Seed)
NoCrop == 0
Plots  == 1 .. NPlots
Times  == 0 .. Horizon

ASSUME CropsAssumption ==
    /\ Seed \in Seq(Nat) /\ Sell \in Seq(Nat) /\ Growth \in Seq(Nat \ {0})
    /\ Len(Sell) = Len(Seed) /\ Len(Growth) = Len(Seed) /\ Len(Seed) > 0
    /\ Festival \subseteq Crops /\ FestivalDays \subseteq Nat
ASSUME ClockAssumption ==
    /\ NPlots \in Nat \ {0} /\ BatchCap \in Nat \ {0} /\ OnlineThreshold \in Nat
    /\ EventLasts \in Nat \ {0} /\ Horizon \in Nat
    /\ EventPct \in Nat
\* As in crops.toml: a crop that pays has earned a seed long before the cap,
\* which is why the batch may ask for that seed before the next payout.
ASSUME CapAssumption ==
    \A c \in Crops : Sell[c] > Seed[c] => (BatchCap - 1) * (Sell[c] - Seed[c]) >= Seed[c]
ASSUME PriceAssumption ==
    /\ HarvestPrice \in [0 .. NPlots -> Nat]
    /\ {SowPrice, StartCoins} \subseteq Nat
ASSUME ScarecrowAssumption ==
    /\ CrowPrice \in Seq(Nat) /\ DropCoins \in [1 .. Len(CrowPrice) -> Nat \ {0}]
    /\ {DropInterval, OfflineSlowdown} \subseteq Nat \ {0}

VARIABLES
    farm,      \* the sim.State: plots, coins, updated, eventEnds, last, and
               \* pouches (one per scarecrow) with the clock they share
    gathered   \* the Events of an Advance that was asked for: harvests by plot

vars == <<farm, gathered>>

-----------------------------------------------------------------------------
(* What is derived from a farm.                                            *)

\* fn[1] + ... + fn[k], by k.
Sums(fn, n) == LET sum[k \in 0 .. n] == IF k = 0 THEN 0 ELSE sum[k - 1] + fn[k] IN sum

Plantable(c, t) == c \in Festival => t \in FestivalDays

\* Integer division of a percentage, never below a second.
Grow(f, c) ==
    LET cut == IF f.eventEnds # 0 THEN EventPct ELSE 0
    IN  Max({1, (Growth[c] * (100 - IF cut >= 100 THEN 99 ELSE cut)) \div 100})

SowCrop(plot) == IF plot.queued # NoCrop THEN plot.queued ELSE plot.crop

RipeAt(f, plot) == plot.planted + Grow(f, plot.crop)
Ripe(f, plot, t) == plot.crop # NoCrop /\ RipeAt(f, plot) <= t

AllEmpty(f) == \A p \in Plots : f.plots[p].crop = NoCrop

\* The first of the cheapest, whatever the season.
CheapestCrop ==
    CHOOSE c \in Crops : \A d \in Crops : Seed[c] < Seed[d] \/ (Seed[c] = Seed[d] /\ c <= d)

Mercy(f, c) == AllEmpty(f) /\ c = CheapestCrop /\ f.coins < Seed[c]

-----------------------------------------------------------------------------
(* Advance.  A plot under way is [plot, coins, n]: the plot as it stands,  *)
(* the wallet it shares with the others, and the harvests so far.          *)

\* Faulty: not with the last coins.
MaySow_Strict(crop, coins, to) == coins > Seed[crop] /\ Plantable(crop, to)

\* `to` is where this Advance ends, not the moment of the sowing.
MaySow(crop, coins, to) == coins >= Seed[crop] /\ Plantable(crop, to)

\* Faulty: the plot is replanted when somebody looks.
Cycle_Faulty(f, to, a) ==
    LET earned == a.coins + Sell[a.plot.crop]
        crop   == SowCrop(a.plot)
    IN  IF a.plot.autoSow /\ MaySow(crop, earned, to)
          THEN [plot  |-> [a.plot EXCEPT !.crop = crop, !.planted = to],
                coins |-> earned - Seed[crop],
                n     |-> a.n + 1]
          ELSE [plot  |-> [a.plot EXCEPT !.crop = NoCrop, !.planted = 0],
                coins |-> earned,
                n     |-> a.n + 1]

\* One turn of the loop: harvest, pay, and replant at the moment of ripeness.
Cycle(f, to, a) ==
    LET earned == a.coins + Sell[a.plot.crop]
        crop   == SowCrop(a.plot)
    IN  IF a.plot.autoSow /\ MaySow(crop, earned, to)
          THEN [plot  |-> [a.plot EXCEPT !.crop = crop, !.planted = RipeAt(f, a.plot)],
                coins |-> earned - Seed[crop],
                n     |-> a.n + 1]
          ELSE [plot  |-> [a.plot EXCEPT !.crop = NoCrop, !.planted = 0],
                coins |-> earned,
                n     |-> a.n + 1]

\* Faulty: the seed of the last replanting is not paid.
Batch_Faulty(f, to, a) ==
    LET crop == a.plot.crop
        n    == (to - RipeAt(f, a.plot)) \div Grow(f, crop) + 1
    IN  IF MaySow(crop, a.coins, to) /\ Sell[crop] > Seed[crop]
          THEN [plot  |-> [a.plot EXCEPT !.planted = @ + n * Grow(f, crop)],
                coins |-> a.coins + n * Sell[crop] - (n - 1) * Seed[crop],
                n     |-> a.n + n]
          ELSE a

\* What is left after BatchCap turns is estimated at once, or left for later.
Batch(f, to, a) ==
    LET crop == a.plot.crop
        n    == (to - RipeAt(f, a.plot)) \div Grow(f, crop) + 1
    IN  IF MaySow(crop, a.coins, to) /\ Sell[crop] > Seed[crop]
          THEN [plot  |-> [a.plot EXCEPT !.planted = @ + n * Grow(f, crop)],
                coins |-> a.coins + n * (Sell[crop] - Seed[crop]),
                n     |-> a.n + n]
          ELSE a

\* The loop, up to its cap of turns.
Turn(f, to, a) == IF Ripe(f, a.plot, to) THEN Cycle(f, to, a) ELSE a
Turns(f, to, start) ==
    LET turns[k \in 0 .. BatchCap] == IF k = 0 THEN start ELSE Turn(f, to, turns[k - 1])
    IN  turns

Settle(f, to, start) ==
    LET last == Turns(f, to, start)[BatchCap]
    IN  IF ~start.plot.autoHarvest THEN start
        ELSE IF Ripe(f, last.plot, to) THEN Batch(f, to, last) ELSE last

EmptyPlot == [crop |-> NoCrop, planted |-> 0, autoHarvest |-> FALSE,
              autoSow |-> FALSE, queued |-> NoCrop, last |-> NoCrop]

NoHarvests == [p \in Plots |-> 0]

\* Events end before the plots are looked at; one may begin on an online tick.
EventAt(f, to, begins) ==
    LET ends == IF to >= f.eventEnds THEN 0 ELSE f.eventEnds
    IN  IF ends = 0 /\ begins /\ to - f.updated <= OnlineThreshold
          THEN to + EventLasts ELSE ends

ClockTarget == DropInterval * OfflineSlowdown

\* The clock counts unwatched seconds, a watched one is worth several; what
\* it reads beyond a drop counts for the next.  Coins wait in the pouches.
WithDrops(f, to) ==
    LET elapsed == to - f.updated
        clock   == f.clock + elapsed * IF elapsed <= OnlineThreshold THEN OfflineSlowdown ELSE 1
        drops   == clock \div ClockTarget
    IN  IF f.pouches = <<>> THEN f
        ELSE [f EXCEPT !.clock   = clock % ClockTarget,
                       !.pouches = [i \in DOMAIN @ |-> @[i] + drops * DropCoins[Len(@)]]]

\* The farm as the plots find it, whatever time it is brought up to.
Found(f, to, begins) == WithDrops([f EXCEPT !.eventEnds = EventAt(f, to, begins)], to)

\* One plot is settled for the whole span, out of the wallet as the plots before
\* it have left it; `done` is the farm and the harvests so far.
Settled(f, to, done, p) ==
    LET a == Settle(f, to, [plot |-> f.plots[p], coins |-> done.farm.coins, n |-> 0])
    IN  [farm     |-> [done.farm EXCEPT !.plots[p] = a.plot, !.coins = a.coins],
         gathered |-> [done.gathered EXCEPT ![p] = a.n]]

\* The plots one after the other.
Round(f, to) ==
    LET round[p \in 0 .. NPlots] ==
          IF p = 0 THEN [farm |-> [f EXCEPT !.updated = to], gathered |-> NoHarvests]
          ELSE Settled(f, to, round[p - 1], p)
    IN  round

\* The whole call: what the farm is afterwards, and the harvests by plot.
Advanced(f, to, begins) ==
    IF to <= f.updated THEN [farm |-> f, gathered |-> NoHarvests]
    ELSE Round(Found(f, to, begins), to)[NPlots]

-----------------------------------------------------------------------------
(* Actions.                                                                *)

Init ==
    /\ farm = [plots |-> [p \in Plots |-> EmptyPlot], coins |-> StartCoins,
               updated |-> 0, eventEnds |-> 0, last |-> NoCrop,
               pouches |-> <<>>, clock |-> 0]
    /\ gathered = NoHarvests

\* Every call brings the time with it, after an absence of any length.
Moments == farm.updated .. Horizon

\* Every entry point is Advance up to that time and then what was asked for, on
\* the farm that Advance left; a refusal still leaves that farm.
CaughtUp(now) == {Advanced(farm, now, begins) : begins \in BOOLEAN}

\* An intent drops the Events of its Advance.
Become(a, f) ==
    /\ farm' = f
    /\ gathered' = NoHarvests

\* A session's tick, and the catch-up of an Attach.
AdvanceTo(now) == \E a \in CaughtUp(now) : farm' = a.farm /\ gathered' = a.gathered
Advance == \E now \in Moments : AdvanceTo(now)

\* A plot sown by hand forgets what was queued on it.
Sown(f, p, c, t) ==
    [f EXCEPT !.plots[p] = [@ EXCEPT !.crop = c, !.planted = t, !.queued = NoCrop, !.last = c],
              !.last = c]

Plant(p, c) == \E now \in Moments : \E a \in CaughtUp(now) :
    LET f == a.farm
        cost == IF Mercy(f, c) THEN 0 ELSE Seed[c]
    IN  /\ f.plots[p].crop = NoCrop
        /\ Plantable(c, now)
        /\ f.coins >= cost
        /\ Become(a, [Sown(f, p, c, now) EXCEPT !.coins = @ - cost])

Harvest(p) == \E now \in Moments : \E a \in CaughtUp(now) :
    LET f == a.farm
        crop == f.plots[p].crop
    IN  /\ Ripe(f, f.plots[p], now)
        /\ Become(a, [f EXCEPT !.coins = @ + Sell[crop],
                               !.plots[p] = [@ EXCEPT !.crop = NoCrop, !.planted = 0,
                                                      !.queued = NoCrop, !.last = crop]])

\* What an empty plot is to grow again: its own last crop, or the farm's.
Remembered(f, p) == IF f.plots[p].last # NoCrop THEN f.plots[p].last ELSE f.last

\* The dearest seed first; ties in the order of plots.
Dearest(f, left) ==
    CHOOSE p \in left : \A q \in left :
        \/ Seed[Remembered(f, p)] > Seed[Remembered(f, q)]
        \/ Seed[Remembered(f, p)] = Seed[Remembered(f, q)] /\ p <= q

\* One after the other, what the wallet has left still pays for.
Buy(h, p, c, now) ==
    IF h.coins < Seed[c] THEN h ELSE [Sown(h, p, c, now) EXCEPT !.coins = @ - Seed[c]]

\* The list is made before anything is bought.
BuyNext(f, now, b) ==
    LET p == Dearest(f, b.left)
    IN  IF b.left = {} THEN b
        ELSE [farm |-> Buy(b.farm, p, Remembered(f, p), now), left |-> b.left \ {p}]

ToReplant(f, now) == {p \in Plots : /\ f.plots[p].crop = NoCrop
                                   /\ Remembered(f, p) # NoCrop
                                   /\ Plantable(Remembered(f, p), now)}

Replanted(f, now) ==
    LET bought[k \in 0 .. NPlots] == IF k = 0 THEN [farm |-> f, left |-> ToReplant(f, now)]
                                     ELSE BuyNext(f, now, bought[k - 1])
    IN  bought[NPlots].farm

ReplantAll == \E now \in Moments : \E a \in CaughtUp(now) :
    Become(a, Replanted(a.farm, now))

BuyAutoHarvest(p) == \E now \in Moments : \E a \in CaughtUp(now) :
    LET f == a.farm
        cost == HarvestPrice[Cardinality({q \in Plots : f.plots[q].autoHarvest})]
    IN  /\ ~f.plots[p].autoHarvest
        /\ f.coins >= cost
        /\ Become(a, [f EXCEPT !.coins = @ - cost, !.plots[p].autoHarvest = TRUE])

BuyAutoSow(p) == \E now \in Moments : \E a \in CaughtUp(now) :
    LET f == a.farm
    IN  /\ f.plots[p].autoHarvest /\ ~f.plots[p].autoSow
        /\ f.coins >= SowPrice
        /\ Become(a, [f EXCEPT !.coins = @ - SowPrice, !.plots[p].autoSow = TRUE])

\* Queuing what is growing already clears the queue.
SetAutoSowCrop(p, c) == \E now \in Moments : \E a \in CaughtUp(now) :
    LET f == a.farm
    IN  /\ f.plots[p].autoSow
        /\ Become(a, [f EXCEPT !.plots[p].queued =
                                  IF c = f.plots[p].crop THEN NoCrop ELSE c])

BuyScarecrow == \E now \in Moments : \E a \in CaughtUp(now) :
    LET f == a.farm
        next == Len(f.pouches) + 1
    IN  /\ next <= Len(CrowPrice)
        /\ f.coins >= CrowPrice[next]
        /\ Become(a, [f EXCEPT !.coins = @ - CrowPrice[next], !.pouches = Append(@, 0)])

\* One pouch by hand, or all of them along with a harvest of everything.
Collect(these) == \E now \in Moments : \E a \in CaughtUp(now) :
    LET f == a.farm
        full == {i \in DOMAIN f.pouches \cap these : f.pouches[i] > 0}
    IN  /\ full # {}
        /\ Become(a, [f EXCEPT
                 !.coins   = @ + Sums([i \in DOMAIN f.pouches |->
                                          IF i \in full THEN f.pouches[i] ELSE 0],
                                      Len(f.pouches))[Len(f.pouches)],
                 !.pouches = [i \in DOMAIN @ |-> IF i \in full THEN 0 ELSE @[i]]])

CollectScarecrow(i) == Collect({i})
CollectScarecrows   == Collect(DOMAIN CrowPrice)

Next ==
    \/ Advance \/ ReplantAll
    \/ BuyScarecrow \/ CollectScarecrows
    \/ \E i \in DOMAIN CrowPrice : CollectScarecrow(i)
    \/ \E p \in Plots :
          \/ Harvest(p) \/ BuyAutoHarvest(p) \/ BuyAutoSow(p)
          \/ \E c \in Crops : Plant(p, c) \/ SetAutoSowCrop(p, c)

Spec == Init /\ [][Next]_vars

-----------------------------------------------------------------------------
(* Properties.                                                             *)

\* The shape of the farm; and the wallet, which several plots pay from inside
\* one Advance, is never overdrawn.
TypeOK ==
    /\ farm.plots \in [Plots -> [crop : Crops \cup {NoCrop}, planted : Times,
                                 autoHarvest : BOOLEAN, autoSow : BOOLEAN,
                                 queued : Crops \cup {NoCrop}, last : Crops \cup {NoCrop}]]
    /\ farm.coins \in Nat /\ farm.updated \in Times
    /\ farm.eventEnds \in 0 .. Horizon + EventLasts
    /\ farm.last \in Crops \cup {NoCrop}
    /\ farm.pouches \in Seq(Nat) /\ farm.clock \in 0 .. ClockTarget - 1
    /\ gathered \in [Plots -> Nat]

Sowing(f) == {p \in Plots : f.plots[p].autoSow /\ f.plots[p].crop # NoCrop}

\* What the first turn of a plot takes out of the wallet.
Shortfall(plot) ==
    IF plot.autoSow /\ plot.crop # NoCrop THEN Max({0, Seed[SowCrop(plot)] - Sell[plot.crop]})
    ELSE 0

Shortfalls(f) == Sums([p \in Plots |-> Shortfall(f.plots[p])], NPlots)

\* The wallet covers the first turn of every plot that sows for itself, and
\* from then on each of them pays.
Solvent(f) ==
    /\ f.coins >= Shortfalls(f)[NPlots]
    /\ \A p \in Sowing(f) : LET c == SowCrop(f.plots[p])
                            IN  Sell[c] > Seed[c] /\ c \notin Festival

\* The scarecrows of f are not behind those of g: more drops, or the same and
\* at least as near to the next.
NotBehind(f, g) ==
    \A i \in DOMAIN g.pouches :
        \/ f.pouches[i] > g.pouches[i]
        \/ f.pouches[i] = g.pouches[i] /\ f.clock >= g.clock

Fields(f) == <<f.plots, f.coins, f.updated, f.eventEnds, f.last>>

\* An absence may be cut in two anywhere (a tick, a takeover, a restart of
\* the server) and the farm ends the same: the plot-by-plot order, the queue
\* and the batch of Advance add up to what step-by-step play gives, as long as
\* the farm pays its way and no event or festival ends in between.  So do the
\* drops of the scarecrows, whatever the farm, if their clock runs at one pace;
\* and looking in never costs the player any of them.
AbsencesAddUp ==
    LET until == [t \in farm.updated .. Horizon |-> Advanced(farm, t, FALSE)]
        Away(t, u) == u - t > OnlineThreshold
    IN  \A t \in DOMAIN until : \A cut \in farm.updated .. t :
           LET rest == Advanced(until[cut].farm, t, FALSE)
           IN  /\ NotBehind(rest.farm, until[t].farm)
               /\ ({Away(farm.updated, cut), Away(cut, t)} = {Away(farm.updated, t)})
                     => /\ rest.farm.clock = until[t].farm.clock
                        /\ rest.farm.pouches = until[t].farm.pouches
               /\ (Solvent(farm) /\ farm.eventEnds = 0)
                     => /\ Fields(rest.farm) = Fields(until[t].farm)
                        /\ \A p \in Plots :
                             until[t].gathered[p] = until[cut].gathered[p] + rest.gathered[p]

\* The step is an Advance, and nothing beside it.
Advances == AdvanceTo(farm'.updated)

\* PlantedAt is the loop's cursor: a plot that goes on with its crop has
\* moved it by one growth for each harvest it was paid, no more and no less;
\* and what is still ripe afterwards is the rest of a full Advance, not lost.
CursorCountsHarvests ==
    [][\A p \in Plots :
         LET old == farm.plots[p]
             new == farm'.plots[p]
         IN  (new.crop # NoCrop /\ Advances) =>
               /\ (new.crop = old.crop /\ SowCrop(old) = old.crop)
                     => new.planted = old.planted + gathered'[p] * Grow(farm', new.crop)
               /\ (new.autoHarvest /\ farm'.updated > farm.updated
                                   /\ Ripe(farm', new, farm'.updated))
                     => gathered'[p] = BatchCap]_vars

\* A plot that sows for itself is never left idle by an absence, however long
\* it is and however many plots share the wallet, on a farm that pays its way.
\* Nothing is said of the season: MCFarmClock shows what Advance makes of it.
PlotsAreKeptSown ==
    [][\A p \in Plots :
         (p \in Sowing(farm) /\ farm'.plots[p].crop = NoCrop /\ Solvent(farm)) => ~Advances]_vars

=============================================================================
