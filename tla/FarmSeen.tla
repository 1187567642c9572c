------------------------------ MODULE FarmSeen ------------------------------
(***************************************************************************)
(* A farm as the terminal UI can tell it apart: how many plots and         *)
(* scarecrows there are, which contract is under way, how many are done,   *)
(* and what the star shop offers.  Coins, crops and counters are out of    *)
(* sight, so an operation may do whatever its purse would allow.           *)
(*                                                                         *)
(* GameUI runs over this farm, and Campaign, which has the purse and the   *)
(* counters, implements it: what the handlers of keys, clicks and ticks    *)
(* suppose of a call is what the simulation does.                          *)
(***************************************************************************)
EXTENDS Integers

CONSTANTS
    Saves,         \* whose farm this may be: [guest, land, posts, contracts],
                   \* with the plots, scarecrows and contracts it is followed to
    StartPlots     \* Content.Start.Plots

ASSUME SeenAssumption ==
    /\ StartPlots \in Nat \ {0}
    /\ Saves # {}
    /\ Saves \subseteq [guest : BOOLEAN, land : Nat, posts : Nat, contracts : 0..3]
    /\ \A sv \in Saves : StartPlots <= sv.land

VARIABLES
    save,                               \* which of Saves; id.IsGuest() is its guest
    plots, scares, active, done, shop

farm == <<plots, scares, active, done, shop>>

(* Contracts are numbered in campaign order. *)
None       == 0
BareHands  == 1
LeanSeason == 2
Clockwork  == 3

(* What the star shop shows: nothing, upgrades, or the contracts too; once *)
(* a contract was begun, or a developer unlocked them, they stay           *)
(* (ContractsUnlocked).                                                    *)
Doors == {"closed", "stars", "contracts", "begun"}
Available      == shop \in {"contracts", "begun"}
StarShopIsOpen == shop # "closed"

-----------------------------------------------------------------------------
(* What an operation of internal/sim does to what is seen.                 *)

Won == active # None /\ done' = done + 1 /\ active' = None
Win == Won /\ UNCHANGED <<plots, scares, shop>>

(* Credits can reach the goal of an active contract (checkContractCompletion). *)
Earn(winnable) == UNCHANGED farm \/ (active \in winnable /\ Win)

(* resetGameplay, for the contract a: None when one is abandoned. *)
Reset(a) == /\ plots' = StartPlots /\ scares' = 0 /\ active' = a
            /\ shop' = "begun" /\ UNCHANGED done

Grow(p, s) == /\ p <= save.land /\ s <= save.posts
              /\ plots' = p /\ scares' = s /\ UNCHANGED <<active, done, shop>>

(* A zone brings several plots; the one there is, the Greenhouse, is       *)
(* forbidden by Lean Season.                                               *)
BuyZone      == active # LeanSeason /\ \E p \in plots..save.land : Grow(p, scares)
BuyScarecrow == active # Clockwork /\ Grow(plots, scares + 1)
BuyPlot      == Grow(plots + 1, scares)

StartContract(id) == /\ active = None /\ id = done + 1 /\ Available
                     /\ id <= save.contracts /\ Reset(id)
AbandonContract   == active # None /\ Reset(None)

(* The last upgrade or crop opens the contracts (baseGameComplete).        *)
MayOpen(d) == d \in {"contracts", "begun"} => save.contracts > 0

(* The pouches are banked first, so any contract may be won by a rebirth.  *)
Rebirth == /\ plots' = StartPlots /\ scares' = 0
           /\ shop' \in {IF StarShopIsOpen THEN shop ELSE "stars"}
                \cup {d \in {"contracts"} : MayOpen(d) /\ ~Available}
           /\ UNCHANGED <<active, done>> \/ Won

BuyLast == /\ shop' \in {shop} \cup {d \in {"contracts"} : MayOpen(d) /\ ~Available}
           /\ UNCHANGED <<plots, scares, active, done>>

(* A developer sets rebirths and Starseeds, up or down, or ContractsUnlocked *)
(* for good.                                                               *)
DevApply == /\ IF shop = "begun" THEN UNCHANGED shop
               ELSE shop' \in {d \in Doors : MayOpen(d)}
            /\ UNCHANGED <<plots, scares, active, done>>

-----------------------------------------------------------------------------
NewFarm ==
    /\ save \in Saves
    /\ plots = StartPlots /\ scares = 0
    /\ active = None /\ done = 0 /\ shop = "closed"

FarmNext ==
    /\ \/ Earn({BareHands, LeanSeason})
       \/ BuyPlot \/ BuyZone \/ BuyScarecrow \/ BuyLast
       \/ Rebirth
       \/ \E id \in 1..3 : StartContract(id)
       \/ AbandonContract
       \/ DevApply
    /\ UNCHANGED save

FarmSpec == NewFarm /\ [][FarmNext]_<<save, farm>>

(* The farms a session may be opened on: the contract under way is the one *)
(* that is due, and whoever began one finds the way to them.               *)
FarmIsDue ==
    /\ save \in Saves
    /\ plots \in StartPlots..save.land /\ scares \in 0..save.posts
    /\ active \in 0..save.contracts /\ done \in 0..save.contracts /\ shop \in Doors
    /\ active # None => active = done + 1
    /\ active # None \/ done > 0 => shop = "begun"
    /\ MayOpen(shop)
=============================================================================
