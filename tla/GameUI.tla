------------------------------- MODULE GameUI -------------------------------
(***************************************************************************)
(* The terminal UI of one connected session: internal/tui, the Bubble Tea  *)
(* model Game with its messages (ticks, kicks, keys, clicks, the wheel,    *)
(* resizes, the board's wave), its screens and overlays, and the calls it  *)
(* makes on game.Session.                                                  *)
(*                                                                         *)
(* One action is one Update: the handler, then showPendingReward, then the *)
(* View that follows, which rebuilds the clickable regions and clamps the  *)
(* farm cursor. The farm and what the calls do to it are FarmSeen's; here  *)
(* a call is accepted or refused. A tick's Advance changes nothing that is *)
(* seen there, as Campaign shows (CallsAreAsSeen). All calls between two   *)
(* ticks carry the same g.now, so their catch-up is empty and the snapshot *)
(* in hand is the farm. Which row of a list (crops, market, star shop,     *)
(* contracts, settings) is under the cursor is left open: any may be.      *)
(***************************************************************************)
EXTENDS FarmSeen, FiniteSets, Sequences

CONSTANTS
    Cols,          \* gridColumns of the wide window
    IdleTimeout,   \* seconds without input; 0 turns the idle timeout off
    ClockSteps,    \* seconds that may pass between two ticks
    DevMode        \* the server runs with developer tools

ASSUME UIAssumption ==
    /\ Cols \in Nat \ {0} /\ IdleTimeout \in Nat /\ DevMode \in BOOLEAN
    /\ ClockSteps \subseteq Nat \ {0} /\ ClockSteps # {}

VARIABLES
    scr, overlay, win,              \* what is on screen, and how big it is
    cursor, scareSel,               \* the farm's selection: plot, scarecrow (-1: none)
    asks,                           \* what the picker or the terms modal is about
    pending, reward,                \* pendingReward, completedContract
    lastClick,                      \* the box of the last click since the last tick
    quitIn, idle,                   \* quitAt - now, and now - lastInput
    ticks, wave, animRunning, anims,    \* message chains in flight
    owner, notice,                  \* actor.session = s; the kicked channel
    gone,                           \* the program has quit
    did                             \* history: the session call of the last step

place == <<cursor, scareSel>>
modal == <<overlay, asks, pending, reward>>
board == <<wave, animRunning, anims>>
sess  == <<owner, notice>>
vars  == <<save, scr, win, place, modal, lastClick, quitIn, idle,
           ticks, board, farm, sess, gone, did>>

ScreenOrder == <<"farm", "market", "land", "rebirth", "starshop", "stats",
                 "board", "help">>
Screens  == {ScreenOrder[i] : i \in 1..8} \cup {"contracts"}
Overlays == {"none", "tutorial", "away", "picker", "upgrade", "rebirth", "name",
             "config", "replant", "terms", "reward", "kicked", "guestquit", "dev"}
Windows  == {"tiny", "compact", "wide"}

GoodbyeSeconds == 3

(* pickerAutoSow, or contractID with contractAbandon: only their overlay   *)
(* reads them, and opening it sets them.                                   *)
Asks(kind, id) == [kind |-> kind, id |-> id]
NoAsk == Asks("none", None)

(* by: only for a reset of the farm is it remembered who asked for it.     *)
Call(op, arg)        == [op |-> op, arg |-> arg, by |-> "any"]
ResetCall(op, arg, by) == [op |-> op, arg |-> arg, by |-> by]
NoCall == Call("none", 0)

Min2(a, b) == IF a < b THEN a ELSE b
Max2(a, b) == IF a > b THEN a ELSE b
Clamp(v, lo, hi) == IF hi < lo \/ v < lo THEN lo ELSE Min2(v, hi)

-----------------------------------------------------------------------------
(* What every Update ends with. *)

(* update, then showPendingReward: a queued reward opens on a free screen. *)
Settle(ov, pend) ==
    IF pend # None /\ ov = "none"
    THEN overlay' = "reward" /\ reward' = pend /\ pending' = None /\ asks' = NoAsk
    ELSE /\ overlay' = ov /\ pending' = pend
         /\ reward' = IF ov = "reward" THEN reward ELSE None
         /\ asks' = IF ov = overlay THEN asks ELSE NoAsk

Open(ov, ask) == overlay' = ov /\ asks' = ask /\ reward' = None /\ pending' = pending

(* clampFarmCursor *)
ClampPlot(c, n)  == Min2(c, n - 1)
ClampScare(k, m) == Min2(k, m - 1)

(* View registers the hits of what it draws, and on the farm that clamps. *)
LookIn(w, s, c, k) ==
    LET seen == w # "tiny" /\ s = "farm" /\ overlay' = "none" IN
    /\ scr' = s
    /\ cursor'   = IF seen THEN ClampPlot(c, plots') ELSE c
    /\ scareSel' = IF seen THEN ClampScare(k, scares') ELSE k
Look(s, c, k) == LookIn(win, s, c, k)
Stay == Look(scr, cursor, scareSel)

(* A handler that only opens or closes an overlay, or does nothing. *)
Quiet(ov) == /\ Settle(ov, pending) /\ did' = NoCall
             /\ UNCHANGED <<board, farm, gone>> /\ Stay
Nothing   == Quiet(overlay)

(* Once the program has quit, nothing of what was on screen is left. *)
Quit ==
    /\ gone' = TRUE /\ did' = NoCall /\ Open("none", NoAsk)
    /\ scr' = "farm" /\ cursor' = 0 /\ scareSel' = -1
    /\ UNCHANGED <<board, farm>>

-----------------------------------------------------------------------------
(* The calls on game.Session. *)

(* announceContract: the snapshot of the winning call names the contract. *)
Announced_Faulty == IF done' > done /\ overlay = "none" THEN active ELSE pending
Announced == IF done' > done THEN active ELSE pending

(* applyAction: a call may succeed, be refused, or find the session closed. *)
Accepted(call, Effect, ov) == owner /\ Effect /\ Settle(ov, Announced) /\ did' = call
Refused(call, ov)          == UNCHANGED farm /\ Settle(ov, pending) /\ did' = call

(* A call from the screen, or from an overlay that stays, at cursor c, k.  *)
ActAt(call, Effect, c, k) ==
    /\ Accepted(call, Effect, overlay) \/ Refused(call, overlay)
    /\ UNCHANGED <<board, gone>> /\ Look(scr, c, k)
Act(call, Effect) == ActAt(call, Effect, cursor, scareSel)

-----------------------------------------------------------------------------
(* The board's wave: startBoardAnimation keeps one chain of messages. wave *)
(* says that the board read last has an animated name and that the         *)
(* terminal has the colours; off the board it does not matter.             *)
StartWave_Faulty(s, w) ==             \* boardAnimRunning is not looked at
    /\ wave' = (s = "board" /\ w)
    /\ IF wave' THEN animRunning' = TRUE /\ anims' = Min2(anims + 1, 2)
       ELSE UNCHANGED <<animRunning, anims>>
StartWave(s, w) ==
    /\ wave' = (s = "board" /\ w)
    /\ IF ~animRunning /\ wave' THEN animRunning' = TRUE /\ anims' = anims + 1
       ELSE UNCHANGED <<animRunning, anims>>

(* Entering the board reads it (refreshBoard): it may show a wave or not.  *)
Goto(s) ==
    /\ Settle(overlay, pending) /\ did' = NoCall
    /\ UNCHANGED <<farm, gone>>
    /\ \E w \in BOOLEAN : IF s = "board" THEN StartWave(s, w)
                          ELSE wave' = FALSE /\ UNCHANGED <<animRunning, anims>>
    /\ Look(s, cursor, scareSel)

RefreshBoard ==
    /\ Settle(overlay, pending) /\ did' = NoCall
    /\ wave' \in BOOLEAN /\ UNCHANGED <<farm, gone, animRunning, anims>> /\ Stay

(* cycleScreen: the contracts screen is not in the order, and stays.       *)
Cycle(step) ==
    \/ scr = "contracts" /\ Nothing
    \/ \E i \in 1..8 : /\ ScreenOrder[i] = scr
                       /\ Goto(ScreenOrder[((i - 1 + step + 8) % 8) + 1])

-----------------------------------------------------------------------------
(* Moving over the farm: positions are <<cursor, scareSel>>.               *)

(* The compact list: plots, then scarecrows. *)
CompactPos(c, k, n) == IF k >= 0 THEN n + k ELSE c
SetCompactPos(pos, c, n, m) ==
    LET p == Clamp(pos, 0, Max2(n + m - 1, 0))
    IN  IF p >= n THEN <<c, p - n>> ELSE <<p, -1>>

(* navigateFarm in the grid of n plots, cols wide, with m scarecrows: each *)
(* scarecrow stands at the end of its row.                                 *)
RightOf(c, k, n, m, cols) ==
    LET row == c \div cols
        endOfRow == c % cols = cols - 1 \/ c = n - 1
    IN  IF k >= 0 THEN IF (k + 1) * cols < n THEN <<(k + 1) * cols, -1>> ELSE <<c, k>>
        ELSE IF endOfRow /\ row < m THEN <<c, row>>
        ELSE <<Min2(c + 1, n - 1), -1>>

LeftOf(c, k, n, m, cols) ==
    LET row == c \div cols
    IN  IF k >= 0 THEN <<IF k * cols < n THEN Min2((k + 1) * cols, n) - 1 ELSE n - 1, -1>>
        ELSE IF c % cols = 0 /\ row > 0 /\ row - 1 < m THEN <<c, row - 1>>
        ELSE <<Max2(c - 1, 0), -1>>

UpFrom(c, k, cols)          == IF k >= 0 THEN <<c, Max2(k - 1, 0)>>
                               ELSE <<IF c >= cols THEN c - cols ELSE c, -1>>
DownFrom(c, k, n, m, cols)  == IF k >= 0 THEN <<c, Min2(k + 1, m - 1)>>
                               ELSE <<IF c + cols < n THEN c + cols ELSE c, -1>>

Navigate(key, c, k) ==
    IF win # "wide"                   \* compactFarm
    THEN SetCompactPos(CompactPos(c, k, plots)
                         + (IF key \in {"left", "up"} THEN -1 ELSE 1), c, plots, scares)
    ELSE CASE key = "left"  -> LeftOf(c, k, plots, scares, Cols)
           [] key = "right" -> RightOf(c, k, plots, scares, Cols)
           [] key = "up"    -> UpFrom(c, k, Cols)
           [] key = "down"  -> DownFrom(c, k, plots, scares, Cols)

(* moveFarmCursor: the wheel, a row of plots at a time. *)
Scroll(delta, c, k) ==
    IF win # "wide"
    THEN SetCompactPos(CompactPos(c, k, plots) + delta, c, plots, scares)
    ELSE IF k >= 0 THEN <<c, Clamp(k + delta, 0, scares - 1)>>
    ELSE <<Clamp(c + delta * Cols, 0, plots - 1), -1>>

Select(pos) == /\ Settle(overlay, pending) /\ did' = NoCall
               /\ UNCHANGED <<board, farm, gone>> /\ Look(scr, pos[1], pos[2])

-----------------------------------------------------------------------------
(* Keys on a screen. *)

(* requestQuit: a guest is asked, whatever was on screen. *)
RequestQuit ==
    IF save.guest /\ overlay # "kicked" THEN Quiet("guestquit") ELSE Quit

(* What a call on the selection pays may win the contract of the coins.    *)
DoHarvest(c, k)        == ActAt(Call("plot", c), Earn({BareHands}), c, k)
ShooCritter(c, k)      == ActAt(Call("plot", c), Earn({BareHands}), c, k)
CollectScarecrow(c, k) == ActAt(Call("scarecrow", k), Earn({BareHands}), c, k)

(* Enter on the farm, with the cursor on plot c or scarecrow k. What grows *)
(* on the plot is any of: nothing, a ready crop, an automated one (which   *)
(* opens the picker for its queue), a young one.                           *)
EnterFarm(c, k) ==
    \/ k >= 0 /\ CollectScarecrow(c, k)
    \/ k < 0 /\ \E kind \in {"plant", "queue"} :
                    /\ Open("picker", Asks(kind, None)) /\ did' = NoCall
                    /\ UNCHANGED <<board, farm, gone>> /\ Look(scr, c, k)
    \/ k < 0 /\ DoHarvest(c, k)
    \/ k < 0 /\ Select(<<c, k>>)

(* harvestAllReady: the harvests' snapshots are not announced, the         *)
(* scarecrows' collection after them is.                                   *)
HarvestAll ==
    /\ did' = Call("harvestAll", 0)
    /\ \/ UNCHANGED farm /\ Settle(overlay, pending)
       \/ owner /\ active = BareHands /\ Win /\ Settle(overlay, pending)
       \/ owner /\ active = BareHands /\ scares > 0 /\ Win /\ Settle(overlay, Announced)
    /\ UNCHANGED <<board, gone>>

(* handleReplant: the first time, a warning stands in between. *)
Replant == Quiet("replant") \/ Act(Call("other", 0), UNCHANGED farm)

(* clampFarmCursor, which every key on the farm starts with. *)
FarmSelection_Faulty == place
FarmSelection == <<ClampPlot(cursor, plots), ClampScare(scareSel, scares)>>

FarmKey(key) ==
    LET c == FarmSelection[1]
        k == FarmSelection[2]
    IN  \/ key \in {"left", "right", "up", "down"} /\ Select(Navigate(key, c, k))
        \/ key = "u" /\ Settle(IF k >= 0 THEN overlay ELSE "upgrade", pending)
                     /\ did' = NoCall
                     /\ UNCHANGED <<board, farm, gone>> /\ Look(scr, c, k)
        \/ key = "x" /\ k < 0 /\ ShooCritter(c, k)
        \/ key = "enter" /\ EnterFarm(c, k)
        \/ key = "a" /\ HarvestAll /\ Look(scr, c, k)
        \/ key = "r" /\ Replant

MarketKey(key) ==
    /\ key \in {"enter", "b"}
    /\ \/ Act(Call("other", 0), UNCHANGED farm)
       \/ Act(Call("other", 0), BuyZone)
       \/ Act(Call("other", 0), BuyScarecrow)

LandKey(key) ==
    key \in {"enter", "b"} /\ Act(Call("other", 0), BuyPlot)

(* CanRebirth is the farm's to say. *)
RebirthKey(key) == key = "R" /\ (Quiet("rebirth") \/ Nothing)

OpenContracts ==
    IF Available THEN Goto("contracts") ELSE Nothing

StarShopKey(key) ==
    /\ StarShopIsOpen
    /\ \/ key = "c" /\ OpenContracts
       \/ key \in {"enter", "b"}
          /\ \/ Available /\ OpenContracts          \* its row is under the cursor
             \/ Act(Call("other", 0), BuyLast)

OpenTerms(kind, id) ==
    /\ Open("terms", Asks(kind, id)) /\ did' = NoCall
    /\ UNCHANGED <<board, farm, gone>> /\ Stay

(* Enter on a row of the contracts: only the next one opens its terms.     *)
EnterContract ==
    \/ active = None /\ done < 3 /\ OpenTerms("start", done + 1)
    \/ Nothing                        \* another row is under the cursor

ContractsKey(key) ==
    \/ key = "esc" /\ Goto("starshop")
    \/ key = "enter" /\ EnterContract
    \/ key = "a" /\ active # None /\ OpenTerms("abandon", active)

(* openRename, and the other things a guest is only told about. *)
OpenRename == Quiet(IF save.guest THEN overlay ELSE "name")

StatsKey(key) ==
    \/ key = "c" /\ Quiet("config")
    \/ key = "n" /\ OpenRename
    \/ key = "l" /\ ~save.guest /\ Act(Call("other", 0), UNCHANGED farm)

BoardKey(key) ==
    \/ key = "esc" /\ Goto("farm")
    \/ key = "n" /\ OpenRename
    \/ key = "r" /\ RefreshBoard

ScreenKey(key) ==
    \/ scr = "farm" /\ FarmKey(key)
    \/ scr = "market" /\ MarketKey(key)
    \/ scr = "land" /\ LandKey(key)
    \/ scr = "rebirth" /\ RebirthKey(key)
    \/ scr = "starshop" /\ StarShopKey(key)
    \/ scr = "contracts" /\ ContractsKey(key)
    \/ scr = "stats" /\ StatsKey(key)
    \/ scr = "board" /\ BoardKey(key)
    \/ scr = "help" /\ key = "esc" /\ Goto("farm")

(* A parcel holds coins or Starseeds: either may win a contract.           *)
RedeemGift == Act(Call("other", 0), Earn({BareHands, LeanSeason}))

GlobalKey(key) ==
    \/ key = "q" /\ IF scr = "help" THEN Goto("farm") ELSE RequestQuit
    \/ key = "g" /\ RedeemGift
    \/ \E i \in 1..8 : key = <<"1", "2", "3", "4", "5", "6", "7", "?">>[i]
                       /\ Goto(ScreenOrder[i])
    \/ key = "tab" /\ Cycle(1)
    \/ key = "shift+tab" /\ Cycle(-1)

-----------------------------------------------------------------------------
(* Keys in an overlay. *)

(* Enter plants, or queues for auto-sow, the crop under the picker's row.  *)
PickerKey(key) ==
    \/ key \in {"esc", "q"} /\ Quiet("none")
    \/ /\ key = "enter"
       /\ LET call == Call("plot", cursor) IN
          Accepted(call, UNCHANGED farm, "none") \/ Refused(call, "picker")
       /\ UNCHANGED <<board, gone>> /\ Stay

(* The overlay's row starts at the cursor and moves over the plots.        *)
UpgradeKey_Faulty(key) ==             \* a contract leaves it without a way out
    /\ active \notin {BareHands, Clockwork}
    /\ \/ key \in {"esc", "q"} /\ Quiet("none")
       \/ key \in {"1", "2"} /\ \E i \in 0..plots - 1 : Act(Call("plot", i), UNCHANGED farm)
UpgradeKey(key) ==
    \/ key \in {"esc", "q"} /\ Quiet("none")
    \/ /\ active \notin {BareHands, Clockwork} /\ key \in {"1", "2"}
       /\ \E i \in 0..plots - 1 : Act(Call("plot", i), UNCHANGED farm)

(* handleRebirthConfirmKey: the modal closes whatever the call says.       *)
RebirthConfirmKey(key, by) ==
    LET call == ResetCall("rebirth", 0, by) IN
    \/ key = "y" /\ Accepted(call, Rebirth, "none")
                 /\ UNCHANGED <<board, gone>> /\ Look(scr, 0, scareSel)
    \/ key = "y" /\ Refused(call, "none") /\ UNCHANGED <<board, gone>> /\ Stay
    \/ key \in {"n", "esc", "q"} /\ Quiet("none")

(* handleContractConfirmKey: only a start moves to the farm.               *)
TermsKey_Faulty(key, by) ==           \* the modal is left open
    LET call == ResetCall(asks.kind, asks.id, by) IN
    \/ /\ key = "y" /\ asks.kind = "abandon"
       /\ Accepted(call, AbandonContract, "terms") \/ Refused(call, "terms")
       /\ UNCHANGED <<board, gone>> /\ Stay
    \/ /\ key = "y" /\ asks.kind = "start"
       /\ \/ Accepted(call, StartContract(asks.id), "terms") /\ Look("farm", 0, scareSel)
          \/ Refused(call, "terms") /\ Stay
       /\ UNCHANGED <<board, gone>>
    \/ key \in {"n", "esc", "q"} /\ Quiet("none")
TermsKey(key, by) ==
    LET call == ResetCall(asks.kind, asks.id, by) IN
    \/ /\ key = "y" /\ asks.kind = "abandon"
       /\ Accepted(call, AbandonContract, "none") \/ Refused(call, "none")
       /\ UNCHANGED <<board, gone>> /\ Stay
    \/ /\ key = "y" /\ asks.kind = "start"
       /\ \/ Accepted(call, StartContract(asks.id), "none") /\ Look("farm", 0, scareSel)
          \/ Refused(call, "none") /\ Stay
       /\ UNCHANGED <<board, gone>>
    \/ key \in {"n", "esc", "q"} /\ Quiet("none")

(* A failed rename leaves the overlay open with what was typed.            *)
NameKey(key) ==
    \/ key \in {"esc", "q"} /\ Quiet("none")
    \/ /\ key = "enter"
       /\ Accepted(Call("other", 0), UNCHANGED farm, "none") \/ Refused(Call("other", 0), "name")
       /\ UNCHANGED <<board, gone>> /\ Stay

(* toggleConfig: each row of the settings calls its own setter.            *)
ToggleConfig == Act(Call("other", 0), UNCHANGED farm)

ConfigKey(key) ==
    \/ key \in {"esc", "q", "c"} /\ Quiet("none")
    \/ key = "enter" /\ ToggleConfig

(* ackReplantWarning: any key or click. *)
AckReplant ==
    /\ Refused(Call("other", 0), "none")
    /\ UNCHANGED <<board, gone>> /\ Stay

DevKey(key) ==
    \/ key \in {"esc", "q"} /\ Quiet("none")
    \/ key \in {"enter", "left", "right"}
       /\ (Act(Call("other", 0), DevApply) \/ Act(Call("other", 0), UNCHANGED farm))

(* Enter turns the page; on the last page, or with skip on, it closes.     *)
TutorialKey(key) ==
    \/ key \in {"esc", "q"} /\ Quiet("none")
    \/ key \in {"enter", "right"} /\ (Quiet("none") \/ Nothing)

OverlayKey(key, by) ==
    \/ overlay = "dev" /\ DevKey(key)
    \/ overlay = "guestquit" /\ key \in {"enter", "y"} /\ Quit
    \/ overlay = "guestquit" /\ key \in {"esc", "n", "q"} /\ Quiet("none")
    \/ overlay = "kicked" /\ Quit
    \/ overlay = "tutorial" /\ TutorialKey(key)
    \/ overlay \in {"away", "reward"} /\ Quiet("none")
    \/ overlay = "picker" /\ PickerKey(key)
    \/ overlay = "upgrade" /\ UpgradeKey(key)
    \/ overlay = "rebirth" /\ RebirthConfirmKey(key, by)
    \/ overlay = "name" /\ NameKey(key)
    \/ overlay = "config" /\ ConfigKey(key)
    \/ overlay = "replant" /\ AckReplant
    \/ overlay = "terms" /\ TermsKey(key, by)

TogglesDev(key) == key = "ctrl+d" /\ DevMode /\ overlay # "kicked"

(* handleKey. A key nobody handles changes nothing (but the idle timer).   *)
HandleKey(key, by) ==
    \/ key = "ctrl+c" /\ RequestQuit
    \/ TogglesDev(key) /\ Quiet(IF overlay = "dev" THEN "none" ELSE "dev")
    \/ key # "ctrl+c" /\ ~TogglesDev(key) /\ overlay # "none" /\ OverlayKey(key, by)
    \/ overlay = "none" /\ (GlobalKey(key) \/ ScreenKey(key))
    \/ key = "other" /\ overlay \notin {"kicked", "away", "reward", "replant"} /\ Nothing

Keys == {"esc", "q", "enter", "y", "n", "left", "right", "up", "down",
         "1", "2", "3", "4", "5", "6", "7", "?", "tab", "shift+tab",
         "g", "u", "x", "a", "r", "R", "b", "c", "l", "ctrl+c", "ctrl+d", "other"}

-----------------------------------------------------------------------------
(* The mouse. *)

Box(kind, i) == <<kind, i>>
NoBox        == Box("none", 0)
Row(kind)    == Box(kind, 0)

NavHits == {Box("nav", i) : i \in {j \in 1..8 :
                ScreenOrder[j] = "starshop" => StarShopIsOpen}}

ScreenHits ==
    CASE scr = "farm"      -> {Box("plot", i) : i \in 0..plots - 1}
                              \cup {Box("scarecrow", k) : k \in 0..scares - 1}
                              \cup (IF win = "wide" THEN {Row("scarecrow-shop")} ELSE {})
      [] scr = "market"    -> {Row("market")}
      [] scr = "land"      -> {Row("land:buy")}
      [] scr = "rebirth"   -> {Row("rebirth:open")}
      [] scr = "starshop"  -> IF StarShopIsOpen THEN {Row("shop")} ELSE {}
      [] scr = "contracts" -> {Row("contract")}
      [] scr = "stats"     -> {Row("rename"), Row("stats:config")}
      [] scr = "board"     -> {Row("rename"), Row("board:refresh")}
      [] scr = "help"      -> {Row("help:tab")}

OverlayHits ==
    CASE overlay = "guestquit" -> {Row("guest:leave"), Row("guest:stay")}
      [] overlay = "picker"    -> {Row("picker"), Row("cancel")}
      [] overlay = "upgrade"   -> {Row("upgrade")}
      [] overlay = "rebirth"   -> {Row("rebirth:confirm"), Row("cancel")}
      [] overlay = "terms"     -> {Row("contract:accept"), Row("cancel")}
      [] overlay = "name"      -> {Row("name:save"), Row("cancel")}
      [] overlay = "dev"       -> {Row("dev")}
      [] overlay = "config"    -> {Row("config")}
      [] overlay = "tutorial"  -> {Row("tutorial:next"), Row("tutorial:skip")}
      [] overlay = "away"      -> {Row("cancel")}
      [] OTHER                 -> {}

(* registerHitboxes *)
Hits ==
    IF win = "tiny" \/ overlay = "kicked" THEN {}
    ELSE IF overlay = "none" THEN NavHits \cup ScreenHits
    ELSE {Row("overlay:bg"), Row("overlay:close")} \cup OverlayHits

DismissOverlay == IF overlay = "replant" THEN AckReplant ELSE Quiet("none")

(* A plot counts as selected only while no scarecrow is. *)
PlotClick(i) ==
    \/ EnterFarm(i, -1)
    \/ (i # cursor \/ scareSel >= 0) /\ Select(<<i, -1>>)
ScarecrowClick(k) == EnterFarm(cursor, k) \/ (k # scareSel /\ Select(<<cursor, k>>))

(* The buttons that reset the farm: for these it matters exactly whether   *)
(* a click is a double one.                                                *)
ResetButtons == {Row("rebirth:confirm"), Row("contract:accept")}

(* dispatchHit. A row of a list, a plot or a scarecrow is selected by one  *)
(* click and acts on a double one, or when it was selected already: which  *)
(* row was hit is open, so a click on one may do either.                   *)
DispatchHit(box, double) ==
    LET kind == box[1]
        i    == box[2]
    IN  \/ kind = "dev" /\ (Nothing \/ DevKey("enter"))
        \/ kind = "guest:leave" /\ HandleKey("enter", "click")
        \/ kind \in {"guest:stay", "overlay:close"} /\ DismissOverlay
        \/ kind = "nav" /\ Goto(ScreenOrder[i])
        \/ kind = "plot" /\ PlotClick(i)
        \/ kind = "scarecrow" /\ ScarecrowClick(i)
        \/ kind = "scarecrow-shop" /\ Goto("market")
        \/ kind = "picker" /\ (Nothing \/ HandleKey("enter", "click"))
        \/ kind = "market" /\ (Nothing \/ HandleKey("b", "click"))
        \/ kind = "land:buy" /\ HandleKey("enter", "click")
        \/ kind = "rebirth:open" /\ HandleKey("R", "click")
        \/ kind \in {"rebirth:confirm", "contract:accept"}
              /\ IF double THEN HandleKey("y", "click") ELSE Nothing
        \/ kind = "cancel" /\ Quiet("none")
        \/ kind = "shop" /\ (Nothing \/ HandleKey("b", "click"))
        \/ kind = "contract" /\ (Nothing \/ HandleKey("enter", "click"))
        \/ kind = "rename" /\ OpenRename
        \/ kind = "board:refresh" /\ RefreshBoard
        \/ kind = "stats:config" /\ Quiet("config")
        \/ kind = "config" /\ ConfigKey("enter")
        \/ kind = "name:save" /\ HandleKey("enter", "click")
        \/ kind = "help:tab" /\ Nothing
        \/ kind = "tutorial:next" /\ HandleKey("enter", "click")
        \/ kind = "tutorial:skip" /\ Nothing
        \/ kind = "upgrade" /\ HandleKey("1", "click")

(* handleMouseClick. g.now stands still between two ticks, so two clicks   *)
(* on one box are a double click exactly when no tick came in between;     *)
(* a click on the backdrop is not remembered.                              *)
Click(box) ==
    /\ ~gone /\ box \in Hits /\ idle' = 0
    /\ IF box = Row("overlay:bg")
       THEN DismissOverlay /\ UNCHANGED lastClick
       ELSE /\ DispatchHit(box, box = lastClick)
            /\ lastClick' = IF box \in ResetButtons /\ ~gone' THEN box ELSE NoBox
    /\ UNCHANGED <<save, win, quitIn, ticks, sess>>

(* handleMouseWheel: the rows of the lists are left open.                  *)
Wheel(delta) ==
    /\ ~gone /\ idle' = 0
    /\ IF win # "tiny" /\ overlay = "none" /\ scr = "farm"
       THEN Select(Scroll(delta, FarmSelection[1], FarmSelection[2]))
       ELSE Nothing
    /\ UNCHANGED <<save, win, lastClick, quitIn, ticks, sess>>

Key(key) ==
    /\ ~gone /\ idle' = 0
    /\ HandleKey(key, "key")
    /\ lastClick' = IF gone' THEN NoBox ELSE lastClick
    /\ UNCHANGED <<save, win, quitIn, ticks, sess>>

-----------------------------------------------------------------------------
(* The other messages. *)

Resize(w) ==
    /\ ~gone /\ win' = w
    /\ Settle(overlay, pending) /\ did' = NoCall
    /\ UNCHANGED <<board, farm, gone>>
    /\ LookIn(w, scr, cursor, scareSel)
    /\ UNCHANGED <<save, lastClick, quitIn, idle, ticks, sess>>

(* The terminal's colours allow the wave, or not: no chain is started. *)
ColorProfile ==
    /\ ~gone /\ scr = "board" /\ wave' \in BOOLEAN
    /\ Settle(overlay, pending) /\ did' = NoCall
    /\ UNCHANGED <<animRunning, anims, farm, gone>> /\ Stay
    /\ UNCHANGED <<save, win, lastClick, quitIn, idle, ticks, sess>>

(* boardAnimMsg: the chain goes on while there is something to animate.    *)
BoardAnimMsg ==
    /\ ~gone /\ anims > 0
    /\ IF wave THEN UNCHANGED <<animRunning, anims>>
       ELSE animRunning' = FALSE /\ anims' = anims - 1
    /\ Settle(overlay, pending) /\ did' = NoCall
    /\ UNCHANGED <<farm, gone, wave>> /\ Stay
    /\ UNCHANGED <<save, win, lastClick, quitIn, idle, ticks, sess>>

(* The actor lets the session go and leaves the reason in its channel.     *)
(* (The empty notice is the session's own Detach, after the program.)      *)
Evict ==
    /\ ~gone /\ owner /\ owner' = FALSE /\ notice' = "sent"
    /\ did' = NoCall
    /\ UNCHANGED <<save, scr, modal, win, place, lastClick, quitIn, idle, ticks, board, farm, gone>>

(* kickedMsg, delivered once by waitKick. *)
KickedMsg ==
    /\ ~gone /\ notice = "sent" /\ notice' = "read" /\ UNCHANGED owner
    /\ Settle("kicked", pending) /\ did' = NoCall
    /\ quitIn' = GoodbyeSeconds
    /\ UNCHANGED <<board, farm, gone>> /\ Stay
    /\ UNCHANGED <<save, win, lastClick, idle, ticks>>

(* tickMsg, d seconds after the last one; every tick schedules the next.   *)
GoodbyeIsOver(d) == quitIn # 0 /\ d >= quitIn
IsIdle(d)        == IdleTimeout > 0 /\ overlay # "kicked" /\ idle + d >= IdleTimeout

Tick_Faulty(d) ==                     \* the error of Advance is not looked at
    /\ ~gone /\ ticks > 0
    /\ lastClick' = NoBox
    /\ IF GoodbyeIsOver(d)
       THEN Quit /\ ticks' = ticks - 1 /\ UNCHANGED <<quitIn, idle>>
       ELSE /\ quitIn' = IF quitIn = 0 THEN 0 ELSE quitIn - d
            /\ idle' = 0 /\ Nothing /\ UNCHANGED ticks
    /\ UNCHANGED <<save, win, sess>>
Tick(d) ==
    /\ ~gone /\ ticks > 0
    /\ lastClick' = NoBox
    /\ \/ GoodbyeIsOver(d) /\ Quit /\ ticks' = ticks - 1 /\ UNCHANGED <<quitIn, idle>>
       \/ /\ ~GoodbyeIsOver(d) /\ IsIdle(d)
          /\ Settle("kicked", pending) /\ did' = NoCall
          /\ quitIn' = GoodbyeSeconds /\ idle' = 0 /\ UNCHANGED ticks
          /\ UNCHANGED <<board, farm, gone>> /\ Stay
       \/ /\ ~GoodbyeIsOver(d) /\ ~IsIdle(d)
          /\ quitIn' = IF quitIn = 0 THEN 0 ELSE quitIn - d
          /\ idle' = IF overlay = "kicked" THEN 0 ELSE Min2(idle + d, IdleTimeout)
          /\ IF ~owner THEN Quit /\ ticks' = ticks - 1    \* ErrSessionClosed
             ELSE /\ Settle(overlay, pending) /\ did' = NoCall
                  /\ UNCHANGED <<farm, gone, ticks>>
                  /\ \E w \in IF scr = "board" THEN BOOLEAN ELSE {FALSE} : StartWave(scr, w)
                  /\ Stay
    /\ UNCHANGED <<save, win, sess>>

-----------------------------------------------------------------------------
(* NewGame and Init: the tutorial on a new save, the welcome-back summary  *)
(* after an absence, and one immediate tick.                               *)
Init ==
    /\ FarmIsDue
    /\ scr = "farm" /\ overlay \in {"tutorial", "away", "none"} /\ win = "wide"
    /\ cursor = 0 /\ scareSel = -1 /\ asks = NoAsk
    /\ pending = None /\ reward = None
    /\ lastClick = NoBox /\ quitIn = 0 /\ idle = 0
    /\ ticks = 1 /\ wave = FALSE /\ animRunning = FALSE /\ anims = 0
    /\ overlay = "tutorial" => plots = StartPlots /\ scares = 0 /\ shop = "closed"
    /\ save.guest => overlay = "tutorial"
    /\ owner = TRUE /\ notice = "none" /\ gone = FALSE /\ did = NoCall

Ended == gone /\ UNCHANGED vars

Ticks == \E d \in ClockSteps : Tick(d)

Next ==
    \/ \E key \in Keys : Key(key)
    \/ \E box \in Hits : Click(box)
    \/ \E delta \in {-1, 1} : Wheel(delta)
    \/ \E w \in Windows : Resize(w)
    \/ ColorProfile
    \/ Ticks
    \/ BoardAnimMsg
    \/ Evict
    \/ KickedMsg
    \/ Ended

Spec == Init /\ [][Next]_vars

(* Ticks are armed by tea.Tick, one second later; nothing else is promised. *)
FairSpec == Spec /\ WF_vars(Ticks)
-----------------------------------------------------------------------------
TypeOK ==
    /\ save \in Saves /\ scr \in Screens /\ overlay \in Overlays /\ win \in Windows
    /\ cursor \in Nat /\ scareSel \in Nat \cup {-1}
    /\ asks \in [kind : {"none", "plant", "queue", "start", "abandon"}, id : 0..3]
    /\ pending \in 0..3 /\ reward \in 0..3
    /\ lastClick \in ResetButtons \cup {NoBox}
    /\ quitIn \in 0..GoodbyeSeconds /\ idle \in 0..IdleTimeout
    /\ ticks \in Nat /\ wave \in BOOLEAN /\ animRunning \in BOOLEAN /\ anims \in Nat
    /\ plots \in Nat \ {0} /\ scares \in Nat /\ active \in 0..3 /\ done \in 0..3
    /\ shop \in Doors /\ owner \in BOOLEAN /\ notice \in {"none", "sent", "read"}
    /\ gone \in BOOLEAN

(* A running program has exactly one tick chain, and one wave chain exactly *)
(* while boardAnimRunning says so: leaving the board and coming back before *)
(* the old chain's message arrives starts no second one.                    *)
ChainsAreSingle == ~gone => ticks = 1 /\ anims = IF animRunning THEN 1 ELSE 0

(* The farm shrinks under the cursor at every rebirth and contract reset, in *)
(* a window that may be too small to draw it: no key or click afterwards    *)
(* calls the session with a plot or a scarecrow that is not there.          *)
PlotCallsAreInRange ==
    /\ did.op = "plot" => did.arg \in 0..plots - 1
    /\ did.op = "scarecrow" => did.arg \in 0..scares - 1

(* Esc leaves every overlay, whatever the farm, the contract and the window *)
(* are like: for the farm, for a reward that waited, or for good.           *)
NoModalTraps ==
    overlay # "none" /\ ~gone =>
        ENABLED (Key("esc") /\ (gone' \/ overlay' \in {"none", "reward"}))

(* A farm is reset only from its confirm modal, for the contract the modal  *)
(* named, and the modal does not outlive the call: one more "y" cannot      *)
(* reset the farm again. The mouse takes two clicks on the button.          *)
ResetsAreConfirmed ==
    [][did'.op \in {"start", "abandon", "rebirth"} =>
         /\ overlay = (IF did'.op = "rebirth" THEN "rebirth" ELSE "terms")
         /\ did'.op # "rebirth" => asks = Asks(did'.op, did'.arg)
         /\ did'.by = "click" => lastClick \in ResetButtons
         /\ overlay' \in {"none", "reward"}]_vars

(* A contract won by any call but harvest-all is announced by the very      *)
(* Update that won it, whatever modal the call came from (a rebirth's opens *)
(* when its confirm has closed): the reward modal shows the contract that   *)
(* was under way, and nothing it took is left behind in the queue.          *)
WinsAreAnnounced ==
    [][done' > done /\ did'.op # "harvestAll" =>
         overlay' = "reward" /\ reward' = active /\ pending' = None]_vars

(* The same for every call: the docs promise the modal on every completion. *)
RewardIsShown == [][done' > done => active \in {pending', reward'}]_vars

(* A session whose actor let it go, or that drifted off, ends, whatever     *)
(* messages and keys the terminal keeps sending.                            *)
EvictedLeaves == (~owner \/ overlay = "kicked") ~> gone
=============================================================================
