--------------------------- MODULE GameUI_proofs ---------------------------
(***************************************************************************)
(* The terminal UI, for every farm, every window and any number of plots   *)
(* and scarecrows: its message chains are single, its calls name plots     *)
(* that are there, a farm is reset only from its confirm modal, and a won  *)
(* contract is announced by the Update that won it.                        *)
(*                                                                         *)
(* The invariant adds to the types what the handlers rely on without       *)
(* saying so: the reward queue is drained before an Update returns, the    *)
(* contract under way is the next of the campaign, and the plot cursor     *)
(* under the crop picker is on a plot, which the view that would clamp it  *)
(* does not see to while the picker is open.                               *)
(***************************************************************************)
EXTENDS GameUI, TLAPS

Asked == [kind : {"none", "plant", "queue", "start", "abandon"}, id : 0..3]

FarmOk ==
    /\ plots \in Nat \ {0} /\ scares \in Nat /\ shop \in Doors
    /\ active \in 0..3 /\ done \in 0..3
    /\ active # None => active = done + 1

ViewOk ==
    /\ scr \in Screens /\ overlay \in Overlays
    /\ cursor \in Nat /\ scareSel \in Nat \cup {-1}
    /\ asks \in Asked /\ pending = None /\ reward \in 0..3
    /\ overlay = "picker" => cursor \in 0..plots - 1

BoardOk ==
    /\ wave \in BOOLEAN /\ animRunning \in BOOLEAN /\ anims \in Nat
    /\ ~gone => anims = IF animRunning THEN 1 ELSE 0

(* What the handlers of keys and clicks change. *)
Handled == FarmOk /\ ViewOk /\ BoardOk /\ PlotCallsAreInRange /\ gone \in BOOLEAN

(* What is left to the messages themselves. *)
Kept ==
    /\ save \in Saves /\ win \in Windows
    /\ lastClick \in ResetButtons \cup {NoBox}
    /\ quitIn \in 0..GoodbyeSeconds /\ idle \in 0..IdleTimeout
    /\ ticks \in Nat /\ (~gone => ticks = 1)
    /\ owner \in BOOLEAN /\ notice \in {"none", "sent", "read"}

UIInv == Handled /\ Kept

(* How a handler may leave the session, for a key pressed by the keyboard  *)
(* or by a click on a button.                                              *)
Resets == {"start", "abandon", "rebirth"}

Announces ==
    done' > done /\ did'.op # "harvestAll" => overlay' = "reward" /\ reward' = active

Confirmed(key, by) ==
    /\ key = "y" /\ did'.by = by
    /\ overlay = (IF did'.op = "rebirth" THEN "rebirth" ELSE "terms")
    /\ did'.op # "rebirth" => asks = Asks(did'.op, did'.arg)
    /\ overlay' \in {"none", "reward"}

Safe             == Handled' /\ Announces /\ did'.op \notin Resets
Outcome(key, by) == Handled' /\ Announces /\ (did'.op \in Resets => Confirmed(key, by))

(* The calls that are no reset never make the farm smaller. *)
Grown == FarmOk' /\ plots' >= plots /\ scares' >= scares /\ (done' > done => active # None)

-----------------------------------------------------------------------------
(* The invariant in the words of the module. *)
LEMMA UIInvMeans == UIInv => TypeOK /\ ChainsAreSingle /\ PlotCallsAreInRange
BY DEF UIInv, Handled, Kept, FarmOk, ViewOk, BoardOk, Asked, TypeOK, ChainsAreSingle, None

LEMMA SafeIsAnOutcome == ASSUME NEW key, NEW by, Safe PROVE Outcome(key, by)
BY DEF Safe, Outcome

LEMMA OrderedScreens == \A i \in 1..8 : ScreenOrder[i] \in Screens
BY DEF Screens

LEMMA NamedScreens ==
    {"farm", "market", "starshop", "board", "contracts"} \subseteq Screens
<1>1. ScreenOrder[1] = "farm" /\ ScreenOrder[2] = "market"
      /\ ScreenOrder[5] = "starshop" /\ ScreenOrder[7] = "board"
  BY DEF ScreenOrder
<1> QED
  BY <1>1, OrderedScreens DEF Screens

(* showPendingReward: whatever was announced is on a free screen at once.  *)
LEMMA Settled ==
    ASSUME UIInv, NEW ov \in Overlays, NEW p \in 0..3, ov = "none" \/ p = None, Settle(ov, p)
    PROVE  /\ overlay' \in Overlays /\ asks' \in Asked /\ pending' = None /\ reward' \in 0..3
           /\ p = None => overlay' = ov
           /\ p # None => overlay' = "reward" /\ reward' = p
           /\ ov = "none" => overlay' \in {"none", "reward"}
BY DEF UIInv, Handled, ViewOk, Settle, Overlays, Asked, NoAsk, Asks, None

LEMMA ClampsAreOnTheFarm ==
    /\ \A c \in Nat, n \in Nat \ {0} : ClampPlot(c, n) \in 0..n - 1
    /\ \A k \in Nat \cup {-1}, m \in Nat :
           ClampScare(k, m) \in Nat \cup {-1} /\ (ClampScare(k, m) >= 0 => ClampScare(k, m) \in 0..m - 1)
BY DEF ClampPlot, ClampScare, Min2

LEMMA RangesGrow == \A m, n \in Nat : m <= n => 0..m - 1 \subseteq 0..n - 1
OBVIOUS

LEMMA Looked ==
    ASSUME FarmOk', NEW w, NEW s \in Screens, NEW c \in Nat, NEW k \in Nat \cup {-1},
           LookIn(w, s, c, k)
    PROVE  /\ scr' \in Screens /\ cursor' \in Nat /\ scareSel' \in Nat \cup {-1}
           /\ overlay' # "none" => cursor' = c
<1> DEFINE seen == w # "tiny" /\ s = "farm" /\ overlay' = "none"
<1>1. /\ scr' = s
      /\ cursor' = IF seen THEN ClampPlot(c, plots') ELSE c
      /\ scareSel' = IF seen THEN ClampScare(k, scares') ELSE k
  BY DEF LookIn
<1>2. ClampPlot(c, plots') \in Nat /\ ClampScare(k, scares') \in Nat \cup {-1}
  <2>1. plots' \in Nat \ {0} /\ scares' \in Nat
    BY DEF FarmOk
  <2>2. ClampPlot(c, plots') \in 0..plots' - 1
    BY <2>1, ClampsAreOnTheFarm
  <2> QED
    BY <2>1, <2>2, ClampsAreOnTheFarm
<1>3. overlay' # "none" => ~seen
  OBVIOUS
<1> HIDE DEF seen
<1> QED
  BY <1>1, <1>2, <1>3

(* Every Update: the handler's own effect, then Settle, then the View.     *)
LEMMA Landed ==
    ASSUME UIInv, NEW w, NEW s \in Screens, NEW c \in Nat, NEW k \in Nat \cup {-1},
           NEW ov \in Overlays, NEW p \in 0..3,
           Settle(ov, p), LookIn(w, s, c, k),
           FarmOk', BoardOk', gone' \in BOOLEAN, PlotCallsAreInRange',
           ov = "none" \/ p = None,
           ov = "picker" => c \in 0..plots' - 1,
           done' > done /\ did'.op # "harvestAll" => p = active /\ active # None
    PROVE  Handled' /\ Announces /\ (ov = "none" => overlay' \in {"none", "reward"})
<1>1. /\ overlay' \in Overlays /\ asks' \in Asked /\ pending' = None /\ reward' \in 0..3
      /\ p = None => overlay' = ov
      /\ p # None => overlay' = "reward" /\ reward' = p
      /\ ov = "none" => overlay' \in {"none", "reward"}
  BY Settled
<1>2. /\ scr' \in Screens /\ cursor' \in Nat /\ scareSel' \in Nat \cup {-1}
      /\ overlay' # "none" => cursor' = c
  BY Looked
<1>3. overlay' = "picker" => cursor' \in 0..plots' - 1
  BY <1>1, <1>2
<1>4. ViewOk'
  BY <1>1, <1>2, <1>3 DEF ViewOk
<1> QED
  BY <1>1, <1>4 DEF Handled, Announces

(* Nothing moves on the farm. *)
LEMMA FarmStays ==
    ASSUME UIInv, UNCHANGED farm
    PROVE  Grown /\ Announced = pending /\ pending = None /\ ~(done' > done)
BY DEF UIInv, Handled, FarmOk, ViewOk, farm, Grown, Announced, None

LEMMA BoardStays == ASSUME UIInv, UNCHANGED <<board, gone>> PROVE BoardOk' /\ gone' \in BOOLEAN
BY DEF UIInv, Handled, BoardOk, board

(* A message, key or click that calls nothing. *)
LEMMA Still ==
    ASSUME UIInv, NEW w, NEW s \in Screens, NEW c \in Nat, NEW k \in Nat \cup {-1},
           NEW ov \in Overlays, Settle(ov, pending), did' = NoCall, UNCHANGED <<farm, gone>>,
           BoardOk', LookIn(w, s, c, k), ov = "picker" => c \in 0..plots - 1
    PROVE  Safe
<1>1. Grown /\ pending = None /\ ~(done' > done)
  BY FarmStays
<1>2. did'.op = "none" /\ plots' = plots /\ gone' \in BOOLEAN
  BY DEF NoCall, Call, farm, UIInv, Handled
<1>3. PlotCallsAreInRange'
  BY <1>2 DEF PlotCallsAreInRange
<1>4. Handled' /\ Announces
  BY <1>1, <1>2, <1>3, Landed DEF Grown, None
<1> QED
  BY <1>2, <1>4 DEF Safe, Resets

LEMMA QuietIsSafe ==
    ASSUME UIInv, NEW ov \in Overlays, Quiet(ov), ov = "picker" => overlay = "picker"
    PROVE  Safe
<1>1. BoardOk'
  BY BoardStays DEF Quiet
<1>2. scr \in Screens /\ cursor \in Nat /\ scareSel \in Nat \cup {-1}
      /\ (overlay = "picker" => cursor \in 0..plots - 1)
  BY DEF UIInv, Handled, ViewOk
<1> QED
  BY <1>1, <1>2, Still DEF Quiet, Stay, Look

LEMMA NothingIsSafe == ASSUME UIInv, Nothing PROVE Safe
BY QuietIsSafe DEF Nothing, UIInv, Handled, ViewOk

(* The program is over: what it showed is reset, the farm is not touched.  *)
LEMMA QuitIsSafe == ASSUME UIInv, Quit PROVE Safe
<1>1. Grown /\ pending = None /\ ~(done' > done)
  BY FarmStays DEF Quit
<1>2. did'.op = "none"
  BY DEF Quit, NoCall, Call
<1>3. PlotCallsAreInRange' /\ Announces /\ did'.op \notin Resets
  BY <1>1, <1>2 DEF PlotCallsAreInRange, Announces, Resets
<1>4. BoardOk' /\ gone' \in BOOLEAN
  BY DEF Quit, UIInv, Handled, BoardOk, board
<1>5. ViewOk'
  BY <1>1, NamedScreens DEF Quit, Open, ViewOk, Overlays, Asked, NoAsk, Asks, None
<1> QED
  BY <1>1, <1>3, <1>4, <1>5 DEF Safe, Handled, Grown

(* A call that is no reset, accepted or refused, at cursor c, k.           *)
LEMMA Acted ==
    ASSUME UIInv, NEW call, NEW c \in Nat, NEW k \in Nat \cup {-1},
           Settle(overlay, Announced), did' = call, UNCHANGED <<board, gone>>, Look(scr, c, k),
           Grown, done' > done => overlay = "none",
           call.op \notin Resets,
           call.op = "plot" => call.arg \in 0..plots - 1,
           call.op = "scarecrow" => call.arg \in 0..scares - 1,
           overlay = "picker" => c \in 0..plots - 1
    PROVE  Safe
<1>1. FarmOk /\ ViewOk /\ FarmOk'
  BY DEF UIInv, Handled, Grown
<1>2. BoardOk' /\ gone' \in BOOLEAN
  BY BoardStays
<1>3. PlotCallsAreInRange'
  BY <1>1 DEF PlotCallsAreInRange, Grown, FarmOk
<1>4. /\ Announced \in 0..3 /\ (overlay = "none" \/ Announced = None)
      /\ done' > done => Announced = active /\ active # None
  BY <1>1 DEF Announced, Grown, FarmOk, ViewOk, None
<1>5. overlay = "picker" => c \in 0..plots' - 1
  <2>1. plots \in Nat /\ plots' \in Nat /\ plots <= plots'
    BY <1>1 DEF Grown, FarmOk
  <2> QED
    BY <2>1, RangesGrow
<1>6. scr \in Screens /\ overlay \in Overlays
  BY <1>1 DEF ViewOk
<1>7. Handled' /\ Announces
  BY <1>1, <1>2, <1>3, <1>4, <1>5, <1>6, Landed DEF Look
<1> QED
  BY <1>7 DEF Safe

-----------------------------------------------------------------------------
(* What the calls do to the farm. *)

LEMMA EarnGrows ==
    ASSUME UIInv, NEW S, None \notin S, Earn(S)
    PROVE  Grown /\ plots' = plots /\ scares' = scares
<1>1. CASE UNCHANGED farm
  BY <1>1, FarmStays DEF farm
<1>2. CASE active \in S /\ Win
  BY <1>2 DEF Win, Won, Grown, UIInv, Handled, FarmOk, None
<1> QED
  BY <1>1, <1>2 DEF Earn

LEMMA GrowGrows ==
    ASSUME UIInv, NEW p \in Nat, NEW s \in Nat, p >= plots, s >= scares, Grow(p, s)
    PROVE  Grown /\ ~(done' > done)
BY DEF Grow, Grown, UIInv, Handled, FarmOk

(* Plots one by one, or as many as a zone brings; scarecrows one by one.   *)
LEMMA PurchaseGrows ==
    ASSUME UIInv, BuyPlot \/ BuyZone \/ BuyScarecrow
    PROVE  Grown /\ ~(done' > done)
<1>1. plots \in Nat /\ scares \in Nat /\ save.land \in Nat
  BY SeenAssumption DEF UIInv, Handled, Kept, FarmOk
<1>2. PICK p \in Nat, s \in Nat : p >= plots /\ s >= scares /\ Grow(p, s)
  BY <1>1 DEF BuyPlot, BuyZone, BuyScarecrow
<1> QED
  BY <1>2, GrowGrows

LEMMA BuyLastGrows == ASSUME UIInv, BuyLast PROVE Grown /\ ~(done' > done)
<1>1. shop' \in Doors
  BY DEF BuyLast, UIInv, Handled, FarmOk, Doors
<1> QED
  BY <1>1 DEF BuyLast, Grown, UIInv, Handled, FarmOk

LEMMA DevApplyGrows == ASSUME UIInv, DevApply PROVE Grown /\ ~(done' > done)
<1>1. shop' \in Doors
  BY DEF DevApply, UIInv, Handled, FarmOk, Doors
<1> QED
  BY <1>1 DEF DevApply, Grown, UIInv, Handled, FarmOk

(* The resets: contracts are taken and won in campaign order.              *)
LEMMA ResetIsSound ==
    ASSUME UIInv, NEW a \in 0..3, a # None => a = done + 1, Reset(a)
    PROVE  FarmOk' /\ ~(done' > done)
BY SeenAssumption DEF Reset, UIInv, Handled, FarmOk, Doors, None

LEMMA RebirthIsSound ==
    ASSUME UIInv, Rebirth
    PROVE  FarmOk' /\ (done' > done => active # None)
<1>1. shop' \in Doors
  BY DEF Rebirth, UIInv, Handled, FarmOk, Doors, StarShopIsOpen
<1>2. plots' \in Nat \ {0} /\ scares' \in Nat
  BY SeenAssumption DEF Rebirth
<1>3. CASE UNCHANGED <<active, done>>
  BY <1>1, <1>2, <1>3 DEF UIInv, Handled, FarmOk
<1>4. CASE Won
  BY <1>1, <1>2, <1>4 DEF Won, UIInv, Handled, FarmOk, None
<1> QED
  BY <1>3, <1>4 DEF Rebirth

-----------------------------------------------------------------------------
(* The selection. *)

LEMMA SelectionIsOnTheFarm ==
    ASSUME UIInv
    PROVE  /\ FarmSelection[1] \in 0..plots - 1 /\ FarmSelection[1] \in Nat
           /\ FarmSelection[2] \in Nat \cup {-1}
           /\ FarmSelection[2] >= 0 => FarmSelection[2] \in 0..scares - 1
<1>1. cursor \in Nat /\ scareSel \in Nat \cup {-1} /\ plots \in Nat \ {0} /\ scares \in Nat
  BY DEF UIInv, Handled, ViewOk, FarmOk
<1>2. ClampPlot(cursor, plots) \in 0..plots - 1
  BY <1>1, ClampsAreOnTheFarm
<1>3. /\ ClampScare(scareSel, scares) \in Nat \cup {-1}
      /\ ClampScare(scareSel, scares) >= 0 => ClampScare(scareSel, scares) \in 0..scares - 1
  BY <1>1, ClampsAreOnTheFarm
<1> QED
  BY <1>1, <1>2, <1>3 DEF FarmSelection

(* A move leads to a plot number, or to a scarecrow's, or to none.         *)
LEMMA ListMoves ==
    ASSUME NEW pos \in Int, NEW c \in Nat, NEW n \in Nat, NEW m \in Nat
    PROVE  /\ SetCompactPos(pos, c, n, m)[1] \in Nat
           /\ SetCompactPos(pos, c, n, m)[2] \in Nat \cup {-1}
<1> DEFINE p == Clamp(pos, 0, Max2(n + m - 1, 0))
<1>1. p \in Nat
  BY DEF Clamp, Max2, Min2
<1> HIDE DEF p
<1>2. SetCompactPos(pos, c, n, m) = IF p >= n THEN <<c, p - n>> ELSE <<p, -1>>
  BY DEF SetCompactPos, p
<1> QED
  BY <1>1, <1>2

LEMMA GridMoves ==
    ASSUME NEW c \in Nat, NEW k \in Nat \cup {-1}, NEW n \in Nat \ {0}, NEW m \in Nat,
           NEW cols \in Nat \ {0}, k >= 0 => m > 0
    PROVE  /\ RightOf(c, k, n, m, cols)[1] \in Nat
           /\ RightOf(c, k, n, m, cols)[2] \in Nat \cup {-1}
           /\ LeftOf(c, k, n, m, cols)[1] \in Nat
           /\ LeftOf(c, k, n, m, cols)[2] \in Nat \cup {-1}
           /\ UpFrom(c, k, cols)[1] \in Nat
           /\ UpFrom(c, k, cols)[2] \in Nat \cup {-1}
           /\ DownFrom(c, k, n, m, cols)[1] \in Nat
           /\ DownFrom(c, k, n, m, cols)[2] \in Nat \cup {-1}
<1>1. c \div cols \in Nat
  OBVIOUS
<1> DEFINE e == (k + 1) * cols
<1>2. k >= 0 => e \in Nat \ {0}
  OBVIOUS
<1> HIDE DEF e
<1>3. RightOf(c, k, n, m, cols)[1] \in Nat /\ RightOf(c, k, n, m, cols)[2] \in Nat \cup {-1}
  BY <1>1, <1>2 DEF RightOf, Min2, e
<1>4. LeftOf(c, k, n, m, cols)[1] \in Nat /\ LeftOf(c, k, n, m, cols)[2] \in Nat \cup {-1}
  BY <1>1, <1>2 DEF LeftOf, Min2, Max2, e
<1>5. UpFrom(c, k, cols)[1] \in Nat /\ UpFrom(c, k, cols)[2] \in Nat \cup {-1}
  BY DEF UpFrom, Max2
<1>6. DownFrom(c, k, n, m, cols)[1] \in Nat /\ DownFrom(c, k, n, m, cols)[2] \in Nat \cup {-1}
  BY DEF DownFrom, Min2
<1> QED
  BY <1>3, <1>4, <1>5, <1>6

LEMMA NavigationIsTyped ==
    ASSUME UIInv, NEW key \in {"left", "right", "up", "down"},
           NEW c \in Nat, NEW k \in Nat \cup {-1}, k >= 0 => k \in 0..scares - 1
    PROVE  Navigate(key, c, k)[1] \in Nat /\ Navigate(key, c, k)[2] \in Nat \cup {-1}
<1>1. plots \in Nat \ {0} /\ scares \in Nat /\ Cols \in Nat \ {0} /\ (k >= 0 => scares > 0)
  BY UIAssumption DEF UIInv, Handled, FarmOk
<1>2. CASE win # "wide"
  <2> DEFINE to == CompactPos(c, k, plots) + (IF key \in {"left", "up"} THEN -1 ELSE 1)
  <2>1. to \in Int
    BY <1>1 DEF CompactPos
  <2>2. Navigate(key, c, k) = SetCompactPos(to, c, plots, scares)
    BY <1>2 DEF Navigate
  <2> HIDE DEF to
  <2> QED
    BY <1>1, <2>1, <2>2, ListMoves
<1>3. CASE win = "wide"
  <2>1. Navigate(key, c, k) \in {LeftOf(c, k, plots, scares, Cols),
          RightOf(c, k, plots, scares, Cols), UpFrom(c, k, Cols),
          DownFrom(c, k, plots, scares, Cols)}
    BY <1>3 DEF Navigate
  <2> DEFINE At(pos) == pos[1] \in Nat /\ pos[2] \in Nat \cup {-1}
  <2>2. /\ At(LeftOf(c, k, plots, scares, Cols)) /\ At(RightOf(c, k, plots, scares, Cols))
        /\ At(UpFrom(c, k, Cols)) /\ At(DownFrom(c, k, plots, scares, Cols))
    BY <1>1, GridMoves
  <2>3. At(Navigate(key, c, k))
    <3> HIDE DEF At
    <3> QED
      BY <2>1, <2>2
  <2> QED
    BY <2>3
<1> QED
  BY <1>2, <1>3

LEMMA ScrollIsTyped ==
    ASSUME UIInv, NEW delta \in {-1, 1}, NEW c \in Nat, NEW k \in Nat \cup {-1}
    PROVE  Scroll(delta, c, k)[1] \in Nat /\ Scroll(delta, c, k)[2] \in Nat \cup {-1}
<1>1. plots \in Nat \ {0} /\ scares \in Nat /\ Cols \in Nat \ {0}
  BY UIAssumption DEF UIInv, Handled, FarmOk
<1>2. \A v, hi \in Int : Clamp(v, 0, hi) \in Nat
  BY DEF Clamp, Min2
<1>3. CASE win # "wide"
  <2>1. CompactPos(c, k, plots) + delta \in Int
    BY <1>1 DEF CompactPos
  <2> QED
    BY <1>1, <1>3, <2>1, ListMoves DEF Scroll
<1>4. CASE win = "wide"
  <2>1. Clamp(k + delta, 0, scares - 1) \in Nat /\ Clamp(c + delta * Cols, 0, plots - 1) \in Nat
    BY <1>1, <1>2
  <2> QED
    BY <1>4, <2>1 DEF Scroll
<1> QED
  BY <1>3, <1>4

-----------------------------------------------------------------------------
(* The board and the screens. *)

LEMMA WaveStarts ==
    ASSUME UIInv, NEW s, NEW w \in BOOLEAN, StartWave(s, w), UNCHANGED gone
    PROVE  BoardOk'
<1>1. wave' \in BOOLEAN
  BY DEF StartWave
<1>2. CASE ~animRunning /\ wave'
  <2>1. animRunning' = TRUE /\ anims' = anims + 1
    BY <1>2 DEF StartWave
  <2>2. anims \in Nat /\ (~gone => anims = 0)
    BY <1>2 DEF UIInv, Handled, BoardOk
  <2> QED
    BY <1>1, <2>1, <2>2 DEF BoardOk
<1>3. CASE ~(~animRunning /\ wave')
  BY <1>1, <1>3 DEF StartWave, UIInv, Handled, BoardOk
<1> QED
  BY <1>2, <1>3

LEMMA GotoIsSafe == ASSUME UIInv, NEW s \in Screens, Goto(s) PROVE Safe
<1>1. PICK w \in BOOLEAN :
         IF s = "board" THEN StartWave(s, w) ELSE wave' = FALSE /\ UNCHANGED <<animRunning, anims>>
  BY DEF Goto
<1>2. BoardOk'
  <2>1. CASE s = "board"
    BY <1>1, <2>1, WaveStarts DEF Goto
  <2>2. CASE s # "board"
    BY <1>1, <2>2 DEF Goto, UIInv, Handled, BoardOk
  <2> QED
    BY <2>1, <2>2
<1>3. /\ overlay \in Overlays /\ cursor \in Nat /\ scareSel \in Nat \cup {-1}
      /\ overlay = "picker" => cursor \in 0..plots - 1
  BY DEF UIInv, Handled, ViewOk
<1> QED
  BY <1>2, <1>3, Still DEF Goto, Look

LEMMA RefreshBoardIsSafe == ASSUME UIInv, RefreshBoard PROVE Safe
<1>1. BoardOk'
  BY DEF RefreshBoard, UIInv, Handled, BoardOk
<1>2. /\ overlay \in Overlays /\ scr \in Screens /\ cursor \in Nat /\ scareSel \in Nat \cup {-1}
      /\ overlay = "picker" => cursor \in 0..plots - 1
  BY DEF UIInv, Handled, ViewOk
<1> QED
  BY <1>1, <1>2, Still DEF RefreshBoard, Stay, Look

LEMMA CycleIsSafe == ASSUME UIInv, NEW step \in {-1, 1}, Cycle(step) PROVE Safe
<1>1. CASE Nothing
  BY <1>1, NothingIsSafe
<1>2. CASE \E i \in 1..8 : ScreenOrder[i] = scr /\ Goto(ScreenOrder[((i - 1 + step + 8) % 8) + 1])
  <2>1. PICK i \in 1..8 : Goto(ScreenOrder[((i - 1 + step + 8) % 8) + 1])
    BY <1>2
  <2>2. ((i - 1 + step + 8) % 8) + 1 \in 1..8
    OBVIOUS
  <2> QED
    BY <2>1, <2>2, OrderedScreens, GotoIsSafe
<1> QED
  BY <1>1, <1>2 DEF Cycle

LEMMA SelectIsSafe ==
    ASSUME UIInv, overlay # "picker", NEW pos, pos[1] \in Nat, pos[2] \in Nat \cup {-1}, Select(pos)
    PROVE  Safe
<1>1. BoardOk'
  BY BoardStays DEF Select
<1>2. overlay \in Overlays /\ scr \in Screens
  BY DEF UIInv, Handled, ViewOk
<1> QED
  BY <1>1, <1>2, Still DEF Select, Look

LEMMA RequestQuitIsSafe == ASSUME UIInv, RequestQuit PROVE Safe
BY QuitIsSafe, QuietIsSafe DEF RequestQuit, Overlays

-----------------------------------------------------------------------------
(* Keys on a screen. *)

(* A call from the screen, or from an overlay that stays.                  *)
LEMMA CalledFromHere ==
    ASSUME UIInv, NEW op \in {"other"}, Grown, ~(done' > done),
           Settle(overlay, Announced), did' = Call(op, 0), UNCHANGED <<board, gone>>, Stay
    PROVE  Safe
<1>1. /\ cursor \in Nat /\ scareSel \in Nat \cup {-1}
      /\ overlay = "picker" => cursor \in 0..plots - 1
  BY DEF UIInv, Handled, ViewOk
<1>2. Call(op, 0).op = "other"
  BY DEF Call
<1>3. Call(op, 0).op \notin Resets
  BY <1>2 DEF Resets
<1> QED
  BY <1>1, <1>2, <1>3, Acted DEF Stay

LEMMA PlainCallIsSafe ==
    ASSUME UIInv, Act(Call("other", 0), UNCHANGED farm)
    PROVE  Safe
BY FarmStays, CalledFromHere DEF Act, ActAt, Accepted, Refused, Stay

(* A call on the plot or the scarecrow that is selected.                   *)
LEMMA PlotCallIsSafe ==
    ASSUME UIInv, overlay = "none", NEW c \in 0..plots - 1, NEW k \in Nat \cup {-1},
           ActAt(Call("plot", c), Earn({BareHands}), c, k)
    PROVE  Safe
<1>1. Settle(overlay, Announced) /\ Grown
  <2>1. CASE Accepted(Call("plot", c), Earn({BareHands}), overlay)
    BY <2>1, EarnGrows DEF Accepted, None, BareHands
  <2>2. CASE Refused(Call("plot", c), overlay)
    BY <2>2, FarmStays DEF Refused
  <2> QED
    BY <2>1, <2>2 DEF ActAt
<1>2. did' = Call("plot", c) /\ UNCHANGED <<board, gone>> /\ Look(scr, c, k)
  BY DEF ActAt, Accepted, Refused
<1>3. Call("plot", c).op = "plot" /\ Call("plot", c).arg = c
  BY DEF Call
<1>4. Call("plot", c).op \notin Resets /\ c \in Nat
  BY <1>3 DEF Resets
<1> QED
  BY <1>1, <1>2, <1>3, <1>4, Acted

LEMMA ScarecrowCallIsSafe ==
    ASSUME UIInv, overlay = "none", NEW c \in Nat, NEW k \in 0..scares - 1,
           CollectScarecrow(c, k)
    PROVE  Safe
<1> DEFINE call == Call("scarecrow", k)
<1>1. Settle(overlay, Announced) /\ Grown
  <2>1. CASE Accepted(call, Earn({BareHands}), overlay)
    BY <2>1, EarnGrows DEF Accepted, None, BareHands
  <2>2. CASE Refused(call, overlay)
    BY <2>2, FarmStays DEF Refused
  <2> QED
    BY <2>1, <2>2 DEF CollectScarecrow, ActAt
<1>2. did' = call /\ UNCHANGED <<board, gone>> /\ Look(scr, c, k)
  BY DEF CollectScarecrow, ActAt, Accepted, Refused
<1>3. call.op = "scarecrow" /\ call.arg = k
  BY DEF Call
<1>4. call.op \notin Resets /\ k \in Nat
  BY <1>3 DEF Resets
<1> QED
  BY <1>1, <1>2, <1>3, <1>4, Acted

(* The picker opens on a plot that is there.                               *)
LEMMA EnterFarmIsSafe ==
    ASSUME UIInv, overlay = "none", NEW c \in Nat, NEW k \in Nat \cup {-1},
           k < 0 => c \in 0..plots - 1, k >= 0 => k \in 0..scares - 1,
           EnterFarm(c, k)
    PROVE  Safe
<1>1. CASE k >= 0 /\ CollectScarecrow(c, k)
  BY <1>1, ScarecrowCallIsSafe
<1>2. CASE k < 0 /\ \E kind \in {"plant", "queue"} :
                    /\ Open("picker", Asks(kind, None)) /\ did' = NoCall
                    /\ UNCHANGED <<board, farm, gone>> /\ Look(scr, c, k)
  <2>1. PICK kind \in {"plant", "queue"} :
           /\ Open("picker", Asks(kind, None)) /\ did' = NoCall
           /\ UNCHANGED <<board, farm, gone>> /\ Look(scr, c, k)
    BY <1>2
  <2>2. Grown /\ pending = None /\ ~(done' > done) /\ plots' = plots
    BY <2>1, FarmStays DEF farm
  <2>3. /\ scr' \in Screens /\ cursor' \in Nat /\ scareSel' \in Nat \cup {-1}
        /\ overlay' # "none" => cursor' = c
    BY <2>1, <2>2, Looked DEF Grown, Look, UIInv, Handled, ViewOk
  <2>4. /\ overlay' = "picker" /\ asks' \in Asked /\ pending' = None /\ reward' \in 0..3
        /\ did'.op = "none"
    BY <2>1, <2>2 DEF Open, Asks, Asked, None, NoCall, Call
  <2>5. ViewOk'
    BY <1>2, <2>2, <2>3, <2>4 DEF ViewOk, Overlays
  <2>6. BoardOk' /\ gone' \in BOOLEAN
    BY <2>1, BoardStays
  <2>7. PlotCallsAreInRange' /\ Announces /\ did'.op \notin Resets
    BY <2>2, <2>4 DEF PlotCallsAreInRange, Announces, Resets
  <2> QED
    BY <2>2, <2>5, <2>6, <2>7 DEF Safe, Handled, Grown
<1>3. CASE k < 0 /\ DoHarvest(c, k)
  BY <1>3, PlotCallIsSafe DEF DoHarvest
<1>4. CASE k < 0 /\ Select(<<c, k>>)
  BY <1>4, SelectIsSafe
<1> QED
  BY <1>1, <1>2, <1>3, <1>4 DEF EnterFarm

LEMMA HarvestAllIsSafe ==
    ASSUME UIInv, overlay = "none", NEW c \in Nat, NEW k \in Nat \cup {-1},
           HarvestAll, Look(scr, c, k)
    PROVE  Safe
<1>1. did'.op = "harvestAll" /\ UNCHANGED <<board, gone>>
  BY DEF HarvestAll, Call
<1>2. FarmOk /\ scr \in Screens /\ pending = None
  BY DEF UIInv, Handled, ViewOk
<1>3. FarmOk' /\ \E p \in 0..3 : Settle(overlay, p)
  <2>1. CASE UNCHANGED farm /\ Settle(overlay, pending)
    BY <1>2, <2>1, FarmStays DEF Grown, None
  <2>2. CASE active = BareHands /\ Win /\ Settle(overlay, pending)
    BY <1>2, <2>2 DEF Win, Won, FarmOk, None, BareHands
  <2>3. CASE active = BareHands /\ Win /\ Settle(overlay, Announced)
    <3>1. Announced \in 0..3
      BY <1>2 DEF FarmOk, Announced, None
    <3> QED
      BY <1>2, <2>3, <3>1 DEF Win, Won, FarmOk, None, BareHands
  <2> QED
    BY <2>1, <2>2, <2>3 DEF HarvestAll
<1>4. PICK p \in 0..3 : Settle(overlay, p)
  BY <1>3
<1>5. BoardOk' /\ gone' \in BOOLEAN
  BY <1>1, BoardStays
<1>6. PlotCallsAreInRange' /\ did'.op \notin Resets
  BY <1>1 DEF PlotCallsAreInRange, Resets
<1>7. overlay \in Overlays
  BY DEF Overlays
<1>8. Handled' /\ Announces
  BY <1>1, <1>2, <1>3, <1>4, <1>5, <1>6, <1>7, Landed DEF Look
<1> QED
  BY <1>6, <1>8 DEF Safe

LEMMA FarmKeyIsSafe == ASSUME UIInv, overlay = "none", NEW key, FarmKey(key) PROVE Safe
<1> DEFINE c == FarmSelection[1]
           k == FarmSelection[2]
<1>1. /\ c \in 0..plots - 1 /\ c \in Nat /\ k \in Nat \cup {-1}
      /\ k >= 0 => k \in 0..scares - 1
  BY SelectionIsOnTheFarm
<1>2. \/ key \in {"left", "right", "up", "down"} /\ Select(Navigate(key, c, k))
      \/ /\ Settle(IF k >= 0 THEN overlay ELSE "upgrade", pending) /\ did' = NoCall
         /\ UNCHANGED <<board, farm, gone>> /\ Look(scr, c, k)
      \/ ShooCritter(c, k)
      \/ EnterFarm(c, k)
      \/ HarvestAll /\ Look(scr, c, k)
      \/ Replant
  BY DEF FarmKey
<1> HIDE DEF c, k
<1>3. CASE key \in {"left", "right", "up", "down"} /\ Select(Navigate(key, c, k))
  BY <1>1, <1>3, NavigationIsTyped, SelectIsSafe
<1>4. CASE /\ Settle(IF k >= 0 THEN overlay ELSE "upgrade", pending) /\ did' = NoCall
           /\ UNCHANGED <<board, farm, gone>> /\ Look(scr, c, k)
  <2>1. BoardOk' /\ scr \in Screens
    BY <1>4, BoardStays DEF UIInv, Handled, ViewOk
  <2>2. PICK ov \in {"none", "upgrade"} : Settle(ov, pending)
    BY <1>4
  <2>3. ov \in Overlays /\ ov # "picker"
    BY <2>2 DEF Overlays
  <2> QED
    BY <1>1, <1>4, <2>1, <2>2, <2>3, Still DEF Look
<1>5. CASE ShooCritter(c, k)
  BY <1>1, <1>5, PlotCallIsSafe DEF ShooCritter
<1>6. CASE EnterFarm(c, k)
  BY <1>1, <1>6, EnterFarmIsSafe
<1>7. CASE HarvestAll /\ Look(scr, c, k)
  BY <1>1, <1>7, HarvestAllIsSafe
<1>8. CASE Replant
  BY <1>8, QuietIsSafe, PlainCallIsSafe DEF Replant, Overlays
<1> QED
  BY <1>2, <1>3, <1>4, <1>5, <1>6, <1>7, <1>8

(* Buying, and the developer's settings.                                   *)
LEMMA BoughtIsSafe ==
    ASSUME UIInv,
           \/ Act(Call("other", 0), BuyPlot)
           \/ Act(Call("other", 0), BuyZone)
           \/ Act(Call("other", 0), BuyScarecrow)
           \/ Act(Call("other", 0), BuyLast)
           \/ Act(Call("other", 0), DevApply)
    PROVE  Safe
<1>1. Settle(overlay, Announced) /\ Grown /\ ~(done' > done)
  <2>1. CASE UNCHANGED farm /\ Settle(overlay, pending)
    BY <2>1, FarmStays
  <2>2. CASE (BuyPlot \/ BuyZone \/ BuyScarecrow) /\ Settle(overlay, Announced)
    BY <2>2, PurchaseGrows
  <2>3. CASE BuyLast /\ Settle(overlay, Announced)
    BY <2>3, BuyLastGrows
  <2>4. CASE DevApply /\ Settle(overlay, Announced)
    BY <2>4, DevApplyGrows
  <2> QED
    BY <2>1, <2>2, <2>3, <2>4 DEF Act, ActAt, Accepted, Refused
<1>2. did' = Call("other", 0) /\ UNCHANGED <<board, gone>> /\ Stay
  BY DEF Act, ActAt, Accepted, Refused, Stay
<1> QED
  BY <1>1, <1>2, CalledFromHere

LEMMA ContractsKeyIsSafe ==
    ASSUME UIInv, NEW key, ContractsKey(key)
    PROVE  Safe
<1>1. CASE Goto("starshop") \/ Nothing
  BY <1>1, GotoIsSafe, NothingIsSafe, NamedScreens
<1>2. ASSUME NEW kind \in {"start", "abandon"}, NEW id \in 0..3, OpenTerms(kind, id)
      PROVE  Safe
  <2>1. Grown /\ pending = None /\ ~(done' > done)
    BY <1>2, FarmStays DEF OpenTerms
  <2>2. /\ scr' \in Screens /\ cursor' \in Nat /\ scareSel' \in Nat \cup {-1}
    BY <1>2, <2>1, Looked DEF OpenTerms, Stay, Look, Grown, UIInv, Handled, ViewOk
  <2>3. /\ overlay' = "terms" /\ asks' \in Asked /\ pending' = None /\ reward' \in 0..3
        /\ did'.op = "none"
    BY <1>2, <2>1 DEF OpenTerms, Open, Asks, Asked, None, NoCall, Call
  <2>4. ViewOk'
    BY <2>2, <2>3 DEF ViewOk, Overlays
  <2>5. BoardOk' /\ gone' \in BOOLEAN
    BY <1>2, BoardStays DEF OpenTerms
  <2>6. PlotCallsAreInRange' /\ Announces /\ did'.op \notin Resets
    BY <2>1, <2>3 DEF PlotCallsAreInRange, Announces, Resets
  <2> QED
    BY <2>1, <2>4, <2>5, <2>6 DEF Safe, Handled, Grown
<1>3. active \in 0..3 /\ (done < 3 => done + 1 \in 0..3)
  BY DEF UIInv, Handled, FarmOk
<1> QED
  BY <1>1, <1>2, <1>3 DEF ContractsKey, EnterContract

LEMMA OpenRenameIsSafe == ASSUME UIInv, OpenRename PROVE Safe
<1>1. overlay \in Overlays /\ "name" \in Overlays
  BY DEF UIInv, Handled, ViewOk, Overlays
<1> QED
  BY <1>1, QuietIsSafe DEF OpenRename

LEMMA StarShopKeyIsSafe == ASSUME UIInv, NEW key, StarShopKey(key) PROVE Safe
<1>1. CASE OpenContracts
  BY <1>1, GotoIsSafe, NothingIsSafe, NamedScreens DEF OpenContracts
<1> QED
  BY <1>1, BoughtIsSafe DEF StarShopKey

LEMMA ScreenKeyIsSafe ==
    ASSUME UIInv, overlay = "none", NEW key, ScreenKey(key)
    PROVE  Safe
<1>1. CASE MarketKey(key)
  BY <1>1, PlainCallIsSafe, BoughtIsSafe DEF MarketKey
<1>2. CASE LandKey(key)
  BY <1>2, BoughtIsSafe DEF LandKey
<1>3. CASE RebirthKey(key)
  BY <1>3, QuietIsSafe, NothingIsSafe DEF RebirthKey, Overlays
<1>4. CASE StatsKey(key)
  BY <1>4, QuietIsSafe, OpenRenameIsSafe, PlainCallIsSafe DEF StatsKey, Overlays
<1>5. CASE BoardKey(key)
  BY <1>5, GotoIsSafe, OpenRenameIsSafe, RefreshBoardIsSafe, NamedScreens DEF BoardKey
<1> QED
  BY <1>1, <1>2, <1>3, <1>4, <1>5, FarmKeyIsSafe, StarShopKeyIsSafe, ContractsKeyIsSafe,
     GotoIsSafe, NamedScreens DEF ScreenKey

(* A parcel may win its contract: keys of the screens find no overlay.     *)
LEMMA RedeemGiftIsSafe == ASSUME UIInv, overlay = "none", RedeemGift PROVE Safe
<1> DEFINE call == Call("other", 0)
<1>1. Settle(overlay, Announced) /\ Grown
  <2>1. CASE Accepted(call, Earn({BareHands, LeanSeason}), overlay)
    BY <2>1, EarnGrows DEF Accepted, None, BareHands, LeanSeason
  <2>2. CASE Refused(call, overlay)
    BY <2>2, FarmStays DEF Refused
  <2> QED
    BY <2>1, <2>2 DEF RedeemGift, Act, ActAt
<1>2. did' = call /\ UNCHANGED <<board, gone>> /\ Look(scr, cursor, scareSel)
  BY DEF RedeemGift, Act, ActAt, Accepted, Refused
<1>3. call.op = "other" /\ cursor \in Nat /\ scareSel \in Nat \cup {-1}
  BY DEF Call, UIInv, Handled, ViewOk
<1>4. call.op \notin Resets
  BY <1>3 DEF Resets
<1> QED
  BY <1>1, <1>2, <1>3, <1>4, Acted

LEMMA GlobalKeyIsSafe ==
    ASSUME UIInv, overlay = "none", NEW key, GlobalKey(key)
    PROVE  Safe
BY RequestQuitIsSafe, GotoIsSafe, RedeemGiftIsSafe, CycleIsSafe, OrderedScreens, NamedScreens
   DEF GlobalKey

-----------------------------------------------------------------------------
(* Keys in an overlay. *)

(* A call from an overlay that closes when it succeeds.                    *)
LEMMA ClosingCallIsSafe ==
    ASSUME UIInv, NEW ov \in {"none", "name", "picker"}, ov = "picker" => overlay = "picker",
           NEW call, call.op \notin Resets,
           call.op = "plot" => call.arg \in 0..plots - 1, call.op # "scarecrow",
           UNCHANGED farm, Settle(ov, pending), did' = call, UNCHANGED <<board, gone>>, Stay
    PROVE  Safe
<1>1. Grown /\ pending = None /\ ~(done' > done) /\ plots' = plots
  BY FarmStays DEF farm
<1>2. /\ scr \in Screens /\ cursor \in Nat /\ scareSel \in Nat \cup {-1} /\ ov \in Overlays
      /\ ov = "picker" => cursor \in 0..plots - 1
  BY DEF UIInv, Handled, ViewOk, Overlays
<1>3. BoardOk' /\ gone' \in BOOLEAN
  BY BoardStays
<1>4. PlotCallsAreInRange'
  BY <1>1 DEF PlotCallsAreInRange
<1>5. Handled' /\ Announces
  BY <1>1, <1>2, <1>3, <1>4, Landed DEF Grown, Stay, Look, None
<1> QED
  BY <1>5 DEF Safe

LEMMA PickerKeyIsSafe ==
    ASSUME UIInv, overlay = "picker", NEW key, PickerKey(key)
    PROVE  Safe
<1> DEFINE call == Call("plot", cursor)
<1>1. CASE Quiet("none")
  BY <1>1, QuietIsSafe DEF Overlays
<1>2. CASE /\ Accepted(call, UNCHANGED farm, "none") \/ Refused(call, "picker")
           /\ UNCHANGED <<board, gone>> /\ Stay
  <2>1. call.op = "plot" /\ call.arg = cursor /\ cursor \in 0..plots - 1
    BY DEF Call, UIInv, Handled, ViewOk
  <2>2. call.op \notin Resets /\ call.op # "scarecrow"
    BY <2>1 DEF Resets
  <2>3. /\ UNCHANGED farm /\ did' = call
        /\ Settle("none", pending) \/ Settle("picker", pending)
    BY <1>2, FarmStays DEF Accepted, Refused
  <2> HIDE DEF call
  <2> QED
    BY <1>2, <2>1, <2>2, <2>3, ClosingCallIsSafe
<1> QED
  BY <1>1, <1>2 DEF PickerKey

LEMMA UpgradeKeyIsSafe ==
    ASSUME UIInv, overlay = "upgrade", NEW key, UpgradeKey(key)
    PROVE  Safe
<1>1. CASE Quiet("none")
  BY <1>1, QuietIsSafe DEF Overlays
<1>2. ASSUME NEW i \in 0..plots - 1, Act(Call("plot", i), UNCHANGED farm)
      PROVE  Safe
  <2> DEFINE call == Call("plot", i)
  <2>1. call.op = "plot" /\ call.arg = i /\ cursor \in Nat /\ scareSel \in Nat \cup {-1}
    BY DEF Call, UIInv, Handled, ViewOk
  <2>2. call.op \notin Resets
    BY <2>1 DEF Resets
  <2>3. /\ Settle(overlay, Announced) /\ Grown /\ ~(done' > done)
        /\ did' = call /\ UNCHANGED <<board, gone>> /\ Look(scr, cursor, scareSel)
    BY <1>2, FarmStays DEF Act, ActAt, Accepted, Refused
  <2> HIDE DEF call
  <2> QED
    BY <2>1, <2>2, <2>3, Acted
<1> QED
  BY <1>1, <1>2 DEF UpgradeKey

LEMMA NameKeyIsSafe == ASSUME UIInv, NEW key, NameKey(key) PROVE Safe
<1> DEFINE call == Call("other", 0)
<1>1. CASE Quiet("none")
  BY <1>1, QuietIsSafe DEF Overlays
<1>2. CASE /\ Accepted(call, UNCHANGED farm, "none") \/ Refused(call, "name")
           /\ UNCHANGED <<board, gone>> /\ Stay
  <2>1. call.op = "other"
    BY DEF Call
  <2>2. call.op \notin Resets
    BY <2>1 DEF Resets
  <2>3. /\ UNCHANGED farm /\ did' = call
        /\ Settle("none", pending) \/ Settle("name", pending)
    BY <1>2, FarmStays DEF Accepted, Refused
  <2> HIDE DEF call
  <2> QED
    BY <1>2, <2>1, <2>2, <2>3, ClosingCallIsSafe
<1> QED
  BY <1>1, <1>2 DEF NameKey

LEMMA AckReplantIsSafe == ASSUME UIInv, AckReplant PROVE Safe
<1> DEFINE call == Call("other", 0)
<1>1. call.op = "other"
  BY DEF Call
<1>2. call.op \notin Resets
  BY <1>1 DEF Resets
<1>3. /\ UNCHANGED farm /\ did' = call /\ Settle("none", pending)
      /\ UNCHANGED <<board, gone>> /\ Stay
  BY DEF AckReplant, Refused
<1> HIDE DEF call
<1> QED
  BY <1>1, <1>2, <1>3, ClosingCallIsSafe

LEMMA DevKeyIsSafe == ASSUME UIInv, NEW key, DevKey(key) PROVE Safe
BY QuietIsSafe, PlainCallIsSafe, BoughtIsSafe DEF DevKey, Overlays

(* The three resets close their modal whatever the call says, and announce *)
(* a contract that the rebirth has won.                                    *)
LEMMA ResetLands ==
    ASSUME UIInv, NEW call, call.op \in Resets, Settle("none", Announced), did' = call,
           UNCHANGED <<board, gone>>, FarmOk', done' > done => active # None,
           NEW s \in Screens, NEW c \in Nat, Look(s, c, scareSel)
    PROVE  Handled' /\ Announces /\ overlay' \in {"none", "reward"}
<1>1. scareSel \in Nat \cup {-1} /\ Announced \in 0..3 /\ "none" \in Overlays
  BY DEF UIInv, Handled, FarmOk, ViewOk, Announced, Overlays, None
<1>2. BoardOk' /\ gone' \in BOOLEAN
  BY BoardStays
<1>3. PlotCallsAreInRange'
  BY DEF PlotCallsAreInRange, Resets
<1>4. done' > done => Announced = active
  BY DEF Announced
<1> QED
  BY <1>1, <1>2, <1>3, <1>4, Landed DEF Look

LEMMA RebirthIsConfirmed ==
    ASSUME UIInv, overlay = "rebirth", NEW key, NEW by, RebirthConfirmKey(key, by)
    PROVE  Outcome(key, by)
<1> DEFINE call == ResetCall("rebirth", 0, by)
<1>1. CASE Quiet("none")
  BY <1>1, QuietIsSafe, SafeIsAnOutcome DEF Overlays
<1>2. CASE key = "y" /\ ( \/ Accepted(call, Rebirth, "none") /\ Look(scr, 0, scareSel)
                          \/ Refused(call, "none") /\ Stay )
                     /\ UNCHANGED <<board, gone>>
  <2>1. call.op = "rebirth" /\ call.by = by
    BY DEF ResetCall
  <2>2. call.op \in Resets /\ scr \in Screens /\ cursor \in Nat
    BY <2>1 DEF Resets, UIInv, Handled, ViewOk
  <2>3. /\ did' = call /\ Settle("none", Announced)
        /\ FarmOk' /\ (done' > done => active # None)
    BY <1>2, FarmStays, RebirthIsSound DEF Accepted, Refused, Grown
  <2>4. Look(scr, 0, scareSel) \/ Look(scr, cursor, scareSel)
    BY <1>2 DEF Stay
  <2> HIDE DEF call
  <2>5. Handled' /\ Announces /\ overlay' \in {"none", "reward"}
    BY <1>2, <2>2, <2>3, <2>4, ResetLands
  <2> QED
    BY <1>2, <2>1, <2>3, <2>5 DEF Outcome, Confirmed
<1> QED
  BY <1>1, <1>2 DEF RebirthConfirmKey

LEMMA TermsAreConfirmed ==
    ASSUME UIInv, overlay = "terms", NEW key, NEW by, TermsKey(key, by)
    PROVE  Outcome(key, by)
<1> DEFINE call == ResetCall(asks.kind, asks.id, by)
<1>1. CASE Quiet("none")
  BY <1>1, QuietIsSafe, SafeIsAnOutcome DEF Overlays
<1>2. CASE /\ key = "y" /\ asks.kind \in {"abandon", "start"}
           /\ \/ Accepted(call, AbandonContract, "none") /\ Stay
              \/ Accepted(call, StartContract(asks.id), "none") /\ Look("farm", 0, scareSel)
              \/ Refused(call, "none") /\ Stay
           /\ UNCHANGED <<board, gone>>
  <2>1. call.op = asks.kind /\ call.arg = asks.id /\ call.by = by
    BY DEF ResetCall
  <2>2. call.op \in Resets /\ scr \in Screens /\ cursor \in Nat /\ asks \in Asked
    BY <1>2, <2>1 DEF Resets, UIInv, Handled, ViewOk
  <2>3. AbandonContract => FarmOk' /\ ~(done' > done)
    BY ResetIsSound DEF AbandonContract, None
  <2>4. StartContract(asks.id) => FarmOk' /\ ~(done' > done)
    BY <2>2, ResetIsSound DEF StartContract, Asked
  <2>5. /\ did' = call /\ Settle("none", Announced)
        /\ FarmOk' /\ (done' > done => active # None)
    BY <1>2, <2>3, <2>4, FarmStays DEF Accepted, Refused, Grown
  <2>6. Look(scr, cursor, scareSel) \/ Look("farm", 0, scareSel)
    BY <1>2 DEF Stay
  <2>7. asks = Asks(call.op, call.arg) /\ call.op # "rebirth"
    BY <1>2, <2>1, <2>2 DEF Asks, Asked
  <2> HIDE DEF call
  <2>8. Handled' /\ Announces /\ overlay' \in {"none", "reward"}
    BY <1>2, <2>2, <2>5, <2>6, NamedScreens, ResetLands
  <2> QED
    BY <1>2, <2>1, <2>5, <2>7, <2>8 DEF Outcome, Confirmed
<1> QED
  BY <1>1, <1>2 DEF TermsKey

LEMMA OverlayKeysEnd ==
    ASSUME UIInv, NEW key, NEW by, OverlayKey(key, by)
    PROVE  Outcome(key, by)
<1>1. CASE overlay = "dev" /\ DevKey(key)
  BY <1>1, DevKeyIsSafe, SafeIsAnOutcome
<1>2. CASE Quit
  BY <1>2, QuitIsSafe, SafeIsAnOutcome
<1>3. CASE Quiet("none")
  BY <1>3, QuietIsSafe, SafeIsAnOutcome DEF Overlays
<1>4. CASE overlay = "tutorial" /\ TutorialKey(key)
  BY <1>4, QuietIsSafe, NothingIsSafe, SafeIsAnOutcome DEF TutorialKey, Overlays
<1>5. CASE overlay = "picker" /\ PickerKey(key)
  BY <1>5, PickerKeyIsSafe, SafeIsAnOutcome
<1>6. CASE overlay = "upgrade" /\ UpgradeKey(key)
  BY <1>6, UpgradeKeyIsSafe, SafeIsAnOutcome
<1>7. CASE overlay = "name" /\ NameKey(key)
  BY <1>7, NameKeyIsSafe, SafeIsAnOutcome
<1>8. CASE overlay = "config" /\ ConfigKey(key)
  BY <1>8, QuietIsSafe, PlainCallIsSafe, SafeIsAnOutcome DEF ConfigKey, ToggleConfig, Overlays
<1>9. CASE overlay = "replant" /\ AckReplant
  BY <1>9, AckReplantIsSafe, SafeIsAnOutcome
<1> QED
  BY <1>1, <1>2, <1>3, <1>4, <1>5, <1>6, <1>7, <1>8, <1>9,
     RebirthIsConfirmed, TermsAreConfirmed DEF OverlayKey

LEMMA KeysEnd ==
    ASSUME UIInv, NEW key, NEW by, HandleKey(key, by)
    PROVE  Outcome(key, by)
<1>1. CASE key = "ctrl+c" /\ RequestQuit
  BY <1>1, RequestQuitIsSafe, SafeIsAnOutcome
<1>2. CASE Quiet(IF overlay = "dev" THEN "none" ELSE "dev")
  BY <1>2, QuietIsSafe, SafeIsAnOutcome DEF Overlays
<1>3. CASE OverlayKey(key, by)
  BY <1>3, OverlayKeysEnd
<1>4. CASE overlay = "none" /\ (GlobalKey(key) \/ ScreenKey(key))
  BY <1>4, GlobalKeyIsSafe, ScreenKeyIsSafe, SafeIsAnOutcome
<1>5. CASE Nothing
  BY <1>5, NothingIsSafe, SafeIsAnOutcome
<1> QED
  BY <1>1, <1>2, <1>3, <1>4, <1>5 DEF HandleKey

-----------------------------------------------------------------------------
(* The mouse. *)

(* Where the hits on plots and scarecrows come from; the empty box is none. *)
LEMMA HitsArePlaces ==
    ASSUME UIInv, NEW box \in Hits
    PROVE  /\ box[1] = "plot" => overlay = "none" /\ box[2] \in 0..plots - 1
           /\ box[1] = "scarecrow" => overlay = "none" /\ box[2] \in 0..scares - 1
           /\ box[1] = "nav" => box[2] \in 1..8
           /\ box # NoBox
<1>1. \A r : Row(r)[1] = r /\ (\A i : Box(r, i)[1] = r /\ Box(r, i)[2] = i)
  BY DEF Row, Box
<1>2. scr \in {"farm", "market", "land", "rebirth", "starshop", "contracts",
               "stats", "board", "help"}
  BY DEF UIInv, Handled, ViewOk, Screens, ScreenOrder
<1>3. CASE overlay = "none" /\ box \in NavHits
  BY <1>3 DEF NavHits, Box, NoBox
<1>4. CASE overlay = "none" /\ box \in ScreenHits
  <2>1. CASE scr = "farm"
    BY <1>4, <2>1 DEF ScreenHits, Row, Box, NoBox
  <2>2. CASE scr # "farm"
    BY <1>2, <1>4, <2>2 DEF ScreenHits, Row, Box, NoBox
  <2> QED
    BY <2>1, <2>2
<1>5. CASE overlay # "none" /\ overlay # "kicked"
  <2>1. box \in {Row("overlay:bg"), Row("overlay:close")} \cup OverlayHits
    BY <1>5 DEF Hits
  <2>2. box[1] \notin {"plot", "scarecrow", "nav", "none"}
    BY <1>1, <2>1 DEF OverlayHits
  <2> QED
    BY <2>2 DEF NoBox, Box
<1> QED
  BY <1>3, <1>4, <1>5 DEF Hits

LEMMA PlotClickIsSafe ==
    ASSUME UIInv, overlay = "none", NEW i \in 0..plots - 1, PlotClick(i)
    PROVE  Safe
<1>1. i \in Nat
  BY DEF UIInv, Handled, FarmOk
<1> QED
  BY <1>1, EnterFarmIsSafe, SelectIsSafe DEF PlotClick

LEMMA ScarecrowClickIsSafe ==
    ASSUME UIInv, overlay = "none", NEW k \in 0..scares - 1, ScarecrowClick(k)
    PROVE  Safe
<1>1. k \in Nat /\ k >= 0 /\ cursor \in Nat
  BY DEF UIInv, Handled, FarmOk, ViewOk
<1> QED
  BY <1>1, EnterFarmIsSafe, SelectIsSafe DEF ScarecrowClick

(* Of the keys a click stands for, only "y" resets the farm.               *)
LEMMA KeysButYAreSafe ==
    ASSUME UIInv, NEW key \in {"enter", "b", "R", "1"}, HandleKey(key, "click")
    PROVE  Safe
<1>1. Outcome(key, "click")
  BY KeysEnd
<1> QED
  BY <1>1 DEF Outcome, Confirmed, Safe

LEMMA DismissIsSafe == ASSUME UIInv, DismissOverlay PROVE Safe
BY AckReplantIsSafe, QuietIsSafe DEF DismissOverlay, Overlays

(* A click does what a key does, and resets the farm only when it is the   *)
(* second on the button.                                                   *)
LEMMA ClicksEnd ==
    ASSUME UIInv, NEW box \in Hits, NEW double \in BOOLEAN, DispatchHit(box, double)
    PROVE  Safe \/ (double /\ Outcome("y", "click"))
<1> DEFINE kind == box[1]
           i    == box[2]
<1>1. CASE kind = "nav" /\ Goto(ScreenOrder[i])
  BY <1>1, HitsArePlaces, OrderedScreens, GotoIsSafe
<1>2. CASE kind = "plot" /\ PlotClick(i)
  BY <1>2, HitsArePlaces, PlotClickIsSafe
<1>3. CASE kind = "scarecrow" /\ ScarecrowClick(i)
  BY <1>3, HitsArePlaces, ScarecrowClickIsSafe
<1>4. CASE IF double THEN HandleKey("y", "click") ELSE Nothing
  BY <1>4, KeysEnd, NothingIsSafe
<1>5. CASE \E key \in {"enter", "b", "R", "1"} : HandleKey(key, "click")
  BY <1>5, KeysButYAreSafe
<1>6. CASE Nothing \/ DismissOverlay \/ Quiet("none") \/ Quiet("config")
  BY <1>6, NothingIsSafe, DismissIsSafe, QuietIsSafe DEF Overlays
<1>7. CASE DevKey("enter") \/ Goto("market") \/ OpenRename \/ RefreshBoard \/ ConfigKey("enter")
  <2>1. ConfigKey("enter") => Safe
    BY QuietIsSafe, PlainCallIsSafe DEF ConfigKey, ToggleConfig, Overlays
  <2> QED
    BY <1>7, <2>1, DevKeyIsSafe, GotoIsSafe, NamedScreens, OpenRenameIsSafe, RefreshBoardIsSafe
<1> QED
  BY <1>1, <1>2, <1>3, <1>4, <1>5, <1>6, <1>7 DEF DispatchHit

-----------------------------------------------------------------------------
(* The messages. *)

(* What a step promises beyond the invariant.                              *)
ResetStep ==
    did'.op \in Resets =>
        /\ overlay = (IF did'.op = "rebirth" THEN "rebirth" ELSE "terms")
        /\ did'.op # "rebirth" => asks = Asks(did'.op, did'.arg)
        /\ did'.by = "click" => lastClick \in ResetButtons
        /\ overlay' \in {"none", "reward"}

Good == UIInv' /\ Announces /\ ResetStep

LEMMA SafeSteps == ASSUME Safe, Kept' PROVE Good
BY DEF Safe, Good, UIInv, ResetStep

LEMMA KeySteps == ASSUME UIInv, NEW key, Key(key) PROVE Good
<1>1. Outcome(key, "key")
  BY KeysEnd DEF Key
<1>2. Kept'
  <2>1. idle' \in 0..IdleTimeout
    BY UIAssumption DEF Key
  <2> QED
    BY <1>1, <2>1 DEF Key, UIInv, Handled, Kept, Outcome, sess
<1> QED
  BY <1>1, <1>2 DEF Good, UIInv, Outcome, Confirmed, ResetStep

LEMMA ClickSteps == ASSUME UIInv, NEW box \in Hits, Click(box) PROVE Good
<1>1. Safe \/ (box = lastClick /\ Outcome("y", "click"))
  <2>1. CASE box = Row("overlay:bg")
    BY <2>1, DismissIsSafe DEF Click
  <2>2. CASE box # Row("overlay:bg")
    <3> DEFINE double == box = lastClick
    <3>1. double \in BOOLEAN /\ DispatchHit(box, double)
      BY <2>2 DEF Click
    <3> QED
      BY <3>1, ClicksEnd
  <2> QED
    BY <2>1, <2>2
<1>2. Kept'
  <2>1. idle' \in 0..IdleTimeout
    BY UIAssumption DEF Click
  <2> QED
    BY <1>1, <2>1 DEF Click, UIInv, Handled, Kept, Safe, Outcome, sess
<1>3. CASE Safe
  BY <1>2, <1>3, SafeSteps
<1>4. CASE box = lastClick /\ Outcome("y", "click")
  <2>1. did'.op \in Resets => lastClick \in ResetButtons
    BY <1>4, HitsArePlaces DEF UIInv, Kept
  <2> QED
    BY <1>2, <1>4, <2>1 DEF Good, UIInv, Outcome, Confirmed, ResetStep
<1> QED
  BY <1>1, <1>3, <1>4

LEMMA WheelSteps == ASSUME UIInv, NEW delta \in {-1, 1}, Wheel(delta) PROVE Good
<1> DEFINE to == Scroll(delta, FarmSelection[1], FarmSelection[2])
<1>1. to[1] \in Nat /\ to[2] \in Nat \cup {-1}
  BY SelectionIsOnTheFarm, ScrollIsTyped
<1>2. (overlay = "none" /\ Select(to)) \/ Nothing
  BY DEF Wheel
<1>3. UNCHANGED <<save, win, lastClick, quitIn, ticks, sess>> /\ idle' = 0
  BY DEF Wheel
<1> HIDE DEF to
<1>4. Safe
  BY <1>1, <1>2, SelectIsSafe, NothingIsSafe
<1>5. gone' = gone
  BY <1>2 DEF Select, Nothing, Quiet
<1>6. idle' \in 0..IdleTimeout
  BY <1>3, UIAssumption
<1>7. Kept'
  BY <1>3, <1>5, <1>6 DEF UIInv, Kept, sess
<1> QED
  BY <1>4, <1>7, SafeSteps

(* The program stays as it is: a message that changes no screen.           *)
LEMMA StayIsSafe ==
    ASSUME UIInv, Settle(overlay, pending), did' = NoCall, UNCHANGED <<farm, gone>>, BoardOk',
           NEW w, LookIn(w, scr, cursor, scareSel)
    PROVE  Safe
<1>1. /\ overlay \in Overlays /\ scr \in Screens /\ cursor \in Nat /\ scareSel \in Nat \cup {-1}
      /\ overlay = "picker" => cursor \in 0..plots - 1
  BY DEF UIInv, Handled, ViewOk
<1> QED
  BY <1>1, Still

LEMMA KickIsSafe ==
    ASSUME UIInv, Settle("kicked", pending), did' = NoCall, UNCHANGED <<board, farm, gone>>, Stay
    PROVE  Safe
<1>1. /\ "kicked" \in Overlays /\ scr \in Screens
      /\ cursor \in Nat /\ scareSel \in Nat \cup {-1} /\ BoardOk'
  BY BoardStays DEF UIInv, Handled, ViewOk, Overlays
<1> QED
  BY <1>1, Still DEF Stay, Look

LEMMA ResizeSteps == ASSUME UIInv, NEW w \in Windows, Resize(w) PROVE Good
<1>1. Safe
  BY BoardStays, StayIsSafe DEF Resize
<1>2. Kept'
  BY DEF Resize, UIInv, Handled, Kept, sess
<1> QED
  BY <1>1, <1>2, SafeSteps

LEMMA ColorProfileSteps == ASSUME UIInv, ColorProfile PROVE Good
<1>1. BoardOk'
  BY DEF ColorProfile, UIInv, Handled, BoardOk
<1>2. Safe
  BY <1>1, StayIsSafe DEF ColorProfile, Stay, Look
<1>3. Kept'
  BY DEF ColorProfile, UIInv, Handled, Kept, sess
<1> QED
  BY <1>2, <1>3, SafeSteps

(* The chain's flag is dropped with its last message.                      *)
LEMMA BoardAnimSteps == ASSUME UIInv, BoardAnimMsg PROVE Good
<1>1. BoardOk'
  <2>1. BoardOk /\ ~gone /\ anims = 1 /\ animRunning = TRUE
    BY DEF BoardAnimMsg, UIInv, Handled, BoardOk
  <2>2. CASE wave
    BY <2>1, <2>2 DEF BoardAnimMsg, BoardOk
  <2>3. CASE ~wave
    <3>1. animRunning' = FALSE /\ anims' = 0
      BY <2>1, <2>3 DEF BoardAnimMsg
    <3>2. wave' = wave
      BY DEF BoardAnimMsg
    <3> QED
      BY <2>1, <3>1, <3>2 DEF BoardOk
  <2> QED
    BY <2>2, <2>3
<1>2. Safe
  BY <1>1, StayIsSafe DEF BoardAnimMsg, Stay, Look
<1>3. Kept'
  BY DEF BoardAnimMsg, UIInv, Handled, Kept, sess
<1> QED
  BY <1>2, <1>3, SafeSteps

LEMMA EvictSteps == ASSUME UIInv, Evict PROVE Good
<1>1. did'.op = "none" /\ UNCHANGED <<scr, modal, place, board, farm, gone>>
  BY DEF Evict, NoCall, Call
<1>2. Grown /\ BoardOk' /\ gone' \in BOOLEAN /\ ~(done' > done)
  BY <1>1, FarmStays, BoardStays
<1>3. ViewOk'
  BY <1>1 DEF UIInv, Handled, ViewOk, modal, place, farm
<1>4. PlotCallsAreInRange' /\ Announces /\ did'.op \notin Resets
  BY <1>1, <1>2 DEF PlotCallsAreInRange, Announces, Resets
<1>5. Safe
  BY <1>2, <1>3, <1>4 DEF Safe, Handled, Grown
<1>6. Kept'
  BY DEF Evict, UIInv, Handled, Kept
<1> QED
  BY <1>5, <1>6, SafeSteps

LEMMA KickedSteps == ASSUME UIInv, KickedMsg PROVE Good
<1>1. Safe
  BY KickIsSafe DEF KickedMsg
<1>2. Kept'
  BY DEF KickedMsg, UIInv, Handled, Kept, GoodbyeSeconds
<1> QED
  BY <1>1, <1>2, SafeSteps

(* A tick ends the program and its own chain, or goes on with both.        *)
LEMMA TickSteps == ASSUME UIInv, NEW d \in ClockSteps, Tick(d) PROVE Good
<1>1. /\ d \in Nat \ {0} /\ ticks = 1 /\ quitIn \in 0..GoodbyeSeconds /\ idle \in 0..IdleTimeout
      /\ IdleTimeout \in Nat /\ save \in Saves /\ win \in Windows
      /\ owner \in BOOLEAN /\ notice \in {"none", "sent", "read"}
  BY UIAssumption DEF Tick, UIInv, Handled, Kept
<1>2. /\ lastClick' \in ResetButtons \cup {NoBox}
      /\ UNCHANGED <<save, win, owner, notice>>
  BY DEF Tick, sess
<1>3. CASE Quit /\ ticks' = ticks - 1 /\ quitIn' \in 0..GoodbyeSeconds /\ idle' \in 0..IdleTimeout
  <2>1. Safe
    BY <1>3, QuitIsSafe
  <2>2. Kept'
    BY <1>1, <1>2, <1>3 DEF Kept, Quit
  <2> QED
    BY <2>1, <2>2, SafeSteps
<1>4. CASE /\ ~gone /\ ticks' = ticks /\ gone' = gone
           /\ quitIn' \in 0..GoodbyeSeconds /\ idle' \in 0..IdleTimeout
           /\ Safe
  <2>1. Kept'
    BY <1>1, <1>2, <1>4 DEF Kept
  <2> QED
    BY <1>4, <2>1, SafeSteps
<1>5. CASE GoodbyeIsOver(d) /\ Quit /\ ticks' = ticks - 1 /\ UNCHANGED <<quitIn, idle>>
  BY <1>1, <1>3, <1>5
<1>6. CASE /\ Settle("kicked", pending) /\ did' = NoCall
           /\ quitIn' = GoodbyeSeconds /\ idle' = 0 /\ UNCHANGED ticks
           /\ UNCHANGED <<board, farm, gone>> /\ Stay
  <2>1. Safe
    BY <1>6, KickIsSafe
  <2> QED
    BY <1>1, <1>4, <1>6, <2>1 DEF Tick, GoodbyeSeconds
<1>7. CASE /\ ~GoodbyeIsOver(d) /\ ~IsIdle(d)
           /\ quitIn' = IF quitIn = 0 THEN 0 ELSE quitIn - d
           /\ idle' = IF overlay = "kicked" THEN 0 ELSE Min2(idle + d, IdleTimeout)
           /\ IF ~owner THEN Quit /\ ticks' = ticks - 1
              ELSE /\ Settle(overlay, pending) /\ did' = NoCall
                   /\ UNCHANGED <<farm, gone, ticks>>
                   /\ \E w \in IF scr = "board" THEN BOOLEAN ELSE {FALSE} : StartWave(scr, w)
                   /\ Stay
  <2>1. quitIn' \in 0..GoodbyeSeconds
    BY <1>1, <1>7 DEF GoodbyeIsOver, GoodbyeSeconds
  <2>2. idle' \in 0..IdleTimeout
    BY <1>1, <1>7 DEF Min2
  <2>3. CASE ~owner
    BY <1>3, <1>7, <2>1, <2>2, <2>3
  <2>4. CASE owner
    <3>1. PICK w \in BOOLEAN : StartWave(scr, w)
      BY <1>7, <2>4
    <3>2. BoardOk'
      BY <1>7, <2>4, <3>1, WaveStarts
    <3>3. Safe
      BY <1>7, <2>4, <3>2, StayIsSafe DEF Stay, Look
    <3> QED
      BY <1>4, <1>7, <2>1, <2>2, <2>4, <3>3 DEF Tick
  <2> QED
    BY <2>3, <2>4
<1> QED
  BY <1>5, <1>6, <1>7 DEF Tick

-----------------------------------------------------------------------------
(* The whole session. *)

LEMMA UIStarts == Init => UIInv
<1> SUFFICES ASSUME Init PROVE UIInv
  OBVIOUS
<1>1. /\ StartPlots \in Nat \ {0}
      /\ save.land \in Nat /\ save.posts \in Nat /\ save.contracts \in 0..3
  BY SeenAssumption DEF Init, FarmIsDue
<1>2. FarmOk
  BY <1>1 DEF Init, FarmIsDue, FarmOk, None
<1>3. ViewOk
  BY NamedScreens DEF Init, ViewOk, Overlays, Asked, NoAsk, Asks, None
<1>4. BoardOk /\ gone \in BOOLEAN
  BY DEF Init, BoardOk
<1>5. PlotCallsAreInRange
  BY DEF Init, PlotCallsAreInRange, NoCall, Call
<1>6. Kept
  BY UIAssumption DEF Init, FarmIsDue, Kept, Windows, GoodbyeSeconds
<1> QED
  BY <1>2, <1>3, <1>4, <1>5, <1>6 DEF UIInv, Handled

LEMMA NothingMoves == UIInv /\ UNCHANGED vars => UIInv'
BY DEF UIInv, Handled, Kept, FarmOk, ViewOk, BoardOk, PlotCallsAreInRange,
       vars, place, modal, board, farm, sess

LEMMA UISteps == UIInv /\ Next => Good \/ UNCHANGED vars
BY KeySteps, ClickSteps, WheelSteps, ResizeSteps, ColorProfileSteps, BoardAnimSteps,
   EvictSteps, KickedSteps, TickSteps DEF Next, Ticks, Ended

(* Whatever is typed and clicked, and whenever the actor lets go: the      *)
(* farm, the modal, the selection and the chains fit each other.           *)
THEOREM UIInvariant == Spec => []UIInv
<1>1. UIInv /\ [Next]_vars => UIInv'
  BY UISteps, NothingMoves DEF Good
<1> QED
  BY UIStarts, <1>1, PTL DEF Spec

(* The state of the model has the types of the code's fields.              *)
THEOREM TypeCorrect == Spec => []TypeOK
BY UIInvariant, UIInvMeans, PTL

(* One tick chain and at most one wave chain, however often the board is   *)
(* left and entered before the old chain's message comes in.               *)
THEOREM OneChainEach == Spec => []ChainsAreSingle
BY UIInvariant, UIInvMeans, PTL

(* No handler calls the session with a plot or a scarecrow that the farm   *)
(* does not have, however it shrank under the cursor.                      *)
THEOREM CallsNamePlotsThatAreThere == Spec => []PlotCallsAreInRange
BY UIInvariant, UIInvMeans, PTL

(* Only the confirm modal resets a farm, for the contract it named, once,  *)
(* and with the mouse only by a second click on its button.                *)
THEOREM ResetsNeedTheirModal == Spec => ResetsAreConfirmed
<1>1. UIInv /\ [Next]_vars =>
        [did'.op \in {"start", "abandon", "rebirth"} =>
           /\ overlay = (IF did'.op = "rebirth" THEN "rebirth" ELSE "terms")
           /\ did'.op # "rebirth" => asks = Asks(did'.op, did'.arg)
           /\ did'.by = "click" => lastClick \in ResetButtons
           /\ overlay' \in {"none", "reward"}]_vars
  BY UISteps DEF Good, ResetStep, Resets
<1> QED
  BY UIInvariant, <1>1, PTL DEF Spec, ResetsAreConfirmed

(* The Update that wins a contract, by any call but harvest-all, ends with *)
(* the reward modal open on it and an empty queue.                         *)
THEOREM RewardsOpenAtOnce == Spec => WinsAreAnnounced
<1>1. UIInv /\ [Next]_vars =>
        [done' > done /\ did'.op # "harvestAll" =>
           overlay' = "reward" /\ reward' = active /\ pending' = None]_vars
  BY UISteps DEF Good, Announces, UIInv, Handled, ViewOk
<1> QED
  BY UIInvariant, <1>1, PTL DEF Spec, WinsAreAnnounced
=============================================================================
