# ssh-farm, specified

TLA+ modules, TLC configurations and TLAPS proofs for ssh-farm, a farming game
that players reach over SSH. The server keeps every open farm in memory, in a
goroutine of its own, writes it to SQLite now and then, and shows all farms on
one leaderboard. What is specified here is what makes that correct: who may
change a farm, when it is written and what may be lost, what names the public
sees, how guesses at the name filter are rationed, how the campaign's contracts
start, end and reset, what a farm becomes while nobody looks, how viewers share
one board, who reaches which farm through which door, and what the terminal UI
does with keys, clicks and messages that arrive in any order.

Paths below are relative to `src/`. `PROJECT.json` holds the machine-readable
form of all this: for every definition the lines it stands for (`map`), for
every property a plausible bug that breaks it (`mutants`), the hazards with the
properties that cover them, the runs, the theorems and the findings.

## 1. Inventory

| Component | State it keeps | Operations | What is hard about it |
|---|---|---|---|
| Save manager `internal/game/manager.go` | `mu`, `closing`, registry `actors` | `Attach`, `detach`, `Shutdown`, `stopActorLocked` | `mu` is held across waits for actors; takeover, detach and flush race |
| Actor `internal/game/actor.go` | farm state, `dirty`, owning session, `stop`/`done` | `run`, `do`, `persist`, `advance` | a mailbox, a ticker and a stop channel in one select; failed writes |
| Session `internal/game/session.go` | its actor, `kickOnce`, notice | intents, `Advance`, `Detach`, `RenameFarm`, `deliverKick` | stale sessions keep sending; three parties close one channel |
| Store `internal/store/store.go` | SQLite: saves, accounts, contracts | load/create, persist, `GateRename`, `LockName`, board query, backup | failing writes; columns beside a blob; operators write directly |
| Simulation `internal/sim` | one farm: wallet, plots, scarecrows, campaign, statistics | `Advance`, harvest, purchases, `Rebirth`, contracts, gifts, critters | many paths credit coins; a contract may end in the middle of one |
| Leaderboard `internal/leaderboard/engine.go` | `ranked`, `builtAt`, `building` | `Get`, `snapshot`, `rebuild` | single flight with hand-over after the unlock; failures; ttl |
| Moderation `internal/moderation` | the denylist, swapped atomically | `Filter`, `Validate`, `Generate`, `Reload` | swapped while names are being judged and boards built |
| Reconcile, import `internal/game/reconcile.go`, `cmd/ssh-farm/importv1.go` | rows | one pass at boot; one import | partial passes, columns that differ from blobs |
| SSH front end `internal/server` | session counts, a context per shell | limits, PTY, attach, program, and the way out | several shells share a connection; every way out gives the place back |
| Identity `internal/identity` | none | direct key and user name, or the lobby's encoding of them | one player, two doors; names cleaned, cut and defaulted |
| Terminal UI `internal/tui` | screen, overlay, cursor, queued reward, click memory, countdowns | keys, clicks, wheel, resize, tick, kick, board wave | the farm changes under the cursor and the modals; messages outlive screens |
| Process `internal/app`, `internal/config` | signals, deadline of the shutdown | boot, SIGHUP, SIGTERM | exits although the flush is not over |
| Content tables, season calendar, migrations, offline tools | none or immutable | parsing, lookups, SQL | nothing that needs states |

How they interact. An SSH handler resolves an identity, takes a place, calls
`Attach`, runs the UI over the `Session`, calls `Detach` when the UI ends and gives
the place back. `Attach`, `detach` and
the flush hold `Manager.mu`; under it they mail closures to actors, which run
them one at a time between autosaves. Actors write rows through the store. The
leaderboard reads the same rows on request of any UI and filters the names with
the denylist, which SIGHUP replaces. Operators change rows with SQL while the
server runs. On SIGTERM `app.Run` calls `Manager.Shutdown` with a deadline of
30 s while the listener is still up.

What makes each part correct:

* manager, actors, sessions: one writer per save; one owner, who knows it, and by whose
  hand alone the farm moves;
  nothing is lost that was not lost by a crash, a failed last write or the
  shutdown's deadline; nothing blocks for ever;
* rename budget: an upper bound on guesses in every window, and no lock-out;
* names: the column is the blob's name or has a reason not to be, locks hold, denied
  names go from the board for good;
* campaign: contracts in order, no goal missed, no gain counted twice or never,
  no forbidden thing carried along, no seal, statistic or upgrade lost to a reset that
  should not take it;
* plots: catching up late gives what looking on gives; no growth is lost or paid
  twice, no plot falls idle that could be sown (seeds and their season: section 5);
* board: one read at a time, nobody sees an older board than was shown before,
  every request returns;
* front end and identity: the counts are those of the handlers inside, a shell
  plays the farm it attached, one slot of one key is one farm through any door;
* UI: one chain of ticks and of waves, no call for a plot that is gone, no modal
  without a way out, no reset without its confirmation, no reward lost, and a
  program that was told to go goes.

Section "hazards" of `PROJECT.json` lists the places in the code where each of
these could go wrong.

## 2. Modules

| Module | What it is |
|---|---|
| `DurableSave` | abstract: what the server promises about a saved farm |
| `SaveManager` | manager, actors, sessions, flush, process |
| `SaveManagerProps` | the properties of `SaveManager`, with the refinement mapping |
| `FarmSeats` | abstract: what the handlers of connections may suppose of the manager |
| `SaveManager_proofs` | its inductive invariant, its safety, and that it implements `DurableSave` and `FarmSeats` |
| `RenameGate`, `RenameGate_proofs` | the rename budget; its bounds for all limits |
| `FarmSeen` | abstract: a farm as the terminal UI can tell it apart |
| `Campaign`, `Campaign_proofs` | the contracts campaign over the operations of one farm; all its properties for all amounts, and that it implements `FarmSeen` |
| `FarmClock`, `FarmClock_proofs` | plots, automation and `Advance` over absences; its properties for every length of absence, catalogue and number of plots |
| `FarmName`, `FarmName_proofs` | one farm's name between player, actor, operator, import, denylist and board |
| `BoardCache`, `BoardCache_proofs` | the shared snapshot of the leaderboard |
| `FrontDoor`, `FrontDoor_proofs` | connections, shells, identities, session limits, the chain around a program, over `FarmSeats` |
| `GameUI`, `GameUI_proofs` | the terminal UI of one session, over `FarmSeen`; its safety for all farms and windows |
| `MC*` | values for TLC |

The modules meet at two places, and there what one supposes the other provides:

    GameUI     runs over   FarmSeen    which   Campaign      implements
    FrontDoor  runs over   FarmSeats   which   SaveManager   implements

Each abstract module is the interface of two components and is used from both sides:
the upper one calls its operations (`Manager!Attach`), the lower one is shown to
implement it under a mapping of its variables (`ImplementsFarmSeats`). So a property
of the UI that depends on what a purchase or a rebirth does to the farm is a property of the UI
over this simulation, and not over one that was made up for it. What the interfaces do
not carry over is fairness; see section 4.

Two conventions. A definition whose name ends in `_Faulty` (or `_Silent`,
`_Never`, `_Strict`) is a copy of the definition after it with a mistake; no action uses
it, and `PROJECT.json` names the property that the mistake breaks. A variable
commented "history" is not in the code: it remembers what a property speaks of
and no guard reads it.

### SaveManager

A connection is one run of `server.attachSave`: idle, attaching, joining, open,
detaching, stopping, leaving, gone. An actor is named after the connection that
started it, so `Conns` names both. A farm's contents are a version: 0 no save,
1 a new farm, one more for every change. All intents of `session.go` are one
action, `Intent`, since they all are "if I still own it, change the state and
set dirty". The atomic steps are the code's: one closure on the actor's
goroutine, or what one holder of `mu` does between two closures. So
`AttachBegin` takes `mu`, `AttachLoad`/`AttachReuse` find or start the actor,
`AttachJoin` is the closure that tells the old session and installs the new one;
`DetachBegin`, `DetachRelease` (closure: release, persist; then close `stop`),
`DetachReap` (the loop has ended; unregister), `Leave`. The flusher kicks
without `mu`, stops and reaps under it, as `Shutdown` does. `Persist` skips guests and clean
farms, and may fail; `FinalFlush` is the write on `stop`. `Die` (by `Crash` or
`Exit`) leaves only the rows; `Restart` is a new manager over them.

`DurableSave` says what this is for: the database receives only live versions,
and a live version is given up only if the process dies or a write of this save
has just failed. The mapping: live is the registered actor's version, or the
row's if there is none; failing is the outcome of the actor's last write; up is
up, so that what only a dying process may lose is not lost by a running one.

`FarmSeats` says what it is for to the handlers: every farm has one seat; who attaches
sits down and whoever sat there is told; who is told or wants to go detaches. An attach
takes no time there. The mapping: a connection holds its farm if the actor's session is its own
while it is open or waits for `mu` to detach, and is told if its notice was
delivered meanwhile. `AttachJoin` is then `Attach`, the closure of `DetachRelease` is
`Detach`, `FlushKick` is `LetGo`, and every other step of the manager is seen by nobody.
An `Attach` that fails, for the store or a closing manager, is no step: nobody sat down.

### RenameGate

`GateRename` is one transaction and one action, `Attempt`. The columns are
`lastAt`, `dayStart`, `dayCount`, `burst`, with the code's comparisons; a refused
attempt writes nothing and is no step. Limits and the clock are constants.

### Campaign

The state is one record, the fields of `sim.State` that a contract looks at or
changes. Each operation of `internal/sim` that credits, buys, forbids or resets
is an action; `Credit`, `CreditStarseeds`, `CheckCompletion`, `ResetGameplay`
and `FreshRun` are the code's functions of the same kind. Amounts come from
`Payouts` and saturate at `MaxCoin`, which stands for MaxInt64. Prices are left
out: a purchase may be affordable.

`FarmSeen` is this farm as the UI sees it: the numbers of plots and scarecrows, the
contract under way, how many are done and which doors of the star shop are open.
`ImplementsFarmSeen` has three parts: the farm begins and changes as one of `FarmSeen`;
what each operation shows is what the handlers suppose of that call (`CallsAreAsSeen`);
and every farm a session is opened on, new, mid-contract or between two, is one that
`GameUI` begins with (`FarmsAreDue`). Two facts about the data are needed, both
assumptions of the module. No crop asks for more lifetime earnings than a rebirth does,
and one asks for rebirths (`CatalogueAssumption`: 2,000 in `crops.toml`, 10,000 in
`balance.toml`), so that being paid never opens a door of the star shop; only a rebirth
or an upgrade does. And a farm starts with no more plots than its land has
(`LandAssumption`; `content.go` validates it). Making the two sides agree showed where
the UI's idea of the farm had been too narrow: a zone adds several plots at once, and a
rebirth, which banks the pouches first, may win any of the three contracts.

### FarmClock

Nothing runs on a farm that nobody looks at: `Advance` brings it up to date, and
every intent of a session begins with it (`session.go`, `intent`), so here every
action is `Advanced(farm, now, ..)` and then the operation, in one step. `Advanced`
settles the plots one after the other, each for the whole span, out of one wallet.
`Cycle` is one turn of the loop (harvest, pay, replant what is queued at the moment
of ripeness), `Turns` the loop, `Settle` the loop with what happens beyond its cap,
`Batch`: an estimate at once for a crop that pays, and nothing otherwise, so that a later
`Advance` goes on from `planted`, the cursor. `Found` is the farm as the plots find it
(events ended or begun, drops in the pouches), `Round` the plots, one after the other.
Loops are recursive functions over their turns. An event may begin on an online tick
and shortens growth until the first `Advance` at or after its end.

The scarecrows share one clock (`advanceScarecrows`): it counts unwatched seconds, a
watched second is worth `OfflineSlowdown` of them, and every `ClockTarget` drops a
fixed amount into each pouch, where it waits for `CollectScarecrow` or
`CollectScarecrows`.

`AbsencesAddUp` compares one long `Advance` with every way to cut it in two. Drops
add up wherever the parts and the whole run at one pace, and a cut never costs any:
watching can only speed the clock up. For plots and wallet its conditions say where that is promised: the wallet covers the first turn of every
plot that sows for itself, each of these pays from then on, no festival crop is
among them, and no event is on. What the absences do not add up to without them
is the code's design or its limits. A poor farm replants in the order of plots
rather than of time. An event that ended during the absence counts for nothing. And
the festival is looked up at the end of the absence (`advance.go:175`), for every sowing
in it: two assumptions of `MCFarmClock`, which TLC evaluates on `Advanced`, show what
that does (section 5). So no property speaks of the season of an automatic sowing.
`CapAssumption` holds for `crops.toml` by a wide margin (49,999 turns of a turnip
earn 199,996 coins, a seed costs 5); without it a farm at its last coin could stop at the
cap, since the batch asks for the seed before the next payout. That a drop is worth at
least a coin (`ScarecrowAssumption`) is what `content.go` validates: the table's minimum
is 1, and the bonuses only add to it.

### FarmName

Three copies of a name: blob, column, actor's memory; a fourth, filtered, on the
board. `RenameGated` and `RenameApplied` are the two halves of `RenameFarm`: the
gate's transaction and the filter with the assignment, between which the
operator may act. `Persist` writes both copies and does not look at the lock.
The board is built in three steps because the denylist may be swapped between
them. Denylists are sets of normal forms: how a name matches a denied word
(leetspeak, repeated letters) is a pure function of strings and is left out.

A farm begins as a row of `import-v1`, as a new one, or as one that is older than the
column, which the migration left empty beside a named blob. Every boot begins with the
pass of `reconcile.go`: `FindRows` reads the candidates and their blobs, `Backfill`
writes a column from what was read, or skips the row (undecodable, or a failed write), which
is then a candidate again at the next boot. The operator's SQL may come between the two,
and so may a crash; sessions, boards and SIGHUP may not, since `app.go` starts
them after the pass (`Serving`). `ColumnIsExplained` says what that order is
for: the name that the pass read is never written over a later persist. `apart` is
history: which writer left the column as it is.

### BoardCache

A viewer's `Get` serves the snapshot, waits on the build in flight, or builds:
`Read` (the query, may fail), `Publish` (under `mu`), `Close` (after `mu` is
released: the builder and everybody who waits on this build have its outcome).
Between `Publish` and `Close` another build may begin and end; that is what
`BoardNeverGoesBack` is about. The contents are a version of the table.

### FrontDoor

A transport is an SSH connection with its key and user name; each shell on it is
a goroutine that goes inward (`Enter` takes the place, `RequirePTY`, `Attach`,
`StartProgram`) and outward (`EndProgram`, `Detach`, `Leave`), in the order in which
`server.New` stacks the middlewares and their deferred calls. `Resolve` is
`Resolver.Resolve` with `ResolveSlot` and `SanitizeSlot` on short sequences of
characters, and `EncodeProxiedUsername` is what the lobby dials with. The manager
is `FarmSeats`, which `SaveManager` implements, with its `holds`, `told` and `closing`
(its `Die` is no action here: the process that dies takes the handlers with it);
the program may run for ever unless it is told to end or its connection is gone,
which is what `GameUI`'s `EvictedLeaves` is for. `means` is history: the slot that a
player has in mind, which `FarmsByPlayer` compares with the farm they get.

### GameUI

One action is one Bubble Tea `Update` with the `View` after it: the message's
handler, `showPendingReward`, and the clickable regions that drawing registers,
which on the farm also clamps the cursor. Every key and every clickable region of
every screen and overlay is there, with its call on the session and what the call
may do: succeed, be refused, find the session closed. The farm is `FarmSeen`'s,
which `Campaign` implements. Which row of a list is under the
cursor, and what grows on a plot, is left open, so a key may do what it does on any
of them. Between two ticks `g.now` stands still: a second click on a box is a double
click exactly if no tick came in between. `asks` and `reward`, which only their
overlay reads, are forgotten when it closes, the flag of the board's wave stands
for both colour and content, and the empty notice of `Detach`, which arrives only
after the program has ended, is left out.

## 3. Runs

| Run | Instance | States | Shows |
|---|---|---|---|
| `takeover` | 3 connections, 1 farm, 2 changes of it, takeover | 1.25 M | one writer, one informed owner, `mu` is never stuck and no actor stopped twice, clean means written, a farm moves only by its owner's hand (`UnattendedIsStill`), `DurableSave` is implemented |
| `refuse` | 2 connections on a farm, 2 of one guest, PolicyRefuse | 0.9 M | guests are not stored; `FarmSeats` is implemented, so the first comer keeps the farm |
| `live` | 2 connections, fair | 9 k | kicked sessions leave, shutdown drains, changes get written; `FarmSeats` is implemented under takeover |
| `front_door` | 2 transports of 2 shells, 3 places, 2 per key; direct, lobby, guest, garbled; fair | 0.11 M | counts match, shells keep their farm until they are told, farms go by player, places come back |
| `game_ui` | a farmer, a contractor and a guest; at most 3 plots, 1 scarecrow, 2 contracts; fair | 0.20 M | single chains, calls in range, no traps, confirmed resets, wins announced at once, evicted programs end |
| `ui_reward` (violation) | the same | | finding 1 |
| `rename_gate` | burst 2 / 2 s, 3 per day of 9 s, over 20 s | 0.7 M | bounds on bursts and days, patience is rewarded |
| `campaign` | goals 2, payments of 1 that saturate at 3, 4 rebirths | 0.16 M | order, goals, counters, restrictions (`CampaignInv`), seals are earned, no reset takes seals, statistics or upgrades that should stay, previews; `FarmSeen` is implemented |
| `farm_clock` | 2 plots, 3 crops, a scarecrow, cap 2, times 0 to 4 with the festival on, over and on | 0.22 M | absences add up, the cursor counts harvests, no idle plots |
| `board` | 3 viewers, 2 versions of the table, fair | 68 k | no older board; every `Get` returns, boards catch up |
| `farm_name` | 3 spellings of 2 names, one malformed, an imported, new or migrated row, 2 denylists, fair | 31 k | the column is explained, lock holds, denied names vanish, accepted ones appear |
| `farm_name_forced` (violation) | the same | | finding 2 |

Why these bounds are enough to be interesting. Three connections are an owner,
a newcomer that takes over, and a third that arrives while the second is still
detaching; the third also re-uses its slot after it is gone. `MaxVersion` 3
leaves two changes: one that is written and one that is not. The gate's run
covers more than two days of its scaled budget, so every window restarts, and its
bursts alone would allow more than two days' worth of guesses in a day, so the
daily cap is what binds.
In the campaign four rebirths are the least with which a farm gets from its
first day to the third seal (one for the base game, one for Lean Season, two
for Clockwork), and it does reach it, with the style that the last seal gives.
Its `VIEW` takes two states for one that differ only in what was accepted with a contract
that is over, which nothing reads any more. `MaxCoin` 3 lets payments saturate; a harvest with a discovery pays 2 and a pouch up to 3
at once, so goals are overshot as well. `FarmSeats` is checked under both policies: `live` has a
farm that is taken over and a shutdown, `refuse` one that is not and a guest's. Three viewers are a builder that has
published, a second builder that overtakes it, and a waiter on the first.
In `farm_clock` the quick crop reaches the cap of two turns at time 2 and is batched
at 3 and 4; the festival crop does not pay, so it is what an `Advance` leaves for
later; two plots are the least that compete for a wallet.
The scarecrow's clock drops every 4 unwatched or 2 watched seconds, and an absence
beyond 2 seconds is unwatched, so four seconds hold every mixture of both.
In `front_door` three places for four shells fill up, and so do the two of one key;
the names are one that needs no cleaning and one that is cleaned and cut to the same
slot. In `game_ui` the two window shapes have different cursors, two columns and
three plots make an incomplete last row, one scarecrow stands at the end of a row,
and the contractor wins a contract of coins and starts the one of Starseeds; the
idle timeout and the goodbye are two and three ticks of a second.
Runs without "fair" check safety only.

Proved and not run are the type invariants of all modules but `Campaign` (where it is
part of `CampaignInv`), `FlushedMeansClosed`, `SnapshotMovesForward`,
`CleanNameIsStored`, `OneReadAtATime` and `FirstComerKeeps`, which the refinement of
`FarmSeats` covers in `refuse`. Some properties of the runs have named parts that are
theorems of their own: `StopClosedOnce` and `AttachFindsLiveActor` of `MuIsNeverStuck`,
`SeatOrNotice` of `ShellsKeepTheirFarm`, `FarmsAreDue` and `CallsAreAsSeen` of
`ImplementsFarmSeen`; each of these has a mutant of its own.
Every property has a mutant under the same bounds that violates it, so none of
them is out of the instance's reach. No run uses symmetry.
No run turns the deadlock check off.

### Fairness

* `SaveManager`: goroutines that can run do (Go's scheduler). A goroutine that
  wants `mu` gets it at last, strong fairness, since `sync.Mutex` hands the lock
  to a waiter that starves for a millisecond; assumed for kicked sessions' `Detach`
  and for the flusher only. A kicked UI quits within three seconds
  (`tui/game.go`), so a kicked session detaches. Autosave is weakly fair: it is one
  case of a select that Go chooses from at random. Nothing is assumed of
  players, of writes succeeding, or of a shutdown being asked for.
* `BoardCache`: a `Get` that was called runs on, queries return or fail, and
  time passes. Nobody has to call `Get`; `BoardsCatchUp` supposes a viewer that
  does so for ever and is not refused for ever.
* `FrontDoor`: a handler's goroutine runs on, except that a program ends by itself
  only if it wants to; the loop of `Manager.Shutdown` runs on.
* `GameUI`: a tick arrives, since `tea.Tick` arms a timer of one second and nothing
  removes it. No key, click or kick has to come, and any may come for ever.
* `FarmName`: somebody looks at the board, the farm's clock makes an open save
  dirty (strong fairness: ticks and renames share the actor's mailbox, which is served in
  order), and an autosave that is tried again and again succeeds at last.

## 4. Proofs

TLAPS checks every theorem for all values of the constants under the named
assumptions of the modules (`ConnsAssumption`, `KeysAssumption`,
`BudgetAssumption` and so on: distinct model values, positive limits, and that
no key is both a guest's and a save's). The theorems a reader should know are
listed in `PROJECT.json`.

* `SaveManager_proofs`: `ManagerInv` is inductive. None of the safety properties
  is so alone: that an actor is not stopped twice, for instance, needs that
  whoever has closed `stop` holds `mu` until the actor is unregistered
  (`BeingStopped`), which needs that `mu`'s holder and the handlers' places
  agree (`LockInv`), and that a session that is still the owner is on a running
  actor (`SessionInv`). `FlushInv` keeps the flush's list complete once `closing`
  is set, and `DataInv` relates row, memory and dirty flag. One lemma per action,
  one step per part of the invariant.
  Its second half is the refinement: each step of the manager is a step of `DurableSave`
  or leaves its variables alone (and a process that is down does nothing, `DownInv`); a
  failed final flush maps to nothing and the unregistering after it to `GiveUp`, which
  `DataInv` (a dirty actor that ended had failed) allows.
  The third part is `FarmSeats`. A takeover must find the old session in its seat or
  told already, which is `SessionInv` again (`TheSeatIsTheOwners`, `SilentSeats`). What
  that does not give is the guests: the closure of `AttachJoin` would take a guest's farm
  over, since it has no guard against it. `GuestsAlone`, inductive beside `ManagerInv`,
  says why it never does: who joins a guest's actor has just started it, since a guest
  whose actor is registered is sent away, and `mu` is held in between.
  `MuIsReleased` is what safety can say about deadlocks: the holder of `mu` waits only
  for an actor that serves closures, or that was told, once, to stop and needs no lock to
  end. The comment in `Attach` that a stopped actor "cannot happen while we hold m.mu" is
  a part of it.
* `RenameGate_proofs`: the counters tell a suffix of the history: the last
  `burst` attempts lie within the running burst, and so on. The bounds follow for
  every burst, cooldown, daily cap and day.
* `BoardCache_proofs`: `Ordered` puts in a line what was shown, what is in hand,
  the snapshot, the read in flight and the table. `BoardNeverGoesBack` is not
  inductive without it: a waiter's answer is fixed when the build publishes but
  handed over later.
* `FarmName_proofs`: types, what stands in the column and in a clean blob, and the lock.
  `ColumnIsExplained` is not inductive alone: that the boot pass writes no old name needs
  that the name it read is still the blob's, which needs that nothing is open while it is
  at work (`CopiesInv`). The lock's invariant says that a rename in flight is the one that
  may still land.

* `FrontDoor_proofs`: a place is taken and given back under the bucket of the same
  identity, which needs that the name of a transport outlives its last handler
  (`Resolved` and the guard of `Dial`); counts are cardinalities of the handlers inside.
  `OwnSession` says that context and program of a shell know its own session only.
  `HasSeat` and `HeldOnce` do the same for the manager: every handler between attach and
  detach is in its seat or told, and no two hold one farm, so that a takeover tells
  exactly one session (`SeatOrNotice`).
  `FarmsAreTheirPlayers` is about what callers may send: assumed are that a caller by key
  has a key (`DoorAssumption`) and what a player means by the name that arrives
  (`CallersAssumption`: by the server's own rule for who dials it directly, by the
  lobby's encoding for who comes through the lobby, which alone vouches for keys and
  guest tokens). `ResolvedAsMeant` then says that both doors lead to the same slot, for
  names of any length.
* `Campaign_proofs`: `CampaignInv` is not inductive for two reasons. Its counters compare
  the farm with what it was when the contract was accepted, which is of no use unless
  lifetime statistics have only grown since (`Since`); and the style that a farm wears
  must stay among those it may wear (`Dressed`). The lemmas follow the code: what a
  credit does (`Credit`, `CreditStarseeds`, with the saturation at MaxInt64), what
  `CheckCompletion` leaves (`Sound` farms that have not reached their goal), what
  `FreshRun` and `ResetGameplay` keep; then one lemma per operation. The action properties
  are read off the same lemmas. Goals, payouts, prices and the cap are arbitrary.
  For `FarmSeen` this invariant is not enough, since the doors of the star shop depend on
  lifetime earnings. `Ledger` adds that whoever was ever reborn has earned what the doors
  ask for (`Earned`), and that every plot was given, bought while land was on sale, or
  came with the Greenhouse (`Surveyed`); `BooksAgree` proves it and `SessionsOpenOnAnyFarm`
  reads `FarmsAreDue` off it. One lemma per operation says what it shows and which
  contracts it may win (`EarningAsSeen`, `RebirthAsSeen`, ...): together they are
  `CallsDoWhatTheyShow`, and their disjunction is `SimulationIsTheFarm`.
* `GameUI_proofs`: one lemma per handler says what it leaves (`Safe`: the invariant, a
  contract that was won is on screen, no reset) or, for the two confirm modals, on which
  key (`Outcome`); keys, clicks, which are looked up among the regions that the screen
  registered (`HitsArePlaces`), and messages are put together from these. The invariant
  adds what the handlers rely on without a guard: the contract under way is the next of
  the campaign, the cursor under the open picker is on a plot (the view clamps it
  only while no overlay is open), and the reward queue is empty after every Update.
  The last is a result about the code: `pendingReward` is written by the same call to
  `Update` that shows it, since a contract is won only by calls whose overlay closes or
  that come from no overlay; the wait behind another modal, for which it is a queue,
  never happens.

* `FarmClock_proofs`: what a farm becomes in an absence is computed by loops inside
  loops, and the theorems are about all of them: any number of plots, any cap, any length
  of absence. The library's induction theorems take an operator and cannot be used, so
  `RunExists` shows once, from a least counterexample (`LeastNumber`), that a recursive
  function over the turns of a loop has a value at every turn, and `UpTo` is induction
  over a loop with a set in the place of the statement. What no turn and no batch leaves,
  the whole of `Settle` keeps (`SettleKeeps`): the types, the plan of the plot, the
  cursor, and the wallet, out of which a plot that pays takes its
  `Shortfall` and no more (`SettlePays`). `RoundIs` says that each plot is settled once, from
  what it was, with the wallet as the plots before it have left it; `RoundPays`, that the
  wallet covers the shortfalls in whatever order they come. So the wallet is never
  overdrawn (`FarmStaysAFarm`), `CursorCountsHarvests` and `PlotsAreKeptSown` hold.
  `AbsencesAddUp` needs more, since two calls with their own caps and batches are compared
  with one: `Outcome` is a closed form of `Settle` without cap and without wallet, equal to it
  on a farm that pays its way (`SettleOutcome`, where `CapAssumption` is needed to get from
  the last turn into the batch); outcomes compose by uniqueness of quotients
  (`OutcomeComposes`); the farm in between pays its way, too (`StaysSolvent`: what is earned
  makes up for what is still short), so whole rounds compose, wallet included
  (`RoundsCompose`). The scarecrows' part has no condition on the farm: a clock that is
  read in between counts the same drops (`ReadBetween`), and one that ran faster is never
  behind (`RunsAhead`).

Left to TLC: every liveness property and `NoModalTraps`, since fairness and ENABLED are
out of the prover's reach. Every other property of a passing run is a theorem. That
the two compositions are fair as well is not shown in one piece: `FrontDoor` assumes that a
handler gets through `Attach` and `Detach` and that the loop of `Shutdown` runs on, and the run
`live` checks, on two connections, what this rests on (`KickedSessionsLeave`, `ShutdownDrains`);
that a program which was told to end does so is `GameUI`'s `EvictedLeaves`.

## 5. Findings

1. Harvest-all hides a contract's reward (`ui_reward`). `harvestAllReady`
   (`tui/game.go:1353-1358`) keeps the snapshot of each harvest and never looks at its
   `ContractCompleted`, as `applyAction` does for every other call. Who wins Bare Hands
   with `a` is shown nothing, although `docs/gameplay/04-contracts.md:210-212` promises
   the reward modal on completion. The seal itself is recorded.
2. A forced name does not stay (`farm_name_forced`). The runbook's statement
   changes the column only; the blob and a live actor keep the old name, and the
   next persist writes it back, lock or no lock. The lock then stops the player
   from changing it as well.

Seen while modelling, and the violation of no run's property:

* The season of an automatic sowing is that of the end of the absence (`advance.go:175`
  asks `SeasonalPlantable` about `to`, not about the moment `matureAt` of the sowing).
  `docs/tui/05-seasonal-themes.md:169-173` has a plot come up empty after its last
  in-season cycle and calls a queued seasonal crop a preference "settled at sow time". An
  absence that ends in the next festival sows festival seeds in the time between
  (`SeasonIsTakenAtTheEnd`), and one that ends after the festival gives one harvest and an
  empty plot, where looking on gives those up to the last day (`SeasonLosesItsLastCycles`);
  both assumptions of `MCFarmClock` are evaluated at the start of the run `farm_clock`.
* A failed final flush loses the farm: `actor.run` persists once when `stop` is closed
  and returns whatever came of it, `Shutdown` unregisters the actor and returns
  nil, although `manager.go:225-227` says that no in-flight progress is lost across
  a redeploy. `DurableSave` states what is true instead (`GiveUp` after a failed write).
* The runbook's reset of a rename budget (`docs/runbooks/moderation.md:110-118`) sets
  `rename_last_at = 0` and leaves `rename_burst_count`; the gate refills the burst only
  if `lastAt != 0` (`store.go:543`), so a player without a burst stays locked out.
* Auto-sow switches a plot to its queued crop without setting `LastCrop`
  (`advance.go:181`): when the plot falls empty, "Replant all" buys the crop before.
* `dispatchHit` takes a click on the modal's button for a double click if the same
  button was clicked within a second, also when the modal was closed and opened in
  between (`tui/mouse.go:192-194`), which is less than the two clicks on one modal that
  `docs/gameplay/04-contracts.md:197-200` describes. `ResetsAreConfirmed` asks for what
  holds: a click on the button came before.
* The window that is too small says "press q to leave" (`tui/views.go:20-22`), and q goes to
  the overlay that cannot be seen. Typing q in the rename overlay closes it.
* A takeover's notice is on screen until the next tick, whose `Advance` fails and quits,
  not for the three seconds that `quitAt` allows.
* The boot pass writes names from the blobs it read before, without another look at the
  row (`reconcile.go:32-43`, `store.go:376-383`): a name that an operator forces on the live
  file while the pass is at work is overwritten. And a row that the pass skips keeps an
  empty column beside a named blob while the server runs, until its next persist or boot.
* `store.go:207-211` says that blob and board can never disagree, which is so for
  persists and not for an import (`InsertSave`) or a skipped row of the boot pass. After a failed rebuild past the ttl every
  viewer triggers or awaits a new one and is shown the error, although
  `engine.go:57-63` speaks of slightly stale data. `advance.go:34-37` says that no passive
  source credits coins inside a contract, and Lean Season's automated plots do.
  Import judges names by the built-in list because it never calls `moderation.Init`.

## 6. Not modelled

What is drawn: layout, colours, themes, texts, news, notices. The bytes of a PTY and
the rate limiter's token bucket. Content tables and calendar arithmetic, which are
immutable or stateless. SQL text of migrations, backups and the offline tools; each
migration is one transaction with its version. The dice: critters, gifts, events
(but for the one that shortens growth), golden and failed harvests; achievements; how
a payout is multiplied and what an upgrade costs. How leetspeak is folded and names are
matched. How rows of the board are sorted. Two processes on one database file (the
deployment runs one).

## 7. Plan

Done, in order of importance: `SaveManager` with `DurableSave`, its safety and
refinement proofs; `RenameGate`; `Campaign`; `BoardCache`; `FarmName`; `FarmClock`;
`GameUI`; `FrontDoor`; the proofs of all of them; `FarmSeen` and `FarmSeats`, by which the
four components that call each other are composed.

Next:

1. `FarmClock`'s multipliers, dice and a clock that is set back.
2. `Ranking` (`engine.go:141-250`: order, ranks and the viewer's window) and `SaveFile`
   (encoding versions, reconcile and import, with a crash between rows), against
   references over bounded tables.
