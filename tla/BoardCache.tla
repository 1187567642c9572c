------------------------------ MODULE BoardCache ------------------------------
(***************************************************************************)
(* leaderboard.Engine: one snapshot of the board, shared by every viewer,  *)
(* rebuilt on demand once its ttl is over and by one viewer at a time.     *)
(*                                                                         *)
(* A viewer is a session's UI goroutine: it calls Get, blocks, and puts    *)
(* what it got on its screen.  The contents of the saves table are a       *)
(* version number, the age of the snapshot is one bit, and rows and ranks  *)
(* are left out (a board is the version of the table it was built from).   *)
(***************************************************************************)
EXTENDS Naturals

CONSTANTS
    Viewers,      \* sessions that look at the board
    MaxVersion,   \* bound on the writes to the table
    None,         \* nil
    Error         \* the outcome of a read that failed

ASSUME ViewersAssumption == None \notin Viewers
ASSUME BoundAssumption   == MaxVersion \in Nat
ASSUME MarksAssumption   == None \notin Nat /\ Error \notin Nat /\ None # Error

VARIABLES
    table,      \* version of the saves table
    ranked,     \* Engine.ranked: a version, or None before the first build
    expired,    \* the ttl since Engine.builtAt is over
    building,   \* Engine.building: the viewer whose buildState it is
    pc,         \* where a viewer's Get is
    awaits,     \* the viewer whose buildState a waiter holds
    got,        \* the outcome a Get has in hand: a version or Error
    screen,     \* Game.lbBoard: a version, or None
    newest,     \* history: the newest version any Get returned
    floor       \* history: newest, when the viewer's Get began

vars == <<table, ranked, expired, building, pc, awaits, got, screen,
          newest, floor>>

Init ==
    /\ table    = 0
    /\ ranked   = None
    /\ expired  = TRUE
    /\ building = None
    /\ pc       = [v \in Viewers |-> "idle"]
    /\ awaits   = [v \in Viewers |-> None]
    /\ got      = [v \in Viewers |-> None]
    /\ screen   = [v \in Viewers |-> None]
    /\ newest   = 0
    /\ floor    = [v \in Viewers |-> 0]

(* A snapshot may be served.  Names ending in _Faulty are mistakes that no *)
(* action uses.                                                            *)
Fresh_Faulty == building = None /\ ranked # None    \* the ttl is not looked at
Fresh == building = None /\ ranked # None /\ ~expired

MayBuild_Faulty == ~Fresh                       \* building is not looked at
MayBuild == building = None /\ ~Fresh

Begin(v, place) ==
    /\ pc[v] = "idle"
    /\ pc'    = [pc EXCEPT ![v] = place]
    /\ floor' = [floor EXCEPT ![v] = newest]

-----------------------------------------------------------------------------
(* Engine.snapshot, up to the first unlock: one of three. *)

ServeCached(v) ==
    /\ Fresh
    /\ Begin(v, "returning")
    /\ got' = [got EXCEPT ![v] = ranked]
    /\ UNCHANGED <<table, ranked, expired, building, awaits, screen, newest>>

Wait(v) ==
    /\ building # None
    /\ Begin(v, "waiting")
    /\ awaits' = [awaits EXCEPT ![v] = building]
    /\ UNCHANGED <<table, ranked, expired, building, got, screen, newest>>

Build(v) ==
    /\ MayBuild
    /\ Begin(v, "reading")
    /\ building' = v
    /\ UNCHANGED <<table, ranked, expired, awaits, got, screen, newest>>

(* LeaderboardSnapshot: one query, which may fail. *)
Read(v) ==
    /\ pc[v] = "reading"
    /\ got' \in {[got EXCEPT ![v] = r] : r \in {table, Error}}
    /\ pc'  = [pc EXCEPT ![v] = "publishing"]
    /\ UNCHANGED <<table, ranked, expired, building, awaits, screen, newest, floor>>

(* Under mu again: a success becomes the snapshot, a failure evicts none.  *)
Publish(v) ==
    /\ pc[v] = "publishing"
    /\ IF got[v] = Error
         THEN UNCHANGED <<ranked, expired>>
         ELSE ranked' = got[v] /\ expired' = FALSE
    /\ building' = None
    /\ pc' = [pc EXCEPT ![v] = "closing"]
    /\ UNCHANGED <<table, awaits, got, screen, newest, floor>>

(* close(b.done): the builder returns, and everyone who waits on its       *)
(* buildState has its outcome.  A new build may have begun meanwhile.      *)
Close_Faulty(v) ==                              \* returns early on an error
    LET woken == {w \in Viewers : pc[w] = "waiting" /\ awaits[w] = v /\ got[v] # Error}
    IN  /\ pc[v] = "closing"
        /\ got'    = [w \in Viewers |-> IF w \in woken THEN got[v] ELSE got[w]]
        /\ pc'     = [w \in Viewers |-> IF w \in woken \cup {v} THEN "returning" ELSE pc[w]]
        /\ awaits' = [w \in Viewers |-> IF w \in woken THEN None ELSE awaits[w]]
        /\ UNCHANGED <<table, ranked, expired, building, screen, newest, floor>>
Close(v) ==
    LET woken == {w \in Viewers : pc[w] = "waiting" /\ awaits[w] = v}
    IN  /\ pc[v] = "closing"
        /\ got'    = [w \in Viewers |-> IF w \in woken THEN got[v] ELSE got[w]]
        /\ pc'     = [w \in Viewers |-> IF w \in woken \cup {v} THEN "returning" ELSE pc[w]]
        /\ awaits' = [w \in Viewers |-> IF w \in woken THEN None ELSE awaits[w]]
        /\ UNCHANGED <<table, ranked, expired, building, screen, newest, floor>>

(* Game.refreshBoard keeps the last board on an error (and says so: left out). *)
Later(a, b) == IF a > b THEN a ELSE b

Return(v) ==
    /\ pc[v] = "returning"
    /\ IF got[v] = Error
         THEN UNCHANGED <<screen, newest>>
         ELSE /\ screen' = [screen EXCEPT ![v] = got[v]]
              /\ newest' = Later(newest, got[v])
    /\ got' = [got EXCEPT ![v] = None]
    /\ pc'  = [pc EXCEPT ![v] = "idle"]
    /\ UNCHANGED <<table, ranked, expired, building, awaits, floor>>

-----------------------------------------------------------------------------
(* The sessions' saves reach the table, and time passes. *)

Write ==
    /\ table < MaxVersion
    /\ table' = table + 1
    /\ UNCHANGED <<ranked, expired, building, pc, awaits, got, screen, newest, floor>>

Expire ==
    /\ ~expired
    /\ expired' = TRUE
    /\ UNCHANGED <<table, ranked, building, pc, awaits, got, screen, newest, floor>>

Next ==
    \/ \E v \in Viewers :
          \/ ServeCached(v) \/ Wait(v) \/ Build(v)
          \/ Read(v) \/ Publish(v) \/ Close(v) \/ Return(v)
    \/ Write \/ Expire

Spec == Init /\ [][Next]_vars

(* A Get that was called runs on, SQLite answers or fails a query, and the *)
(* ttl ends.  Nobody has to call Get again.                                *)
Fairness ==
    /\ \A v \in Viewers : WF_vars(Read(v) \/ Publish(v) \/ Close(v) \/ Return(v))
    /\ WF_vars(Expire)

FairSpec == Spec /\ Fairness

-----------------------------------------------------------------------------
Versions == 0 .. MaxVersion

(* The type invariant. *)
TypeOK ==
    /\ table \in Versions
    /\ ranked \in Versions \cup {None}
    /\ expired \in BOOLEAN
    /\ building \in Viewers \cup {None}
    /\ pc \in [Viewers -> {"idle", "waiting", "reading", "publishing", "closing", "returning"}]
    /\ awaits \in [Viewers -> Viewers \cup {None}]
    /\ got \in [Viewers -> Versions \cup {None, Error}]
    /\ screen \in [Viewers -> Versions \cup {None}]
    /\ newest \in Versions
    /\ floor \in [Viewers -> Versions]

(* "Concurrent callers during a rebuild share the single in-flight         *)
(* database read" (engine.go, snapshot): one viewer builds at a time, it   *)
(* is the one in building, and who waits, waits on one that will close.    *)
OneReadAtATime ==
    /\ \A v \in Viewers : pc[v] \in {"reading", "publishing"} <=> building = v
    /\ \A w \in Viewers : pc[w] = "waiting" =>
          pc[awaits[w]] \in {"reading", "publishing", "closing"}

(* No Get answers with a board older than one that any viewer had already  *)
(* been shown when it was called, although outcomes are handed to waiters  *)
(* after mu is released and a younger build may overtake them.             *)
BoardNeverGoesBack ==
    \A v \in Viewers :
        pc[v] = "returning" /\ got[v] # Error => floor[v] <= got[v] /\ got[v] <= table

(* "A failed rebuild must not evict the last known-good snapshot"          *)
(* (engine.go, buildState), and no build replaces a younger one.           *)
SnapshotMovesForward ==
    [][ranked # None => ranked' # None /\ ranked' >= ranked]_vars

(* Get returns: a failed read releases everyone that waits on it.          *)
EveryGetReturns == \A v \in Viewers : pc[v] # "idle" ~> pc[v] = "idle"

(* What the table settles on stays at last on the screen of every viewer   *)
(* that keeps refreshing and does not fail for ever.                       *)
BoardsCatchUp ==
    \A v \in Viewers :
        []<>(pc[v] = "returning" /\ got[v] # Error) => <>[](screen[v] = table)
=============================================================================
