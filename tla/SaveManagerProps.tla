--------------------------- MODULE SaveManagerProps ---------------------------
(***************************************************************************)
(* What the save manager is for, stated over SaveManager.                  *)
(***************************************************************************)
EXTENDS SaveManager, FiniteSets

Phases  == {"none", "running", "stopping", "done", "panicked"}
Places  == {"idle", "attaching", "joining", "open",
            "detaching", "stopping", "leaving", "gone"}
Notices == {"no", "takeover", "shutdown", "left"}

Registered(a) == actors[KeyOf[a]] = a            \* the registry has this actor
Sits(c)       == pc[c] \in {"open", "detaching"}  \* between Attach and Detach

(* The type invariant. *)
TypeOK ==
    /\ up \in BOOLEAN
    /\ lock \in Conns \cup {None, "flusher"}
    /\ closing \in BOOLEAN
    /\ actors \in [Keys -> Conns \cup {None}]
    /\ row \in [Keys -> Nat]
    /\ phase \in [Conns -> Phases]
    /\ mem \in [Conns -> Nat]
    /\ dirty \in [Conns -> BOOLEAN]
    /\ failed \in [Conns -> BOOLEAN]
    /\ sess \in [Conns -> Conns \cup {None}]
    /\ pc \in [Conns -> Places]
    /\ on \in [Conns -> Conns \cup {None}]
    /\ kicked \in [Conns -> Notices]
    /\ hook \in {"off", "draining", "flushed", "interrupted"}
    /\ fpc \in {"kick", "lock", "reap"}
    /\ todo \in SUBSET Conns
    /\ cur \in Conns \cup {None}

(* An actor whose loop runs is the registered actor of its save, so no     *)
(* save ever has two writers (actor.go's package comment), through every   *)
(* overlap of Attach, Detach, takeover and Shutdown.                       *)
SingleWriter == \A a \in Conns : Live(a) => Registered(a)

(* No actor is stopped twice, which would panic and take the server down:  *)
(* detach and the flush agree, under mu, on who closes the stop channel.   *)
StopClosedOnce == \A a \in Conns : phase[a] # "panicked"

(* A playing session owns its save exactly until it has been told that it  *)
(* lost it: nobody is displaced without a notice, and nobody who was told  *)
(* keeps a hand on the farm.                                               *)
OwnerUntilTold ==
    \A c \in Conns : pc[c] = "open" => (Owns(c) <=> kicked[c] = "no")

(* "Cannot happen while we hold m.mu" (manager.go, Attach): the actor that *)
(* Attach mails its closure to has not been stopped.                       *)
AttachFindsLiveActor ==
    \A c \in Conns : pc[c] = "joining" => phase[on[c]] = "running"

(* mu is held across waits for actors, and nobody waits for ever: whoever  *)
(* holds it either runs on, or waits for an actor's loop that still serves *)
(* closures, or for one that has been told once to stop and needs no lock  *)
(* for its last flush.                                                     *)
Ends(a) == phase[a] \in {"stopping", "done"}
MuIsNeverStuck ==
    /\ StopClosedOnce /\ AttachFindsLiveActor
    /\ \A c \in Conns : lock = c =>
          \/ pc[c] \in {"attaching", "joining"}
          \/ pc[c] = "detaching" /\ (phase[on[c]] = "running" \/ Ends(on[c]))
          \/ pc[c] = "stopping" /\ Ends(on[c])
    /\ lock = "flusher" => fpc = "reap" /\ Ends(cur)

(* A live actor is never behind the database, and a clean one agrees with  *)
(* it: dirty is never cleared for a change that was not written.           *)
CleanIsDurable ==
    \A a \in Conns : Live(a) /\ ~IsGuest(a) =>
        /\ row[KeyOf[a]] <= mem[a]
        /\ ~dirty[a] => row[KeyOf[a]] = mem[a]

(* Nothing a guest does reaches the saves table. *)
GuestsAreNotStored == \A g \in Guests : row[g] = 0

(* When Shutdown returns nil no farm is open and no session can open or    *)
(* change one any more, although the listener is still accepting.          *)
FlushedMeansClosed ==
    hook = "flushed" =>
        /\ \A k \in Keys : actors[k] = None
        /\ \A a \in Conns : ~Live(a)
        /\ \A c \in Conns : pc[c] \notin {"attaching", "joining"}

(* A farm moves only by its owner's hand.  Every change of an open farm is *)
(* an intent or the join of one session, and that session is the one that  *)
(* the farm's registered actor has before and after (the newcomer, after), *)
(* was not told to go, and is the only one on the farm that was not: a     *)
(* session that lost the farm changes nothing in its successor's, and a    *)
(* farm between two sessions, or while it is flushed, is still.            *)
MovesFarm(c) == (Intent(c) \/ AttachJoin(c)) /\ mem' # mem

IsTheOwners(c) ==
    LET a == on[c]
    IN  /\ Registered(a) /\ KeyOf[a] = KeyOf[c]
        /\ sess[a] = c \/ pc[c] = "joining"
        /\ sess'[a] = c /\ kicked'[c] = "no"
        /\ \A d \in Conns \ {c} : on[d] = a /\ Sits(d) => kicked'[d] # "no"

OnlyAnOwnerMoves ==
    /\ \A c \in Conns : MovesFarm(c) => IsTheOwners(c)
    /\ \A a \in Conns : Live(a) /\ mem'[a] > mem[a] =>
          \E c \in Conns : MovesFarm(c) /\ on[c] = a

UnattendedIsStill == [][OnlyAnOwnerMoves]_vars

(* Under PolicyRefuse only its own detach, Shutdown or the end of the      *)
(* process ends the session that has the save.                             *)
OwnershipIsYielded ==
    \A a, c \in Conns : Policy = "refuse" /\ sess[a] = c /\ sess'[a] # c =>
        pc[c] = "detaching" \/ hook # "off" \/ ~up'

FirstComerKeeps == [][OwnershipIsYielded]_vars

(* The manager implements the contract of DurableSave: the version a       *)
(* player is shown is that of the registered actor, and once there is none *)
(* that of the row.  Progress is lost only by a crash, an interrupted      *)
(* shutdown, or a close right after a failed write.                        *)
LiveVersion(k)  == IF actors[k] = None THEN row[k] ELSE mem[actors[k]]
LastWriteFailed(k) == actors[k] # None /\ failed[actors[k]]

Durable == INSTANCE DurableSave WITH
    live    <- [k \in Saves |-> LiveVersion(k)],
    durable <- [k \in Saves |-> row[k]],
    failing <- [k \in Saves |-> LastWriteFailed(k)]

ImplementsDurableSave == Durable!Spec

(* The manager keeps the seats that FrontDoor's handlers rely on: between  *)
(* Attach and the release of Detach a session either owns the actor of its *)
(* farm or was told; only the policy lets a newcomer displace it; and once *)
(* the shutdown has begun nobody sits down any more.                       *)
FarmOf(k)  == <<IF k \in Guests THEN "guest" ELSE "key", k>>
SeatOf(c)  == IF Sits(c) /\ sess[on[c]] = c THEN FarmOf(KeyOf[c]) ELSE <<"none">>

Seats == INSTANCE FarmSeats WITH
    Sessions <- Conns,
    Farms    <- {FarmOf(k) : k \in Keys},
    holds    <- [c \in Conns |-> SeatOf(c)],
    told     <- {c \in Conns : Sits(c) /\ kicked[c] # "no"}

ImplementsFarmSeats == Seats!Spec

(* A session that is told to go does go: its Detach gets mu and ends,      *)
(* behind every other attach, detach and flush.                            *)
KickedSessionsLeave ==
    \A c \in Conns : kicked[c] \in {"takeover", "shutdown"} ~> pc[c] = "gone"

(* Shutdown drains: the flush is never blocked by the sessions it races,   *)
(* so it ends unless its deadline or the process does first.               *)
ShutdownDrains ==
    closing ~> (hook \in {"flushed", "interrupted"} \/ ~up)

(* A changed save is written, or a write is attempted and logged, however  *)
(* long the session stays.                                                 *)
ChangesAreWritten ==
    \A a \in Conns : Live(a) /\ dirty[a] /\ ~IsGuest(a) ~>
        ~dirty[a] \/ failed[a] \/ phase[a] = "done"
=============================================================================
