----------------------------- MODULE SaveManager -----------------------------
(***************************************************************************)
(* internal/game: the registry of open saves, one actor goroutine per open *)
(* save, the sessions that own them, and the rows they are flushed to.     *)
(*                                                                         *)
(* A connection c is one SSH session handler (server.attachSave): Attach,  *)
(* play, Detach.  An actor is named after the connection whose Attach      *)
(* started it.  The contents of a farm are abstracted to a version number: *)
(* 0 no save, 1 a fresh farm, one more for every change of the farm.       *)
(* What runs atomically is one closure of the actor goroutine, or what one *)
(* holder of Manager.mu does between two such closures.                    *)
(***************************************************************************)
EXTENDS Naturals

CONSTANTS
    Conns,        \* connection slots
    Saves,        \* durable saves: an SSH key's fingerprint and a slot
    Guests,       \* guest identities: never stored
    KeyOf,        \* the save a connection opens
    Policy,       \* "takeover" or "refuse"
    MaxVersion,   \* bound on the changes made to one farm
    None          \* nil

Keys == Saves \cup Guests

ASSUME ConnsAssumption  == None \notin Conns /\ "flusher" \notin Conns /\ None # "flusher"
ASSUME KeysAssumption   == Saves \cap Guests = {} /\ KeyOf \in [Conns -> Keys]
ASSUME PolicyAssumption == Policy \in {"takeover", "refuse"}
ASSUME BoundAssumption  == MaxVersion \in Nat

VARIABLES
    up,        \* the process is running
    lock,      \* Manager.mu: None, a connection or the flusher
    closing,   \* Manager.closing
    actors,    \* Manager.actors: key -> actor
    row,       \* the saves table: key -> version
    phase,     \* actor: "none", "running", "stopping" (stop closed), "done"
    mem,       \* actor.state
    dirty,     \* actor.dirty
    failed,    \* history: the actor's last write attempt failed
    sess,      \* actor.session
    pc,        \* where a connection's handler is
    on,        \* Session.actor
    kicked,    \* Session.kickOnce: "no", or the notice it was used for
    hook,      \* Manager.Shutdown: "off", "draining", or what it returned
    fpc,       \* the flushing goroutine: "kick", "lock", "reap"
    todo,      \* actors it still has to flush
    cur        \* the one it is flushing

registryVars == <<lock, closing, actors>>
actorVars    == <<phase, mem, dirty, failed, sess>>
connVars     == <<pc, on, kicked>>
flushVars    == <<hook, fpc, todo, cur>>
vars == <<up, registryVars, row, actorVars, connVars, flushVars>>

IsGuest(c) == KeyOf[c] \in Guests
Live(a)    == phase[a] \in {"running", "stopping"}

(***************************************************************************)
(* The decisions of the code that the actions below share.  A definition   *)
(* whose name ends in _Faulty is the same decision with a bug, and is used *)
(* by no action.                                                           *)
(***************************************************************************)
MuIsFree_Faulty == TRUE                   \* the lock is not taken
MuIsFree == lock = None

Admits_Faulty == up                       \* a closing server attaches, too
Admits == up /\ ~closing

(* persist does nothing for guests and clean saves. *)
Skips_Faulty(a) == ~dirty[a]              \* guests are not told apart
Skips(a) == IsGuest(a) \/ ~dirty[a]

(* Only a keyed save's actor has an autosave ticker. *)
Ticks_Faulty(a) == IsGuest(a)             \* the test is negated
Ticks(a) == ~IsGuest(a)

(* The session that a closure was mailed by still has the save. *)
Owns_Faulty(c) == TRUE                    \* a stale session is served
Owns(c) == sess[on[c]] = c

(* A newcomer may take the save. *)
MayTake_Faulty(a) == TRUE                 \* the policy is not looked at
MayTake(a) == sess[a] = None \/ Policy = "takeover"

(* actor.do returns without running its closure. *)
DoIsSkipped_Faulty(a) == FALSE            \* done is not selected on
DoIsSkipped(a) == phase[a] = "done"

(* deliverKick: the first notice counts, and the channel is closed once.   *)
Kick_Silent(s, notice) == kicked          \* the session is not told
Kick(s, notice) ==
    [c \in Conns |-> IF c = s /\ kicked[c] = "no" THEN notice ELSE kicked[c]]

(* stopActorLocked: close stop, unless the loop has ended.  A second close *)
(* of the channel would panic.                                             *)
Stop_Faulty(a) == phase                   \* the loop is not told to end
Stop(a) ==
    [phase EXCEPT ![a] = CASE @ = "running"  -> "stopping"
                           [] @ = "stopping" -> "panicked"
                           [] OTHER          -> @]

(* stopActorLocked, once the loop has ended.                               *)
Unregister_Faulty(a) == UNCHANGED actors  \* the registry leaks
Unregister(a) ==
    actors' = [k \in Keys |-> IF k = KeyOf[a] /\ actors[k] = a
                                THEN None ELSE actors[k]]

Init ==
    /\ up      = TRUE
    /\ lock    = None
    /\ closing = FALSE
    /\ actors  = [k \in Keys |-> None]
    /\ row     = [k \in Keys |-> 0]
    /\ phase   = [a \in Conns |-> "none"]
    /\ mem     = [a \in Conns |-> 0]
    /\ dirty   = [a \in Conns |-> FALSE]
    /\ failed  = [a \in Conns |-> FALSE]
    /\ sess    = [a \in Conns |-> None]
    /\ pc      = [c \in Conns |-> "idle"]
    /\ on      = [c \in Conns |-> None]
    /\ kicked  = [c \in Conns |-> "no"]
    /\ hook    = "off"
    /\ fpc     = "kick"
    /\ todo    = {}
    /\ cur     = None

-----------------------------------------------------------------------------
(* Attach holds mu from its first line to its return. *)

AttachBegin(c) ==
    /\ Admits /\ pc[c] = "idle" /\ MuIsFree
    /\ lock' = c
    /\ pc'   = [pc EXCEPT ![c] = "attaching"]
    /\ UNCHANGED <<up, closing, actors, row, actorVars, on, kicked, flushVars>>

(* ErrShuttingDown. *)
AttachClosing(c) ==
    /\ up /\ closing /\ pc[c] = "idle" /\ MuIsFree
    /\ pc' = [pc EXCEPT ![c] = "gone"]
    /\ UNCHANGED <<up, registryVars, row, actorVars, on, kicked, flushVars>>

(* The identity does not pass Validate, a guest's carries a public key, or *)
(* TouchAccount, LoadOrCreateSave or DecodeState fails; the second reads   *)
(* the row it has inserted once more and may fail only then.               *)
AttachFails(c) ==
    /\ pc[c] = "attaching"
    /\ \/ row' = row
       \/ /\ ~IsGuest(c) /\ actors[KeyOf[c]] = None /\ row[KeyOf[c]] = 0
          /\ row' = [row EXCEPT ![KeyOf[c]] = 1]
    /\ lock' = None
    /\ pc'   = [pc EXCEPT ![c] = "gone"]
    /\ UNCHANGED <<up, closing, actors, actorVars, on, kicked, flushVars>>

(* No actor is registered: load (or create) the save and start one. *)
AttachLoad(c) ==
    LET k == KeyOf[c]
        loaded == IF IsGuest(c) \/ row[k] = 0 THEN 1 ELSE row[k]
    IN  /\ pc[c] = "attaching" /\ actors[k] = None
        /\ row'    = IF IsGuest(c) THEN row ELSE [row EXCEPT ![k] = loaded]
        /\ phase'  = [phase EXCEPT ![c] = "running"]
        /\ mem'    = [mem EXCEPT ![c] = loaded]
        /\ actors' = [actors EXCEPT ![k] = c]
        /\ on'     = [on EXCEPT ![c] = c]
        /\ pc'     = [pc EXCEPT ![c] = "joining"]
        /\ UNCHANGED <<up, lock, closing, dirty, failed, sess, kicked, flushVars>>

(* An actor is registered: use it. *)
AttachReuse(c) ==
    LET k == KeyOf[c]
    IN  /\ pc[c] = "attaching" /\ actors[k] # None /\ ~IsGuest(c)
        /\ on' = [on EXCEPT ![c] = actors[k]]
        /\ pc' = [pc EXCEPT ![c] = "joining"]
        /\ UNCHANGED <<up, registryVars, row, actorVars, kicked, flushVars>>

(* ErrSaveBusy, for a guest identity that is already playing. *)
AttachGuestBusy(c) ==
    /\ pc[c] = "attaching" /\ actors[KeyOf[c]] # None /\ IsGuest(c)
    /\ lock' = None
    /\ pc'   = [pc EXCEPT ![c] = "gone"]
    /\ UNCHANGED <<up, closing, actors, row, actorVars, on, kicked, flushVars>>

(* ErrSaveBusy, for a save in use under PolicyRefuse. *)
Refused(c) ==
    /\ Policy = "refuse" /\ sess[on[c]] # None
    /\ pc' = [pc EXCEPT ![c] = "gone"]
    /\ on' = [on EXCEPT ![c] = None]
    /\ UNCHANGED <<mem, dirty, sess, kicked>>

(* The old session is told, the new one owns the save, and the farm is     *)
(* advanced to now: a change unless no time has passed.                    *)
Joined(c) ==
    LET a == on[c]
    IN  /\ MayTake(a)
        /\ kicked' = Kick(sess[a], "takeover")
        /\ sess' = [sess EXCEPT ![a] = c]
        /\ \/ UNCHANGED <<mem, dirty>>
           \/ /\ ~IsGuest(c) /\ mem[a] < MaxVersion
              /\ mem'   = [mem EXCEPT ![a] = @ + 1]
              /\ dirty' = [dirty EXCEPT ![a] = TRUE]
        /\ pc' = [pc EXCEPT ![c] = "open"]
        /\ UNCHANGED on

AttachJoin(c) ==
    /\ pc[c] = "joining" /\ Live(on[c])
    /\ Refused(c) \/ Joined(c)
    /\ lock' = None
    /\ UNCHANGED <<up, closing, actors, row, phase, failed, flushVars>>

-----------------------------------------------------------------------------
(* The actor goroutine. *)

(* PersistSaveWithContracts: one transaction, all or nothing. *)
WriteSucceeds(a) ==
    /\ row'    = [row EXCEPT ![KeyOf[a]] = mem[a]]
    /\ dirty'  = [dirty EXCEPT ![a] = FALSE]
    /\ failed' = [failed EXCEPT ![a] = FALSE]

WriteFails_Faulty(a) ==                   \* dirty is cleared before the write
    /\ dirty'  = [dirty EXCEPT ![a] = FALSE]
    /\ failed' = [failed EXCEPT ![a] = TRUE]
    /\ UNCHANGED row
WriteFails(a) ==
    /\ failed' = [failed EXCEPT ![a] = TRUE]
    /\ UNCHANGED <<row, dirty>>

Persist(a) ==
    \/ Skips(a)  /\ UNCHANGED <<row, dirty, failed>>
    \/ ~Skips(a) /\ (WriteSucceeds(a) \/ WriteFails(a))

(* The ticker of run; ticks may still be served after stop is closed. *)
Autosave(a) ==
    /\ Live(a) /\ Ticks(a) /\ ~Skips(a)
    /\ Persist(a)
    /\ UNCHANGED <<up, registryVars, phase, mem, sess, connVars, flushVars>>

(* run sees stop closed: the final flush, then done. *)
FinalFlush_Faulty(a) ==                   \* run returns without the flush
    /\ phase[a] = "stopping"
    /\ phase' = [phase EXCEPT ![a] = "done"]
    /\ UNCHANGED <<up, registryVars, row, dirty, failed, mem, sess, connVars, flushVars>>
FinalFlush(a) ==
    /\ phase[a] = "stopping"
    /\ Persist(a)
    /\ phase' = [phase EXCEPT ![a] = "done"]
    /\ UNCHANGED <<up, registryVars, mem, sess, connVars, flushVars>>

(* Session.Advance or any intent that changes the farm; from a session     *)
(* that lost its save it is ErrSessionClosed and changes nothing.          *)
Intent(c) ==
    LET a == on[c]
    IN  /\ pc[c] = "open" /\ Live(a)
        /\ Owns(c)
        /\ mem[a] < MaxVersion
        /\ mem'   = [mem EXCEPT ![a] = @ + 1]
        /\ dirty' = [dirty EXCEPT ![a] = TRUE]
        /\ UNCHANGED <<up, registryVars, row, phase, failed, sess, connVars, flushVars>>

-----------------------------------------------------------------------------
(* Detach: release the session, persist, and stop an actor left alone. *)

DetachBegin(c) ==
    /\ pc[c] = "open" /\ MuIsFree
    /\ lock' = c
    /\ pc'   = [pc EXCEPT ![c] = "detaching"]
    /\ UNCHANGED <<up, closing, actors, row, actorVars, on, kicked, flushVars>>

(* a.do runs on a live actor.  If the session still owned it, stop is      *)
(* closed and mu is kept until the loop has ended.                         *)
DetachRelease(c) ==
    LET a == on[c]
    IN  /\ pc[c] = "detaching" /\ Live(a)
        /\ Persist(a)
        /\ \/ /\ sess[a] = c
              /\ sess'  = [sess EXCEPT ![a] = None]
              /\ phase' = Stop(a)
              /\ pc'    = [pc EXCEPT ![c] = "stopping"]
              /\ UNCHANGED lock
           \/ /\ sess[a] # c
              /\ lock' = None
              /\ pc'   = [pc EXCEPT ![c] = "leaving"]
              /\ UNCHANGED <<sess, phase>>
        /\ UNCHANGED <<up, closing, actors, mem, on, kicked, flushVars>>

(* a.do finds the actor ended: nothing to release. *)
DetachTooLate(c) ==
    /\ pc[c] = "detaching" /\ DoIsSkipped(on[c])
    /\ lock' = None
    /\ pc'   = [pc EXCEPT ![c] = "leaving"]
    /\ UNCHANGED <<up, closing, actors, row, actorVars, on, kicked, flushVars>>

DetachReap_Faulty(c) ==                   \* mu is released before done
    /\ pc[c] = "stopping"
    /\ Unregister(on[c])
    /\ lock' = None
    /\ pc'   = [pc EXCEPT ![c] = "leaving"]
    /\ UNCHANGED <<up, closing, row, actorVars, on, kicked, flushVars>>
DetachReap(c) ==
    /\ pc[c] = "stopping" /\ phase[on[c]] = "done"
    /\ Unregister(on[c])
    /\ lock' = None
    /\ pc'   = [pc EXCEPT ![c] = "leaving"]
    /\ UNCHANGED <<up, closing, row, actorVars, on, kicked, flushVars>>

(* deliverKick(""): closes the channel unless a notice already did. *)
Leave(c) ==
    /\ pc[c] = "leaving"
    /\ kicked' = Kick(c, "left")
    /\ pc'     = [pc EXCEPT ![c] = "gone"]
    /\ on'     = [on EXCEPT ![c] = None]
    /\ UNCHANGED <<up, registryVars, row, actorVars, flushVars>>

-----------------------------------------------------------------------------
(* Shutdown and its flushing goroutine. *)

ShutdownBegin ==
    /\ up /\ hook = "off" /\ MuIsFree
    /\ closing' = TRUE
    /\ todo'    = {actors[k] : k \in Keys} \ {None}
    /\ hook'    = "draining"
    /\ fpc'     = "kick"
    /\ UNCHANGED <<up, lock, actors, row, actorVars, connVars, cur>>

(* a.do: tell the session and take the save from it; nothing on an actor   *)
(* that a concurrent Detach has ended.                                     *)
FlushKick(a) ==
    /\ up /\ hook # "off" /\ fpc = "kick" /\ a \in todo
    /\ \/ DoIsSkipped(a) /\ UNCHANGED <<kicked, sess>>
       \/ /\ Live(a)
          /\ kicked' = Kick(sess[a], "shutdown")
          /\ sess'   = [sess EXCEPT ![a] = None]
    /\ cur' = a
    /\ fpc' = "lock"
    /\ UNCHANGED <<up, registryVars, row, phase, mem, dirty, failed, pc, on, hook, todo>>

FlushStop ==
    /\ fpc = "lock" /\ MuIsFree
    /\ lock'  = "flusher"
    /\ phase' = Stop(cur)
    /\ fpc'   = "reap"
    /\ UNCHANGED <<up, closing, actors, row, mem, dirty, failed, sess, connVars,
                   hook, todo, cur>>

FlushReap ==
    /\ fpc = "reap" /\ phase[cur] = "done"
    /\ Unregister(cur)
    /\ lock' = None
    /\ todo' = todo \ {cur}
    /\ cur'  = None
    /\ fpc'  = "kick"
    /\ UNCHANGED <<up, closing, row, actorVars, connVars, hook>>

(* Shutdown returns: nil once all is flushed, an error when ctx expires. *)
ShutdownFlushed ==
    /\ hook = "draining" /\ fpc = "kick" /\ todo = {}
    /\ hook' = "flushed"
    /\ UNCHANGED <<up, registryVars, row, actorVars, connVars, fpc, todo, cur>>

ShutdownInterrupted ==
    /\ hook = "draining"
    /\ hook' = "interrupted"
    /\ UNCHANGED <<up, registryVars, row, actorVars, connVars, fpc, todo, cur>>

-----------------------------------------------------------------------------
(* The process and its surroundings. *)

(* Everything but the database is gone. *)
Die ==
    /\ up'      = FALSE
    /\ lock'    = None
    /\ closing' = FALSE
    /\ actors'  = [k \in Keys |-> None]
    /\ phase'   = [a \in Conns |-> "none"]
    /\ mem'     = [a \in Conns |-> 0]
    /\ dirty'   = [a \in Conns |-> FALSE]
    /\ failed'  = [a \in Conns |-> FALSE]
    /\ sess'    = [a \in Conns |-> None]
    /\ pc'      = [c \in Conns |-> "gone"]
    /\ on'      = [c \in Conns |-> None]
    /\ kicked'  = [c \in Conns |-> "no"]
    /\ hook'    = "off"
    /\ fpc'     = "kick"
    /\ todo'    = {}
    /\ cur'     = None
    /\ UNCHANGED row

(* app.Run returns after the hook; srv.Shutdown waits for the connections  *)
(* only until the same deadline.                                           *)
Exit  == up /\ hook \in {"flushed", "interrupted"} /\ Die

Crash == up /\ Die

(* NewManager over the same database. *)
Restart ==
    /\ ~up
    /\ up' = TRUE
    /\ UNCHANGED <<registryVars, row, actorVars, connVars, flushVars>>

(* A new connection takes a slot that nothing refers to any more. *)
Connect(c) ==
    /\ up /\ pc[c] = "gone"
    /\ ~Live(c) /\ c \notin todo
    /\ \A k \in Keys : actors[k] # c
    /\ \A d \in Conns \ {c} : on[d] # c
    /\ pc'     = [pc EXCEPT ![c] = "idle"]
    /\ kicked' = [kicked EXCEPT ![c] = "no"]
    /\ phase'  = [phase EXCEPT ![c] = "none"]
    /\ mem'    = [mem EXCEPT ![c] = 0]
    /\ dirty'  = [dirty EXCEPT ![c] = FALSE]
    /\ failed' = [failed EXCEPT ![c] = FALSE]
    /\ UNCHANGED <<up, registryVars, row, sess, on, flushVars>>

-----------------------------------------------------------------------------
AttachStep(c) ==
    \/ AttachFails(c)
    \/ AttachLoad(c)
    \/ AttachReuse(c)
    \/ AttachGuestBusy(c)
    \/ AttachJoin(c)

DetachStep(c) ==
    \/ DetachRelease(c)
    \/ DetachTooLate(c)
    \/ DetachReap(c)
    \/ Leave(c)

FlushStep ==
    \/ \E a \in Conns : FlushKick(a)
    \/ FlushReap
    \/ ShutdownFlushed

Next ==
    \/ \E c \in Conns :
          \/ Connect(c) \/ AttachBegin(c) \/ AttachClosing(c) \/ AttachStep(c)
          \/ Intent(c)
          \/ DetachBegin(c) \/ DetachStep(c)
          \/ Autosave(c) \/ FinalFlush(c)
    \/ ShutdownBegin \/ FlushStep \/ FlushStop \/ ShutdownInterrupted
    \/ Exit \/ Crash \/ Restart

Spec == Init /\ [][Next]_vars

(* Goroutines that can run do; a goroutine that wants mu gets it at last   *)
(* (sync.Mutex hands a starving waiter the lock); a kicked UI quits within *)
(* three seconds (tui.Game.update), so its handler detaches.               *)
Fairness ==
    /\ \A c \in Conns :
          /\ WF_vars(AttachStep(c))
          /\ WF_vars(DetachStep(c))
          /\ SF_vars(kicked[c] # "no" /\ DetachBegin(c))
          /\ WF_vars(Autosave(c))
          /\ WF_vars(FinalFlush(c))
    /\ WF_vars(FlushStep)
    /\ SF_vars(FlushStop)

FairSpec == Spec /\ Fairness
=============================================================================
