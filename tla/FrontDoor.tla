----------------------------- MODULE FrontDoor -----------------------------
(***************************************************************************)
(* The way into the game: internal/server (the chain of Wish middlewares   *)
(* every shell runs through, and its unwinding) over internal/identity     *)
(* (who is at the other end). A transport is one SSH connection, with its  *)
(* key and user name; each of its shells runs the chain in a goroutine of  *)
(* its own: rate limit, session limits, PTY, attach, the program.          *)
(*                                                                         *)
(* The save manager is FarmSeats: a farm has one session, a newcomer takes *)
(* it over or is refused, and whoever loses it is told. SaveManager        *)
(* implements it. The program is what GameUI shows of it: it ends when the *)
(* player quits, is told to go, or the transport is lost.                  *)
(***************************************************************************)
EXTENDS Integers, FiniteSets, Sequences, Functions

CONSTANTS
    Transports, Shells, TransportOf,  \* TransportOf[sh]: the connection of shell sh
    MaxGlobal, MaxPerKey,             \* FARM_MAX_CONNECTIONS, _MAX_SESSIONS_PER_KEY
    MaxSlotLen, DefaultSlot,          \* the longest slot; FARM_DEFAULT_SLOT
    Keys, GuestIds,                   \* players' key fingerprints, guest tokens
    Dials,                            \* Dials[t]: who may dial, and the slot they ask for
    AllowGuests,                      \* FARM_ALLOW_GUESTS
    Policy                            \* FARM_SESSION_POLICY

Nobody == "nobody"

ASSUME DoorAssumption ==
    /\ TransportOf \in [Shells -> Transports]
    /\ MaxGlobal \in Nat \ {0} /\ MaxPerKey \in Nat \ {0}
    /\ MaxSlotLen \in Nat \ {0} /\ AllowGuests \in BOOLEAN
    /\ Policy \in {"takeover", "refuse"}
    /\ IsFiniteSet(Shells) /\ Nobody \notin Shells
    /\ DOMAIN Dials = Transports
    /\ \A t \in Transports : \A d \in Dials[t] : d.path = "direct" => d.key \in Keys

VARIABLES
    up, dial,    \* dial[t]: who dialled, [path, key, user, means]; whether still there
    at,          \* at[sh]: how far into the chain its goroutine is
    global, perKey,  \* SessionLimits
    ctx,         \* ctx[sh]: whose session sh's context has under sessionKey
    plays,       \* plays[sh]: whose session the program of sh drives
    holds,       \* holds[sh]: the farm whose actor has sh's session, or NoFarm
    told,        \* the shells whose session was sent its notice
    closing      \* Manager.closing

limits == <<global, perKey>>
games  == <<holds, told, closing>>
vars   == <<up, dial, at, limits, ctx, plays, games>>

NoDial == [path |-> "none", key |-> "nobody", user |-> <<>>, means |-> <<>>]

-----------------------------------------------------------------------------
(* internal/identity. A user name is a sequence: of characters, of which    *)
(* "A" is upper case and " " and "." are none of [a-z0-9_-], of "guest.",  *)
(* and of the 64 digits of a fingerprint or the 32 of a guest token, which *)
(* are one element each.                                                    *)
Lower(c) == IF c = "A" THEN "a" ELSE c
IsValid(c) == c \notin {" ", ".", "guest."}

SanitizeSlot(raw) ==
    LET kept == SelectSeq([i \in DOMAIN raw |-> Lower(raw[i])], IsValid)
    IN  SubSeq(kept, 1, IF Len(kept) < MaxSlotLen THEN Len(kept) ELSE MaxSlotLen)

ResolveSlot(user) ==
    IF SanitizeSlot(user) = <<>> THEN SanitizeSlot(DefaultSlot) ELSE SanitizeSlot(user)

Keyed(key, slot) == [kind |-> "key", key |-> key, slot |-> slot]
Guest(token)     == [kind |-> "guest", key |-> token, slot |-> <<>>]
NotResolved      == [kind |-> "invalid"]

(* The fingerprint, a dot, and a slot that is clean already. *)
ParseProxiedUsername(user) ==
    LET slot == SubSeq(user, 3, Len(user)) IN
    IF Len(user) > 2 /\ user[1] \in Keys /\ user[2] = "."
       /\ slot = SanitizeSlot(slot) /\ slot # <<>>
    THEN Keyed(user[1], slot) ELSE NotResolved

(* What the lobby, which reaches the farm with the proxy key, makes of a   *)
(* player's key and slot. *)
EncodeProxiedUsername(key, asked) == <<key, ".">> \o SanitizeSlot(asked)

(* Resolve: by the key of the transport, directly or through the lobby.    *)
Resolve_Faulty(d) ==                  \* the user name is taken as it came
    IF d.path = "direct" THEN Keyed(d.key, d.user)
    ELSE IF Len(d.user) > 0 /\ d.user[1] = "guest."
    THEN IF Len(d.user) = 2 /\ d.user[2] \in GuestIds /\ AllowGuests
         THEN Guest(d.user[2]) ELSE NotResolved
    ELSE ParseProxiedUsername(d.user)
Resolve(d) ==
    IF d.path = "direct" THEN Keyed(d.key, ResolveSlot(d.user))
    ELSE IF Len(d.user) > 0 /\ d.user[1] = "guest."
    THEN IF Len(d.user) = 2 /\ d.user[2] \in GuestIds /\ AllowGuests
         THEN Guest(d.user[2]) ELSE NotResolved
    ELSE ParseProxiedUsername(d.user)

(* Bucket: all the slots of one key share its limit. *)
Bucket(id)  == <<id.kind, id.key>>
Buckets     == {<<"key", k>> : k \in Keys} \cup {<<"guest", g>> : g \in GuestIds}
FarmOf(id)  == <<id.kind, id.key, id.slot>>

(* Who dials, how, and the slot they mean by the name they give. *)
Direct(k, n, means)   == [path |-> "direct", key |-> k, user |-> n, means |-> means]
ViaLobby(k, n, means) == [path |-> "lobby", key |-> k, means |-> means,
                          user |-> EncodeProxiedUsername(k, n)]
AsGuest(g)            == [path |-> "lobby", key |-> g, user |-> <<"guest.", g>>, means |-> <<>>]
Garbled(n)            == [path |-> "lobby", key |-> "nobody", user |-> n, means |-> n]

(* A player who comes directly means the slot that the rules make of the   *)
(* user name. The lobby vouches for the name it sends on: a fingerprint or *)
(* a token in it is the player's. Whoever sends another name is nobody.    *)
ASSUME CallersAssumption ==
    /\ Keys \cap GuestIds = {} /\ "guest." \notin Keys
    /\ \A t \in Transports : \A d \in Dials[t] :
         \/ d.path = "direct" /\ d.means = ResolveSlot(d.user)
         \/ /\ d.path = "lobby" /\ d.key \in Keys
            /\ d.means \in Seq(Range(d.means)) /\ d.user = <<d.key, ".">> \o d.means
         \/ /\ d.path = "lobby" /\ d.key \in GuestIds
            /\ d.means = <<>> /\ d.user = <<"guest.", d.key>>
         \/ d.path = "lobby" /\ (Len(d.user) > 0 => d.user[1] \notin Keys \cup {"guest."})

-----------------------------------------------------------------------------
(* SessionLimits: what the handlers of a player and of everybody occupy.   *)
Identity == [d \in (UNION Range(Dials)) \cup {NoDial} |-> Resolve(d)]
IdOf(sh) == Identity[dial[TransportOf[sh]]]

HasRoom(b) == global < MaxGlobal /\ perKey[b] < MaxPerKey
Acquire(b) ==
    /\ HasRoom(b)
    /\ global' = global + 1 /\ perKey' = [perKey EXCEPT ![b] = @ + 1]

Release(b) ==
    /\ global' = global - 1
    /\ perKey' = [perKey EXCEPT ![b] = IF @ > 0 THEN @ - 1 ELSE 0]

Move(sh, stage) == at' = [at EXCEPT ![sh] = stage]

-----------------------------------------------------------------------------
(* Transports. *)

ShellsOf(t) == {sh \in Shells : TransportOf[sh] = t}

(* Who dialled is forgotten with the last handler of a closed transport.   *)
Remember == dial' = [t \in Transports |->
    IF up'[t] \/ \E sh \in ShellsOf(t) : at'[sh] # "out" THEN dial[t] ELSE NoDial]

(* A client dials; its key and user name are the transport's for good.     *)
Dial(t) ==
    /\ ~up[t] /\ \A sh \in ShellsOf(t) : at[sh] = "out"
    /\ up' = [up EXCEPT ![t] = TRUE]
    /\ \E d \in Dials[t] : dial' = [dial EXCEPT ![t] = d]
    /\ UNCHANGED <<at, limits, ctx, plays, games>>

(* The connection is lost or closed; its handlers find out in their time.  *)
HangUp(t) ==
    /\ up[t] /\ up' = [up EXCEPT ![t] = FALSE]
    /\ UNCHANGED <<at, limits, ctx, plays, games>> /\ Remember

-----------------------------------------------------------------------------
(* The chain, inward. *)

(* A shell runs logging, the rate limiter (which may refuse it), the scope *)
(* and SessionLimits.Middleware: who cannot be resolved or finds no place  *)
(* leaves without having taken one.                                        *)
Enter(sh) ==
    /\ at[sh] = "out" /\ up[TransportOf[sh]]
    /\ \/ IdOf(sh) # NotResolved /\ Acquire(Bucket(IdOf(sh))) /\ Move(sh, "counted")
       \/ UNCHANGED <<limits, at>>
    /\ UNCHANGED <<up, dial, ctx, plays, games>>

(* What comes after the limits returns through them, whatever it did.      *)
Refuse_Faulty(sh) == Move(sh, "out")  \* the place is not given back
Refuse(sh) == Move(sh, "leaving")

RequirePTY(sh) ==
    /\ at[sh] = "counted"
    /\ Refuse(sh) \/ Move(sh, "terminal")
    /\ UNCHANGED <<up, dial, limits, ctx, plays, games>>

SetValue_Faulty(sh) ==                \* one context for all shells of a transport
    ctx' = [x \in Shells |-> IF TransportOf[x] = TransportOf[sh] THEN sh ELSE ctx[x]]
SetValue(sh) == ctx' = [ctx EXCEPT ![sh] = sh]

(* The manager, as it has the farms of whoever was resolved.               *)
Manager == INSTANCE FarmSeats WITH
    Sessions <- Shells,
    Farms <- {FarmOf(Identity[d]) : d \in {e \in DOMAIN Identity : Identity[e] # NotResolved}}

(* attachSave; the manager may refuse it and the store may fail.           *)
Attach(sh) ==
    /\ at[sh] = "terminal"
    /\ \/ Manager!Attach(sh, FarmOf(IdOf(sh))) /\ SetValue(sh) /\ Move(sh, "attached")
       \/ Refuse(sh) /\ UNCHANGED <<games, ctx>>
    /\ UNCHANGED <<up, dial, limits, plays>>

(* teaHandler: the program drives the session its context has.             *)
StartProgram(sh) ==
    /\ at[sh] = "attached" /\ Move(sh, "playing")
    /\ plays' = [plays EXCEPT ![sh] = ctx[sh]]
    /\ UNCHANGED <<up, dial, limits, ctx, games>>

-----------------------------------------------------------------------------
(* And outward again: the deferred calls, last in, first out. *)

(* The notice is in the session's channel, the transport's context ended.  *)
MustEnd_Faulty(sh) == ~up[TransportOf[sh]]
MustEnd(sh) == ~up[TransportOf[sh]] \/ plays[sh] \in told

EndProgram_Faulty(sh) ==              \* Detach is not deferred
    /\ at[sh] = "playing" /\ Move(sh, "leaving")
    /\ plays' = [plays EXCEPT ![sh] = Nobody]
    /\ UNCHANGED <<up, dial, limits, ctx, games>>
EndProgram(sh) ==
    /\ at[sh] = "playing" /\ Move(sh, "ending")
    /\ plays' = [plays EXCEPT ![sh] = Nobody]
    /\ UNCHANGED <<up, dial, limits, ctx, games>>
SentAway(sh) == MustEnd(sh) /\ EndProgram(sh)

Detach(sh) ==
    /\ at[sh] = "ending" /\ Move(sh, "leaving")
    /\ Manager!Detach(sh)
    /\ UNCHANGED <<up, dial, limits, ctx, plays>>

Leave(sh) ==
    /\ at[sh] = "leaving" /\ Release(Bucket(IdOf(sh))) /\ Move(sh, "out")
    /\ ctx' = [ctx EXCEPT ![sh] = Nobody]
    /\ UNCHANGED <<up, plays, games>> /\ Remember

-----------------------------------------------------------------------------
(* The shutdown hook is the manager's own.                                 *)
Shutdown  == Manager!Shutdown /\ UNCHANGED <<up, dial, at, limits, ctx, plays>>
LetGo(sh) == Manager!LetGo(sh) /\ UNCHANGED <<up, dial, at, limits, ctx, plays>>

Init ==
    /\ up = [t \in Transports |-> FALSE]
    /\ dial = [t \in Transports |-> NoDial]
    /\ at = [sh \in Shells |-> "out"]
    /\ global = 0 /\ perKey = [b \in Buckets |-> 0]
    /\ ctx = [sh \in Shells |-> Nobody] /\ plays = [sh \in Shells |-> Nobody]
    /\ Manager!Init

Next ==
    \/ \E t \in Transports : Dial(t) \/ HangUp(t)
    \/ \E sh \in Shells : Enter(sh) \/ RequirePTY(sh) \/ Attach(sh)
    \/ \E sh \in Shells : StartProgram(sh) \/ EndProgram(sh) \/ Detach(sh) \/ Leave(sh)
    \/ Shutdown
    \/ \E sh \in Shells : LetGo(sh)

Spec == Init /\ [][Next]_vars

(* A handler's goroutine runs on; only a program may go on for ever, until *)
(* it is told to end or its transport is gone. Manager.Shutdown runs on.   *)
Goroutine(sh) ==
    \/ RequirePTY(sh) \/ Attach(sh) \/ StartProgram(sh)
    \/ SentAway(sh) \/ Detach(sh) \/ Leave(sh)

FairSpec == /\ Spec
            /\ \A sh \in Shells : WF_vars(Goroutine(sh))
            /\ WF_vars(\E sh \in Shells : LetGo(sh))

-----------------------------------------------------------------------------
Stages == {"out", "counted", "terminal", "attached", "playing", "ending", "leaving"}

(* The type invariant. *)
TypeOK ==
    /\ up \in [Transports -> BOOLEAN]
    /\ dial \in [Transports -> DOMAIN Identity]
    /\ at \in [Shells -> Stages]
    /\ global \in Nat /\ perKey \in [Buckets -> Nat]
    /\ ctx \in [Shells -> Shells \cup {Nobody}]
    /\ plays \in [Shells -> Shells \cup {Nobody}]
    /\ DOMAIN holds = Shells /\ told \subseteq Shells

Inside == {sh \in Shells : at[sh] # "out"}

(* The counts of the limiter are those of the handlers between acquire and *)
(* release, each under its player's key, whatever way they are refused or  *)
(* end: no cap is exceeded, and no place is lost to a handler that is gone. *)
(* A session the manager holds has a place: Detach comes before release.   *)
PlacesMatch ==
    LET bucketOf == [sh \in Inside |-> Bucket(IdOf(sh))] IN
    /\ global = Cardinality(Inside)
    /\ \A b \in Buckets : perKey[b] = Cardinality({sh \in Inside : bucketOf[sh] = b})
    /\ global <= MaxGlobal /\ \A b \in Buckets : perKey[b] <= MaxPerKey
    /\ \A sh \in Shells : ~Manager!Away(sh) => sh \in Inside

(* Between attach and detach a player has the farm of their own identity   *)
(* or a notice that it is gone, never both and never neither, however the  *)
(* shells take over from each other and from the shutdown; before and      *)
(* after, the manager knows nothing of the shell.                          *)
SeatOrNotice ==
    \A sh \in Shells :
        IF at[sh] \in {"attached", "playing", "ending"}
          THEN IF sh \in told THEN holds[sh] = Manager!NoFarm
               ELSE holds[sh] = FarmOf(IdOf(sh)) /\ Manager!Holders(holds[sh]) = {sh}
          ELSE Manager!Away(sh)

(* A shell keeps its farm until it is told: nobody else sits on it, and    *)
(* the program of the shell drives the session attached for that shell,    *)
(* also when other shells of its transport attach before it starts.        *)
ShellsKeepTheirFarm ==
    /\ SeatOrNotice
    /\ \A sh \in Shells : at[sh] = "playing" => plays[sh] = sh

(* Whoever asks for a slot gets the same farm through the lobby as         *)
(* directly, and nobody gets the farm of another key or another slot.      *)
Player(sh) == <<dial[TransportOf[sh]].key, dial[TransportOf[sh]].means>>
FarmsByPlayer ==
    LET seats == {<<FarmOf(IdOf(sh)), Player(sh)>> : sh \in Inside} IN
    \A x, y \in seats : (x[1] = y[1]) <=> (x[2] = y[2])

(* A player who was told to go, whose connection is lost, or who is inside *)
(* when the server shuts down, gives the place back.                       *)
PlacesComeBack ==
    \A sh \in Shells :
        (sh \in Inside /\ (sh \in told \/ ~up[TransportOf[sh]] \/ closing)) ~> (sh \notin Inside)
=============================================================================
