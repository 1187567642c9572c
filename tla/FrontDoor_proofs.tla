-------------------------- MODULE FrontDoor_proofs --------------------------
(***************************************************************************)
(* Places and shells, for any number of connections, shells, players and   *)
(* limits: the limiter counts the handlers inside, every program plays the *)
(* farm that its own shell attached, and whoever loses it is told.         *)
(***************************************************************************)
EXTENDS FrontDoor, FiniteSetTheorems, TLAPS

(* A shell's context and its program know no other shell's session. *)
OwnSession ==
    \A sh \in Shells : /\ at[sh] \in {"attached", "playing"} => ctx[sh] = sh
                       /\ at[sh] = "playing" => plays[sh] = sh

(* Who is inside has a player, who stays the same until it is out.         *)
Resolved == \A sh \in Inside : IdOf(sh) # NotResolved

(* Between attach and detach a shell has its farm or its notice.           *)
Seated(sh) == at[sh] \in {"attached", "playing", "ending"}
HasSeat ==
    \A sh \in Shells :
        IF Seated(sh) THEN holds[sh] = IF sh \in told THEN Manager!NoFarm ELSE FarmOf(IdOf(sh))
        ELSE Manager!Away(sh)

(* No farm has two sessions. *)
HeldOnce ==
    \A x, y \in Shells : holds[x] = holds[y] /\ holds[x] # Manager!NoFarm => x = y

Seats(b) == {sh \in Inside : Bucket(IdOf(sh)) = b}

Counts ==
    /\ global = Cardinality(Inside)
    /\ \A b \in Buckets : perKey[b] = Cardinality(Seats(b))
    /\ global <= MaxGlobal /\ \A b \in Buckets : perKey[b] <= MaxPerKey

DoorInv == TypeOK /\ OwnSession /\ Resolved /\ HasSeat /\ HeldOnce /\ Counts

-----------------------------------------------------------------------------
(* Whoever is resolved has a bucket of the limiter. *)
LEMMA BucketsAreKnown ==
    \A d \in DOMAIN Identity : Identity[d] # NotResolved => Bucket(Identity[d]) \in Buckets
<1> SUFFICES ASSUME NEW d \in DOMAIN Identity, Identity[d] # NotResolved
             PROVE  Bucket(Identity[d]) \in Buckets
  OBVIOUS
<1>1. Identity[d] = Resolve(d)
  BY DEF Identity
<1>2. CASE d.path = "direct"
  <2>1. d # NoDial
    BY <1>2 DEF NoDial
  <2>2. d.key \in Keys
    BY <1>2, <2>1, DoorAssumption DEF Identity, Range
  <2> QED
    BY <1>1, <1>2, <2>2 DEF Resolve, Keyed, Bucket, Buckets
<1>3. CASE d.path # "direct" /\ Len(d.user) > 0 /\ d.user[1] = "guest."
  BY <1>1, <1>3 DEF Resolve, Guest, Bucket, Buckets
<1>4. CASE d.path # "direct" /\ ~(Len(d.user) > 0 /\ d.user[1] = "guest.")
  BY <1>1, <1>4 DEF Resolve, ParseProxiedUsername, Keyed, Bucket, Buckets
<1> QED
  BY <1>2, <1>3, <1>4

LEMMA SeatsAreFinite ==
    /\ IsFiniteSet(Inside) /\ Cardinality(Inside) \in Nat
    /\ \A b \in Buckets : IsFiniteSet(Seats(b)) /\ Cardinality(Seats(b)) \in Nat
<1>1. IsFiniteSet(Inside)
  BY DoorAssumption, FS_Subset DEF Inside
<1>2. \A b \in Buckets : IsFiniteSet(Seats(b))
  BY <1>1, FS_Subset DEF Seats
<1> QED
  BY <1>1, <1>2, FS_CardinalityType

LEMMA CountsGivePlaces == DoorInv => PlacesMatch
<1> SUFFICES ASSUME DoorInv PROVE PlacesMatch
  OBVIOUS
<1> DEFINE bucketOf == [sh \in Inside |-> Bucket(IdOf(sh))]
<1>1. \A b \in Buckets : Seats(b) = {sh \in Inside : bucketOf[sh] = b}
  BY DEF Seats
<1>2. \A sh \in Shells : ~Manager!Away(sh) => sh \in Inside
  BY DEF DoorInv, HasSeat, Seated, Inside
<1> QED
  BY <1>1, <1>2 DEF DoorInv, Counts, PlacesMatch

(* The steps that neither let a shell in nor out. *)
LEMMA CountsKept ==
    ASSUME Counts, UNCHANGED limits, Inside' = Inside,
           \A sh \in Inside : IdOf(sh)' = IdOf(sh)
    PROVE  Counts'
<1>1. \A b \in Buckets : Seats(b)' = Seats(b)
  BY DEF Seats
<1> QED
  BY <1>1 DEF Counts, limits

(* The steps that neither seat a shell nor let one go. *)
LEMMA SeatsKept ==
    ASSUME HasSeat, HeldOnce, UNCHANGED <<holds, told>>,
           \A sh \in Shells : Seated(sh)' <=> Seated(sh),
           \A sh \in Inside : IdOf(sh)' = IdOf(sh)
    PROVE  HasSeat' /\ HeldOnce'
<1>1. \A sh \in Shells : Manager!Away(sh)' <=> Manager!Away(sh)
  BY DEF Manager!Away, Manager!NoFarm
<1>2. \A sh \in Shells : Seated(sh) => sh \in Inside
  BY DEF Seated, Inside
<1> QED
  BY <1>1, <1>2 DEF HasSeat, HeldOnce, FarmOf, Manager!NoFarm

(* A step that moves one shell from one stage inside to another.           *)
LEMMA MovesInside ==
    ASSUME DoorInv, NEW sh \in Shells, NEW stage \in Stages,
           at[sh] # "out", stage # "out", Move(sh, stage), UNCHANGED <<up, dial, limits>>
    PROVE  /\ Inside' = Inside /\ Resolved' /\ Counts'
           /\ \A x \in Shells : IdOf(x)' = IdOf(x)
           /\ at' \in [Shells -> Stages] /\ at'[sh] = stage
           /\ \A x \in Shells \ {sh} : at'[x] = at[x]
<1>1. /\ at' \in [Shells -> Stages] /\ at'[sh] = stage
      /\ \A x \in Shells \ {sh} : at'[x] = at[x]
  BY DEF DoorInv, TypeOK, Move
<1>2. Inside' = Inside
  BY <1>1 DEF Inside
<1>3. \A x \in Shells : IdOf(x)' = IdOf(x)
  BY DEF IdOf
<1>4. Resolved'
  BY <1>2, <1>3 DEF DoorInv, Resolved, Inside
<1>5. Counts'
  BY <1>2, <1>3, CountsKept DEF DoorInv, Inside
<1> QED
  BY <1>1, <1>2, <1>3, <1>4, <1>5

-----------------------------------------------------------------------------
LEMMA InitDoor == Init => DoorInv
<1> SUFFICES ASSUME Init PROVE DoorInv
  OBVIOUS
<1>1. Inside = {} /\ \A b \in Buckets : Seats(b) = {}
  BY DEF Init, Inside, Seats
<1>2. TypeOK
  <2>1. NoDial \in DOMAIN Identity
    BY DEF Identity
  <2> QED
    BY <2>1 DEF Init, TypeOK, Stages, Manager!Init
<1>3. Counts
  <2>1. Cardinality(Inside) = 0 /\ \A b \in Buckets : Cardinality(Seats(b)) = 0
    BY <1>1, FS_EmptySet
  <2> QED
    BY <2>1, DoorAssumption DEF Init, Counts
<1>4. OwnSession /\ HasSeat /\ HeldOnce
  BY DEF Init, OwnSession, HasSeat, HeldOnce, Seated, Manager!Init, Manager!Away
<1> QED
  BY <1>1, <1>2, <1>3, <1>4 DEF DoorInv, Resolved

(* Dialling and hanging up: nobody inside sees another player's name. *)
LEMMA TransportKeepsDoor ==
    ASSUME DoorInv, NEW t \in Transports, Dial(t) \/ HangUp(t) PROVE DoorInv'
<1>1. UNCHANGED <<at, limits, ctx, plays, games>>
  BY DEF Dial, HangUp
<1>2. Inside' = Inside
  BY <1>1 DEF Inside
<1>3. dial' \in [Transports -> DOMAIN Identity] /\ up' \in [Transports -> BOOLEAN]
  <2>1. CASE Dial(t)
    <3>1. Dials[t] \subseteq DOMAIN Identity
      BY DoorAssumption DEF Identity, Range
    <3> QED
      BY <2>1, <3>1 DEF Dial, DoorInv, TypeOK
  <2>2. CASE HangUp(t)
    <3>1. NoDial \in DOMAIN Identity
      BY DEF Identity
    <3> QED
      BY <2>2, <3>1 DEF HangUp, Remember, DoorInv, TypeOK
  <2> QED
    BY <2>1, <2>2
<1>4. \A sh \in Inside : dial'[TransportOf[sh]] = dial[TransportOf[sh]]
  <2> SUFFICES ASSUME NEW sh \in Inside PROVE dial'[TransportOf[sh]] = dial[TransportOf[sh]]
    OBVIOUS
  <2>1. sh \in Shells /\ at[sh] # "out" /\ TransportOf[sh] \in Transports
    BY DoorAssumption DEF Inside
  <2>2. CASE Dial(t)
    <3>1. TransportOf[sh] # t
      BY <2>1, <2>2 DEF Dial, ShellsOf
    <3> QED
      BY <2>1, <2>2, <3>1 DEF Dial, DoorInv, TypeOK
  <2>3. CASE HangUp(t)
    BY <2>1, <2>3, <1>1 DEF HangUp, Remember, ShellsOf
  <2> QED
    BY <2>2, <2>3
<1>5. \A sh \in Inside : IdOf(sh)' = IdOf(sh)
  BY <1>4 DEF IdOf
<1>6. TypeOK'
  BY <1>1, <1>3 DEF DoorInv, TypeOK, limits, games
<1>7. OwnSession' /\ HasSeat' /\ HeldOnce'
  BY <1>1, <1>5, SeatsKept DEF DoorInv, OwnSession, Seated, games
<1>8. Resolved'
  BY <1>2, <1>5 DEF DoorInv, Resolved
<1>9. Counts'
  BY <1>1, <1>2, <1>5, CountsKept DEF DoorInv
<1> QED
  BY <1>6, <1>7, <1>8, <1>9 DEF DoorInv

(* A shell comes in: one more of everybody, and one more of its player.    *)
LEMMA EnterKeepsDoor ==
    ASSUME DoorInv, NEW sh \in Shells, Enter(sh) PROVE DoorInv'
<1>1. CASE UNCHANGED <<limits, at>>
  <2>1. Inside' = Inside /\ \A x \in Inside : IdOf(x)' = IdOf(x)
    BY <1>1 DEF Enter, Inside, IdOf
  <2>2. Counts'
    BY <1>1, <2>1, CountsKept DEF DoorInv
  <2>3. TypeOK' /\ OwnSession' /\ Resolved'
    BY <1>1, <2>1 DEF Enter, DoorInv, TypeOK, OwnSession, Resolved, games, limits
  <2>4. HasSeat' /\ HeldOnce'
    BY <1>1, <2>1, SeatsKept DEF Enter, DoorInv, Seated, games
  <2> QED
    BY <2>2, <2>3, <2>4 DEF DoorInv
<1>2. CASE IdOf(sh) # NotResolved /\ Acquire(Bucket(IdOf(sh))) /\ Move(sh, "counted")
  <2>1. at[sh] = "out" /\ UNCHANGED <<up, dial, ctx, plays, games>>
    BY DEF Enter
  <2>2. /\ at' \in [Shells -> Stages] /\ at'[sh] = "counted"
        /\ \A x \in Shells \ {sh} : at'[x] = at[x]
    BY <1>2 DEF Move, DoorInv, TypeOK, Stages
  <2>3. Inside' = Inside \cup {sh} /\ sh \notin Inside
    BY <2>1, <2>2 DEF Inside
  <2>4. \A x \in Shells : IdOf(x)' = IdOf(x)
    BY <2>1 DEF IdOf
  <2>5. PICK bucket \in Buckets : bucket = Bucket(IdOf(sh))
    <3>1. dial[TransportOf[sh]] \in DOMAIN Identity
      BY DoorAssumption DEF DoorInv, TypeOK
    <3> QED
      BY <1>2, <3>1, BucketsAreKnown DEF IdOf
  <2>6. /\ Seats(bucket)' = Seats(bucket) \cup {sh} /\ sh \notin Seats(bucket)
        /\ \A b \in Buckets \ {bucket} : Seats(b)' = Seats(b)
    BY <2>3, <2>4, <2>5 DEF Seats, Inside
  <2>7. /\ global' = global + 1 /\ global < MaxGlobal
        /\ perKey' = [perKey EXCEPT ![bucket] = @ + 1] /\ perKey[bucket] < MaxPerKey
    BY <1>2, <2>5 DEF Acquire, HasRoom
  <2>8. Cardinality(Inside)' = Cardinality(Inside) + 1
    BY <2>3, SeatsAreFinite, FS_AddElement
  <2>9. Cardinality(Seats(bucket))' = Cardinality(Seats(bucket)) + 1
    BY <2>5, <2>6, SeatsAreFinite, FS_AddElement
  <2>10. TypeOK'
    BY <2>1, <2>2, <2>5, <2>7 DEF DoorInv, TypeOK, games
  <2>11. Counts'
    <3>1. global' = Cardinality(Inside)' /\ global' <= MaxGlobal
      BY <2>7, <2>8, SeatsAreFinite, DoorAssumption DEF DoorInv, Counts
    <3>2. perKey'[bucket] = Cardinality(Seats(bucket))' /\ perKey'[bucket] <= MaxPerKey
      BY <2>7, <2>9, SeatsAreFinite, DoorAssumption DEF DoorInv, Counts, TypeOK
    <3>3. \A b \in Buckets \ {bucket} :
             perKey'[b] = Cardinality(Seats(b))' /\ perKey'[b] <= MaxPerKey
      BY <2>6, <2>7 DEF DoorInv, Counts, TypeOK
    <3> QED
      BY <3>1, <3>2, <3>3 DEF Counts
  <2>12. OwnSession' /\ Resolved'
    BY <1>2, <2>1, <2>2, <2>3, <2>4 DEF DoorInv, OwnSession, Resolved, Inside
  <2>13. HasSeat' /\ HeldOnce'
    BY <2>1, <2>2, <2>4, SeatsKept DEF DoorInv, Seated, games, Inside
  <2> QED
    BY <2>10, <2>11, <2>12, <2>13 DEF DoorInv
<1> QED
  BY <1>1, <1>2 DEF Enter

(* A shell goes out: its player, known until then, has one place more.     *)
LEMMA LeaveKeepsDoor ==
    ASSUME DoorInv, NEW sh \in Shells, Leave(sh) PROVE DoorInv'
<1>1. /\ at[sh] = "leaving" /\ UNCHANGED <<up, plays, games>> /\ Remember
      /\ ctx' = [ctx EXCEPT ![sh] = Nobody]
  BY DEF Leave
<1>2. /\ at' \in [Shells -> Stages] /\ at'[sh] = "out"
      /\ \A x \in Shells \ {sh} : at'[x] = at[x]
  BY DEF Leave, Move, DoorInv, TypeOK, Stages
<1>3. Inside' = Inside \ {sh} /\ sh \in Inside
  BY <1>1, <1>2 DEF Inside
<1>4. \A x \in Inside' : IdOf(x)' = IdOf(x)
  <2> SUFFICES ASSUME NEW x \in Inside' PROVE dial'[TransportOf[x]] = dial[TransportOf[x]]
    BY DEF IdOf
  <2>1. x \in Shells /\ at'[x] # "out" /\ TransportOf[x] \in Transports
    BY DoorAssumption DEF Inside
  <2> QED
    BY <1>1, <2>1 DEF Remember, ShellsOf
<1>5. PICK bucket \in Buckets : bucket = Bucket(IdOf(sh))
  <2>1. dial[TransportOf[sh]] \in DOMAIN Identity /\ IdOf(sh) # NotResolved
    BY <1>3, DoorAssumption DEF DoorInv, TypeOK, Resolved
  <2> QED
    BY <2>1, BucketsAreKnown DEF IdOf
<1>6. /\ Seats(bucket)' = Seats(bucket) \ {sh} /\ sh \in Seats(bucket)
      /\ \A b \in Buckets \ {bucket} : Seats(b)' = Seats(b)
  BY <1>3, <1>4, <1>5 DEF Seats, Inside
<1>7. Cardinality(Inside)' = Cardinality(Inside) - 1
  BY <1>3, SeatsAreFinite, FS_RemoveElement
<1>8. Cardinality(Seats(bucket))' = Cardinality(Seats(bucket)) - 1
  BY ZenonT(30), <1>5, <1>6, SeatsAreFinite, FS_RemoveElement
<1>9. Cardinality(Seats(bucket)) > 0 /\ Cardinality(Inside) > 0
  BY <1>3, <1>5, <1>6, SeatsAreFinite, FS_EmptySet
<1>10. /\ global' = global - 1
       /\ perKey' = [perKey EXCEPT ![bucket] = IF @ > 0 THEN @ - 1 ELSE 0]
  BY <1>5 DEF Leave, Release
<1>11. Counts'
  <2>1. global' = Cardinality(Inside)' /\ global' <= MaxGlobal
    BY <1>7, <1>10, SeatsAreFinite, DoorAssumption DEF DoorInv, Counts
  <2>2. perKey'[bucket] = Cardinality(Seats(bucket))' /\ perKey'[bucket] <= MaxPerKey
    BY <1>8, <1>9, <1>10, SeatsAreFinite, DoorAssumption DEF DoorInv, Counts, TypeOK
  <2>3. \A b \in Buckets \ {bucket} :
           perKey'[b] = Cardinality(Seats(b))' /\ perKey'[b] <= MaxPerKey
    BY <1>6, <1>10 DEF DoorInv, Counts, TypeOK
  <2> QED
    BY <2>1, <2>2, <2>3 DEF Counts
<1>12. TypeOK'
  <2>1. dial' \in [Transports -> DOMAIN Identity]
    <3>1. NoDial \in DOMAIN Identity
      BY DEF Identity
    <3> QED
      BY <1>1, <3>1 DEF Remember, DoorInv, TypeOK
  <2>2. global' \in Nat /\ perKey' \in [Buckets -> Nat]
    BY <1>5, <1>9, <1>10 DEF DoorInv, TypeOK, Counts
  <2> QED
    BY <1>1, <1>2, <2>1, <2>2 DEF DoorInv, TypeOK, games
<1>13. OwnSession'
  BY <1>1, <1>2 DEF DoorInv, TypeOK, OwnSession
<1>14. Resolved'
  BY <1>3, <1>4 DEF DoorInv, Resolved
<1>15. HasSeat' /\ HeldOnce'
  <2>1. \A x \in Shells : Seated(x)' <=> Seated(x)
    BY <1>1, <1>2 DEF Seated
  <2>2. \A x \in Shells : Manager!Away(x)' <=> Manager!Away(x)
    BY <1>1 DEF Manager!Away, Manager!NoFarm, games
  <2>3. \A x \in Shells : Seated(x) => x \in Inside'
    BY <1>1, <1>2 DEF Seated, Inside
  <2> QED
    BY <1>1, <1>4, <2>1, <2>2, <2>3
    DEF DoorInv, HasSeat, HeldOnce, FarmOf, games, Manager!NoFarm
<1> QED
  BY <1>11, <1>12, <1>13, <1>14, <1>15 DEF DoorInv

(* A shell sits down, and whoever sat there has the notice instead.        *)
LEMMA AttachSeats ==
    ASSUME DoorInv, NEW sh \in Shells, Manager!Attach(sh, FarmOf(IdOf(sh))),
           \A x \in Shells : IdOf(x)' = IdOf(x),
           Seated(sh)', \A x \in Shells \ {sh} : Seated(x)' <=> Seated(x)
    PROVE  HasSeat' /\ HeldOnce' /\ DOMAIN holds' = Shells /\ told' \subseteq Shells
<1> DEFINE f == FarmOf(IdOf(sh))
<1>1. /\ told' = told \cup {x \in Shells : holds[x] = f} /\ sh \notin told
      /\ holds' = [x \in Shells |-> IF x = sh THEN f
                                   ELSE IF holds[x] = f THEN Manager!NoFarm ELSE holds[x]]
      /\ holds[sh] = Manager!NoFarm
  BY DEF Manager!Attach, Manager!Away, Manager!Holders, Manager!NoFarm
<1>2. f # Manager!NoFarm
  BY DEF FarmOf, Manager!NoFarm
<1> HIDE DEF f
<1>3. DOMAIN holds' = Shells /\ told' \subseteq Shells
  BY <1>1 DEF DoorInv, TypeOK
<1>4. HeldOnce'
  BY <1>1, <1>2 DEF DoorInv, HeldOnce, Manager!NoFarm
<1>5. holds'[sh] = f /\ sh \notin told'
  BY <1>1, <1>2
<1>6. ASSUME NEW x \in Shells, x # sh
      PROVE  IF Seated(x) THEN holds'[x] = IF x \in told' THEN Manager!NoFarm ELSE FarmOf(IdOf(x))
             ELSE holds'[x] = Manager!NoFarm /\ x \notin told'
  <2>1. IF Seated(x) THEN holds[x] = IF x \in told THEN Manager!NoFarm ELSE FarmOf(IdOf(x))
        ELSE holds[x] = Manager!NoFarm /\ x \notin told
    BY DEF DoorInv, HasSeat, Manager!Away, Manager!NoFarm
  <2> QED
    BY <1>1, <1>2, <1>6, <2>1
<1>7. HasSeat'
  BY <1>5, <1>6 DEF HasSeat, Manager!Away, Manager!NoFarm, FarmOf, f
<1> QED
  BY <1>3, <1>4, <1>7

(* In between, a shell gets its own session and its program plays it.      *)
LEMMA HandlerKeepsDoor ==
    ASSUME DoorInv, NEW sh \in Shells,
           RequirePTY(sh) \/ Attach(sh) \/ StartProgram(sh) \/ EndProgram(sh) \/ Detach(sh)
    PROVE  DoorInv'
<1> USE DEF Stages
<1>1. CASE RequirePTY(sh)
  <2>1. PICK stage \in {"leaving", "terminal"} :
          Move(sh, stage) /\ at[sh] = "counted" /\ UNCHANGED <<up, dial, limits, ctx, plays, games>>
    BY <1>1 DEF RequirePTY, Refuse
  <2>2. HasSeat' /\ HeldOnce'
    BY <2>1, MovesInside, SeatsKept DEF DoorInv, Seated, games, Inside
  <2> QED
    BY <2>1, <2>2, MovesInside DEF DoorInv, TypeOK, OwnSession, games, limits
<1>2. CASE Attach(sh) /\ Refuse(sh) /\ UNCHANGED <<games, ctx>>
  <2>1. HasSeat' /\ HeldOnce'
    BY <1>2, MovesInside, SeatsKept DEF Attach, Refuse, DoorInv, Seated, games, Inside
  <2> QED
    BY <1>2, <2>1, MovesInside DEF Attach, Refuse, DoorInv, TypeOK, OwnSession, limits, games
<1>3. CASE /\ Attach(sh) /\ Manager!Attach(sh, FarmOf(IdOf(sh)))
           /\ SetValue(sh) /\ Move(sh, "attached")
  <2>1. at[sh] = "terminal" /\ UNCHANGED <<up, dial, limits, plays>>
    BY <1>3 DEF Attach
  <2>2. /\ Resolved' /\ Counts' /\ at' \in [Shells -> Stages] /\ at'[sh] = "attached"
        /\ \A x \in Shells \ {sh} : at'[x] = at[x]
        /\ \A x \in Shells : IdOf(x)' = IdOf(x)
    BY <1>3, <2>1, MovesInside
  <2>3. HasSeat' /\ HeldOnce' /\ DOMAIN holds' = Shells /\ told' \subseteq Shells
    BY <1>3, <2>1, <2>2, AttachSeats DEF Seated
  <2>4. TypeOK' /\ OwnSession'
    BY <1>3, <2>1, <2>2, <2>3 DEF SetValue, DoorInv, TypeOK, OwnSession, limits
  <2> QED
    BY <2>2, <2>3, <2>4 DEF DoorInv
<1>4. CASE StartProgram(sh)
  <2>1. HasSeat' /\ HeldOnce'
    BY <1>4, MovesInside, SeatsKept DEF StartProgram, DoorInv, Seated, games, Inside
  <2> QED
    BY <1>4, <2>1, MovesInside DEF StartProgram, DoorInv, TypeOK, OwnSession, games, limits
<1>5. CASE EndProgram(sh)
  <2>1. HasSeat' /\ HeldOnce'
    BY <1>5, MovesInside, SeatsKept DEF EndProgram, DoorInv, Seated, games, Inside
  <2> QED
    BY <1>5, <2>1, MovesInside DEF EndProgram, DoorInv, TypeOK, OwnSession, games, limits
<1>6. CASE Detach(sh)
  <2>1. /\ Manager!Detach(sh) /\ at[sh] = "ending" /\ Move(sh, "leaving")
        /\ UNCHANGED <<up, dial, limits, ctx, plays>>
    BY <1>6 DEF Detach
  <2>2. /\ Resolved' /\ Counts' /\ at' \in [Shells -> Stages] /\ at'[sh] = "leaving"
        /\ \A x \in Shells \ {sh} : at'[x] = at[x]
        /\ \A x \in Shells : IdOf(x)' = IdOf(x)
    BY <2>1, MovesInside
  <2>3. /\ DOMAIN holds' = Shells /\ told' \subseteq Shells
        /\ holds'[sh] = Manager!NoFarm /\ sh \notin told'
        /\ \A x \in Shells \ {sh} : holds'[x] = holds[x] /\ (x \in told' <=> x \in told)
    BY <2>1 DEF Manager!Detach, Manager!NoFarm, DoorInv, TypeOK
  <2>4. HasSeat'
    BY <2>2, <2>3 DEF DoorInv, HasSeat, Seated, FarmOf, Manager!Away, Manager!NoFarm
  <2>5. HeldOnce'
    BY <2>3 DEF DoorInv, HeldOnce, Manager!NoFarm
  <2>6. TypeOK' /\ OwnSession'
    BY <2>1, <2>2, <2>3 DEF DoorInv, TypeOK, OwnSession, limits
  <2> QED
    BY <2>2, <2>4, <2>5, <2>6 DEF DoorInv
<1> QED
  BY <1>1, <1>2, <1>3, <1>4, <1>5, <1>6 DEF Attach

(* The shutdown takes farms away and touches no place. *)
LEMMA ShutdownKeepsDoor ==
    ASSUME DoorInv, Shutdown \/ \E sh \in Shells : LetGo(sh) PROVE DoorInv'
<1>1. UNCHANGED <<up, dial, at, limits, ctx, plays>>
  BY DEF Shutdown, LetGo
<1>2. Inside' = Inside /\ \A x \in Inside : IdOf(x)' = IdOf(x)
  BY <1>1 DEF Inside, IdOf
<1>3. Counts' /\ Resolved'
  BY <1>1, <1>2, CountsKept DEF DoorInv, Resolved
<1>4. CASE Shutdown
  <2>1. UNCHANGED <<holds, told>>
    BY <1>4 DEF Shutdown, Manager!Shutdown
  <2>2. HasSeat' /\ HeldOnce'
    BY <1>1, <1>2, <2>1, SeatsKept DEF DoorInv, Seated
  <2> QED
    BY <1>1, <1>3, <2>1, <2>2 DEF DoorInv, TypeOK, OwnSession, limits
<1>5. ASSUME NEW sh \in Shells, LetGo(sh) PROVE DoorInv'
  <2>1. /\ DOMAIN holds' = Shells /\ told' = told \cup {sh}
        /\ holds[sh] # Manager!NoFarm /\ holds'[sh] = Manager!NoFarm
        /\ \A x \in Shells \ {sh} : holds'[x] = holds[x]
    BY <1>5 DEF LetGo, Manager!LetGo, Manager!NoFarm, DoorInv, TypeOK
  <2>2. Seated(sh)
    BY <2>1 DEF DoorInv, HasSeat, Manager!Away, Manager!NoFarm
  <2>3. \A x \in Shells : (Seated(x)' <=> Seated(x)) /\ IdOf(x)' = IdOf(x)
    BY <1>1 DEF Seated, IdOf
  <2>4. HasSeat'
    BY <2>1, <2>2, <2>3 DEF DoorInv, HasSeat, FarmOf, Manager!Away, Manager!NoFarm
  <2>5. HeldOnce'
    BY <2>1 DEF DoorInv, HeldOnce, Manager!NoFarm
  <2>6. TypeOK' /\ OwnSession'
    BY <1>1, <2>1 DEF DoorInv, TypeOK, OwnSession, limits
  <2> QED
    BY <1>3, <2>4, <2>5, <2>6 DEF DoorInv
<1> QED
  BY <1>4, <1>5

LEMMA StepKeepsDoor == DoorInv /\ [Next]_vars => DoorInv'
<1> SUFFICES ASSUME DoorInv, [Next]_vars PROVE DoorInv'
  OBVIOUS
<1>1. CASE UNCHANGED vars
  <2>1. Inside' = Inside /\ \A x \in Inside : IdOf(x)' = IdOf(x)
    BY <1>1 DEF vars, Inside, IdOf
  <2>2. Counts' /\ Resolved'
    BY <1>1, <2>1, CountsKept DEF DoorInv, Resolved, vars, limits
  <2>3. TypeOK' /\ OwnSession'
    BY <1>1 DEF vars, limits, games, DoorInv, TypeOK, OwnSession
  <2>4. HasSeat' /\ HeldOnce'
    BY <1>1, <2>1, SeatsKept DEF vars, games, DoorInv, Seated
  <2> QED
    BY <2>2, <2>3, <2>4 DEF DoorInv
<1> QED
  BY <1>1, TransportKeepsDoor, EnterKeepsDoor, HandlerKeepsDoor, LeaveKeepsDoor,
     ShutdownKeepsDoor DEF Next

-----------------------------------------------------------------------------
(* The inductive invariant of the front door. *)
THEOREM DoorInvariant == Spec => []DoorInv
<1> QED
  BY InitDoor, StepKeepsDoor, PTL DEF Spec

(* The type invariant: nobody is counted below zero, and the dialled names *)
(* are those that identities were resolved for.                            *)
THEOREM TypeCorrect == Spec => []TypeOK
<1>1. DoorInv => TypeOK
  BY DEF DoorInv
<1> QED
  BY <1>1, DoorInvariant, PTL

(* However handlers are refused, end or are cut off, the limiter counts    *)
(* exactly those that are inside, under their players, within its limits.  *)
THEOREM PlacesAreCounted == Spec => []PlacesMatch
<1>1. DoorInv => PlacesMatch
  BY CountsGivePlaces
<1> QED
  BY <1>1, DoorInvariant, PTL

(* However often farms change hands, and whoever shuts down in between, a  *)
(* shell has its own farm, alone, or knows that it lost it.                *)
THEOREM PlayersHaveSeatOrNotice == Spec => []SeatOrNotice
<1>1. ASSUME DoorInv PROVE SeatOrNotice
  <2>1. \A x \in Shells : holds[x] # Manager!NoFarm => Manager!Holders(holds[x]) = {x}
    BY <1>1 DEF DoorInv, HeldOnce, Manager!Holders, Manager!NoFarm
  <2>2. \A x \in Shells : FarmOf(IdOf(x)) # Manager!NoFarm
    BY DEF FarmOf, Manager!NoFarm
  <2> QED
    BY <1>1, <2>1, <2>2 DEF DoorInv, HasSeat, Seated, SeatOrNotice
<1> QED
  BY <1>1, DoorInvariant, PTL

(* However many shells share a connection, a program drives the session    *)
(* that was attached for its own shell, which has the farm until told.     *)
THEOREM ProgramsPlayTheirShell == Spec => []ShellsKeepTheirFarm
<1>1. ASSUME DoorInv PROVE \A sh \in Shells : at[sh] = "playing" => plays[sh] = sh
  BY <1>1 DEF DoorInv, OwnSession
<1>2. DoorInv /\ SeatOrNotice => ShellsKeepTheirFarm
  BY <1>1 DEF ShellsKeepTheirFarm
<1> QED
  BY <1>2, DoorInvariant, PlayersHaveSeatOrNotice, PTL

-----------------------------------------------------------------------------
(* Identity: a caller who is resolved gets what the name says, no more.    *)
LEMMA ResolvedAsMeant ==
    ASSUME NEW d \in DOMAIN Identity, Resolve(d) # NotResolved
    PROVE  \/ d.key \in Keys /\ Resolve(d) = Keyed(d.key, d.means)
           \/ d.key \in GuestIds /\ d.means = <<>> /\ Resolve(d) = Guest(d.key)
<1>1. d # NoDial
  BY DEF Resolve, NoDial, ParseProxiedUsername
<1>2. PICK t \in Transports : d \in Dials[t]
  BY <1>1, DoorAssumption DEF Identity, Range
<1>3. CASE d.path = "direct" /\ d.means = ResolveSlot(d.user)
  BY <1>2, <1>3, DoorAssumption DEF Resolve
<1>4. CASE /\ d.path = "lobby" /\ d.key \in Keys
           /\ d.means \in Seq(Range(d.means)) /\ d.user = <<d.key, ".">> \o d.means
  <2>1. /\ d.user[1] = d.key /\ d.user[2] = "." /\ Len(d.user) > 0
        /\ SubSeq(d.user, 3, Len(d.user)) = d.means
    BY <1>4
  <2>2. Resolve(d) = ParseProxiedUsername(d.user)
    BY <1>4, <2>1, CallersAssumption DEF Resolve
  <2> QED
    BY <1>4, <2>1, <2>2 DEF ParseProxiedUsername
<1>5. CASE /\ d.path = "lobby" /\ d.key \in GuestIds
           /\ d.means = <<>> /\ d.user = <<"guest.", d.key>>
  BY <1>5 DEF Resolve
<1>6. CASE d.path = "lobby" /\ (Len(d.user) > 0 => d.user[1] \notin Keys \cup {"guest."})
  <2>1. ~(Len(d.user) > 2 /\ d.user[1] \in Keys)
    BY <1>6
  <2>2. ~(Len(d.user) > 0 /\ d.user[1] = "guest.")
    BY <1>6
  <2>3. Resolve(d) = NotResolved
    BY <1>6, <2>1, <2>2 DEF Resolve, ParseProxiedUsername
  <2> QED
    BY <2>3
<1> QED
  BY <1>2, <1>3, <1>4, <1>5, <1>6, CallersAssumption

LEMMA FarmTellsPlayer ==
    ASSUME NEW d \in DOMAIN Identity, NEW e \in DOMAIN Identity,
           Resolve(d) # NotResolved, Resolve(e) # NotResolved
    PROVE  FarmOf(Resolve(d)) = FarmOf(Resolve(e)) <=> <<d.key, d.means>> = <<e.key, e.means>>
<1>1. /\ \/ d.key \in Keys /\ FarmOf(Resolve(d)) = <<"key", d.key, d.means>>
         \/ d.key \in GuestIds /\ d.means = <<>> /\ FarmOf(Resolve(d)) = <<"guest", d.key, <<>>>>
      /\ \/ e.key \in Keys /\ FarmOf(Resolve(e)) = <<"key", e.key, e.means>>
         \/ e.key \in GuestIds /\ e.means = <<>> /\ FarmOf(Resolve(e)) = <<"guest", e.key, <<>>>>
  BY ResolvedAsMeant DEF FarmOf, Keyed, Guest
<1> QED
  BY <1>1, CallersAssumption

(* A slot is one farm, however its player comes in, and nobody else's.     *)
THEOREM FarmsAreTheirPlayers == Spec => []FarmsByPlayer
<1>1. ASSUME DoorInv PROVE FarmsByPlayer
  <2>1. \A sh \in Inside : /\ dial[TransportOf[sh]] \in DOMAIN Identity
                           /\ IdOf(sh) = Resolve(dial[TransportOf[sh]])
                           /\ IdOf(sh) # NotResolved
    <3> SUFFICES ASSUME NEW sh \in Inside
                 PROVE  /\ dial[TransportOf[sh]] \in DOMAIN Identity
                        /\ IdOf(sh) = Resolve(dial[TransportOf[sh]])
                        /\ IdOf(sh) # NotResolved
      OBVIOUS
    <3>1. dial[TransportOf[sh]] \in DOMAIN Identity
      BY <1>1, DoorAssumption DEF DoorInv, TypeOK, Inside
    <3> QED
      BY <1>1, <3>1 DEF IdOf, Identity, DoorInv, Resolved
  <2>2. \A x, y \in Inside : FarmOf(IdOf(x)) = FarmOf(IdOf(y)) <=> Player(x) = Player(y)
    BY <2>1, FarmTellsPlayer DEF Player
  <2> QED
    BY <2>2 DEF FarmsByPlayer
<1> QED
  BY <1>1, DoorInvariant, PTL
=============================================================================
