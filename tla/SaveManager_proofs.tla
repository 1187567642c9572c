-------------------------- MODULE SaveManager_proofs --------------------------
(***************************************************************************)
(* The safety of the save manager, for any number of connections, saves    *)
(* and changes, and under both policies.  ManagerInv is the inductive      *)
(* invariant: who may hold mu, what the registry and the sessions agree    *)
(* on, what the flush still has to do, and how far an actor may be ahead   *)
(* of its row.                                                             *)
(***************************************************************************)
EXTENDS SaveManagerProps, TLAPS

(* mu is held exactly inside Attach, Detach and the reaping of the flush. *)
LockInv ==
    /\ \A c \in Conns :
          pc[c] \in {"attaching", "joining", "detaching", "stopping"} => lock = c
    /\ \A c \in Conns :
          lock = c => pc[c] \in {"attaching", "joining", "detaching", "stopping"}
    /\ fpc = "reap" <=> lock = "flusher"

(* Somebody who holds mu is waiting for this actor to end. *)
BeingStopped(a) ==
    \/ \E c \in Conns : pc[c] = "stopping" /\ on[c] = a
    \/ fpc = "reap" /\ cur = a

(* A live actor is registered, and a registered actor that is not running  *)
(* is being stopped.                                                       *)
RegistryInv ==
    /\ \A a \in Conns : Live(a) => Registered(a)
    /\ \A k \in Keys : actors[k] # None => KeyOf[actors[k]] = k
    /\ \A a \in Conns : Registered(a) => phase[a] \in {"running", "stopping", "done"}
    /\ \A a \in Conns : Registered(a) /\ phase[a] # "running" => BeingStopped(a)
    /\ \A a \in Conns : phase[a] # "panicked"

(* Where a connection is tells which actor it is on, and in what state. *)
ConnInv ==
    /\ \A c \in Conns :
          IF pc[c] \in {"idle", "attaching", "gone"}
            THEN on[c] = None
            ELSE on[c] \in Conns /\ KeyOf[on[c]] = KeyOf[c] /\ phase[on[c]] # "none"
    /\ \A c \in Conns : pc[c] = "joining" => Registered(on[c])
    /\ \A c \in Conns : pc[c] = "stopping" =>
          phase[on[c]] \in {"stopping", "done"} /\ sess[on[c]] = None
    /\ \A c \in Conns : pc[c] \in {"idle", "attaching"} =>
          phase[c] = "none" /\ ~dirty[c] /\ ~failed[c] /\ sess[c] = None

(* A session owns its actor exactly while it is attached and not told. *)
SessionInv ==
    /\ \A a, c \in Conns : sess[a] = c =>
          /\ pc[c] \in {"open", "detaching"} /\ on[c] = a
          /\ kicked[c] = "no" /\ phase[a] = "running"
    /\ \A c \in Conns : pc[c] \in {"open", "detaching"} /\ kicked[c] = "no" =>
          sess[on[c]] = c
    /\ \A c \in Conns : pc[c] \in {"idle", "attaching", "joining"} => kicked[c] = "no"

(* Once the server is closing nobody attaches, and every actor that is     *)
(* still registered is on the flush's list.                                *)
FlushInv ==
    /\ closing <=> hook # "off"
    /\ closing => \A c \in Conns : pc[c] \notin {"attaching", "joining"}
    /\ closing => \A k \in Keys : actors[k] # None => actors[k] \in todo
    /\ hook = "off" => fpc = "kick" /\ todo = {}
    /\ hook = "flushed" => fpc = "kick" /\ todo = {}
    /\ \A a \in todo : phase[a] # "none"
    /\ fpc \in {"lock", "reap"} => cur \in todo /\ sess[cur] = None
    /\ fpc = "reap" => phase[cur] \in {"stopping", "done"}

(* The registered actor is at its row when it is clean and ahead of it when *)
(* it is dirty; it ends dirty only after a failed write; a failed write     *)
(* leaves it dirty; guests have no rows.                                    *)
DataInv ==
    /\ \A a \in Conns : Registered(a) /\ ~IsGuest(a) =>
          /\ 0 < row[KeyOf[a]] /\ row[KeyOf[a]] <= mem[a]
          /\ dirty[a] <=> row[KeyOf[a]] # mem[a]
          /\ phase[a] = "done" /\ dirty[a] => failed[a]
    /\ \A a \in Conns : failed[a] => dirty[a]
    /\ GuestsAreNotStored

ManagerInv ==
    TypeOK /\ LockInv /\ RegistryInv /\ ConnInv /\ SessionInv /\ FlushInv /\ DataInv

-----------------------------------------------------------------------------
(* Each action keeps the invariant: one lemma per action, one step per part. *)

(* The key of a connection is a key, and what is registered for it is an actor. *)
LEMMA KeyTypes ==
    ASSUME TypeOK, NEW c \in Conns
    PROVE  /\ KeyOf[c] \in Keys
           /\ actors[KeyOf[c]] \in Conns \cup {None}
           /\ row[KeyOf[c]] \in Nat
BY KeysAssumption DEF TypeOK, Keys

(* Notices and phases stay what they are. *)
LEMMA KickTypes ==
    ASSUME TypeOK, NEW s, NEW notice \in Notices
    PROVE  Kick(s, notice) \in [Conns -> Notices]
BY DEF TypeOK, Kick

LEMMA StopTypes ==
    ASSUME TypeOK, NEW a \in Conns
    PROVE  Stop(a) \in [Conns -> Phases]
BY DEF TypeOK, Stop, Phases

(* persist writes the actor's state or changes nothing but the failure flag. *)
LEMMA PersistTypes ==
    ASSUME TypeOK, NEW a \in Conns, Persist(a)
    PROVE  /\ row' \in [Keys -> Nat]
           /\ dirty' \in [Conns -> BOOLEAN]
           /\ failed' \in [Conns -> BOOLEAN]
<1>1. CASE UNCHANGED <<row, dirty, failed>>
  BY <1>1 DEF TypeOK
<1>2. CASE WriteSucceeds(a)
  BY <1>2, KeyTypes DEF TypeOK, WriteSucceeds
<1>3. CASE WriteFails(a)
  BY <1>3 DEF TypeOK, WriteFails
<1> QED
  BY <1>1, <1>2, <1>3 DEF Persist

(* persist on a registered actor leaves the row at or behind the actor,     *)
(* clears dirty only when they agree, and says so when it fails.            *)
LEMMA PersistKeepsData ==
    ASSUME TypeOK, DataInv, NEW a \in Conns, Registered(a), Persist(a),
           UNCHANGED <<actors, mem>>,
           \A b \in Conns \ {a} : phase'[b] = phase[b]
    PROVE  DataInv'
<1> USE DEF DataInv, Registered, IsGuest, GuestsAreNotStored
<1>1. CASE Skips(a) /\ UNCHANGED <<row, dirty, failed>>
  <2>1. IsGuest(a) \/ ~dirty[a]
    BY <1>1 DEF Skips
  <2> QED
    BY <1>1, <2>1
<1>2. CASE ~Skips(a) /\ WriteSucceeds(a)
  <2>1. KeyOf[a] \in Keys /\ KeyOf[a] \notin Guests /\ mem[a] \in Nat /\ 0 < mem[a]
    BY <1>2, KeyTypes DEF TypeOK, Skips
  <2>2. /\ row' = [row EXCEPT ![KeyOf[a]] = mem[a]]
        /\ dirty' = [dirty EXCEPT ![a] = FALSE]
        /\ failed' = [failed EXCEPT ![a] = FALSE]
    BY <1>2 DEF WriteSucceeds
  <2>3. ASSUME NEW b \in Conns, Registered(b), b # a
        PROVE  /\ row'[KeyOf[b]] = row[KeyOf[b]]
               /\ dirty'[b] = dirty[b] /\ failed'[b] = failed[b]
    BY <2>2, <2>3, KeyTypes DEF TypeOK
  <2>4. row'[KeyOf[a]] = mem[a] /\ ~dirty'[a]
    BY <2>1, <2>2 DEF TypeOK
  <2>5. \A b \in Conns : failed'[b] => dirty'[b]
    BY <2>2 DEF TypeOK
  <2>6. GuestsAreNotStored'
    BY <2>1, <2>2 DEF TypeOK, Keys
  <2>7. ASSUME NEW b \in Conns, Registered(b)', ~IsGuest(b)
        PROVE  /\ 0 < row'[KeyOf[b]] /\ row'[KeyOf[b]] <= mem'[b]
               /\ dirty'[b] <=> row'[KeyOf[b]] # mem'[b]
               /\ phase'[b] = "done" /\ dirty'[b] => failed'[b]
    <3>1. CASE b = a
      BY <3>1, <2>1, <2>4
    <3>2. CASE b # a
      BY <3>2, <2>3, <2>7
    <3> QED
      BY <3>1, <3>2
  <2> QED
    BY <2>5, <2>6, <2>7
<1>3. CASE ~Skips(a) /\ WriteFails(a)
  <2>1. /\ row' = row /\ dirty' = dirty /\ dirty[a]
        /\ failed' = [failed EXCEPT ![a] = TRUE]
    BY <1>3 DEF Skips, WriteFails
  <2>2. failed'[a] /\ \A b \in Conns \ {a} : failed'[b] = failed[b]
    BY <2>1 DEF TypeOK
  <2> QED
    BY <2>1, <2>2
<1> QED
  BY <1>1, <1>2, <1>3 DEF Persist


(* A connection that takes mu for Attach is the only one to hold it. *)
LEMMA AttachBeginKeeps ==
    ASSUME ManagerInv, NEW c \in Conns, AttachBegin(c)
    PROVE  ManagerInv'
<1> USE DEF ManagerInv, AttachBegin, Admits, MuIsFree, actorVars, flushVars
<1>1. TypeOK'
  BY DEF TypeOK, Phases, Places, Notices
<1>2. LockInv'
  BY ConnsAssumption, KeysAssumption
  DEF TypeOK, Phases, Places, Notices, LockInv
<1>3. RegistryInv'
  BY DEF RegistryInv, Live, Registered, BeingStopped
<1>4. ConnInv'
  BY DEF ConnInv, Registered
<1>5. SessionInv'
  BY DEF SessionInv
<1>6. FlushInv'
  BY DEF FlushInv
<1>7. DataInv'
  BY DEF DataInv, Registered, IsGuest, GuestsAreNotStored
<1> QED
  BY <1>1, <1>2, <1>3, <1>4, <1>5, <1>6, <1>7

(* A refused connection leaves no trace. *)
LEMMA AttachClosingKeeps ==
    ASSUME ManagerInv, NEW c \in Conns, AttachClosing(c)
    PROVE  ManagerInv'
<1> USE DEF ManagerInv, AttachClosing, MuIsFree, registryVars, actorVars,
     flushVars
<1>1. TypeOK'
  BY DEF TypeOK, Phases, Places, Notices
<1>2. LockInv'
  BY DEF LockInv
<1>3. RegistryInv'
  BY DEF RegistryInv, Live, Registered, BeingStopped
<1>4. ConnInv'
  BY DEF ConnInv, Registered
<1>5. SessionInv'
  BY DEF SessionInv
<1>6. FlushInv'
  BY DEF FlushInv
<1>7. DataInv'
  BY DEF DataInv, Registered, IsGuest, GuestsAreNotStored
<1> QED
  BY <1>1, <1>2, <1>3, <1>4, <1>5, <1>6, <1>7

(* A failed load leaves at most a fresh row behind. *)
LEMMA AttachFailsKeeps ==
    ASSUME ManagerInv, NEW c \in Conns, AttachFails(c)
    PROVE  ManagerInv'
<1> USE DEF ManagerInv, AttachFails, IsGuest, actorVars, flushVars
<1>1. TypeOK'
  BY DEF TypeOK, Phases, Places, Notices
<1>2. LockInv'
  BY ConnsAssumption, KeysAssumption
  DEF TypeOK, Phases, Places, Notices, LockInv
<1>3. RegistryInv'
  BY DEF RegistryInv, Live, Registered, BeingStopped
<1>4. ConnInv'
  BY DEF ConnInv, Registered
<1>5. SessionInv'
  BY DEF SessionInv
<1>6. FlushInv'
  BY DEF FlushInv
<1>7. DataInv'
  <2>1. KeyOf[c] \in Keys
    BY KeyTypes
  <2>2. CASE row' = row
    BY <2>2 DEF DataInv, Registered, IsGuest, GuestsAreNotStored
  <2>3. CASE /\ KeyOf[c] \notin Guests /\ actors[KeyOf[c]] = None
             /\ row' = [row EXCEPT ![KeyOf[c]] = 1]
    <3>1. \A a \in Conns : Registered(a) => KeyOf[a] # KeyOf[c]
      BY <2>3, ConnsAssumption DEF Registered
    <3>2. GuestsAreNotStored'
      BY <2>1, <2>3 DEF TypeOK, Keys, DataInv, GuestsAreNotStored
    <3> QED
      BY <2>3, <3>1, <3>2, KeyTypes DEF TypeOK, DataInv, Registered, IsGuest
  <2> QED
    BY <2>2, <2>3
<1> QED
  BY <1>1, <1>2, <1>3, <1>4, <1>5, <1>6, <1>7

(* The new actor is the registered one, and agrees with the row it loaded. *)
LEMMA AttachLoadKeeps ==
    ASSUME ManagerInv, NEW c \in Conns, AttachLoad(c)
    PROVE  ManagerInv'
<1> USE DEF ManagerInv, AttachLoad, IsGuest, flushVars
<1>1. TypeOK'
  BY ZenonT(30), ConnsAssumption, KeysAssumption, PolicyAssumption
  DEF TypeOK, Phases, Places, Notices, LockInv, RegistryInv, Live, Registered,
       BeingStopped, ConnInv, SessionInv, FlushInv, DataInv,
       GuestsAreNotStored
<1>2. LockInv'
  BY DEF LockInv
<1>3. RegistryInv'
  <2>1. KeyOf[c] \in Keys /\ phase'[c] = "running" /\ Registered(c)'
    BY KeyTypes DEF TypeOK, Registered
  <2>2. ASSUME NEW a \in Conns, a # c
        PROVE  /\ phase'[a] = phase[a]
               /\ Registered(a)' => Registered(a)
               /\ Registered(a) => Registered(a)'
    BY <2>2, KeyTypes, ConnsAssumption DEF TypeOK, Registered
  <2>3. ASSUME NEW a \in Conns, BeingStopped(a)
        PROVE  BeingStopped(a)'
    BY <2>3 DEF BeingStopped, TypeOK
  <2>4. \A k \in Keys : actors'[k] # None => KeyOf[actors'[k]] = k
    BY <2>1 DEF RegistryInv, TypeOK
  <2> QED
    BY <2>1, <2>2, <2>3, <2>4 DEF RegistryInv, Live
<1>4. ConnInv'
  <2>1. KeyOf[c] \in Keys /\ phase[c] = "none" /\ Registered(c)'
    BY KeyTypes DEF TypeOK, Registered, ConnInv
  <2>2. /\ pc'[c] = "joining" /\ on'[c] = c /\ phase'[c] = "running"
        /\ \A d \in Conns : d # c =>
              pc'[d] = pc[d] /\ on'[d] = on[d] /\ phase'[d] = phase[d]
    BY DEF TypeOK
  <2>3. ASSUME NEW a \in Conns, Registered(a), a # c
        PROVE  Registered(a)'
    BY <2>1, <2>3, KeyTypes, ConnsAssumption DEF TypeOK, Registered
  <2> QED
    BY <2>1, <2>2, <2>3 DEF ConnInv
<1>5. SessionInv'
  BY DEF SessionInv
<1>6. FlushInv'
  BY DEF FlushInv
<1>7. DataInv'
  <2>1. /\ KeyOf[c] \in Keys /\ row[KeyOf[c]] \in Nat
        /\ ~dirty[c] /\ ~failed[c]
    BY KeyTypes DEF ConnInv
  <2>2. /\ phase'[c] = "running"
        /\ ~IsGuest(c) => mem'[c] > 0 /\ row'[KeyOf[c]] = mem'[c]
    BY <2>1 DEF TypeOK, IsGuest
  <2>3. ASSUME NEW a \in Conns, a # c, Registered(a)'
        PROVE  /\ Registered(a) /\ phase'[a] = phase[a] /\ mem'[a] = mem[a]
               /\ row'[KeyOf[a]] = row[KeyOf[a]]
    BY <2>1, <2>3, KeyTypes DEF TypeOK, Registered
  <2>4. GuestsAreNotStored'
    BY <2>1 DEF TypeOK, Keys, IsGuest, DataInv, GuestsAreNotStored
  <2> QED
    BY <2>1, <2>2, <2>3, <2>4 DEF DataInv, IsGuest
<1> QED
  BY <1>1, <1>2, <1>3, <1>4, <1>5, <1>6, <1>7

(* The registered actor of a key is an actor for that key. *)
LEMMA AttachReuseKeeps ==
    ASSUME ManagerInv, NEW c \in Conns, AttachReuse(c)
    PROVE  ManagerInv'
<1> USE DEF ManagerInv, AttachReuse, IsGuest, registryVars, actorVars,
     flushVars
<1>1. TypeOK'
  BY KeyTypes DEF TypeOK, Places
<1>2. LockInv'
  BY DEF LockInv
<1>3. RegistryInv'
  BY DEF RegistryInv, Live, Registered, BeingStopped
<1>4. ConnInv'
  <2> DEFINE a == actors[KeyOf[c]]
  <2>1. a \in Conns /\ KeyOf[a] = KeyOf[c] /\ Registered(a) /\ phase[a] # "none"
    BY KeyTypes DEF RegistryInv, Registered
  <2>2. /\ pc'[c] = "joining" /\ on'[c] = a
        /\ \A d \in Conns : d # c => pc'[d] = pc[d] /\ on'[d] = on[d]
    BY DEF TypeOK
  <2> HIDE DEF a
  <2> QED
    BY <2>1, <2>2 DEF ConnInv, Registered
<1>5. SessionInv'
  BY DEF SessionInv
<1>6. FlushInv'
  BY DEF FlushInv
<1>7. DataInv'
  BY DEF DataInv, Registered, GuestsAreNotStored
<1> QED
  BY <1>1, <1>2, <1>3, <1>4, <1>5, <1>6, <1>7

(* A second connection of a guest changes nothing. *)
LEMMA AttachGuestBusyKeeps ==
    ASSUME ManagerInv, NEW c \in Conns, AttachGuestBusy(c)
    PROVE  ManagerInv'
<1> USE DEF ManagerInv, AttachGuestBusy, IsGuest, actorVars, flushVars
<1>1. TypeOK'
  BY DEF TypeOK, Phases, Places, Notices
<1>2. LockInv'
  BY ConnsAssumption, KeysAssumption
  DEF TypeOK, Phases, Places, Notices, LockInv
<1>3. RegistryInv'
  BY DEF RegistryInv, Live, Registered, BeingStopped
<1>4. ConnInv'
  BY DEF ConnInv, Registered
<1>5. SessionInv'
  BY DEF SessionInv
<1>6. FlushInv'
  BY DEF FlushInv
<1>7. DataInv'
  BY DEF DataInv, Registered, GuestsAreNotStored
<1> QED
  BY <1>1, <1>2, <1>3, <1>4, <1>5, <1>6, <1>7

(* The newcomer owns the save, and whoever had it has been told. *)
LEMMA AttachJoinKeeps ==
    ASSUME ManagerInv, NEW c \in Conns, AttachJoin(c)
    PROVE  ManagerInv'
<1> USE DEF ManagerInv, AttachJoin, Refused, Joined, MayTake, Kick, Live,
     IsGuest, flushVars
<1>1. TypeOK'
  <2>1. on[c] \in Conns /\ mem[on[c]] \in Nat
    BY DEF ConnInv, TypeOK
  <2>2. kicked' \in [Conns -> Notices]
    BY KickTypes DEF TypeOK, Notices
  <2>3. pc' \in [Conns -> Places] /\ on' \in [Conns -> Conns \cup {None}]
    BY DEF TypeOK, Places
  <2>4. sess' \in [Conns -> Conns \cup {None}]
    BY DEF TypeOK
  <2>5. mem' \in [Conns -> Nat] /\ dirty' \in [Conns -> BOOLEAN]
    <3>1. \/ UNCHANGED <<mem, dirty>>
          \/ /\ mem'   = [mem EXCEPT ![on[c]] = @ + 1]
             /\ dirty' = [dirty EXCEPT ![on[c]] = TRUE]
      OBVIOUS
    <3>2. mem' \in [Conns -> Nat]
      BY <2>1, <3>1 DEF TypeOK
    <3>3. dirty' \in [Conns -> BOOLEAN]
      BY <3>1 DEF TypeOK
    <3> QED
      BY <3>2, <3>3
  <2> QED
    BY <2>2, <2>3, <2>4, <2>5 DEF TypeOK
<1>2. LockInv'
  BY ConnsAssumption, KeysAssumption
  DEF TypeOK, Phases, Places, Notices, LockInv
<1>3. RegistryInv'
  BY DEF TypeOK, Phases, Places, Notices, RegistryInv, Registered,
       BeingStopped
<1>4. ConnInv'
  BY DEF TypeOK, Phases, Places, Notices, LockInv, ConnInv, Registered
<1>5. SessionInv'
  <2>1. /\ on[c] \in Conns /\ c # None /\ None \notin Conns
        /\ kicked[c] = "no" /\ \A a \in Conns : sess[a] # c
    BY ConnsAssumption DEF TypeOK, ConnInv, SessionInv
  <2>2. phase[on[c]] = "running"
    <3>1. Registered(on[c]) /\ lock = c
      BY DEF ConnInv, LockInv
    <3>2. ~BeingStopped(on[c])
      BY <2>1, <3>1, ConnsAssumption DEF LockInv, BeingStopped
    <3> QED
      BY <2>1, <3>1, <3>2 DEF RegistryInv
  <2>3. CASE Refused(c)
    <3>1. /\ sess' = sess /\ kicked' = kicked /\ phase' = phase
          /\ pc'[c] = "gone"
          /\ \A d \in Conns : d # c => pc'[d] = pc[d] /\ on'[d] = on[d]
      BY <2>3 DEF TypeOK
    <3> QED
      BY <2>1, <3>1 DEF SessionInv
  <2>4. CASE Joined(c)
    <3>1. /\ phase' = phase /\ on' = on /\ pc'[c] = "open"
          /\ \A d \in Conns : d # c => pc'[d] = pc[d]
          /\ sess'[on[c]] = c
          /\ \A a \in Conns : a # on[c] => sess'[a] = sess[a]
      BY <2>1, <2>4 DEF TypeOK
    <3>2. \A d \in Conns :
             kicked'[d] = IF d = sess[on[c]] /\ kicked[d] = "no"
                            THEN "takeover" ELSE kicked[d]
      BY <2>4
    <3>3. kicked'[c] = "no"
      BY <2>1, <3>2
    <3> HIDE DEF AttachJoin, Joined, Refused, Kick, MayTake
    <3>4. \A a, d \in Conns : sess'[a] = d =>
             /\ pc'[d] \in {"open", "detaching"} /\ on'[d] = a
             /\ kicked'[d] = "no" /\ phase'[a] = "running"
      BY <2>1, <2>2, <3>1, <3>2, <3>3 DEF SessionInv
    <3>5. \A d \in Conns :
             pc'[d] \in {"open", "detaching"} /\ kicked'[d] = "no" =>
                sess'[on'[d]] = d
      BY <2>1, <3>1, <3>2 DEF ConnInv, SessionInv
    <3>6. \A d \in Conns :
             pc'[d] \in {"idle", "attaching", "joining"} => kicked'[d] = "no"
      BY <2>1, <3>1, <3>2, <3>3 DEF SessionInv
    <3> QED
      BY <3>4, <3>5, <3>6 DEF SessionInv
  <2> QED
    BY <2>3, <2>4
<1>6. FlushInv'
  BY DEF FlushInv
<1>7. DataInv'
  BY ConnsAssumption, KeysAssumption
  DEF TypeOK, Phases, Places, Notices, DataInv, Registered, GuestsAreNotStored
<1> QED
  BY <1>1, <1>2, <1>3, <1>4, <1>5, <1>6, <1>7

(* A change makes the actor dirty, which allows it to be ahead of its row. *)
LEMMA IntentKeeps ==
    ASSUME ManagerInv, NEW c \in Conns, Intent(c)
    PROVE  ManagerInv'
<1> USE DEF ManagerInv, Intent, Owns, Live, registryVars, connVars, flushVars
<1>1. TypeOK'
  BY DEF TypeOK, Phases, Places, Notices, ConnInv, Registered
<1>2. LockInv'
  BY DEF LockInv
<1>3. RegistryInv'
  BY DEF RegistryInv, Registered, BeingStopped
<1>4. ConnInv'
  BY DEF ConnInv, Registered
<1>5. SessionInv'
  BY DEF SessionInv
<1>6. FlushInv'
  BY DEF FlushInv
<1>7. DataInv'
  <2>1. on[c] \in Conns /\ mem[on[c]] \in Nat
    BY DEF ConnInv, TypeOK
  <2>2. /\ mem'[on[c]] = mem[on[c]] + 1 /\ dirty'[on[c]]
        /\ \A a \in Conns : a # on[c] => mem'[a] = mem[a] /\ dirty'[a] = dirty[a]
    BY <2>1 DEF TypeOK
  <2> QED
    BY <2>1, <2>2, KeyTypes DEF DataInv, Registered, GuestsAreNotStored
<1> QED
  BY <1>1, <1>2, <1>3, <1>4, <1>5, <1>6, <1>7

(* A connection that takes mu for Detach is the only one to hold it. *)
LEMMA DetachBeginKeeps ==
    ASSUME ManagerInv, NEW c \in Conns, DetachBegin(c)
    PROVE  ManagerInv'
<1> USE DEF ManagerInv, DetachBegin, MuIsFree, actorVars, flushVars
<1>1. TypeOK'
  BY DEF TypeOK, Phases, Places, Notices
<1>2. LockInv'
  BY ConnsAssumption, KeysAssumption
  DEF TypeOK, Phases, Places, Notices, LockInv
<1>3. RegistryInv'
  BY DEF RegistryInv, Live, Registered, BeingStopped
<1>4. ConnInv'
  BY DEF ConnInv, Registered
<1>5. SessionInv'
  BY DEF SessionInv
<1>6. FlushInv'
  BY DEF FlushInv
<1>7. DataInv'
  BY DEF DataInv, Registered, IsGuest, GuestsAreNotStored
<1> QED
  BY <1>1, <1>2, <1>3, <1>4, <1>5, <1>6, <1>7

(* The actor is stopped by the session that owned it, and only then. *)
LEMMA DetachReleaseKeeps ==
    ASSUME ManagerInv, NEW c \in Conns, DetachRelease(c)
    PROVE  ManagerInv'
<1> USE DEF ManagerInv, DetachRelease, Persist, Skips, WriteSucceeds,
     WriteFails, Stop, Live, IsGuest, flushVars
<1>1. TypeOK'
  <2>1. on[c] \in Conns
    BY DEF ConnInv
  <2>2. phase' \in [Conns -> Phases]
    BY <2>1, StopTypes DEF TypeOK
  <2>3. /\ row' \in [Keys -> Nat]
        /\ dirty' \in [Conns -> BOOLEAN]
        /\ failed' \in [Conns -> BOOLEAN]
    BY <2>1, PersistTypes
  <2> QED
    BY <2>2, <2>3 DEF TypeOK, Places
<1>2. LockInv'
  BY ConnsAssumption, KeysAssumption
  DEF TypeOK, Phases, Places, Notices, LockInv
<1>3. RegistryInv'
  BY DEF TypeOK, Phases, Places, Notices, RegistryInv, Registered,
       BeingStopped, SessionInv
<1>4. ConnInv'
  BY DEF TypeOK, Phases, Places, Notices, ConnInv, Registered, SessionInv
<1>5. SessionInv'
  BY ConnsAssumption, KeysAssumption
  DEF TypeOK, Phases, Places, Notices, LockInv, ConnInv, Registered,
       SessionInv
<1>6. FlushInv'
  BY ConnsAssumption, KeysAssumption
  DEF TypeOK, Phases, Places, Notices, FlushInv
<1>7. DataInv'
  <2>1. on[c] \in Conns /\ Registered(on[c])
    BY DEF ConnInv, RegistryInv
  <2>2. \A b \in Conns \ {on[c]} : phase'[b] = phase[b]
    BY <2>1 DEF TypeOK
  <2> QED
    BY <2>1, <2>2, PersistKeepsData
<1> QED
  BY <1>1, <1>2, <1>3, <1>4, <1>5, <1>6, <1>7

(* The flush has ended the actor: nothing to release. *)
LEMMA DetachTooLateKeeps ==
    ASSUME ManagerInv, NEW c \in Conns, DetachTooLate(c)
    PROVE  ManagerInv'
<1> USE DEF ManagerInv, DetachTooLate, DoIsSkipped, actorVars, flushVars
<1>1. TypeOK'
  BY DEF TypeOK, Phases, Places, Notices
<1>2. LockInv'
  BY ConnsAssumption, KeysAssumption
  DEF TypeOK, Phases, Places, Notices, LockInv
<1>3. RegistryInv'
  BY DEF RegistryInv, Live, Registered, BeingStopped
<1>4. ConnInv'
  BY DEF ConnInv, Registered
<1>5. SessionInv'
  BY DEF SessionInv
<1>6. FlushInv'
  BY DEF FlushInv
<1>7. DataInv'
  BY DEF DataInv, Registered, IsGuest, GuestsAreNotStored
<1> QED
  BY <1>1, <1>2, <1>3, <1>4, <1>5, <1>6, <1>7

(* Only the actor that was stopped leaves the registry. *)
LEMMA DetachReapKeeps ==
    ASSUME ManagerInv, NEW c \in Conns, DetachReap(c)
    PROVE  ManagerInv'
<1> USE DEF ManagerInv, DetachReap, Unregister, actorVars, flushVars
<1>1. TypeOK'
  BY DEF TypeOK, Phases, Places, Notices
<1>2. LockInv'
  BY ConnsAssumption, KeysAssumption
  DEF TypeOK, Phases, Places, Notices, LockInv
<1>3. RegistryInv'
  <2>1. on[c] \in Conns /\ lock = c /\ fpc # "reap"
    BY ConnsAssumption DEF ConnInv, LockInv
  <2>2. ASSUME NEW a \in Conns, BeingStopped(a)
        PROVE  a = on[c]
    BY <2>1, <2>2 DEF BeingStopped, LockInv
  <2>3. ASSUME NEW a \in Conns
        PROVE  Registered(a)' <=> Registered(a) /\ a # on[c]
    BY <2>1, KeyTypes, ConnsAssumption DEF Registered, RegistryInv
  <2>4. ASSUME NEW a \in Conns, Live(a)
        PROVE  Registered(a)'
    BY <2>3, <2>4 DEF RegistryInv, Live
  <2>5. \A k \in Keys : actors'[k] # None => KeyOf[actors'[k]] = k
    BY DEF RegistryInv
  <2>6. ASSUME NEW a \in Conns, Registered(a)'
        PROVE  phase[a] = "running"
    BY <2>2, <2>3, <2>6 DEF RegistryInv
  <2> QED
    BY <2>4, <2>5, <2>6 DEF RegistryInv, Live
<1>4. ConnInv'
  BY DEF TypeOK, Phases, Places, Notices, LockInv, ConnInv, Registered
<1>5. SessionInv'
  BY DEF SessionInv
<1>6. FlushInv'
  BY DEF FlushInv
<1>7. DataInv'
  <2>1. ASSUME NEW a \in Conns, Registered(a)'
        PROVE  Registered(a)
    BY <2>1, KeyTypes, ConnsAssumption DEF Registered
  <2> QED
    BY <2>1 DEF DataInv, IsGuest, GuestsAreNotStored
<1> QED
  BY <1>1, <1>2, <1>3, <1>4, <1>5, <1>6, <1>7

(* A session that is gone owns nothing. *)
LEMMA LeaveKeeps ==
    ASSUME ManagerInv, NEW c \in Conns, Leave(c)
    PROVE  ManagerInv'
<1> USE DEF ManagerInv, Leave, Kick, registryVars, actorVars, flushVars
<1>1. TypeOK'
  BY DEF TypeOK, Phases, Places, Notices
<1>2. LockInv'
  BY DEF LockInv
<1>3. RegistryInv'
  BY DEF RegistryInv, Live, Registered, BeingStopped
<1>4. ConnInv'
  BY DEF TypeOK, Phases, Places, Notices, ConnInv, Registered
<1>5. SessionInv'
  BY DEF SessionInv
<1>6. FlushInv'
  BY DEF FlushInv
<1>7. DataInv'
  BY DEF DataInv, Registered, IsGuest, GuestsAreNotStored
<1> QED
  BY <1>1, <1>2, <1>3, <1>4, <1>5, <1>6, <1>7

(* A write brings the row up to the actor; a failed one leaves it dirty. *)
LEMMA AutosaveKeeps ==
    ASSUME ManagerInv, NEW c \in Conns, Autosave(c)
    PROVE  ManagerInv'
<1> USE DEF ManagerInv, Autosave, Ticks, Persist, Skips, WriteSucceeds,
     WriteFails, Live, IsGuest, registryVars, connVars, flushVars
<1>1. TypeOK'
  <2>1. /\ row' \in [Keys -> Nat]
        /\ dirty' \in [Conns -> BOOLEAN]
        /\ failed' \in [Conns -> BOOLEAN]
    BY PersistTypes
  <2> QED
    BY <2>1 DEF TypeOK, Phases
<1>2. LockInv'
  BY DEF LockInv
<1>3. RegistryInv'
  BY DEF RegistryInv, Registered, BeingStopped
<1>4. ConnInv'
  BY DEF TypeOK, Phases, Places, Notices, ConnInv, Registered
<1>5. SessionInv'
  BY DEF SessionInv
<1>6. FlushInv'
  BY DEF FlushInv
<1>7. DataInv'
  <2>1. Registered(c)
    BY DEF RegistryInv, Live
  <2>2. \A b \in Conns \ {c} : phase'[b] = phase[b]
    BY DEF TypeOK
  <2> QED
    BY <2>1, <2>2, PersistKeepsData
<1> QED
  BY <1>1, <1>2, <1>3, <1>4, <1>5, <1>6, <1>7

(* As for Autosave; the actor stays registered until it is reaped. *)
LEMMA FinalFlushKeeps ==
    ASSUME ManagerInv, NEW c \in Conns, FinalFlush(c)
    PROVE  ManagerInv'
<1> USE DEF ManagerInv, FinalFlush, Persist, Skips, WriteSucceeds, WriteFails,
     IsGuest, registryVars, connVars, flushVars
<1>1. TypeOK'
  <2>1. /\ row' \in [Keys -> Nat]
        /\ dirty' \in [Conns -> BOOLEAN]
        /\ failed' \in [Conns -> BOOLEAN]
    BY PersistTypes
  <2> QED
    BY <2>1 DEF TypeOK, Phases
<1>2. LockInv'
  BY DEF LockInv
<1>3. RegistryInv'
  BY DEF RegistryInv, Live, Registered, BeingStopped
<1>4. ConnInv'
  BY DEF TypeOK, Phases, Places, Notices, ConnInv, Registered
<1>5. SessionInv'
  BY DEF SessionInv
<1>6. FlushInv'
  BY DEF FlushInv
<1>7. DataInv'
  <2>1. Registered(c)
    BY DEF RegistryInv, Live
  <2>2. \A b \in Conns \ {c} : phase'[b] = phase[b]
    BY DEF TypeOK
  <2> QED
    BY <2>1, <2>2, PersistKeepsData
<1> QED
  BY <1>1, <1>2, <1>3, <1>4, <1>5, <1>6, <1>7

(* A slot is reused when nothing refers to the actor named after it. *)
LEMMA ConnectKeeps ==
    ASSUME ManagerInv, NEW c \in Conns, Connect(c)
    PROVE  ManagerInv'
<1> USE DEF ManagerInv, Connect, Live, registryVars, flushVars
<1>1. TypeOK'
  BY DEF TypeOK, Phases, Places, Notices
<1>2. LockInv'
  BY DEF LockInv
<1>3. RegistryInv'
  BY DEF TypeOK, Phases, Places, Notices, RegistryInv, Registered,
       BeingStopped, FlushInv
<1>4. ConnInv'
  BY DEF TypeOK, Phases, Places, Notices, ConnInv, Registered, SessionInv
<1>5. SessionInv'
  BY DEF TypeOK, Phases, Places, Notices, SessionInv
<1>6. FlushInv'
  BY DEF FlushInv
<1>7. DataInv'
  BY ConnsAssumption, KeysAssumption
  DEF TypeOK, Phases, Places, Notices, RegistryInv, Registered, BeingStopped,
       FlushInv, DataInv, IsGuest, GuestsAreNotStored
<1> QED
  BY <1>1, <1>2, <1>3, <1>4, <1>5, <1>6, <1>7

(* The flush takes the save from its owner and tells it. *)
LEMMA FlushKickKeeps ==
    ASSUME ManagerInv, NEW c \in Conns, FlushKick(c)
    PROVE  ManagerInv'
<1> USE DEF ManagerInv, FlushKick, DoIsSkipped, Kick, Live, registryVars
<1>1. TypeOK'
  BY DEF TypeOK, Phases, Places, Notices
<1>2. LockInv'
  BY DEF LockInv
<1>3. RegistryInv'
  BY DEF RegistryInv, Registered, BeingStopped
<1>4. ConnInv'
  BY DEF TypeOK, Phases, Places, Notices, ConnInv, Registered
<1>5. SessionInv'
  BY ConnsAssumption, KeysAssumption
  DEF TypeOK, Phases, Places, Notices, LockInv, ConnInv, Registered,
       SessionInv
<1>6. FlushInv'
  BY DEF TypeOK, Phases, Places, Notices, SessionInv, FlushInv
<1>7. DataInv'
  BY DEF DataInv, Registered, IsGuest, GuestsAreNotStored
<1> QED
  BY <1>1, <1>2, <1>3, <1>4, <1>5, <1>6, <1>7

(* Every registered actor is on the list when closing is set. *)
LEMMA ShutdownBeginKeeps ==
    ASSUME ManagerInv, ShutdownBegin
    PROVE  ManagerInv'
<1> USE DEF ManagerInv, ShutdownBegin, MuIsFree, actorVars, connVars
<1>1. TypeOK'
  BY DEF TypeOK, Phases, Places, Notices
<1>2. LockInv'
  BY ConnsAssumption, KeysAssumption
  DEF TypeOK, Phases, Places, Notices, LockInv
<1>3. RegistryInv'
  BY DEF TypeOK, Phases, Places, Notices, RegistryInv, Live, Registered,
       BeingStopped, FlushInv
<1>4. ConnInv'
  BY DEF ConnInv, Registered
<1>5. SessionInv'
  BY DEF SessionInv
<1>6. FlushInv'
  BY ConnsAssumption, KeysAssumption
  DEF TypeOK, Phases, Places, Notices, LockInv, RegistryInv, Live, Registered,
       BeingStopped, FlushInv
<1>7. DataInv'
  BY DEF DataInv, Registered, IsGuest, GuestsAreNotStored
<1> QED
  BY <1>1, <1>2, <1>3, <1>4, <1>5, <1>6, <1>7

(* The actor that the flush stops was not being stopped. *)
LEMMA FlushStopKeeps ==
    ASSUME ManagerInv, FlushStop
    PROVE  ManagerInv'
<1> USE DEF ManagerInv, FlushStop, MuIsFree, Stop, connVars
<1>1. TypeOK'
  BY DEF TypeOK, Phases, Places, Notices, FlushInv
<1>2. LockInv'
  BY ConnsAssumption, KeysAssumption
  DEF TypeOK, Phases, Places, Notices, LockInv
<1>3. RegistryInv'
  BY ConnsAssumption, KeysAssumption
  DEF TypeOK, Phases, Places, Notices, LockInv, RegistryInv, Live, Registered,
       BeingStopped, ConnInv
<1>4. ConnInv'
  BY ConnsAssumption, KeysAssumption
  DEF TypeOK, Phases, Places, Notices, LockInv, RegistryInv, Live, Registered,
       BeingStopped, ConnInv
<1>5. SessionInv'
  BY ConnsAssumption, KeysAssumption
  DEF TypeOK, Phases, Places, Notices, LockInv, SessionInv, FlushInv
<1>6. FlushInv'
  BY ConnsAssumption, KeysAssumption
  DEF TypeOK, Phases, Places, Notices, LockInv, RegistryInv, Live, Registered,
       BeingStopped, FlushInv
<1>7. DataInv'
  BY DEF DataInv, Registered, IsGuest, GuestsAreNotStored
<1> QED
  BY <1>1, <1>2, <1>3, <1>4, <1>5, <1>6, <1>7

(* As for DetachReap. *)
LEMMA FlushReapKeeps ==
    ASSUME ManagerInv, FlushReap
    PROVE  ManagerInv'
<1> USE DEF ManagerInv, FlushReap, Unregister, actorVars, connVars
<1>1. TypeOK'
  BY DEF TypeOK, Phases, Places, Notices
<1>2. LockInv'
  BY ConnsAssumption, KeysAssumption
  DEF TypeOK, Phases, Places, Notices, LockInv
<1>3. RegistryInv'
  BY ConnsAssumption, KeysAssumption
  DEF TypeOK, Phases, Places, Notices, RegistryInv, Live, Registered,
       BeingStopped
<1>4. ConnInv'
  BY DEF TypeOK, Phases, Places, Notices, ConnInv, Registered, FlushInv
<1>5. SessionInv'
  BY DEF SessionInv
<1>6. FlushInv'
  BY DEF TypeOK, Phases, Places, Notices, RegistryInv, Live, Registered,
       BeingStopped, FlushInv
<1>7. DataInv'
  BY ConnsAssumption, KeysAssumption
  DEF TypeOK, Phases, Places, Notices, DataInv, Registered, IsGuest,
       GuestsAreNotStored
<1> QED
  BY <1>1, <1>2, <1>3, <1>4, <1>5, <1>6, <1>7

(* The hook returns when the list is empty. *)
LEMMA ShutdownFlushedKeeps ==
    ASSUME ManagerInv, ShutdownFlushed
    PROVE  ManagerInv'
<1> USE DEF ManagerInv, ShutdownFlushed, registryVars, actorVars, connVars
<1>1. TypeOK'
  BY DEF TypeOK, Phases, Places, Notices
<1>2. LockInv'
  BY DEF LockInv
<1>3. RegistryInv'
  BY DEF RegistryInv, Live, Registered, BeingStopped
<1>4. ConnInv'
  BY DEF ConnInv, Registered
<1>5. SessionInv'
  BY DEF SessionInv
<1>6. FlushInv'
  BY DEF FlushInv
<1>7. DataInv'
  BY DEF DataInv, Registered, IsGuest, GuestsAreNotStored
<1> QED
  BY <1>1, <1>2, <1>3, <1>4, <1>5, <1>6, <1>7

(* The deadline changes nothing but what the hook returns. *)
LEMMA ShutdownInterruptedKeeps ==
    ASSUME ManagerInv, ShutdownInterrupted
    PROVE  ManagerInv'
<1> USE DEF ManagerInv, ShutdownInterrupted, registryVars, actorVars, connVars
<1>1. TypeOK'
  BY DEF TypeOK, Phases, Places, Notices
<1>2. LockInv'
  BY DEF LockInv
<1>3. RegistryInv'
  BY DEF RegistryInv, Live, Registered, BeingStopped
<1>4. ConnInv'
  BY DEF ConnInv, Registered
<1>5. SessionInv'
  BY DEF SessionInv
<1>6. FlushInv'
  BY DEF FlushInv
<1>7. DataInv'
  BY DEF DataInv, Registered, IsGuest, GuestsAreNotStored
<1> QED
  BY <1>1, <1>2, <1>3, <1>4, <1>5, <1>6, <1>7

(* Nothing survives but the rows. *)
LEMMA DieKeeps ==
    ASSUME ManagerInv, Die
    PROVE  ManagerInv'
<1> USE DEF ManagerInv, Die
<1>1. TypeOK'
  BY ConnsAssumption, KeysAssumption, PolicyAssumption
  DEF TypeOK, Phases, Places, Notices, LockInv, RegistryInv, Live, Registered,
       BeingStopped, ConnInv, SessionInv, FlushInv, DataInv, IsGuest,
       GuestsAreNotStored
<1>2. LockInv'
  BY ConnsAssumption, KeysAssumption
  DEF TypeOK, Phases, Places, Notices, LockInv
<1>3. RegistryInv'
  BY ConnsAssumption, KeysAssumption
  DEF TypeOK, Phases, Places, Notices, RegistryInv, Live, Registered,
       BeingStopped
<1>4. ConnInv'
  BY DEF ConnInv, Registered
<1>5. SessionInv'
  BY ConnsAssumption, KeysAssumption
  DEF TypeOK, Phases, Places, Notices, SessionInv
<1>6. FlushInv'
  BY DEF FlushInv
<1>7. DataInv'
  BY ConnsAssumption, KeysAssumption
  DEF TypeOK, Phases, Places, Notices, DataInv, Registered, IsGuest,
       GuestsAreNotStored
<1> QED
  BY <1>1, <1>2, <1>3, <1>4, <1>5, <1>6, <1>7

(* A new manager starts from the rows. *)
LEMMA RestartKeeps ==
    ASSUME ManagerInv, Restart
    PROVE  ManagerInv'
<1> USE DEF ManagerInv, Restart, registryVars, actorVars, connVars, flushVars
<1>1. TypeOK'
  BY DEF TypeOK, Phases, Places, Notices
<1>2. LockInv'
  BY DEF LockInv
<1>3. RegistryInv'
  BY DEF RegistryInv, Live, Registered, BeingStopped
<1>4. ConnInv'
  BY DEF ConnInv, Registered
<1>5. SessionInv'
  BY DEF SessionInv
<1>6. FlushInv'
  BY DEF FlushInv
<1>7. DataInv'
  BY DEF DataInv, Registered, IsGuest, GuestsAreNotStored
<1> QED
  BY <1>1, <1>2, <1>3, <1>4, <1>5, <1>6, <1>7

-----------------------------------------------------------------------------
LEMMA InitKeeps == Init => ManagerInv
<1> SUFFICES ASSUME Init PROVE ManagerInv
  OBVIOUS
<1> USE ConnsAssumption, KeysAssumption DEF Init
<1>1. TypeOK
  BY DEF TypeOK, Phases, Places, Notices
<1>2. LockInv
  BY DEF LockInv
<1>3. RegistryInv
  BY DEF RegistryInv, Live, Registered, BeingStopped, Keys
<1>4. ConnInv
  BY DEF ConnInv
<1>5. SessionInv
  BY DEF SessionInv
<1>6. FlushInv
  BY DEF FlushInv
<1>7. DataInv
  BY DEF DataInv, Registered, GuestsAreNotStored, Keys
<1> QED
  BY <1>1, <1>2, <1>3, <1>4, <1>5, <1>6, <1>7 DEF ManagerInv

LEMMA StutterKeeps == ManagerInv /\ UNCHANGED vars => ManagerInv'
BY DEF vars, registryVars, actorVars, connVars, flushVars, ManagerInv, TypeOK,
       LockInv, RegistryInv, ConnInv, SessionInv, FlushInv, DataInv,
       Live, Registered, BeingStopped, IsGuest, GuestsAreNotStored

LEMMA NextKeeps == ManagerInv /\ [Next]_vars => ManagerInv'
<1> SUFFICES ASSUME ManagerInv, [Next]_vars
             PROVE  ManagerInv'
  OBVIOUS
<1>1. ASSUME NEW c \in Conns, AttachStep(c)
      PROVE  ManagerInv'
  BY <1>1, AttachFailsKeeps, AttachLoadKeeps, AttachReuseKeeps, AttachGuestBusyKeeps,
     AttachJoinKeeps DEF AttachStep
<1>2. ASSUME NEW c \in Conns, DetachStep(c)
      PROVE  ManagerInv'
  BY <1>2, DetachReleaseKeeps, DetachTooLateKeeps, DetachReapKeeps, LeaveKeeps
     DEF DetachStep
<1>3. ASSUME FlushStep
      PROVE  ManagerInv'
  BY <1>3, FlushKickKeeps, FlushReapKeeps, ShutdownFlushedKeeps DEF FlushStep
<1>4. ASSUME Exit \/ Crash
      PROVE  ManagerInv'
  BY <1>4, DieKeeps DEF Exit, Crash
<1>5. CASE UNCHANGED vars
  BY <1>5, StutterKeeps
<1>6. ASSUME NEW c \in Conns,
             \/ Connect(c) \/ AttachBegin(c) \/ AttachClosing(c)
             \/ Intent(c) \/ DetachBegin(c) \/ Autosave(c) \/ FinalFlush(c)
      PROVE  ManagerInv'
  BY <1>6, ConnectKeeps, AttachBeginKeeps, AttachClosingKeeps, IntentKeeps,
     DetachBeginKeeps, AutosaveKeeps, FinalFlushKeeps
<1>7. ASSUME ShutdownBegin \/ FlushStop \/ ShutdownInterrupted \/ Restart
      PROVE  ManagerInv'
  BY <1>7, ShutdownBeginKeeps, FlushStopKeeps, ShutdownInterruptedKeeps, RestartKeeps
<1> QED
  BY <1>1, <1>2, <1>3, <1>4, <1>5, <1>6, <1>7 DEF Next

(* The invariant holds of every behaviour of the manager. *)
THEOREM ManagerInvariant == Spec => []ManagerInv
BY InitKeeps, NextKeeps, PTL DEF Spec

-----------------------------------------------------------------------------
(* The state of the manager keeps its type: no channel is closed twice and *)
(* no notice is delivered twice.                                           *)
THEOREM TypeCorrect == Spec => []TypeOK
<1>1. ManagerInv => TypeOK
  BY DEF ManagerInv
<1> QED
  BY <1>1, ManagerInvariant, PTL

(* Of the actors of one save at most one is alive, the registered one.     *)
THEOREM OneWriterPerSave == Spec => []SingleWriter
<1>1. ManagerInv => SingleWriter
  BY DEF ManagerInv, RegistryInv, Registered, SingleWriter
<1> QED
  BY <1>1, ManagerInvariant, PTL

(* detach and the flush never both stop one actor. *)
THEOREM StopIsClosedOnce == Spec => []StopClosedOnce
<1>1. ManagerInv => StopClosedOnce
  BY DEF ManagerInv, RegistryInv, StopClosedOnce
<1> QED
  BY <1>1, ManagerInvariant, PTL

(* A playing session owns its save exactly until it is told otherwise. *)
THEOREM OwnershipEndsWithANotice == Spec => []OwnerUntilTold
<1>1. ManagerInv => OwnerUntilTold
  BY DEF ManagerInv, SessionInv, ConnInv, OwnerUntilTold, Owns
<1> QED
  BY <1>1, ManagerInvariant, PTL

(* Who has found its actor under mu holds mu, so nobody is stopping it.     *)
LEMMA JoinersAreServed == ManagerInv => AttachFindsLiveActor
<1>1. ASSUME ManagerInv, NEW c \in Conns, pc[c] = "joining"
      PROVE  phase[on[c]] = "running"
  <2>1. on[c] \in Conns /\ Registered(on[c]) /\ lock = c
    BY <1>1 DEF ManagerInv, ConnInv, LockInv
  <2>2. ~BeingStopped(on[c])
    BY <1>1, <2>1, ConnsAssumption DEF ManagerInv, LockInv, BeingStopped
  <2> QED
    BY <1>1, <2>1, <2>2 DEF ManagerInv, RegistryInv
<1> QED
  BY <1>1 DEF AttachFindsLiveActor

(* Attach never mails its closure to an actor that is being stopped. *)
THEOREM AttachIsServed == Spec => []AttachFindsLiveActor
BY JoinersAreServed, ManagerInvariant, PTL

(* Whoever holds mu waits only for an actor that will answer or end.       *)
THEOREM MuIsReleased == Spec => []MuIsNeverStuck
<1>1. ASSUME ManagerInv PROVE MuIsNeverStuck
  <2>1. ASSUME NEW c \in Conns, pc[c] = "detaching"
        PROVE  phase[on[c]] = "running" \/ Ends(on[c])
    <3>1. on[c] \in Conns /\ phase[on[c]] \notin {"none", "panicked"}
      BY <1>1, <2>1 DEF ManagerInv, ConnInv, RegistryInv
    <3> QED
      BY <1>1, <3>1 DEF ManagerInv, TypeOK, Phases, Ends
  <2>2. ASSUME NEW c \in Conns, lock = c
        PROVE  \/ pc[c] \in {"attaching", "joining"}
               \/ pc[c] = "detaching"
               \/ pc[c] = "stopping" /\ Ends(on[c])
    BY <1>1, <2>2 DEF ManagerInv, LockInv, ConnInv, Ends
  <2>3. lock = "flusher" => fpc = "reap" /\ Ends(cur)
    BY <1>1 DEF ManagerInv, LockInv, FlushInv, Ends
  <2>4. StopClosedOnce /\ AttachFindsLiveActor
    BY <1>1, JoinersAreServed DEF ManagerInv, RegistryInv, StopClosedOnce
  <2> QED
    BY <2>1, <2>2, <2>3, <2>4 DEF MuIsNeverStuck
<1> QED
  BY <1>1, ManagerInvariant, PTL

(* A live actor is never behind its row, and a clean one agrees with it. *)
THEOREM DirtyMeansUnwritten == Spec => []CleanIsDurable
<1>1. ManagerInv => CleanIsDurable
  BY DEF ManagerInv, RegistryInv, DataInv, CleanIsDurable
<1> QED
  BY <1>1, ManagerInvariant, PTL

(* The saves table has no row that a guest wrote. *)
THEOREM GuestsLeaveNoTrace == Spec => []GuestsAreNotStored
<1>1. ManagerInv => GuestsAreNotStored
  BY DEF ManagerInv, DataInv
<1> QED
  BY <1>1, ManagerInvariant, PTL

(* When Shutdown returns nil, every farm is closed and stays closed. *)
THEOREM FlushedManagerIsClosed == Spec => []FlushedMeansClosed
<1>1. ASSUME ManagerInv, hook = "flushed"
      PROVE  \A k \in Keys : actors[k] = None
  BY <1>1 DEF ManagerInv, FlushInv
<1>2. ManagerInv => FlushedMeansClosed
  <2> SUFFICES ASSUME ManagerInv, hook = "flushed"
               PROVE  /\ \A a \in Conns : ~Live(a)
                      /\ \A c \in Conns : pc[c] \notin {"attaching", "joining"}
    BY <1>1 DEF FlushedMeansClosed
  <2>1. \A a \in Conns : ~Live(a)
    BY <1>1, KeyTypes, ConnsAssumption DEF ManagerInv, RegistryInv, Registered
  <2>2. \A c \in Conns : pc[c] \notin {"attaching", "joining"}
    BY DEF ManagerInv, FlushInv
  <2> QED
    BY <2>1, <2>2
<1> QED
  BY <1>2, ManagerInvariant, PTL

-----------------------------------------------------------------------------
(* SaveManager implements DurableSave, and two properties of its steps.    *)

(* What the abstract save sees of a step. *)
SeenVars == <<up, row, actors, mem, failed>>

LEMMA SilentStep ==
    ASSUME UNCHANGED SeenVars
    PROVE  UNCHANGED Durable!vars
BY DEF SeenVars, Durable!vars, LiveVersion, LastWriteFailed

(* A key's live version and write failure depend on its registered actor only. *)
LEMMA SavesAreKeys ==
    ASSUME TypeOK, NEW k \in Saves
    PROVE  k \in Keys /\ k \notin Guests /\ actors[k] \in Conns \cup {None}
BY KeysAssumption DEF TypeOK, Keys

(* A connect that creates a row creates the abstract save. *)
LEMMA CreateStep ==
    ASSUME ManagerInv, NEW c \in Conns, KeyOf[c] \in Saves, up, UNCHANGED up,
           actors[KeyOf[c]] = None, row[KeyOf[c]] = 0,
           row' = [row EXCEPT ![KeyOf[c]] = 1],
           \A k \in Saves : LiveVersion(k)' =
               IF k = KeyOf[c] THEN 1 ELSE LiveVersion(k),
           \A k \in Saves : LastWriteFailed(k)' = LastWriteFailed(k)
    PROVE  Durable!Create(KeyOf[c])
BY SavesAreKeys DEF Durable!Create, ManagerInv, TypeOK, Keys

LEMMA AttachFailsStep ==
    ASSUME ManagerInv, up, NEW c \in Conns, AttachFails(c)
    PROVE  [Durable!Next]_(Durable!vars)
<1>2. CASE row' = row
  BY <1>2, SilentStep DEF AttachFails, actorVars, SeenVars
<1>3. CASE /\ ~IsGuest(c) /\ actors[KeyOf[c]] = None /\ row[KeyOf[c]] = 0
           /\ row' = [row EXCEPT ![KeyOf[c]] = 1]
  <2>0. KeyOf[c] \in Saves /\ TypeOK
    BY <1>3, KeysAssumption DEF IsGuest, Keys, ManagerInv
  <2>1. UNCHANGED <<up, actors, mem, failed>>
    BY DEF AttachFails, actorVars
  <2>2. \A k \in Saves : LastWriteFailed(k)' = LastWriteFailed(k)
    BY <2>1 DEF LastWriteFailed
  <2>3. \A k \in Saves : LiveVersion(k)' =
            IF k = KeyOf[c] THEN 1 ELSE LiveVersion(k)
    BY <2>0, <1>3, <2>1, SavesAreKeys DEF LiveVersion, TypeOK
  <2>4. Durable!Create(KeyOf[c])
    BY <2>0, <1>3, <2>1, <2>2, <2>3, CreateStep
  <2> QED
    BY <2>0, <2>4 DEF Durable!Next
<1> QED
  BY <1>2, <1>3 DEF AttachFails

LEMMA AttachLoadStep ==
    ASSUME ManagerInv, up, NEW c \in Conns, AttachLoad(c)
    PROVE  [Durable!Next]_(Durable!vars)
<1> USE DEF AttachLoad
<1>1. /\ TypeOK /\ ConnInv /\ KeyOf[c] \in Keys /\ actors[KeyOf[c]] = None
      /\ ~failed[c] /\ failed' = failed
  BY KeyTypes DEF ManagerInv, ConnInv
<1>2. actors' = [actors EXCEPT ![KeyOf[c]] = c] /\ actors'[KeyOf[c]] = c
  BY <1>1 DEF TypeOK
<1>3. ASSUME NEW k \in Saves, k # KeyOf[c]
      PROVE  /\ row'[k] = row[k] /\ LiveVersion(k)' = LiveVersion(k)
             /\ LastWriteFailed(k)' = LastWriteFailed(k)
  <2>1. actors'[k] = actors[k] /\ row'[k] = row[k]
    BY <1>1, <1>3, SavesAreKeys DEF TypeOK
  <2>2. actors[k] # c /\ actors[k] \in Conns \cup {None}
    BY <1>1, <1>3, SavesAreKeys, ConnsAssumption DEF ManagerInv, RegistryInv
  <2>3. actors[k] # None => mem'[actors[k]] = mem[actors[k]]
    BY <1>1, <2>2 DEF TypeOK
  <2> QED
    BY <1>1, <2>1, <2>2, <2>3 DEF LiveVersion, LastWriteFailed
<1>4. CASE IsGuest(c)
  <2>1. KeyOf[c] \notin Saves /\ row' = row
    BY <1>4, KeysAssumption DEF IsGuest
  <2>2. UNCHANGED Durable!vars
    BY <1>3, <2>1 DEF Durable!vars
  <2> QED
    BY <2>2
<1>5. CASE ~IsGuest(c)
  <2>1. KeyOf[c] \in Saves
    BY <1>1, <1>5 DEF IsGuest, Keys
  <2>2. ~LastWriteFailed(KeyOf[c]) /\ ~LastWriteFailed(KeyOf[c])'
    BY <1>1, <1>2 DEF LastWriteFailed
  <2>3. LastWriteFailed(KeyOf[c])' = LastWriteFailed(KeyOf[c])
    BY <2>2 DEF LastWriteFailed, TypeOK, ManagerInv
  <2>4. LiveVersion(KeyOf[c]) = row[KeyOf[c]] /\ LiveVersion(KeyOf[c])' = mem'[c]
    BY <1>1, <1>2, ConnsAssumption DEF LiveVersion
  <2>5. CASE row[KeyOf[c]] = 0
    <3>1. mem'[c] = 1 /\ row' = [row EXCEPT ![KeyOf[c]] = 1]
      BY <1>1, <1>5, <2>5 DEF TypeOK
    <3>2. Durable!Create(KeyOf[c])
      BY <1>1, <1>3, <2>1, <2>3, <2>4, <2>5, <3>1, CreateStep
    <3> QED
      BY <2>1, <3>2 DEF Durable!Next
  <2>6. CASE row[KeyOf[c]] # 0
    <3>1. mem'[c] = row[KeyOf[c]] /\ row' = row
      BY <1>1, <1>5, <2>6 DEF TypeOK
    <3>2. UNCHANGED Durable!vars
      BY <1>3, <2>1, <2>3, <2>4, <3>1 DEF Durable!vars
    <3> QED
      BY <3>2
  <2> QED
    BY <2>5, <2>6
<1> QED
  BY <1>4, <1>5

(* A change of the farm, when its actor is the registered one. *)
LEMMA PlayStep ==
    ASSUME ManagerInv, up, NEW a \in Conns, Registered(a),
           mem' = [mem EXCEPT ![a] = @ + 1], UNCHANGED <<up, row, actors, failed>>
    PROVE  [Durable!Next]_(Durable!vars)
<1>1. TypeOK /\ KeyOf[a] \in Keys
  BY KeyTypes DEF ManagerInv
<1>2. ASSUME NEW k \in Saves, k # KeyOf[a]
      PROVE  LiveVersion(k)' = LiveVersion(k)
  <2>1. actors[k] # a /\ actors[k] \in Conns \cup {None}
    BY <1>1, <1>2, SavesAreKeys, ConnsAssumption DEF ManagerInv, RegistryInv
  <2> QED
    BY <1>1, <2>1 DEF LiveVersion, TypeOK
<1>3. \A k \in Saves : LastWriteFailed(k)' = LastWriteFailed(k)
  BY DEF LastWriteFailed
<1>4. CASE KeyOf[a] \in Saves
  <2>1. LiveVersion(KeyOf[a]) = mem[a] /\ LiveVersion(KeyOf[a])' = mem[a] + 1
    BY <1>1, ConnsAssumption DEF LiveVersion, Registered, TypeOK
  <2>2. mem[a] > 0
    BY <1>1, <1>4, SavesAreKeys DEF ManagerInv, DataInv, IsGuest, TypeOK
  <2>3. Durable!Play(KeyOf[a])
    BY <1>2, <1>3, <1>4, <2>1, <2>2 DEF Durable!Play
  <2> QED
    BY <1>4, <2>3 DEF Durable!Next
<1>5. CASE KeyOf[a] \notin Saves
  <2>1. UNCHANGED Durable!vars
    BY <1>2, <1>3, <1>5 DEF Durable!vars
  <2> QED
    BY <2>1
<1> QED
  BY <1>4, <1>5

(* persist writes the live version of the save, or fails to. *)
LEMMA PersistStep ==
    ASSUME ManagerInv, up, NEW a \in Conns, Registered(a), Persist(a),
           UNCHANGED <<up, actors, mem>>
    PROVE  [Durable!Next]_(Durable!vars)
<1>1. TypeOK /\ KeyOf[a] \in Keys
  BY KeyTypes DEF ManagerInv
<1>2. CASE UNCHANGED <<row, dirty, failed>>
  BY <1>2, SilentStep DEF SeenVars
<1>3. ASSUME ~Skips(a)
      PROVE  /\ KeyOf[a] \in Saves
             /\ actors[KeyOf[a]] # None /\ LiveVersion(KeyOf[a]) = mem[a]
             /\ row[KeyOf[a]] # mem[a]
             /\ LastWriteFailed(KeyOf[a]) = failed[a]
  <2>1. KeyOf[a] \in Saves
    BY <1>1, <1>3 DEF Skips, IsGuest, Keys
  <2>2. actors[KeyOf[a]] # None /\ LiveVersion(KeyOf[a]) = mem[a]
    BY ConnsAssumption DEF Registered, LiveVersion
  <2>3. row[KeyOf[a]] # mem[a]
    BY <1>3 DEF Skips, ManagerInv, DataInv
  <2>4. LastWriteFailed(KeyOf[a]) = failed[a]
    BY <1>1, <2>2 DEF Registered, LastWriteFailed, TypeOK
  <2> QED
    BY <2>1, <2>2, <2>3, <2>4
<1>4. ASSUME NEW k \in Saves, k # KeyOf[a]
      PROVE  actors[k] # a /\ actors[k] \in Conns \cup {None} /\ k \in Keys
  BY <1>1, <1>4, SavesAreKeys, ConnsAssumption DEF ManagerInv, RegistryInv
<1>5. CASE ~Skips(a) /\ WriteSucceeds(a)
  <2>1. /\ row' = [row EXCEPT ![KeyOf[a]] = mem[a]]
        /\ failed' = [failed EXCEPT ![a] = FALSE]
    BY <1>5 DEF WriteSucceeds
  <2>2. ASSUME NEW k \in Saves
        PROVE  /\ LiveVersion(k)' = LiveVersion(k)
               /\ row'[k] = IF k = KeyOf[a] THEN mem[a] ELSE row[k]
    BY <1>1, <1>3, <1>4, <1>5, <2>1, SavesAreKeys DEF LiveVersion, TypeOK
  <2>3. ASSUME NEW k \in Saves
        PROVE  LastWriteFailed(k)' =
                 IF k = KeyOf[a] THEN FALSE ELSE LastWriteFailed(k)
    BY <1>1, <1>4, <2>1 DEF LastWriteFailed, Registered, TypeOK
  <2>4. Durable!Save(KeyOf[a])
    BY <1>3, <1>5, <2>2, <2>3 DEF Durable!Save
  <2> QED
    BY <1>3, <1>5, <2>4 DEF Durable!Next
<1>6. CASE ~Skips(a) /\ WriteFails(a)
  <2>1. row' = row /\ failed' = [failed EXCEPT ![a] = TRUE]
    BY <1>6 DEF WriteFails
  <2>2. ASSUME NEW k \in Saves
        PROVE  /\ LiveVersion(k)' = LiveVersion(k)
               /\ LastWriteFailed(k)' =
                    IF k = KeyOf[a] THEN TRUE ELSE LastWriteFailed(k)
    BY <1>1, <1>3, <1>4, <1>6, <2>1
       DEF LiveVersion, LastWriteFailed, Registered, TypeOK
  <2>3. Durable!SaveFails(KeyOf[a])
    BY <1>3, <1>6, <2>1, <2>2 DEF Durable!SaveFails
  <2> QED
    BY <1>3, <1>6, <2>3 DEF Durable!Next
<1> QED
  BY <1>2, <1>5, <1>6 DEF Persist

(* An actor that leaves the registry has nothing left to write, or its last *)
(* write failed and what it had is given up.                                *)
LEMMA UnregisterStep ==
    ASSUME ManagerInv, up, NEW a \in Conns, phase[a] = "done", Unregister(a),
           UNCHANGED <<up, row, mem, failed>>
    PROVE  [Durable!Next]_(Durable!vars)
<1>1. TypeOK /\ KeyOf[a] \in Keys
  BY KeyTypes DEF ManagerInv
<1>2. ASSUME NEW k \in Saves, k # KeyOf[a] \/ ~Registered(a)
      PROVE  /\ LiveVersion(k)' = LiveVersion(k)
             /\ LastWriteFailed(k)' = LastWriteFailed(k)
  <2>1. actors'[k] = actors[k]
    BY <1>1, <1>2, SavesAreKeys DEF Unregister, Registered
  <2> QED
    BY <2>1 DEF LiveVersion, LastWriteFailed
<1>3. CASE Registered(a) /\ KeyOf[a] \in Saves
  <2>1. /\ LiveVersion(KeyOf[a]) = mem[a]
        /\ LiveVersion(KeyOf[a])' = row[KeyOf[a]]
        /\ LastWriteFailed(KeyOf[a]) = failed[a]
        /\ ~LastWriteFailed(KeyOf[a])'
    BY <1>1, <1>3, ConnsAssumption
       DEF Registered, Unregister, LiveVersion, LastWriteFailed, TypeOK
  <2>2. ~IsGuest(a)
    BY <1>1, <1>3, SavesAreKeys DEF IsGuest
  <2>3. CASE dirty[a]
    <3>1. LastWriteFailed(KeyOf[a])
      BY <1>3, <2>1, <2>2, <2>3 DEF ManagerInv, DataInv
    <3>2. Durable!GiveUp(KeyOf[a])
      BY <1>2, <1>3, <2>1, <3>1 DEF Durable!GiveUp, LastWriteFailed
    <3> QED
      BY <1>3, <3>2 DEF Durable!Next
  <2>4. CASE ~dirty[a]
    <3>1. row[KeyOf[a]] = mem[a] /\ ~failed[a]
      BY <1>3, <2>2, <2>4 DEF ManagerInv, DataInv
    <3>2. LastWriteFailed(KeyOf[a])' = LastWriteFailed(KeyOf[a])
      BY <1>1, <2>1, <3>1 DEF LastWriteFailed, TypeOK
    <3>3. UNCHANGED Durable!vars
      BY <1>2, <2>1, <3>1, <3>2 DEF Durable!vars
    <3> QED
      BY <3>3
  <2> QED
    BY <2>3, <2>4
<1>4. CASE ~Registered(a) \/ KeyOf[a] \notin Saves
  <2>1. UNCHANGED Durable!vars
    BY <1>2, <1>4 DEF Durable!vars
  <2> QED
    BY <2>1
<1> QED
  BY <1>3, <1>4

(* A slot that is reused is not the slot of a registered actor. *)
LEMMA ConnectStep ==
    ASSUME ManagerInv, NEW c \in Conns, Connect(c)
    PROVE  UNCHANGED Durable!vars
<1>1. TypeOK /\ UNCHANGED <<up, row, actors>>
  BY DEF ManagerInv, Connect, registryVars
<1>2. ASSUME NEW k \in Saves, actors[k] # None
      PROVE  mem'[actors[k]] = mem[actors[k]] /\ failed'[actors[k]] = failed[actors[k]]
  BY <1>1, <1>2, SavesAreKeys DEF Connect, TypeOK
<1>3. \A k \in Saves : /\ LiveVersion(k)' = LiveVersion(k)
                       /\ LastWriteFailed(k)' = LastWriteFailed(k)
  BY <1>1, <1>2 DEF LiveVersion, LastWriteFailed
<1> QED
  BY <1>1, <1>3 DEF Durable!vars

LEMMA DieStep ==
    ASSUME ManagerInv, up, Die
    PROVE  Durable!Crash
<1>1. \A k \in Saves : actors'[k] = None
  BY SavesAreKeys DEF Die, ManagerInv
<1>2. \A k \in Saves : LiveVersion(k)' = row[k] /\ ~LastWriteFailed(k)'
  BY <1>1 DEF Die, LiveVersion, LastWriteFailed
<1>3. \A k \in Saves : LastWriteFailed(k)' = FALSE
  BY <1>1 DEF LastWriteFailed
<1> QED
  BY <1>2, <1>3 DEF Durable!Crash, Die

LEMMA RestartStep ==
    ASSUME Restart
    PROVE  Durable!Restart
<1>1. UNCHANGED <<row, actors, mem, failed>>
  BY DEF Restart, registryVars, actorVars
<1>2. \A k \in Saves : /\ LiveVersion(k)' = LiveVersion(k)
                       /\ LastWriteFailed(k)' = LastWriteFailed(k)
  BY <1>1 DEF LiveVersion, LastWriteFailed
<1> QED
  BY <1>1, <1>2 DEF Durable!Restart, Restart

-----------------------------------------------------------------------------
(* A process that is down does nothing. *)
DownInv ==
    ~up => /\ \A c \in Conns : pc[c] = "gone" /\ phase[c] = "none"
           /\ hook = "off" /\ fpc = "kick"

LEMMA DownInit == Init => DownInv
BY DEF Init, DownInv

LEMMA DownStep == ManagerInv /\ DownInv /\ [Next]_vars => DownInv'
<1> SUFFICES ASSUME ManagerInv, DownInv, [Next]_vars PROVE DownInv'
  OBVIOUS
<1>1. CASE Die
  BY <1>1 DEF Die, DownInv
<1>2. CASE Restart
  BY <1>2 DEF Restart, DownInv
<1>3. CASE UNCHANGED vars
  BY <1>3 DEF vars, actorVars, connVars, flushVars, DownInv
<1>4. ASSUME Next, ~Die, ~Restart, ~up'
      PROVE  FALSE
  <2>1. ASSUME NEW c \in Conns, Connect(c) \/ AttachBegin(c) \/ AttachClosing(c)
        PROVE  FALSE
    BY <1>4, <2>1 DEF DownInv, Connect, AttachBegin, AttachClosing, Admits
  <2>2. ASSUME NEW c \in Conns, AttachStep(c) PROVE FALSE
    BY <1>4, <2>2 DEF DownInv, AttachStep, AttachFails, AttachLoad, AttachReuse,
       AttachGuestBusy, AttachJoin
  <2>3. ASSUME NEW c \in Conns, Intent(c) \/ DetachBegin(c) \/ DetachStep(c)
        PROVE  FALSE
    BY <1>4, <2>3 DEF DownInv, Intent, DetachBegin, DetachStep, DetachRelease,
       DetachTooLate, DetachReap, Leave
  <2>4. ASSUME NEW c \in Conns, Autosave(c) \/ FinalFlush(c) PROVE FALSE
    BY <1>4, <2>4 DEF DownInv, Live, Autosave, FinalFlush
  <2>5. ASSUME \/ ShutdownBegin \/ FlushStep \/ FlushStop
               \/ ShutdownInterrupted \/ Exit \/ Crash
        PROVE  FALSE
    BY <1>4, <2>5 DEF DownInv, ShutdownBegin, FlushStep, FlushKick, FlushReap,
       ShutdownFlushed, FlushStop, ShutdownInterrupted, Exit, Crash
  <2> QED
    BY <1>4, <2>1, <2>2, <2>3, <2>4, <2>5 DEF Next
<1> QED
  BY <1>1, <1>2, <1>3, <1>4 DEF DownInv

-----------------------------------------------------------------------------
LEMMA InitRefines == Init => Durable!Init
<1> SUFFICES ASSUME Init PROVE Durable!Init
  OBVIOUS
<1>1. \A k \in Saves : k \in Keys
  BY DEF Keys
<1>2. \A k \in Saves :
        row[k] = 0 /\ LiveVersion(k) = 0 /\ LastWriteFailed(k) = FALSE
  BY <1>1 DEF Init, LiveVersion, LastWriteFailed
<1> QED
  BY <1>2 DEF Durable!Init, Init

LEMMA NextRefines == ManagerInv /\ DownInv /\ [Next]_vars => [Durable!Next]_(Durable!vars)
<1> SUFFICES ASSUME ManagerInv, DownInv, [Next]_vars
             PROVE  [Durable!Next]_(Durable!vars)
  OBVIOUS
<1> DEFINE Goal == [Durable!Next]_(Durable!vars)
<1>1. ASSUME UNCHANGED SeenVars
      PROVE  Goal
  BY <1>1, SilentStep
<1>2. ASSUME NEW c \in Conns, AttachStep(c)
      PROVE  Goal
  <2> up
    BY <1>2 DEF DownInv, AttachStep, AttachFails, AttachLoad, AttachReuse,
       AttachGuestBusy, AttachJoin
  <2>1. CASE AttachFails(c)
    BY <2>1, AttachFailsStep
  <2>2. CASE AttachLoad(c)
    BY <2>2, AttachLoadStep
  <2>3. CASE AttachReuse(c) \/ AttachGuestBusy(c)
    BY <1>1, <2>3 DEF AttachReuse, AttachGuestBusy, SeenVars, registryVars, actorVars
  <2>4. CASE AttachJoin(c)
    <3>1. on[c] \in Conns /\ Registered(on[c])
      BY <2>4 DEF ManagerInv, ConnInv, AttachJoin
    <3>2. CASE mem' = mem
      BY <1>1, <2>4, <3>2 DEF AttachJoin, SeenVars
    <3>3. CASE mem' = [mem EXCEPT ![on[c]] = @ + 1]
      BY <2>4, <3>1, <3>3, PlayStep DEF AttachJoin
    <3> QED
      BY <2>4, <3>2, <3>3 DEF AttachJoin, Refused, Joined
  <2> QED
    BY <1>2, <2>1, <2>2, <2>3, <2>4 DEF AttachStep
<1>3. ASSUME NEW c \in Conns, DetachStep(c)
      PROVE  Goal
  <2> up
    BY <1>3 DEF DownInv, DetachStep, DetachRelease, DetachTooLate, DetachReap, Leave
  <2>1. CASE DetachRelease(c)
    <3>1. on[c] \in Conns /\ Registered(on[c])
      BY <2>1 DEF ManagerInv, ConnInv, RegistryInv, DetachRelease
    <3> QED
      BY <2>1, <3>1, PersistStep DEF DetachRelease
  <2>2. CASE DetachTooLate(c) \/ Leave(c)
    BY <1>1, <2>2 DEF DetachTooLate, Leave, SeenVars, registryVars, actorVars
  <2>3. CASE DetachReap(c)
    <3>1. on[c] \in Conns
      BY <2>3 DEF ManagerInv, ConnInv, DetachReap
    <3> QED
      BY <2>3, <3>1, UnregisterStep DEF DetachReap, actorVars
  <2> QED
    BY <1>3, <2>1, <2>2, <2>3 DEF DetachStep
<1>4. ASSUME FlushStep
      PROVE  Goal
  <2>1. CASE FlushReap
    <3> up
      BY <2>1 DEF DownInv, FlushReap
    <3>1. cur \in Conns
      BY <2>1 DEF ManagerInv, FlushInv, TypeOK, FlushReap
    <3> QED
      BY <2>1, <3>1, UnregisterStep DEF FlushReap, actorVars
  <2>2. CASE ~FlushReap
    BY <1>1, <1>4, <2>2
       DEF FlushStep, FlushKick, ShutdownFlushed, SeenVars, registryVars, actorVars
  <2> QED
    BY <2>1, <2>2
<1>5. ASSUME NEW c \in Conns, Intent(c)
      PROVE  Goal
  <2> up
    BY <1>5 DEF DownInv, Intent
  <2>1. on[c] \in Conns /\ Registered(on[c])
    BY <1>5 DEF ManagerInv, ConnInv, RegistryInv, Intent
  <2> QED
    BY <1>5, <2>1, PlayStep DEF Intent, registryVars
<1>6. ASSUME NEW c \in Conns, Autosave(c) \/ FinalFlush(c)
      PROVE  Goal
  <2> up
    BY <1>6 DEF DownInv, Live, Autosave, FinalFlush
  <2>1. Registered(c)
    BY <1>6 DEF ManagerInv, RegistryInv, Live, Autosave, FinalFlush
  <2> QED
    BY <1>6, <2>1, PersistStep DEF Autosave, FinalFlush, registryVars
<1>7. ASSUME NEW c \in Conns, Connect(c)
      PROVE  Goal
  BY <1>7, ConnectStep
<1>8. ASSUME NEW c \in Conns, AttachBegin(c) \/ AttachClosing(c) \/ DetachBegin(c)
      PROVE  Goal
  BY <1>1, <1>8
     DEF AttachBegin, AttachClosing, DetachBegin, SeenVars, registryVars, actorVars
<1>9. ASSUME ShutdownBegin \/ FlushStop \/ ShutdownInterrupted
      PROVE  Goal
  BY <1>1, <1>9 DEF ShutdownBegin, FlushStop, ShutdownInterrupted,
     SeenVars, registryVars, actorVars
<1>10. ASSUME Exit \/ Crash
       PROVE  Goal
  BY <1>10, DieStep DEF Exit, Crash, Durable!Next
<1>11. CASE Restart
  BY <1>11, RestartStep DEF Durable!Next
<1>12. CASE UNCHANGED vars
  BY <1>1, <1>12 DEF vars, SeenVars, registryVars, actorVars
<1> HIDE DEF Goal
<1> QED
  BY <1>2, <1>3, <1>4, <1>5, <1>6, <1>7, <1>8, <1>9, <1>10, <1>11,
     <1>12 DEF Next, Goal

(* The registry, the actors, the sessions and the flush together keep what *)
(* DurableSave promises of every save, through crashes and failed writes.  *)
THEOREM ManagerImplementsDurableSave == Spec => ImplementsDurableSave
BY InitRefines, NextRefines, ManagerInvariant, DownInit, DownStep, PTL
   DEF Spec, ImplementsDurableSave, Durable!Spec

-----------------------------------------------------------------------------
(* Who owns an actor shares it with nobody who was not told.               *)
LEMMA OwnersAreAlone ==
    ASSUME ManagerInv, NEW c \in Conns, sess[on[c]] = c,
           NEW d \in Conns \ {c}, on[d] = on[c], Sits(d)
    PROVE  kicked[d] # "no"
BY DEF ManagerInv, SessionInv, Sits

(* An intent is its owner's, whatever sessions there were before. *)
LEMMA IntentsAreOwned ==
    ASSUME ManagerInv, NEW c \in Conns, Intent(c)
    PROVE  IsTheOwners(c)
<1>1. /\ on[c] \in Conns /\ KeyOf[on[c]] = KeyOf[c] /\ Registered(on[c])
      /\ sess[on[c]] = c
  BY DEF Intent, Owns, ManagerInv, ConnInv, RegistryInv
<1>2. kicked[c] = "no"
  BY <1>1 DEF ManagerInv, SessionInv
<1>3. sess' = sess /\ kicked' = kicked
  BY DEF Intent, connVars
<1> QED
  BY <1>1, <1>2, <1>3, OwnersAreAlone DEF IsTheOwners

(* Who joins becomes the owner, and has told the one before. *)
LEMMA JoinersAreOwners ==
    ASSUME ManagerInv, NEW c \in Conns, AttachJoin(c), mem' # mem
    PROVE  IsTheOwners(c)
<1>1. /\ Joined(c) /\ pc[c] = "joining" /\ on[c] \in Conns
      /\ KeyOf[on[c]] = KeyOf[c] /\ Registered(on[c]) /\ TypeOK
  BY DEF AttachJoin, Refused, ManagerInv, ConnInv
<1>2. kicked[c] = "no" /\ sess[on[c]] # c
  BY <1>1 DEF ManagerInv, SessionInv
<1>3. sess'[on[c]] = c /\ kicked'[c] = "no"
  BY <1>1, <1>2 DEF Joined, Kick, TypeOK
<1>4. ASSUME NEW d \in Conns \ {c}, on[d] = on[c], Sits(d)
      PROVE  kicked'[d] # "no"
  <2>1. kicked[d] # "no" \/ sess[on[c]] = d
    BY <1>4 DEF ManagerInv, SessionInv, Sits
  <2> QED
    BY <1>1, <2>1 DEF Joined, Kick, TypeOK
<1> QED
  BY <1>1, <1>3, <1>4 DEF IsTheOwners

(* Nothing else moves an open farm: not Attach, Detach, the flush, or a write. *)
LEMMA FarmsMoveBySessions ==
    ASSUME ManagerInv, [Next]_vars, NEW a \in Conns, Live(a), mem'[a] > mem[a]
    PROVE  \E c \in Conns : MovesFarm(c) /\ on[c] = a
<1>1. /\ TypeOK /\ mem[a] \in Nat /\ mem[a] # mem'[a]
      /\ pc[a] \notin {"idle", "attaching"}
  BY DEF ManagerInv, TypeOK, ConnInv, Live
<1>2. ASSUME NEW c \in Conns, Intent(c)
      PROVE  MovesFarm(c) /\ on[c] = a
  <2>1. on[c] = a
    BY <1>1, <1>2 DEF Intent, TypeOK
  <2> QED
    BY <1>1, <1>2, <2>1 DEF MovesFarm
<1>3. ASSUME NEW c \in Conns, AttachJoin(c)
      PROVE  MovesFarm(c) /\ on[c] = a
  <2>1. on[c] = a
    BY <1>1, <1>3 DEF AttachJoin, Refused, Joined, TypeOK
  <2> QED
    BY <1>1, <1>3, <2>1 DEF MovesFarm
<1>4. ASSUME NEW c \in Conns, AttachLoad(c)
      PROVE  FALSE
  BY <1>1, <1>4 DEF AttachLoad, TypeOK
<1>5. ASSUME NEW c \in Conns, Connect(c)
      PROVE  FALSE
  BY <1>1, <1>5 DEF Connect, TypeOK
<1>6. ASSUME Die
      PROVE  FALSE
  BY <1>1, <1>6 DEF Die
<1>7. Next
  BY <1>1 DEF vars, actorVars
<1> QED
  BY <1>1, <1>2, <1>3, <1>4, <1>5, <1>6, <1>7
  DEF Next, AttachStep, DetachStep, FlushStep, AttachBegin, AttachClosing,
      AttachFails, AttachReuse, AttachGuestBusy, DetachBegin, DetachRelease,
      DetachTooLate, DetachReap, Leave, Autosave, FinalFlush, ShutdownBegin,
      FlushKick, FlushReap, ShutdownFlushed, FlushStop, ShutdownInterrupted,
      Exit, Crash, Restart, actorVars

(* Every change of an open farm is an intent or the join of the session    *)
(* that has the farm and was not told; who lost it no longer moves it.     *)
THEOREM FarmsMoveForTheirOwner == Spec => UnattendedIsStill
<1>1. ASSUME ManagerInv, [Next]_vars
      PROVE  OnlyAnOwnerMoves
  BY <1>1, IntentsAreOwned, JoinersAreOwners, FarmsMoveBySessions
     DEF OnlyAnOwnerMoves, MovesFarm
<1>2. ManagerInv /\ [Next]_vars => [OnlyAnOwnerMoves]_vars
  BY <1>1
<1> QED
  BY <1>2, ManagerInvariant, PTL DEF Spec, UnattendedIsStill

(* Under PolicyRefuse nobody is displaced by a newcomer. *)
THEOREM RefusedNewcomersWait == Spec => FirstComerKeeps
<1>1. ASSUME ManagerInv, [Next]_vars
      PROVE  OwnershipIsYielded
  <2> SUFFICES ASSUME NEW a \in Conns, NEW c \in Conns, Policy = "refuse",
                      sess[a] = c, sess'[a] # c
               PROVE  pc[c] = "detaching" \/ hook # "off" \/ ~up'
    BY DEF OwnershipIsYielded
  <2>1. TypeOK /\ c # None
    BY <1>1, ConnsAssumption DEF ManagerInv
  <2>2. ASSUME NEW d \in Conns, AttachJoin(d)
        PROVE  FALSE
    BY <2>1, <2>2 DEF AttachJoin, Refused, Joined, MayTake, TypeOK
  <2>3. ASSUME NEW d \in Conns, DetachRelease(d)
        PROVE  pc[c] = "detaching"
    BY <2>1, <2>3 DEF DetachRelease, TypeOK
  <2>4. ASSUME NEW d \in Conns, FlushKick(d)
        PROVE  hook # "off"
    BY <2>4 DEF FlushKick
  <2>5. ASSUME Die
        PROVE  ~up'
    BY <2>5 DEF Die
  <2>6. Next
    BY <1>1 DEF vars, actorVars
  <2> QED
    BY <2>2, <2>3, <2>4, <2>5, <2>6
    DEF Next, AttachStep, DetachStep, FlushStep, AttachBegin, AttachClosing,
        AttachFails, AttachLoad, AttachReuse, AttachGuestBusy, DetachBegin,
        DetachTooLate, DetachReap, Leave, Autosave, FinalFlush, ShutdownBegin,
        FlushReap, ShutdownFlushed, FlushStop, ShutdownInterrupted,
        Exit, Crash, Restart, Connect, Intent, actorVars
<1>2. ManagerInv /\ [Next]_vars => [OwnershipIsYielded]_vars
  BY <1>1
<1> QED
  BY <1>2, ManagerInvariant, PTL DEF Spec, FirstComerKeeps

-----------------------------------------------------------------------------
(* SaveManager keeps the seats of FarmSeats.                               *)

(* Who is about to join the actor of a guest finds nobody on it: a guest's *)
(* actor is never reused.                                                  *)
GuestsAlone ==
    \A c \in Conns : pc[c] = "joining" /\ IsGuest(c) => sess[on[c]] = None

LEMMA GuestsAloneInit == Init => GuestsAlone
BY DEF Init, GuestsAlone

LEMMA GuestsAloneStep == ManagerInv /\ GuestsAlone /\ [Next]_vars => GuestsAlone'
<1> SUFFICES ASSUME ManagerInv, GuestsAlone, [Next]_vars, NEW c \in Conns,
                    pc'[c] = "joining", IsGuest(c)
             PROVE  sess'[on'[c]] = None
  BY DEF GuestsAlone, IsGuest
<1> USE DEF IsGuest
<1>1. CASE AttachLoad(c)
  BY <1>1 DEF AttachLoad, ManagerInv, ConnInv, TypeOK
<1>2. ASSUME pc[c] = "joining", on'[c] = on[c], sess' = sess
      PROVE  sess'[on'[c]] = None
  BY <1>2 DEF GuestsAlone
<1>3. ASSUME NEW d \in Conns, AttachJoin(d)
      PROVE  sess'[on'[c]] = None
  <2>1. d # c
    BY <1>3 DEF AttachJoin, Refused, Joined, ManagerInv, TypeOK
  <2>2. pc[c] = "joining"
    BY <1>3, <2>1 DEF AttachJoin, Refused, Joined, ManagerInv, TypeOK
  <2> QED
    BY <1>3, <2>1, <2>2 DEF AttachJoin, ManagerInv, LockInv
<1>4. ASSUME NEW d \in Conns, DetachRelease(d)
      PROVE  sess'[on'[c]] = None
  <2>1. pc[c] = "joining" /\ on' = on
    BY <1>4 DEF DetachRelease, ManagerInv, TypeOK
  <2>2. d # c
    BY <1>4, <2>1 DEF DetachRelease
  <2> QED
    BY <1>4, <2>1, <2>2 DEF DetachRelease, ManagerInv, LockInv
<1>5. ASSUME NEW a \in Conns, FlushKick(a)
      PROVE  sess'[on'[c]] = None
  <2>1. pc[c] = "joining" /\ on' = on
    BY <1>5 DEF FlushKick
  <2> QED
    BY <1>5, <2>1 DEF FlushKick, ManagerInv, FlushInv
<1>6. ~Die
  BY DEF Die
<1>7. ASSUME NEW d \in Conns, AttachLoad(d), d # c
      PROVE  sess'[on'[c]] = None
  BY <1>2, <1>7 DEF AttachLoad, ManagerInv, TypeOK
<1>8. ASSUME NEW d \in Conns, AttachFails(d) \/ AttachReuse(d) \/ AttachGuestBusy(d)
      PROVE  sess'[on'[c]] = None
  BY <1>2, <1>8
  DEF AttachFails, AttachReuse, AttachGuestBusy, ManagerInv, TypeOK, actorVars
<1>9. ASSUME NEW d \in Conns, DetachTooLate(d) \/ DetachReap(d) \/ Leave(d)
      PROVE  sess'[on'[c]] = None
  BY <1>2, <1>9 DEF DetachTooLate, DetachReap, Leave, ManagerInv, TypeOK, actorVars
<1>10. ASSUME NEW d \in Conns,
              \/ Connect(d) \/ AttachBegin(d) \/ AttachClosing(d) \/ DetachBegin(d)
              \/ Intent(d) \/ Autosave(d) \/ FinalFlush(d)
       PROVE  sess'[on'[c]] = None
  BY <1>2, <1>10
  DEF Connect, AttachBegin, AttachClosing, DetachBegin, Intent, Autosave, FinalFlush,
      ManagerInv, TypeOK, actorVars, connVars
<1>11. CASE \/ ShutdownBegin \/ FlushReap \/ ShutdownFlushed \/ FlushStop
            \/ ShutdownInterrupted \/ Restart \/ UNCHANGED vars
  BY <1>2, <1>11
  DEF ShutdownBegin, FlushReap, ShutdownFlushed, FlushStop, ShutdownInterrupted,
      Restart, vars, actorVars, connVars
<1> QED
  BY <1>1, <1>3, <1>4, <1>5, <1>6, <1>7, <1>8, <1>9, <1>10, <1>11
  DEF Next, AttachStep, DetachStep, FlushStep, Exit, Crash

(* A seat tells its farm, and a farm is no empty seat. *)
LEMMA SeatsTellFarms ==
    ASSUME NEW c \in Conns
    PROVE  /\ SeatOf(c) # <<"none">> <=> Sits(c) /\ sess[on[c]] = c
           /\ \A k \in Keys : SeatOf(c) = FarmOf(k) =>
                 Sits(c) /\ sess[on[c]] = c /\ KeyOf[c] = k
BY DEF SeatOf, FarmOf

(* The seat of a farm is its owner's: whoever the registered actor has.    *)
LEMMA TheSeatIsTheOwners ==
    ASSUME ManagerInv, NEW a \in Conns, Registered(a), NEW c \in Conns
    PROVE  SeatOf(c) = FarmOf(KeyOf[a]) <=> sess[a] = c
<1>1. KeyOf[a] \in Keys /\ KeyOf[c] \in Keys
  BY KeysAssumption
<1>2. ASSUME SeatOf(c) = FarmOf(KeyOf[a]) PROVE sess[a] = c
  <2>1. sess[on[c]] = c /\ KeyOf[c] = KeyOf[a] /\ pc[c] \in {"open", "detaching"}
    BY <1>1, <1>2, SeatsTellFarms DEF Sits
  <2>2. on[c] \in Conns /\ KeyOf[on[c]] = KeyOf[c]
    BY <2>1 DEF ManagerInv, ConnInv
  <2>3. Registered(on[c])
    BY <2>1, <2>2 DEF ManagerInv, SessionInv, RegistryInv, Live
  <2> QED
    BY <2>1, <2>2, <2>3 DEF Registered
<1>3. ASSUME sess[a] = c PROVE SeatOf(c) = FarmOf(KeyOf[a])
  <2>1. pc[c] \in {"open", "detaching"} /\ on[c] = a
    BY <1>3 DEF ManagerInv, SessionInv
  <2>2. KeyOf[a] = KeyOf[c]
    BY <2>1 DEF ManagerInv, ConnInv
  <2> QED
    BY <1>3, <2>1, <2>2 DEF SeatOf, Sits
<1> QED
  BY <1>2, <1>3

(* The steps that seat nobody, tell nobody and let nobody go. *)
LEMMA SilentSeats ==
    ASSUME UNCHANGED closing,
           \A c \in Conns : SeatOf(c)' = SeatOf(c),
           \A c \in Conns : (Sits(c) /\ kicked[c] # "no")' <=> (Sits(c) /\ kicked[c] # "no")
    PROVE  UNCHANGED Seats!games
BY DEF Seats!games

LEMMA SilentSteps ==
    ASSUME TypeOK, UNCHANGED <<sess, closing>>,
           \A c \in Conns : Sits(c)' <=> Sits(c),
           \A c \in Conns : Sits(c) => on'[c] = on[c] /\ kicked'[c] = kicked[c]
    PROVE  UNCHANGED Seats!games
BY SilentSeats DEF SeatOf, FarmOf

(* Whoever joins sits down on a free farm, or where the policy lets a      *)
(* newcomer sit; whoever sat there is told.                                *)
LEMMA JoinSeats ==
    ASSUME ManagerInv, GuestsAlone, NEW c \in Conns, AttachJoin(c), Joined(c)
    PROVE  Seats!Attach(c, FarmOf(KeyOf[c]))
<1> DEFINE a == on[c]
           f == FarmOf(KeyOf[c])
<1>1. /\ TypeOK /\ pc[c] = "joining" /\ kicked[c] = "no" /\ ~closing
      /\ a \in Conns /\ KeyOf[a] = KeyOf[c] /\ Registered(a) /\ sess[a] # c
  BY DEF AttachJoin, ManagerInv, ConnInv, SessionInv, FlushInv
<1>2. /\ sess' = [sess EXCEPT ![a] = c] /\ on' = on /\ closing' = closing
      /\ pc' = [pc EXCEPT ![c] = "open"]
      /\ kicked' = Kick(sess[a], "takeover")
      /\ sess[a] = None \/ Policy = "takeover"
  BY DEF AttachJoin, Joined, MayTake
<1>3. \A x \in Conns : SeatOf(x) = f <=> sess[a] = x
  BY <1>1, TheSeatIsTheOwners
<1>4. Seats!Away(c)
  BY <1>1 DEF Seats!Away, Seats!NoFarm, SeatOf, Sits
<1>5. Seats!MayAttach(f)
  <2>1. CASE sess[a] = None
    <3>1. \A x \in Conns : SeatOf(x) # f
      BY <1>3, <2>1, ConnsAssumption
    <3> QED
      BY <1>1, <3>1 DEF Seats!MayAttach, Seats!Holders
  <2>2. CASE sess[a] # None
    <3>1. Policy = "takeover" /\ ~IsGuest(c)
      BY <1>1, <1>2, <2>2 DEF GuestsAlone
    <3>2. f[1] = "key"
      BY <3>1 DEF FarmOf, IsGuest
    <3> QED
      BY <1>1, <3>1, <3>2 DEF Seats!MayAttach
  <2> QED
    BY <2>1, <2>2
<1>6. ASSUME NEW x \in Conns
      PROVE  (Sits(x) /\ kicked[x] # "no")' <=> (Sits(x) /\ kicked[x] # "no") \/ SeatOf(x) = f
  <2>1. CASE x = c
    <3>1. kicked'[x] = "no" /\ ~Sits(x)
      BY <1>1, <1>2, <2>1 DEF Kick, Sits
    <3> QED
      BY <1>1, <1>3, <2>1, <3>1
  <2>2. CASE x # c /\ sess[a] = x
    <3>1. Sits(x) /\ kicked[x] = "no" /\ SeatOf(x) = f
      BY <1>1, <1>3, <2>2 DEF ManagerInv, SessionInv, Sits
    <3>2. Sits(x)' /\ kicked'[x] = "takeover"
      BY <1>1, <1>2, <2>2, <3>1 DEF Kick, Sits, TypeOK
    <3> QED
      BY <3>1, <3>2
  <2>3. CASE x # c /\ sess[a] # x
    <3>1. kicked'[x] = kicked[x] /\ (Sits(x)' <=> Sits(x)) /\ SeatOf(x) # f
      BY <1>1, <1>2, <1>3, <2>3 DEF Kick, Sits, TypeOK
    <3> QED
      BY <3>1
  <2> QED
    BY <2>1, <2>2, <2>3
<1>7. ASSUME NEW x \in Conns
      PROVE  SeatOf(x)' = IF x = c THEN f ELSE IF SeatOf(x) = f THEN <<"none">> ELSE SeatOf(x)
  <2>1. CASE x = c
    BY <1>1, <1>2, <2>1 DEF SeatOf, Sits, FarmOf, TypeOK
  <2>2. CASE x # c /\ on[x] = a
    <3>1. sess'[on'[x]] # x
      BY <1>1, <1>2, <2>2 DEF TypeOK
    <3>2. SeatOf(x) = f \/ SeatOf(x) = <<"none">>
      BY <1>3, <2>2 DEF SeatOf
    <3> QED
      BY <2>2, <3>1, <3>2 DEF SeatOf
  <2>3. CASE x # c /\ on[x] # a
    <3>1. (Sits(x)' <=> Sits(x)) /\ (Sits(x) => sess'[on'[x]] = sess[on[x]])
      BY <1>1, <1>2, <2>3 DEF Sits, TypeOK
    <3>2. SeatOf(x) # f
      BY <1>1, <1>3, <2>3 DEF ManagerInv, SessionInv
    <3> QED
      BY <2>3, <3>1, <3>2 DEF SeatOf, FarmOf
  <2> QED
    BY <2>1, <2>2, <2>3
<1> HIDE DEF f
<1> QED
  BY <1>2, <1>4, <1>5, <1>6, <1>7 DEF Seats!Attach, Seats!Holders, Seats!NoFarm, f

(* Whoever releases the farm, or finds that it is not theirs any more,     *)
(* has left the seat and taken the notice along.                           *)
LEMMA LeaveSeats ==
    ASSUME ManagerInv, NEW c \in Conns, pc[c] = "detaching",
           NEW stage \in {"stopping", "leaving"}, pc' = [pc EXCEPT ![c] = stage],
           UNCHANGED <<on, kicked, closing>>,
           sess' = sess \/ (sess[on[c]] = c /\ sess' = [sess EXCEPT ![on[c]] = None])
    PROVE  Seats!Detach(c)
<1>1. TypeOK /\ on[c] \in Conns
  BY DEF ManagerInv, ConnInv
<1>2. ~Seats!Away(c)
  <2>1. sess[on[c]] = c \/ kicked[c] # "no"
    BY DEF ManagerInv, SessionInv
  <2>2. Sits(c) /\ (sess[on[c]] = c => SeatOf(c) # <<"none">>)
    BY SeatsTellFarms DEF Sits
  <2> QED
    BY <2>1, <2>2 DEF Seats!Away, Seats!NoFarm
<1>3. ~Sits(c)' /\ \A x \in Conns \ {c} : Sits(x)' <=> Sits(x)
  BY <1>1 DEF Sits, TypeOK
<1>4. \A x \in Conns \ {c} : Sits(x) => (sess'[on'[x]] = x <=> sess[on[x]] = x)
  <2> SUFFICES ASSUME NEW x \in Conns \ {c}, Sits(x)
               PROVE  sess'[on[x]] = x <=> sess[on[x]] = x
    OBVIOUS
  <2>1. on[x] \in Conns
    BY DEF ManagerInv, ConnInv, Sits
  <2> QED
    BY <1>1, <2>1, ConnsAssumption DEF TypeOK
<1>5. \A x \in Conns : SeatOf(x)' = IF x = c THEN <<"none">> ELSE SeatOf(x)
  BY <1>3, <1>4 DEF SeatOf, FarmOf
<1>6. \A x \in Conns : (Sits(x) /\ kicked[x] # "no")' <=> (Sits(x) /\ kicked[x] # "no" /\ x # c)
  BY <1>3
<1> QED
  BY <1>2, <1>5, <1>6 DEF Seats!Detach, Seats!NoFarm

(* The flush takes the farm from its session and says so, or finds nobody. *)
LEMMA FlushSeats ==
    ASSUME ManagerInv, NEW a \in Conns, FlushKick(a)
    PROVE  UNCHANGED Seats!games \/ \E c \in Conns : Seats!LetGo(c)
<1>1. /\ TypeOK /\ closing /\ closing' = closing
      /\ UNCHANGED <<pc, on>>
      /\ \A x \in Conns : Sits(x)' <=> Sits(x)
  BY DEF FlushKick, registryVars, ManagerInv, FlushInv, Sits
<1>2. CASE DoIsSkipped(a) /\ UNCHANGED <<kicked, sess>>
  BY <1>1, <1>2, SilentSteps
<1>3. CASE Live(a) /\ kicked' = Kick(sess[a], "shutdown") /\ sess' = [sess EXCEPT ![a] = None]
  <2>1. CASE sess[a] = None
    <3>1. kicked' = kicked /\ sess' = sess
      BY <1>1, <1>3, <2>1, ConnsAssumption DEF Kick, TypeOK
    <3> QED
      BY <1>1, <3>1, SilentSteps
  <2>2. CASE sess[a] # None
    <3>1. PICK c \in Conns : sess[a] = c
      BY <1>1, <2>2 DEF TypeOK
    <3>2. Sits(c) /\ on[c] = a /\ kicked[c] = "no" /\ SeatOf(c) # <<"none">>
      BY <3>1, SeatsTellFarms DEF ManagerInv, SessionInv, Sits
    <3>3. kicked'[c] = "shutdown" /\ \A x \in Conns \ {c} : kicked'[x] = kicked[x]
      BY <1>1, <1>3, <3>1, <3>2 DEF Kick, TypeOK
    <3>4. \A x \in Conns : sess'[on'[x]] = x <=> (sess[on[x]] = x /\ x # c)
      <4> SUFFICES ASSUME NEW x \in Conns
                   PROVE  sess'[on[x]] = x <=> (sess[on[x]] = x /\ x # c)
        BY <1>1
      <4>1. CASE on[x] = a
        BY <1>1, <1>3, <3>1, <4>1, ConnsAssumption DEF TypeOK
      <4>2. CASE on[x] # a
        BY <1>1, <1>3, <3>2, <4>2 DEF TypeOK
      <4> QED
        BY <4>1, <4>2
    <3>5. \A x \in Conns : SeatOf(x)' = IF x = c THEN <<"none">> ELSE SeatOf(x)
      BY <1>1, <3>4 DEF SeatOf, FarmOf
    <3>6. \A x \in Conns : (Sits(x) /\ kicked[x] # "no")'
                              <=> (Sits(x) /\ kicked[x] # "no") \/ x = c
      BY <1>1, <3>2, <3>3
    <3>7. Seats!LetGo(c)
      BY <1>1, <3>2, <3>5, <3>6 DEF Seats!LetGo, Seats!NoFarm
    <3> QED
      BY <3>7
  <2> QED
    BY <2>1, <2>2
<1> QED
  BY <1>2, <1>3 DEF FlushKick

LEMMA InitSeats == Init => Seats!Init
<1> SUFFICES ASSUME Init PROVE Seats!Init
  OBVIOUS
<1>1. \A c \in Conns : ~Sits(c) /\ SeatOf(c) = <<"none">>
  BY DEF Init, Sits, SeatOf
<1> QED
  BY <1>1 DEF Init, Seats!Init, Seats!NoFarm

LEMMA DieSeats == Die => Seats!Die
<1> SUFFICES ASSUME Die PROVE Seats!Die
  OBVIOUS
<1>1. \A c \in Conns : ~Sits(c)' /\ SeatOf(c)' = <<"none">>
  BY DEF Die, Sits, SeatOf
<1> QED
  BY <1>1 DEF Die, Seats!Die, Seats!NoFarm

LEMMA StepSeats ==
    ManagerInv /\ GuestsAlone /\ [Next]_vars => [Seats!Next]_(Seats!games)
<1> SUFFICES ASSUME ManagerInv, GuestsAlone, [Next]_vars
             PROVE  [Seats!Next]_(Seats!games)
  OBVIOUS
<1>1. TypeOK
  BY DEF ManagerInv
<1>2. ASSUME NEW c \in Conns, AttachJoin(c)
      PROVE  UNCHANGED Seats!games \/ Seats!Next
  <2>1. CASE Refused(c)
    <3>1. \A x \in Conns : /\ Sits(x)' <=> Sits(x)
                           /\ Sits(x) => on'[x] = on[x] /\ kicked'[x] = kicked[x]
      BY <1>1, <1>2, <2>1 DEF AttachJoin, Refused, Sits, TypeOK
    <3> QED
      BY <1>1, <1>2, <2>1, <3>1, SilentSteps DEF AttachJoin, Refused
  <2>2. CASE Joined(c)
    <3>1. Seats!Attach(c, FarmOf(KeyOf[c])) /\ KeyOf[c] \in Keys
      BY <1>2, <2>2, JoinSeats, KeysAssumption
    <3> QED
      BY <3>1 DEF Seats!Next
  <2> QED
    BY <1>2, <2>1, <2>2 DEF AttachJoin
<1>3. ASSUME NEW c \in Conns, DetachRelease(c) \/ DetachTooLate(c)
      PROVE  Seats!Next
  <2>1. Seats!Detach(c)
    <3>1. CASE DetachTooLate(c)
      BY <3>1, LeaveSeats DEF DetachTooLate, actorVars
    <3>2. CASE DetachRelease(c) /\ sess[on[c]] = c /\ sess' = [sess EXCEPT ![on[c]] = None]
               /\ pc' = [pc EXCEPT ![c] = "stopping"]
      BY <3>2, LeaveSeats DEF DetachRelease
    <3>3. CASE DetachRelease(c) /\ sess' = sess /\ pc' = [pc EXCEPT ![c] = "leaving"]
      BY <3>3, LeaveSeats DEF DetachRelease
    <3> QED
      BY <1>3, <3>1, <3>2, <3>3 DEF DetachRelease
  <2> QED
    BY <2>1 DEF Seats!Next
<1>4. ASSUME NEW a \in Conns, FlushKick(a)
      PROVE  UNCHANGED Seats!games \/ Seats!Next
  BY <1>4, FlushSeats DEF Seats!Next
<1>5. ASSUME ShutdownBegin
      PROVE  Seats!Next
  <2>1. ~closing /\ closing' /\ UNCHANGED <<sess, pc, on, kicked>>
    BY <1>5 DEF ShutdownBegin, ManagerInv, FlushInv, actorVars, connVars
  <2>2. \A c \in Conns : SeatOf(c)' = SeatOf(c) /\ (Sits(c)' <=> Sits(c))
    BY <2>1 DEF SeatOf, Sits, FarmOf
  <2>3. closing' = TRUE
    BY <1>5 DEF ShutdownBegin
  <2> QED
    BY <2>1, <2>2, <2>3 DEF Seats!Next, Seats!Shutdown
<1>6. ASSUME Exit \/ Crash PROVE Seats!Next
  BY <1>6, DieSeats DEF Exit, Crash, Seats!Next
<1>7. ASSUME NEW c \in Conns,
             \/ AttachFails(c) \/ AttachLoad(c) \/ AttachReuse(c) \/ AttachGuestBusy(c)
             \/ Connect(c) \/ AttachBegin(c) \/ AttachClosing(c)
             \/ DetachBegin(c) \/ DetachReap(c) \/ Leave(c)
      PROVE  UNCHANGED Seats!games
  <2>1. UNCHANGED <<sess, closing>>
    BY <1>7
    DEF AttachFails, AttachLoad, AttachReuse, AttachGuestBusy, Connect, AttachBegin,
        AttachClosing, DetachBegin, DetachReap, Leave, registryVars, actorVars
  <2>2. \A x \in Conns \ {c} : pc'[x] = pc[x] /\ on'[x] = on[x] /\ kicked'[x] = kicked[x]
    BY <1>1, <1>7
    DEF AttachFails, AttachLoad, AttachReuse, AttachGuestBusy, Connect, AttachBegin,
        AttachClosing, DetachBegin, DetachReap, Leave, Kick, TypeOK
  <2>3. (Sits(c)' <=> Sits(c)) /\ (Sits(c) => on'[c] = on[c] /\ kicked'[c] = kicked[c])
    BY <1>1, <1>7
    DEF AttachFails, AttachLoad, AttachReuse, AttachGuestBusy, Connect, AttachBegin,
        AttachClosing, DetachBegin, DetachReap, Leave, Kick, TypeOK, Sits
  <2>4. \A x \in Conns : /\ Sits(x)' <=> Sits(x)
                         /\ Sits(x) => on'[x] = on[x] /\ kicked'[x] = kicked[x]
    BY <2>2, <2>3 DEF Sits
  <2> QED
    BY <1>1, <2>1, <2>4, SilentSteps
<1>8. ASSUME UNCHANGED <<sess, closing, connVars>>
      PROVE  UNCHANGED Seats!games
  <2>1. \A x \in Conns : Sits(x)' <=> Sits(x)
    BY <1>8 DEF Sits, connVars
  <2> QED
    BY <1>1, <1>8, <2>1, SilentSteps DEF connVars
<1>9. ASSUME NEW c \in Conns, Intent(c) \/ Autosave(c) \/ FinalFlush(c)
      PROVE  UNCHANGED Seats!games
  BY <1>8, <1>9 DEF Intent, Autosave, FinalFlush, registryVars
<1>10. ASSUME \/ FlushReap \/ ShutdownFlushed \/ FlushStop \/ ShutdownInterrupted
              \/ Restart \/ UNCHANGED vars
       PROVE  UNCHANGED Seats!games
  BY <1>8, <1>10
  DEF FlushReap, ShutdownFlushed, FlushStop, ShutdownInterrupted, Restart, vars,
      registryVars, actorVars
<1> QED
  BY <1>2, <1>3, <1>4, <1>5, <1>6, <1>7, <1>9, <1>10
  DEF Next, AttachStep, DetachStep, FlushStep

(* What FrontDoor supposes of the manager is what the manager does, for    *)
(* any number of connections and farms and under both policies: through mu *)
(* and mailboxes an attach and a detach are as good as one step each.      *)
THEOREM ManagerKeepsSeats == Spec => ImplementsFarmSeats
BY InitSeats, StepSeats, GuestsAloneInit, GuestsAloneStep, ManagerInvariant, PTL
   DEF Spec, ImplementsFarmSeats, Seats!Spec
=============================================================================
