--------------------------- MODULE BoardCache_proofs ---------------------------
(***************************************************************************)
(* BoardCache's safety, proved for any number of viewers and writes.       *)
(*                                                                         *)
(* OneReadAtATime is inductive beside the types.  BoardNeverGoesBack is    *)
(* not: it follows from how the outcomes in flight are ordered around the  *)
(* snapshot, which Ordered says.                                           *)
(***************************************************************************)
EXTENDS BoardCache, TLAPS

Boards == Versions \cup {Error}

(* Who has an outcome in hand. *)
Holds(v) == pc[v] \in {"publishing", "closing", "returning"}

TypeInv ==
    /\ TypeOK
    /\ \A v \in Viewers : Holds(v) => got[v] \in Boards
    /\ \A v \in Viewers : pc[v] = "waiting" => awaits[v] \in Viewers

(* What was shown is no newer than what was handed out, that no newer than *)
(* the snapshot, that no newer than the read that will replace it, and     *)
(* that no newer than the table.                                           *)
Ordered ==
    /\ ranked = None => newest = 0
    /\ ranked # None => newest <= ranked /\ ranked <= table
    /\ \A v \in Viewers : floor[v] <= newest
    /\ \A v \in Viewers : pc[v] = "publishing" /\ got[v] # Error =>
          got[v] <= table /\ (ranked # None => ranked <= got[v])
    /\ \A v \in Viewers : pc[v] \in {"closing", "returning"} /\ got[v] # Error =>
          ranked # None /\ got[v] <= ranked /\ floor[v] <= got[v]
    /\ \A w \in Viewers :
          LET b == awaits[w]
          IN  pc[w] = "waiting" /\ pc[b] = "closing" /\ got[b] # Error =>
                 floor[w] <= got[b]

Inv == TypeInv /\ OneReadAtATime /\ Ordered

-----------------------------------------------------------------------------
LEMMA InvInit == Init => Inv
<1> SUFFICES ASSUME Init PROVE Inv
  OBVIOUS
<1> USE BoundAssumption, MarksAssumption, ViewersAssumption DEF Init
<1>1. TypeInv
  BY DEF TypeInv, TypeOK, Holds, Boards, Versions
<1>2. OneReadAtATime
  BY DEF OneReadAtATime
<1>3. Ordered
  BY DEF Ordered
<1> QED
  BY <1>1, <1>2, <1>3 DEF Inv

LEMMA TypeInvStep == TypeInv /\ [Next]_vars => TypeInv'
<1> SUFFICES ASSUME TypeInv, [Next]_vars PROVE TypeInv'
  OBVIOUS
<1> USE BoundAssumption, MarksAssumption, ViewersAssumption
    DEF TypeInv, TypeOK, Holds, Boards, Versions
<1>1. ASSUME NEW v \in Viewers, ServeCached(v) PROVE TypeInv'
  BY <1>1 DEF ServeCached, Begin, Fresh
<1>2. ASSUME NEW v \in Viewers, Wait(v) PROVE TypeInv'
  BY <1>2 DEF Wait, Begin
<1>3. ASSUME NEW v \in Viewers, Build(v) PROVE TypeInv'
  BY <1>3 DEF Build, Begin
<1>4. ASSUME NEW v \in Viewers, Read(v) PROVE TypeInv'
  BY <1>4 DEF Read
<1>5. ASSUME NEW v \in Viewers, Publish(v) PROVE TypeInv'
  BY <1>5 DEF Publish
<1>6. ASSUME NEW v \in Viewers, Close(v) PROVE TypeInv'
  BY <1>6 DEF Close
<1>7. ASSUME NEW v \in Viewers, Return(v) PROVE TypeInv'
  BY <1>7 DEF Return, Later
<1>8. CASE Write
  BY <1>8 DEF Write
<1>9. CASE Expire
  BY <1>9 DEF Expire
<1>10. CASE UNCHANGED vars
  BY <1>10 DEF vars
<1> QED
  BY <1>1, <1>2, <1>3, <1>4, <1>5, <1>6, <1>7, <1>8, <1>9, <1>10 DEF Next

LEMMA OneReadStep == TypeInv /\ OneReadAtATime /\ [Next]_vars => OneReadAtATime'
<1> SUFFICES ASSUME TypeInv, OneReadAtATime, [Next]_vars PROVE OneReadAtATime'
  OBVIOUS
<1> USE ViewersAssumption DEF TypeInv, TypeOK, OneReadAtATime
<1>1. ASSUME NEW v \in Viewers, ServeCached(v) PROVE OneReadAtATime'
  BY <1>1 DEF ServeCached, Begin
<1>2. ASSUME NEW v \in Viewers, Wait(v) PROVE OneReadAtATime'
  BY <1>2 DEF Wait, Begin
<1>3. ASSUME NEW v \in Viewers, Build(v) PROVE OneReadAtATime'
  BY <1>3 DEF Build, Begin, MayBuild
<1>4. ASSUME NEW v \in Viewers, Read(v) PROVE OneReadAtATime'
  BY <1>4 DEF Read
<1>5. ASSUME NEW v \in Viewers, Publish(v) PROVE OneReadAtATime'
  BY <1>5 DEF Publish
<1>6. ASSUME NEW v \in Viewers, Close(v) PROVE OneReadAtATime'
  BY <1>6 DEF Close
<1>7. ASSUME NEW v \in Viewers, Return(v) PROVE OneReadAtATime'
  BY <1>7 DEF Return
<1>8. CASE Write \/ Expire \/ UNCHANGED vars
  BY <1>8 DEF Write, Expire, vars
<1> QED
  BY <1>1, <1>2, <1>3, <1>4, <1>5, <1>6, <1>7, <1>8 DEF Next

(* The one place where the snapshot changes: it moves forward, and         *)
(* whatever has been shown stays behind the board that is handed out.      *)
LEMMA PublishOrders ==
    ASSUME Inv, NEW v \in Viewers, Publish(v)
    PROVE  Ordered' /\ (ranked # None => ranked' # None /\ ranked' >= ranked)
<1> USE BoundAssumption, MarksAssumption, ViewersAssumption
    DEF Inv, TypeInv, TypeOK, Holds, Boards, Versions, OneReadAtATime
<1>1. pc[v] = "publishing" /\ pc' = [pc EXCEPT ![v] = "closing"]
  BY DEF Publish
<1>2. UNCHANGED <<table, awaits, got, newest, floor>>
  BY DEF Publish
<1>3. \A u \in Viewers \ {v} : pc'[u] = pc[u] /\ pc[u] # "publishing"
  BY <1>1
<1>4. CASE got[v] = Error
  <2>1. ranked' = ranked
    BY <1>4 DEF Publish
  <2> QED
    BY <1>1, <1>2, <1>3, <1>4, <2>1 DEF Ordered
<1>5. CASE got[v] # Error
  <2>1. ranked' = got[v] /\ got[v] \in Versions
    BY <1>1, <1>5 DEF Publish
  <2>2. newest <= got[v] /\ got[v] <= table /\ (ranked # None => ranked <= got[v])
    BY <1>1, <1>5, <2>1 DEF Ordered
  <2>3. \A u \in Viewers : floor[u] <= got[v]
    BY <2>1, <2>2 DEF Ordered
  <2>4. \A u \in Viewers \ {v} :
           pc'[u] \in {"closing", "returning"} /\ got[u] # Error =>
              got[u] <= got[v] /\ floor[u] <= got[u]
    BY <1>3, <2>1, <2>2 DEF Ordered
  <2>5. (\A u \in Viewers : pc[u] = "publishing" /\ got[u] # Error =>
            got[u] <= table /\ (ranked # None => ranked <= got[u]))'
    BY <1>1, <1>3
  <2>6. (\A u \in Viewers : pc[u] \in {"closing", "returning"} /\ got[u] # Error =>
            ranked # None /\ got[u] <= ranked /\ floor[u] <= got[u])'
    BY <1>1, <1>2, <2>1, <2>3, <2>4
  <2>7. (\A w \in Viewers :
            LET b == awaits[w]
            IN  pc[w] = "waiting" /\ pc[b] = "closing" /\ got[b] # Error =>
                   floor[w] <= got[b])'
    BY <1>1, <1>2, <1>3, <2>3 DEF Ordered
  <2> QED
    BY <1>2, <2>1, <2>2, <2>5, <2>6, <2>7 DEF Ordered
<1> QED
  BY <1>4, <1>5

LEMMA OrderedStep == Inv /\ [Next]_vars => Ordered'
<1> SUFFICES ASSUME Inv, [Next]_vars PROVE Ordered'
  OBVIOUS
<1> USE BoundAssumption, MarksAssumption, ViewersAssumption
    DEF Inv, TypeInv, TypeOK, Holds, Boards, Versions, OneReadAtATime, Ordered
<1>1. ASSUME NEW v \in Viewers, ServeCached(v) PROVE Ordered'
  BY <1>1 DEF ServeCached, Begin, Fresh
<1>2. ASSUME NEW v \in Viewers, Wait(v) PROVE Ordered'
  BY <1>2 DEF Wait, Begin
<1>3. ASSUME NEW v \in Viewers, Build(v) PROVE Ordered'
  BY <1>3 DEF Build, Begin
<1>4. ASSUME NEW v \in Viewers, Read(v) PROVE Ordered'
  BY <1>4 DEF Read
<1>5. ASSUME NEW v \in Viewers, Publish(v) PROVE Ordered'
  BY <1>5, PublishOrders
<1>6. ASSUME NEW v \in Viewers, Close(v) PROVE Ordered'
  BY <1>6 DEF Close
<1>7. ASSUME NEW v \in Viewers, Return(v) PROVE Ordered'
  BY <1>7 DEF Return, Later
<1>8. CASE Write \/ Expire \/ UNCHANGED vars
  BY <1>8 DEF Write, Expire, vars
<1> QED
  BY <1>1, <1>2, <1>3, <1>4, <1>5, <1>6, <1>7, <1>8 DEF Next

(* The inductive invariant of the cache. *)
THEOREM CacheInvariant == Spec => []Inv
<1>1. Inv /\ [Next]_vars => Inv'
  BY TypeInvStep, OneReadStep, OrderedStep DEF Inv
<1> QED
  BY InvInit, <1>1, PTL DEF Spec

-----------------------------------------------------------------------------
(* Every variable keeps its type. *)
THEOREM TypeCorrect == Spec => []TypeOK
<1>1. Inv => TypeOK
  BY DEF Inv, TypeInv
<1> QED
  BY CacheInvariant, <1>1, PTL

(* However many sessions look at the board at once, one of them reads the  *)
(* database, and the rest wait on a build that is going to be closed.      *)
THEOREM ReadsAreShared == Spec => []OneReadAtATime
<1>1. Inv => OneReadAtATime
  BY DEF Inv
<1> QED
  BY CacheInvariant, <1>1, PTL

(* No Get returns a board older than one already seen when it was called.  *)
THEOREM BoardsAreMonotone == Spec => []BoardNeverGoesBack
<1>1. Inv => BoardNeverGoesBack
  BY BoundAssumption, MarksAssumption
     DEF Inv, TypeInv, TypeOK, Holds, Boards, Versions, Ordered, BoardNeverGoesBack
<1> QED
  BY CacheInvariant, <1>1, PTL

(* Neither a failed build nor a late one takes the snapshot back.          *)
THEOREM SnapshotIsKept == Spec => SnapshotMovesForward
<1>1. Inv /\ [Next]_vars =>
         [ranked # None => ranked' # None /\ ranked' >= ranked]_vars
  <2> SUFFICES ASSUME Inv, [Next]_vars
               PROVE  ranked # None => ranked' # None /\ ranked' >= ranked
    OBVIOUS
  <2>1. ASSUME NEW v \in Viewers, Publish(v)
        PROVE  ranked # None => ranked' # None /\ ranked' >= ranked
    BY <2>1, PublishOrders
  <2>2. CASE \E v \in Viewers : \/ ServeCached(v) \/ Wait(v) \/ Build(v)
                                \/ Read(v) \/ Close(v) \/ Return(v)
    <3>1. ranked' = ranked
      BY <2>2 DEF ServeCached, Wait, Build, Read, Close, Return
    <3> QED
      BY <3>1, BoundAssumption DEF Inv, TypeInv, TypeOK, Versions
  <2>3. CASE Write \/ Expire \/ UNCHANGED vars
    <3>1. ranked' = ranked
      BY <2>3 DEF Write, Expire, vars
    <3> QED
      BY <3>1, BoundAssumption DEF Inv, TypeInv, TypeOK, Versions
  <2> QED
    BY <2>1, <2>2, <2>3 DEF Next
<1> QED
  BY CacheInvariant, <1>1, PTL DEF Spec, SnapshotMovesForward
=============================================================================
