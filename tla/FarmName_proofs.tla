---------------------------- MODULE FarmName_proofs ----------------------------
(***************************************************************************)
(* FarmName's safety, proved for any names, normal forms and denylists.    *)
(***************************************************************************)
EXTENDS FarmName, TLAPS

(* What Validate and the denylist make of a stored name: an accepted one   *)
(* is a name, and what the board shows is normal, or generated, or empty.  *)
LEMMA AcceptedIsAName ==
    ASSUME NEW l, NEW n \in Names \cup {Unnamed}, ~Rejects(n, l)
    PROVE  /\ Accepted(n) \in Names \cup {Unnamed}
           /\ n # Unnamed => Accepted(n) \in Spellings
  BY SpellingsAssumption, ListsAssumption DEF Names, Rejects, Accepted

LEMMA DisplayIsNormal ==
    ASSUME NEW l, NEW n \in Names \cup {Unnamed, Generated}
    PROVE  Display(n, l) \in NormalNames \cup {Unnamed, Generated}
  BY SpellingsAssumption, ListsAssumption
     DEF Names, NormalNames, Display, Rejects, Accepted

LEMMA ForcedIsAName == Forced \in Names
  BY SpellingsAssumption DEF Names, NormalNames

-----------------------------------------------------------------------------
(* TypeOK, with what the board under construction may hold at each stage.  *)
TypeInv ==
    /\ TypeOK
    /\ build.stage = "filtered" => build.name \in NormalNames \cup {Unnamed, Generated}

(* The server's half of it, which the steps of an open save leave alone.   *)
ServerInv ==
    /\ list \in Lists
    /\ pass \in [stage : {"due", "found", "done"}, name : Names \cup {Unnamed}]
    /\ build \in [stage : {"idle", "read", "filtered"},
                  name : Names \cup {Unnamed, Generated}]
    /\ build.stage = "filtered" => build.name \in NormalNames \cup {Unnamed, Generated}
    /\ shown \in NormalNames \cup {Unnamed, Generated}

LEMMA ServerKept ==
    ASSUME TypeInv, UNCHANGED serverVars
    PROVE  ServerInv'
<1>1. ServerInv
  BY DEF TypeInv, TypeOK, ServerInv
<1> QED
  BY <1>1 DEF ServerInv, serverVars

LEMMA TypeInvInit == Init => TypeInv
<1> SUFFICES ASSUME Init PROVE TypeInv
  OBVIOUS
<1>1. column \in Names \cup {Unnamed, Generated}
  BY AcceptedIsAName DEF Init, Imported, ImportName, Migrated
<1>2. locked \in BOOLEAN
  BY DEF Init, Imported, Migrated, Rejects
<1>3. apart \in {"import", "migration"}
  BY DEF Init, Imported, Migrated
<1> QED
  BY <1>1, <1>2, <1>3 DEF Init, TypeInv, TypeOK, NoBuild, PassDue

LEMMA TypeInvStep == TypeInv /\ [Next]_vars => TypeInv'
<1> SUFFICES ASSUME TypeInv, [Next]_vars PROVE TypeInv'
  OBVIOUS
<1> USE DEF TypeInv, TypeOK
<1>1. CASE Open
  <2>1. ServerInv'
    BY <1>1, ServerKept DEF Open
  <2> QED
    BY <1>1, <2>1 DEF Open, rowVars, ServerInv
<1>2. CASE Play
  <2>1. ServerInv'
    BY <1>2, ServerKept DEF Play
  <2> QED
    BY <1>2, <2>1 DEF Play, rowVars, ServerInv
<1>3. CASE Persist
  <2>1. ServerInv'
    BY <1>3, ServerKept DEF Persist
  <2> QED
    BY <1>3, <2>1 DEF Persist, WriteRow, ServerInv
<1>4. CASE Close
  <2>1. ServerInv'
    BY <1>4, ServerKept DEF Close
  <2>2. mem \in Names \cup {Unnamed}
    BY <1>4 DEF Close
  <2> QED
    BY <1>4, <2>1, <2>2 DEF Close, WriteRow, rowVars, ServerInv
<1>5. ASSUME NEW n \in Names \cup {Unnamed}, RenameGated(n) PROVE TypeInv'
  <2>1. ServerInv'
    BY <1>5, ServerKept DEF RenameGated
  <2> QED
    BY <1>5, <2>1 DEF RenameGated, rowVars, ServerInv
<1>6. CASE RenameApplied
  <2>1. ServerInv' /\ landed + 1 \in Nat
    BY <1>6, ServerKept DEF RenameApplied
  <2>2. CASE Rejects(ask, list) \/ ask = Unnamed
    BY <1>6, <2>1, <2>2 DEF RenameApplied, ServerInv
  <2>3. CASE ~(Rejects(ask, list) \/ ask = Unnamed)
    <3>1. Accepted(ask) \in Names
      BY <1>6, <2>3, AcceptedIsAName DEF RenameApplied, Names
    <3> QED
      BY <1>6, <2>1, <2>3, <3>1 DEF RenameApplied, ServerInv
  <2> QED
    BY <2>2, <2>3
<1>7. CASE ForceRename
  <2>1. ServerInv'
    BY <1>7, ServerKept DEF ForceRename
  <2> QED
    BY <1>7, <2>1, ForcedIsAName DEF ForceRename, actorVars, ServerInv
<1>8. CASE LockName
  <2>1. ServerInv'
    BY <1>8, ServerKept DEF LockName
  <2> QED
    BY <1>8, <2>1 DEF LockName, actorVars, ServerInv
<1>9. CASE Reload
  BY <1>9 DEF Reload, rowVars, actorVars
<1>10. CASE Reboot
  BY <1>10 DEF Reboot, NoBuild, PassDue, rowVars
<1>11. CASE BuildRead
  BY <1>11 DEF BuildRead, rowVars, actorVars
<1>12. CASE BuildFilter
  <2>1. Display(build.name, list) \in NormalNames \cup {Unnamed, Generated}
    BY DisplayIsNormal
  <2>2. NormalNames \subseteq Names
    BY SpellingsAssumption DEF NormalNames, Names
  <2> QED
    BY <1>12, <2>1, <2>2 DEF BuildFilter, rowVars, actorVars
<1>13. CASE BuildPublish
  BY <1>13 DEF BuildPublish, NoBuild, rowVars, actorVars
<1>14. CASE FindRows
  <2>1. pass' \in {[stage |-> "found", name |-> blob], PassDone}
    BY <1>14 DEF FindRows
  <2>2. UNCHANGED <<rowVars, actorVars, list, build, shown>>
    BY <1>14 DEF FindRows
  <2> QED
    BY <2>1, <2>2 DEF PassDone, rowVars, actorVars
<1>15. CASE Backfill
  BY <1>15 DEF Backfill, PassDone, actorVars
<1>16. CASE UNCHANGED vars
  BY <1>16 DEF vars
<1> QED
  BY <1>1, <1>2, <1>3, <1>4, <1>5, <1>6, <1>7, <1>8, <1>9, <1>10, <1>11,
     <1>12, <1>13, <1>14, <1>15, <1>16 DEF Next, BuildStep

(* Every variable keeps its type; in particular what the board shows is a  *)
(* normal form, a generated name or nothing, whatever names v1 left.       *)
THEOREM TypeCorrect == Spec => []TypeOK
<1>1. TypeInv => TypeOK
  BY DEF TypeInv
<1> QED
  BY TypeInvInit, TypeInvStep, <1>1, PTL DEF Spec

-----------------------------------------------------------------------------
(* The copies: nothing is open while the boot pass is at work, so what it  *)
(* has read is still what the blob says.  The lock: an unlocked farm has    *)
(* no rename to account for, a locked one at most one, landed or on its way. *)
CopiesInv ==
    /\ ColumnIsExplained /\ CleanNameIsStored
    /\ pass.stage # "done" => mem = Closed /\ ask = Closed
    /\ pass.stage = "found" => pass.name = blob

LockInv ==
    /\ landed \in Nat
    /\ ~locked => landed = 0
    /\ locked => landed <= 1 /\ (ask # Closed => landed = 0)

LEMMA CopiesInvStep == CopiesInv /\ [Next]_vars => CopiesInv'
<1> SUFFICES ASSUME CopiesInv, [Next]_vars PROVE CopiesInv'
  OBVIOUS
<1> USE DEF CopiesInv, ColumnIsExplained, CleanNameIsStored
<1>1. CASE Open
  BY <1>1 DEF Open, Serving, rowVars, serverVars
<1>2. CASE Play
  BY <1>2 DEF Play, rowVars, serverVars
<1>3. CASE Persist
  BY <1>3 DEF Persist, WriteRow, serverVars
<1>4. CASE Close
  BY <1>4 DEF Close, WriteRow, rowVars, serverVars
<1>5. ASSUME NEW n \in Names \cup {Unnamed}, RenameGated(n) PROVE CopiesInv'
  BY <1>5 DEF RenameGated, rowVars, serverVars
<1>6. CASE RenameApplied
  BY <1>6 DEF RenameApplied, serverVars
<1>7. CASE ForceRename
  BY <1>7 DEF ForceRename, actorVars, serverVars
<1>8. CASE LockName
  BY <1>8 DEF LockName, actorVars, serverVars
<1>9. CASE Reload
  BY <1>9 DEF Reload, rowVars, actorVars
<1>10. CASE Reboot
  BY <1>10 DEF Reboot, PassDue, rowVars
<1>11. CASE BuildStep
  BY <1>11 DEF BuildStep, BuildRead, BuildFilter, BuildPublish, rowVars, actorVars
<1>12. CASE FindRows
  BY <1>12 DEF FindRows, NeedsBackfill, PassDone, rowVars, actorVars
<1>13. CASE Backfill
  BY <1>13 DEF Backfill, PassDone, actorVars
<1>14. CASE UNCHANGED vars
  BY <1>14 DEF vars
<1> QED
  BY <1>1, <1>2, <1>3, <1>4, <1>5, <1>6, <1>7, <1>8, <1>9, <1>10, <1>11,
     <1>12, <1>13, <1>14 DEF Next

LEMMA LockInvStep == TypeOK /\ LockInv /\ [Next]_vars => LockInv'
<1> SUFFICES ASSUME TypeOK, LockInv, [Next]_vars PROVE LockInv'
  OBVIOUS
<1> USE DEF LockInv
<1>1. CASE Open
  BY <1>1 DEF Open, rowVars, serverVars
<1>2. CASE Play
  BY <1>2 DEF Play, rowVars, serverVars
<1>3. CASE Persist
  BY <1>3 DEF Persist, WriteRow, serverVars
<1>4. CASE Close
  BY <1>4 DEF Close, WriteRow, rowVars, serverVars
<1>5. ASSUME NEW n \in Names \cup {Unnamed}, RenameGated(n) PROVE LockInv'
  BY <1>5 DEF RenameGated, MayAsk, rowVars, serverVars
<1>6. CASE RenameApplied
  <2>1. UNCHANGED locked /\ ask' = Closed
    BY <1>6 DEF RenameApplied
  <2>2. landed' = landed \/ (locked /\ landed = 0 /\ landed' = 1)
    BY <1>6 DEF RenameApplied
  <2> QED
    BY <2>1, <2>2
<1>7. CASE ForceRename
  BY <1>7 DEF ForceRename, actorVars, serverVars
<1>8. CASE LockName
  BY <1>8 DEF LockName, actorVars, serverVars
<1>9. CASE Reload
  BY <1>9 DEF Reload, rowVars, actorVars
<1>10. CASE Reboot
  BY <1>10 DEF Reboot, rowVars
<1>11. CASE BuildStep
  BY <1>11 DEF BuildStep, BuildRead, BuildFilter, BuildPublish, rowVars, actorVars
<1>12. CASE FindRows \/ Backfill
  <2>1. UNCHANGED <<locked, landed, ask>>
    BY <1>12 DEF FindRows, Backfill, rowVars, actorVars
  <2> QED
    BY <2>1
<1>13. CASE UNCHANGED vars
  BY <1>13 DEF vars
<1> QED
  BY <1>1, <1>2, <1>3, <1>4, <1>5, <1>6, <1>7, <1>8, <1>9, <1>10, <1>11,
     <1>12, <1>13 DEF Next

LEMMA CopiesInvInit == Init => CopiesInv
  BY DEF Init, Imported, Migrated, PassDue, CopiesInv, ColumnIsExplained, CleanNameIsStored

(* What stands in the column, through crashes at any point of a boot, boot *)
(* passes that fail or race an operator, forced names and imports.         *)
THEOREM ColumnStaysExplained == Spec => []ColumnIsExplained
<1>1. CopiesInv => ColumnIsExplained
  BY DEF CopiesInv
<1> QED
  BY <1>1, CopiesInvInit, CopiesInvStep, PTL DEF Spec

(* An open save that is clean has its name in the blob.                    *)
THEOREM CleanMeansStored == Spec => []CleanNameIsStored
<1>1. CopiesInv => CleanNameIsStored
  BY DEF CopiesInv
<1> QED
  BY <1>1, CopiesInvInit, CopiesInvStep, PTL DEF Spec

(* After a lock at most one more rename takes effect, for any names and    *)
(* however locks, renames, crashes and forced names interleave.            *)
THEOREM LockHolds == Spec => []LockStopsRenames
<1>1. Init => LockInv
  BY DEF Init, LockInv
<1>2. LockInv => LockStopsRenames
  BY DEF LockInv, LockStopsRenames
<1> QED
  BY <1>1, <1>2, LockInvStep, TypeCorrect, PTL DEF Spec
=============================================================================
