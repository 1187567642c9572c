------------------------------- MODULE FarmName -------------------------------
(***************************************************************************)
(* The life of one farm's public name.  It is kept three times: in the     *)
(* save's blob, in the farm_name column beside it, and in the memory of    *)
(* the actor while the save is open; the board shows the column, filtered. *)
(* Five parties write it without a common lock: the player's RenameFarm,   *)
(* the actor's persist, an operator's SQL on the live database, import-v1, *)
(* and the pass at boot that fills the column of the rows that are older   *)
(* than it.  The denylist that judges names is swapped by SIGHUP.          *)
(*                                                                         *)
(* Names are model values; Normal maps a spelling to its normal form       *)
(* (Validate collapses blanks and uppercases).  The rename budget is       *)
(* RenameGate's and one actor per save is SaveManager's.                   *)
(***************************************************************************)
EXTENDS Naturals

CONSTANTS
    Spellings,    \* names that pass Validate, in any spelling
    Normal,       \* their normal forms
    Malformed,    \* names that fail it; v1 had no such rule
    Lists,        \* denylists that the operator may load
    Fixture,      \* the list that import-v1 runs on: nobody calls Init there
    Unnamed,      \* ""
    Generated,    \* moderation.Generate(fingerprint)
    Forced,       \* the name an operator forces
    Closed        \* the save is not open; no build is running

Names == Spellings \cup Malformed
NormalNames == {Normal[n] : n \in Spellings}

ASSUME SpellingsAssumption ==
    /\ Spellings \cap Malformed = {}
    /\ Normal \in [Spellings -> Spellings]
    /\ \A n \in Spellings : Normal[Normal[n]] = Normal[n]
    /\ Forced \in NormalNames
ASSUME ListsAssumption ==
    /\ Lists \subseteq SUBSET NormalNames /\ Fixture \subseteq NormalNames
    /\ {Unnamed, Generated, Closed} \cap Names = {}
    /\ Unnamed # Generated /\ Unnamed # Closed /\ Generated # Closed

VARIABLES
    blob,      \* FarmName inside saves.state
    column,    \* saves.farm_name
    locked,    \* saves.name_locked
    mem,       \* actor.state.FarmName, or Closed
    dirty,     \* actor.dirty
    ask,       \* the raw name of a RenameFarm that has passed its gate
    list,      \* the denylist in force
    pass,      \* the boot pass: its stage, and the name it read in the blob
    build,     \* the board being built: its stage, and the farm's name
    shown,     \* the name on the board
    apart,     \* history: who wrote the column alone since the last persist
    landed     \* history: renames that took effect since the lock was set

vars == <<blob, column, locked, mem, dirty, ask, list, pass, build, shown, apart, landed>>
rowVars   == <<blob, column, locked, apart, landed>>
actorVars == <<mem, dirty, ask>>
serverVars == <<list, pass, build, shown>>

NoBuild == [stage |-> "idle", name |-> Unnamed]
PassDue  == [stage |-> "due", name |-> Unnamed]
PassDone == [stage |-> "done", name |-> Unnamed]

(* moderation.Filter against the list l: what it rejects, and what it makes *)
(* of the rest.  A definition ending in _Faulty is a mistake no action uses. *)
Rejects(n, l) == n \in Malformed \/ (n \in Spellings /\ Normal[n] \in l)
Accepted(n)   == IF n \in Spellings THEN Normal[n] ELSE n

(* Engine.rebuild. *)
Display_Faulty(n, l) ==                     \* a locked name is taken for checked
    IF Rejects(n, l) /\ ~locked THEN Generated ELSE Accepted(n)
Display(n, l) == IF Rejects(n, l) THEN Generated ELSE Accepted(n)

(* doImportV1: the blob as it was, the column filtered and, if need be,    *)
(* locked.  Without a v1 name this is the row of a new farm as well.        *)
ImportName(n) == IF Rejects(n, Fixture) THEN Generated ELSE Accepted(n)
Imported ==
    /\ column = ImportName(blob) /\ locked = Rejects(blob, Fixture)
    /\ apart = "import"

(* A row older than the column, which the migration added empty.           *)
Migrated == column = Unnamed /\ locked = FALSE /\ apart = "migration"

(* The process comes up: the list is read, and the boot pass is due.       *)
Init ==
    /\ blob \in Names \cup {Unnamed}
    /\ Imported \/ Migrated
    /\ mem = Closed /\ dirty = FALSE /\ ask = Closed
    /\ list \in Lists
    /\ pass = PassDue
    /\ build = NoBuild /\ shown = Unnamed
    /\ landed = 0

-----------------------------------------------------------------------------
(* Booting. *)

(* NeedingBackfill looks for a column that nothing was written to; coinless *)
(* is the coins column, which a migrated row has at 0 as well.             *)
NeedsBackfill_Faulty(coinless) == coinless \/ column = Unnamed
NeedsBackfill(coinless) == coinless /\ column = Unnamed

(* All candidates are read first ...                                       *)
FindRows ==
    /\ pass.stage = "due"
    /\ \E coinless \in (IF apart = "migration" THEN {TRUE} ELSE BOOLEAN) :
          pass' = IF NeedsBackfill(coinless) THEN [stage |-> "found", name |-> blob] ELSE PassDone
    /\ UNCHANGED <<rowVars, actorVars, list, build, shown>>

(* ... and written one by one without another look at the row; one that     *)
(* does not decode, or whose write fails, is skipped for this boot.         *)
Backfill ==
    /\ pass.stage = "found"
    /\ \/ column' = pass.name /\ apart' = "no"
       \/ UNCHANGED <<column, apart>>
    /\ pass' = PassDone
    /\ UNCHANGED <<blob, locked, landed, actorVars, list, build, shown>>

(* Sessions, boards and SIGHUP begin when the pass is over.                *)
Serving_Faulty == pass.stage # "due"        \* while it still writes
Serving == pass.stage = "done"

-----------------------------------------------------------------------------
(* The open save. *)

Open ==
    /\ mem = Closed /\ Serving
    /\ mem' = blob /\ dirty' = FALSE
    /\ UNCHANGED <<rowVars, ask, serverVars>>

(* Any other change of the farm, if only that time has passed. *)
Play ==
    /\ mem # Closed /\ ask = Closed
    /\ dirty' = TRUE
    /\ UNCHANGED <<rowVars, mem, ask, serverVars>>

(* RenameFarm is one closure of the actor, but the operator is outside it: *)
(* the gate's transaction, then the filter and the assignment.             *)
MayAsk_Faulty == TRUE                       \* the lock is not looked at
MayAsk == ~locked

RenameGated(n) ==
    /\ mem # Closed /\ ask = Closed /\ MayAsk
    /\ ask' = n
    /\ UNCHANGED <<rowVars, mem, dirty, serverVars>>

RenameApplied ==
    /\ ask # Closed
    /\ IF Rejects(ask, list) \/ ask = Unnamed
         THEN UNCHANGED <<mem, dirty, landed>>
         ELSE /\ mem' = Accepted(ask) /\ dirty' = TRUE
              /\ landed' = IF locked THEN landed + 1 ELSE landed
    /\ ask' = Closed
    /\ UNCHANGED <<blob, column, locked, apart, serverVars>>

(* PersistSaveWithContracts writes both copies, whatever the row says. *)
WriteRow_Faulty ==                          \* the column is left behind
    blob' = mem /\ apart' = "no" /\ UNCHANGED <<column, locked, landed>>
WriteRow ==
    blob' = mem /\ column' = mem /\ apart' = "no" /\ UNCHANGED <<locked, landed>>

Persist ==
    /\ mem # Closed /\ ask = Closed /\ dirty
    /\ WriteRow
    /\ dirty' = FALSE
    /\ UNCHANGED <<mem, ask, serverVars>>

(* The actor ends: its final flush may fail. *)
Close ==
    /\ mem # Closed /\ ask = Closed
    /\ (dirty /\ WriteRow) \/ UNCHANGED rowVars
    /\ mem' = Closed /\ dirty' = FALSE
    /\ UNCHANGED <<ask, serverVars>>

-----------------------------------------------------------------------------
(* The operator. *)

(* docs/runbooks/moderation.md, "Force-rename a farm and lock it". *)
ForceRename ==
    /\ column' = Forced /\ locked' = TRUE /\ apart' = "operator"
    /\ landed' = IF locked THEN landed ELSE 0
    /\ UNCHANGED <<blob, actorVars, serverVars>>

LockName ==
    /\ locked' = ~locked /\ landed' = 0
    /\ UNCHANGED <<blob, column, apart, actorVars, serverVars>>

(* SIGHUP; a file that does not load changes nothing. *)
Reload ==
    /\ Serving
    /\ list' \in Lists \ {list}
    /\ UNCHANGED <<rowVars, actorVars, pass, build, shown>>

(* The process dies, also in the middle of its boot, and comes back.       *)
Reboot ==
    /\ list' \in Lists
    /\ pass' = PassDue
    /\ mem' = Closed /\ dirty' = FALSE /\ ask' = Closed
    /\ build' = NoBuild /\ shown' = Unnamed
    /\ UNCHANGED rowVars

-----------------------------------------------------------------------------
(* The board: the rows are read, filtered one by one, and published. *)

BuildRead ==
    /\ build.stage = "idle" /\ Serving
    /\ build' = [stage |-> "read", name |-> column]
    /\ UNCHANGED <<rowVars, actorVars, list, pass, shown>>

BuildFilter ==
    /\ build.stage = "read"
    /\ build' = [stage |-> "filtered", name |-> Display(build.name, list)]
    /\ UNCHANGED <<rowVars, actorVars, list, pass, shown>>

BuildPublish ==
    /\ build.stage = "filtered"
    /\ shown' = build.name
    /\ build' = NoBuild
    /\ UNCHANGED <<rowVars, actorVars, list, pass>>

BuildStep == BuildRead \/ BuildFilter \/ BuildPublish

Next ==
    \/ FindRows \/ Backfill
    \/ Open \/ Play \/ Persist \/ Close
    \/ \E n \in Names \cup {Unnamed} : RenameGated(n)
    \/ RenameApplied
    \/ ForceRename \/ LockName \/ Reload \/ Reboot
    \/ BuildStep

Spec == Init /\ [][Next]_vars

(* Somebody keeps looking at the board, the farm's clock runs while it is  *)
(* open (renames share the actor's mailbox with the ticks, but do not keep *)
(* them out for ever), and the autosave's retries succeed at last.         *)
Fairness ==
    /\ WF_vars(BuildStep)
    /\ WF_vars(RenameApplied)
    /\ SF_vars(Play) /\ SF_vars(Persist)

FairSpec == Spec /\ Fairness

-----------------------------------------------------------------------------
(* The type invariant. *)
TypeOK ==
    /\ blob \in Names \cup {Unnamed}
    /\ column \in Names \cup {Unnamed, Generated}
    /\ locked \in BOOLEAN
    /\ mem \in Names \cup {Unnamed, Closed}
    /\ dirty \in BOOLEAN
    /\ ask \in Names \cup {Unnamed, Closed}
    /\ list \in Lists
    /\ build \in [stage : {"idle", "read", "filtered"},
                  name : Names \cup {Unnamed, Generated}]
    /\ shown \in NormalNames \cup {Unnamed, Generated}
    /\ pass \in [stage : {"due", "found", "done"}, name : Names \cup {Unnamed}]
    /\ apart \in {"no", "import", "migration", "operator"}
    /\ landed \in Nat

(* "The blob and the board can never disagree" (store.go, PersistSave), as *)
(* far as it goes: the board's column is the blob's name, or else it is    *)
(* exactly what an import's filter, an operator or the migration put there *)
(* and no persist or boot pass has replaced.  In particular the pass, which *)
(* writes what it read a while ago, never brings an older name back over a *)
(* persist, and never picks a row that an import gave a harmless name.     *)
ColumnIsExplained ==
    /\ apart = "no" => column = blob
    /\ apart = "import" => column = ImportName(blob)
    /\ apart = "migration" => column = Unnamed
    /\ apart = "operator" => column = Forced
    /\ pass.stage = "found" /\ apart # "operator" => column = Unnamed

(* A save that is open and clean has its name in the blob: an accepted     *)
(* name is lost only with its actor.                                       *)
CleanNameIsStored == mem # Closed /\ ~dirty => mem = blob

(* "Operator lock beats player rename" (gameplay/03): after name_locked is *)
(* set at most one more rename takes effect, the one that had passed its   *)
(* gate before: the lock and the rename are not in one transaction.        *)
LockStopsRenames == locked => landed <= 1

(* "A denylist update cleans the board" (gameplay/03): under a list that   *)
(* stays, the board ends up free of what it denies, stored names included  *)
(* and locked ones too.                                                    *)
DeniedNamesVanish ==
    \A l \in Lists : <>[](list = l) => <>[](shown \notin l)

(* A name that stays the farm's and that the list allows ends up on the    *)
(* board, if no operator overrides it.                                     *)
AcceptedNameIsShown ==
    \A n \in NormalNames :
        <>[](mem = n /\ n \notin list /\ apart # "operator") => <>[](shown = n)

(* "The operator can fix anything that slips through in one SQL statement  *)
(* - with a lock so it stays fixed" (gameplay/03): on a server that is up, *)
(* while a farm whose name was forced stays locked, its name on the        *)
(* board's column stays.                                                   *)
ForcedNameStays ==
    [][Serving /\ apart = "operator" /\ locked /\ locked' => column' = column]_vars
=============================================================================
