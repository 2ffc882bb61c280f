---------------------------- MODULE DangerStore ----------------------------
(***************************************************************************)
(* What PostgreSQL holds of one character's danger runs, and the           *)
(* transactions of crates/persistence that change it.                      *)
(*                                                                         *)
(* Every transaction locks the account row first and is serializable, so   *)
(* each is one atomic step.  Runs are numbered; a run stands for its       *)
(* instance lineage and its entry restore point (the "root").              *)
(*                                                                         *)
(* A terminal compares the heads it was planned on.  `version` stands for  *)
(* the account, character and world heads, which move together; the belt   *)
(* writes `inventory` alone.  The life clock and the rewards are written by*)
(* the owner's own frames, again and again under one id until they are     *)
(* durable, before the frame is judged, so they cannot move under a recall *)
(* or a death; for the extraction see ExitIsStale.                         *)
(***************************************************************************)
EXTENDS TerminalKinds

CONSTANTS
    MaxRuns,            \* danger entries in one behaviour
    ExitClockCompared   \* the extraction compares the life clock head (as it does)

ASSUME StoreAssumption == MaxRuns \in Nat \ {0} /\ ExitClockCompared \in BOOLEAN

Runs == 1 .. MaxRuns

\* restore_state of character_entry_restore_points
Closings == {"Extraction", "Death", "Recall", "Restored"}
RootStates == {"None", "Active"} \cup Closings

\* the state in which the commit of a terminal leaves its root
closing ==
    [LethalDeath          |-> "Death",
     SuccessfulExtraction |-> "Extraction",
     EmergencyRecall      |-> "Recall",
     DisconnectRecovery   |-> "Recall",
     FaultRestoration     |-> "Restored"]

\* A mutation with its stable id: the same request again is the same record.
\* A crash restoration expects no head and is one request per root; a transfer
\* expects no inventory, and the use of a consumable nothing else.
RequestKinds == Kinds \cup {"Bell", "Consumable"}
Requests == [kind : RequestKinds, run : Runs, version : Nat, inventory : Nat]

VARIABLES
    location,         \* character_world_locations: "Hall" or "Danger"
    life,             \* characters.life_state
    version,          \* character_state_version
    inventory,        \* inventory_version of character_inventories
    run,              \* the latest run, 0 before the first
    root,             \* restore_state of each run's root
    results,          \* requests whose result row is stored
    receipt,          \* code of each root's stored crash-restore result
    restoredVersion   \* character version in that result

storeVars == <<location, life, version, inventory, run, root, results, receipt,
               restoredVersion>>

StoreTypeOK ==
    /\ location \in {"Hall", "Danger"}
    /\ life \in {"Living", "Dead"}
    /\ version \in Nat
    /\ inventory \in Nat
    /\ run \in 0 .. MaxRuns
    /\ root \in [Runs -> RootStates]
    /\ results \subseteq Requests
    /\ receipt \in [Runs -> Closings \cup {"None", "AlreadyRestored"}]
    /\ restoredVersion \in [Runs -> Nat]

\* A living character that has just arrived in the hall for the first time.
StoreInit ==
    /\ location = "Hall"
    /\ life = "Living"
    /\ version = 1
    /\ inventory = 1
    /\ run = 0
    /\ root = [r \in Runs |-> "None"]
    /\ results = {}
    /\ receipt = [r \in Runs |-> "None"]
    /\ restoredVersion = [r \in Runs |-> 0]

-----------------------------------------------------------------------------
\* The realm gate: the location and the restore root in one transaction.  It
\* advances the inventory if items come along; no request expects a head from
\* before its entry, so the case that leaves it alone stands for both.
EnterTransaction ==
    /\ life = "Living"
    /\ location = "Hall"
    /\ run < MaxRuns
    /\ run' = run + 1
    /\ root' = [root EXCEPT ![run + 1] = "Active"]
    /\ location' = "Danger"
    /\ version' = version + 1
    /\ UNCHANGED <<life, inventory, results, receipt, restoredVersion>>

\* The danger of the request is the one the living character is in.
InDanger(q) ==
    /\ life = "Living"
    /\ location = "Danger"
    /\ run = q.run
    /\ root[q.run] = "Active"

\* The character head the request was planned on is still current.
Current(q) == InDanger(q) /\ version = q.version

\* The extraction expects the heads that were read when the exit opened.  The
\* owner advances the life clock with every frame of the waiting driver, the
\* frame that seals the extraction included, so that head has always moved.  The
\* plan compares it too; one made before the next frame gets as far as this.
ExitIsStale(q) == ExitClockCompared /\ q.kind = "SuccessfulExtraction"

\* All heads a terminal was planned on are still current.
HeadsMatch(q) == Current(q) /\ inventory = q.inventory /\ ~ExitIsStale(q)

\* The Bell portal: another room of the same lineage.
BellFresh(q) ==
    /\ q \notin results
    /\ Current(q)
    /\ version' = version + 1
    /\ results' = results \cup {q}
    /\ UNCHANGED <<location, life, inventory, run, root, receipt, restoredVersion>>

\* A unit of the belt is consumed.
ConsumableFresh(q) ==
    /\ q \notin results
    /\ InDanger(q)
    /\ inventory = q.inventory
    /\ inventory' = inventory + 1
    /\ results' = results \cup {q}
    /\ UNCHANGED <<location, life, version, run, root, receipt, restoredVersion>>

\* No unit is consumed: the danger or the inventory is another one by now, or
\* the slot is empty.
ConsumableRefused(q) == q \notin results /\ UNCHANGED storeVars

\* What the three terminal repositories have in common: the root is closed,
\* the versions are advanced and the result row is stored.
Closes(q, s) ==
    /\ root' = [root EXCEPT ![q.run] = s]
    /\ version' = version + 1
    /\ inventory' = inventory + 1
    /\ results' = results \cup {q}
    /\ UNCHANGED <<run, receipt, restoredVersion>>

\* Mutant of DeathFresh: the dead character is put in the hall.
DeathFreshHome(q) ==
    /\ q.kind = "LethalDeath"
    /\ q \notin results
    /\ HeadsMatch(q)
    /\ Closes(q, "Death")
    /\ life' = "Dead"
    /\ location' = "Hall"

\* The dead character's location row is left alone.
DeathFresh(q) ==
    /\ q.kind = "LethalDeath"
    /\ q \notin results
    /\ HeadsMatch(q)
    /\ Closes(q, "Death")
    /\ life' = "Dead"
    /\ UNCHANGED location

ExtractionFresh(q) ==
    /\ q.kind = "SuccessfulExtraction"
    /\ q \notin results
    /\ HeadsMatch(q)
    /\ Closes(q, "Extraction")
    /\ location' = "Hall"
    /\ UNCHANGED life

\* Mutant of RecallFresh: the stored heads are not compared.
RecallFreshUnchecked(q) ==
    /\ q.kind \in {"EmergencyRecall", "DisconnectRecovery"}
    /\ q \notin results
    /\ Closes(q, "Recall")
    /\ location' = "Hall"
    /\ UNCHANGED life

RecallFresh(q) ==
    /\ q.kind \in {"EmergencyRecall", "DisconnectRecovery"}
    /\ q \notin results
    /\ HeadsMatch(q)
    /\ Closes(q, "Recall")
    /\ location' = "Hall"
    /\ UNCHANGED life

TerminalFresh(q) == DeathFresh(q) \/ ExtractionFresh(q) \/ RecallFresh(q)

\* The stored result is returned; a result of the run under another request is
\* a conflict, and heads that have moved are a refusal.
Replayed(q) == q \in results /\ UNCHANGED storeVars

Refused(q) == q \notin results /\ ~HeadsMatch(q) /\ UNCHANGED storeVars

TransferRefused(q) == q \notin results /\ ~Current(q) /\ UNCHANGED storeVars

\* transact_danger_crash_restore_once with an active root
RestoreFresh(q) ==
    /\ receipt[q.run] = "None"
    /\ root[q.run] = "Active"
    /\ life = "Living"
    /\ location = "Danger"
    /\ run = q.run
    /\ root' = [root EXCEPT ![q.run] = "Restored"]
    /\ location' = "Hall"
    /\ version' = version + 1
    /\ inventory' = inventory + 1
    /\ receipt' = [receipt EXCEPT ![q.run] = "Restored"]
    /\ restoredVersion' = [restoredVersion EXCEPT ![q.run] = version + 1]
    /\ UNCHANGED <<life, run, results>>

\* terminal_receipt: another terminal was first; only that result is stored.
TerminalCode(s) == IF s = "Restored" THEN "AlreadyRestored" ELSE s

RestoreLost(q) ==
    /\ receipt[q.run] = "None"
    /\ root[q.run] \in Closings
    /\ receipt' = [receipt EXCEPT ![q.run] = TerminalCode(root[q.run])]
    /\ UNCHANGED <<location, life, version, inventory, run, root, results,
                   restoredVersion>>

\* A stored result is replayed; an active root the character is not at is an
\* error.
RestoreUnchanged(q) ==
    /\ \/ receipt[q.run] # "None"
       \/ root[q.run] = "None"
       \/ root[q.run] = "Active" /\ ~(life = "Living" /\ location = "Danger"
                                                      /\ run = q.run)
    /\ UNCHANGED storeVars

RestoreAnswer(q) ==
    IF receipt[q.run] # "None" THEN receipt[q.run]
    ELSE IF root[q.run] \in Closings THEN TerminalCode(root[q.run])
    ELSE IF root[q.run] = "Active" /\ life = "Living" /\ location = "Danger"
                                  /\ run = q.run
    THEN "Restored" ELSE "Error"

=============================================================================
