----------------------------- MODULE DangerRun -----------------------------
(***************************************************************************)
(* One account's private life in one server process, over the store: from  *)
(* the durable danger entry through the terminal owner's decision and its  *)
(* transaction back to the hall, with lost answers, transactions that are  *)
(* applied after their caller has gone, and crashes of the process.        *)
(*                                                                         *)
(* The five-producer barrier is TerminalCoordinator's subject; here a      *)
(* frame brings the set of kinds that are due and the first by priority is *)
(* the winner.                                                             *)
(***************************************************************************)
EXTENDS DangerStore

CONSTANTS
    MaxLosses,      \* answers of the database that are lost
    MaxCrashes,     \* restarts of the process
    MaxUses         \* belt consumables the player uses

ASSUME RunAssumption ==
    MaxLosses \in Nat /\ MaxCrashes \in Nat /\ MaxUses \in Nat

Phases ==
    {"Hall",        \* a hall actor serves the account
     "Entering",    \* the entry is durable, no microrealm is bound yet
     "Unbound",     \* a danger route is retained, but no microrealm is bound
     "Watching",    \* the terminal owner awaits the driver's next delivery
     "Frozen",      \* the driver waits for the durable Bell transfer
     "Reserved",    \* the driver waits for the durable use of a consumable
     "Converting",  \* the transfer is durable, the dungeon is not installed
     "Prepared",    \* a winner is sealed, its transaction not under way
     "Awaiting",    \* the winner's transaction is under way
     "Stopped",     \* the owner has returned an error
     "Ended",       \* the terminal is published
     "Fresh",       \* a process that has nothing of the account
     "Restoring",   \* the resolver's crash restoration is under way
     "Reloading",   \* it is answered, the store is to be read again
     "Corrupt"}     \* the answer and the store disagree

VARIABLES
    net,        \* transactions under way; live: the caller still waits
    phase,
    route,      \* character version of the driver's route
    framed,     \* the owner has acknowledged a frame of this binding
    admitted,   \* enter_committed_microrealm has returned the binding
    through,    \* the driver runs the fixed dungeon behind the Bell
    actor,      \* an extraction actor is registered
    exit,       \* inventory head read when the exit opened
    retained,   \* the process retains a route actor for the account
    winner,
    planned,    \* inventory head the winner's request expects
    answer,     \* what the store answered the waiting caller
    told,       \* per run, the end that was published
    losses, crashes, uses

driverVars == <<route, framed, admitted, through, actor, exit>>
decision == <<winner, planned>>
counters == <<losses, crashes, uses>>
processVars == <<phase, driverVars, retained, decision, answer, told>>
vars == <<storeVars, net, processVars, counters>>

Answers == {"None", "Fresh", "Replayed", "Refused", "AlreadyRestored", "Error"}
             \cup Closings

RunTypeOK ==
    /\ StoreTypeOK
    /\ net \subseteq [q : Requests, live : BOOLEAN]
    /\ phase \in Phases
    /\ route \in Nat
    /\ framed \in BOOLEAN /\ admitted \in BOOLEAN
    /\ through \in BOOLEAN /\ actor \in BOOLEAN
    /\ retained \in BOOLEAN
    /\ winner \in Kinds \cup {"None"}
    /\ exit \in Nat /\ planned \in Nat
    /\ answer \in Answers
    /\ told \in [Runs -> Closings \cup {"None"}]
    /\ losses \in 0 .. MaxLosses
    /\ crashes \in 0 .. MaxCrashes
    /\ uses \in 0 .. MaxUses

RunInit ==
    /\ StoreInit
    /\ net = {}
    /\ phase = "Hall"
    /\ route = 1
    /\ framed = FALSE /\ admitted = FALSE
    /\ through = FALSE /\ actor = FALSE
    /\ retained = TRUE
    /\ winner = "None"
    /\ exit = 0 /\ planned = 0
    /\ answer = "None"
    /\ told = [r \in Runs |-> "None"]
    /\ losses = 0
    /\ crashes = 0
    /\ uses = 0

-----------------------------------------------------------------------------
(***************************************************************************)
(* Calls of the store.                                                     *)
(***************************************************************************)
Request(kind, v, i) == [kind |-> kind, run |-> run, version |-> v, inventory |-> i]

\* A winner's request; prepare_verified_fault_restoration and the process
\* restart resolver derive the same one from the root alone.
RestoreRequest == Request("FaultRestoration", 0, 0)
WinnerRequest ==
    IF winner = "FaultRestoration" THEN RestoreRequest
    ELSE Request(winner, route, planned)
BellRequest == Request("Bell", route, 0)

Call(q) ==
    /\ net' = net \cup {[q |-> q, live |-> TRUE]}
    /\ answer' = "None"

\* The caller no longer waits; what it sent may still be applied, or not.
Abandoned(S) == {[q |-> m.q, live |-> FALSE] : m \in S}
Abandon ==
    /\ net' = Abandoned(net)
    /\ answer' = "None"

AnswerTo(m, a) ==
    /\ net' = net \ {m}
    /\ answer' = IF m.live THEN a ELSE answer
    /\ UNCHANGED <<phase, driverVars, retained, decision, told, counters>>

ApplyTransfer(m) ==
    /\ m.q.kind = "Bell"
    /\ \/ BellFresh(m.q) /\ AnswerTo(m, "Fresh")
       \/ Replayed(m.q) /\ AnswerTo(m, "Replayed")
       \/ TransferRefused(m.q) /\ AnswerTo(m, "Refused")

ApplyConsumable(m) ==
    /\ m.q.kind = "Consumable"
    /\ \/ ConsumableFresh(m.q) /\ AnswerTo(m, "Fresh")
       \/ Replayed(m.q) /\ AnswerTo(m, "Replayed")
       \/ ConsumableRefused(m.q) /\ AnswerTo(m, "Refused")

ApplyTerminal(m) ==
    /\ m.q.kind \in Kinds \ {"FaultRestoration"}
    /\ \/ TerminalFresh(m.q) /\ AnswerTo(m, "Fresh")
       \/ Replayed(m.q) /\ AnswerTo(m, "Replayed")
       \/ Refused(m.q) /\ AnswerTo(m, "Refused")

ApplyRestore(m) ==
    /\ m.q.kind = "FaultRestoration"
    /\ RestoreFresh(m.q) \/ RestoreLost(m.q) \/ RestoreUnchanged(m.q)
    /\ AnswerTo(m, RestoreAnswer(m.q))

Apply(m) ==
    ApplyTransfer(m) \/ ApplyConsumable(m) \/ ApplyTerminal(m) \/ ApplyRestore(m)

-----------------------------------------------------------------------------
(***************************************************************************)
(* Entry and admission.                                                    *)
(***************************************************************************)
\* The realm gate, and reconcile_committed_world_transition of the route.
EnterDanger ==
    /\ phase = "Hall"
    /\ EnterTransaction
    /\ phase' = "Entering"
    /\ route' = version + 1
    /\ framed' = FALSE /\ admitted' = FALSE
    /\ through' = FALSE /\ actor' = FALSE /\ exit' = 0
    /\ winner' = "None" /\ planned' = 0
    /\ UNCHANGED <<net, retained, answer, told, counters>>

\* enter_committed_microrealm: runtime, recall actor, owner and driver.
BindMicrorealm ==
    /\ phase = "Entering"
    /\ phase' = "Watching"
    /\ UNCHANGED <<storeVars, net, driverVars, retained, decision, answer, told,
                   counters>>

\* The first frame is observed and the recall is bound to the transport.
Admit ==
    /\ phase \in {"Watching", "Prepared", "Awaiting", "Ended"}
    /\ framed \/ phase = "Ended"
    /\ ~admitted
    /\ admitted' = TRUE
    /\ UNCHANGED <<storeVars, net, phase, route, framed, through, actor, exit,
                   retained, decision, answer, told, counters>>

\* A step of the admission fails, or the first frame takes over two seconds.
\* unbind_microrealm takes the binding out of the session at once and then
\* waits for the owner, which finishes what it has sealed.
RollbackAdmission ==
    /\ phase \in {"Entering", "Watching", "Prepared", "Awaiting", "Stopped",
                  "Ended"}
    /\ ~admitted
    /\ phase' = "Unbound"
    /\ net' = Abandoned(net) \cup
                 (IF phase = "Prepared"
                  THEN {[q |-> WinnerRequest, live |-> FALSE]} ELSE {})
    /\ answer' = "None"
    /\ winner' = "None" /\ planned' = 0
    /\ UNCHANGED <<storeVars, driverVars, retained, told, counters>>

-----------------------------------------------------------------------------
(***************************************************************************)
(* The Bell portal: dispatch_world_flow freezes the driver, commits the    *)
(* transfer and installs the fixed dungeon, whose route the owner takes.   *)
(***************************************************************************)
FreezeForBell ==
    /\ phase = "Watching"
    /\ admitted /\ ~through
    /\ phase' = "Frozen"
    /\ Call(BellRequest)
    /\ UNCHANGED <<storeVars, driverVars, retained, decision, told, counters>>

BellAnswered ==
    /\ phase = "Frozen"
    /\ answer # "None"
    /\ phase' = IF answer = "Refused" THEN "Watching" ELSE "Converting"
    /\ answer' = "None"
    /\ UNCHANGED <<storeVars, net, driverVars, retained, decision, told,
                   counters>>

\* An error of the commit aborts the permit and resumes the driver, although
\* the transfer may have been, or may yet be, applied.
BellLost ==
    /\ phase = "Frozen"
    /\ losses < MaxLosses
    /\ losses' = losses + 1
    /\ phase' = "Watching"
    /\ Abandon
    /\ UNCHANGED <<storeVars, driverVars, retained, decision, told, crashes,
                   uses>>

\* The connection task is dropped while the decision is open.
BellDropped ==
    /\ phase = "Frozen"
    /\ phase' = "Stopped"
    /\ Abandon
    /\ UNCHANGED <<storeVars, driverVars, retained, decision, told, counters>>

\* process_control takes the new version only if the store has it.
InstallDungeon ==
    /\ phase = "Converting"
    /\ phase' = IF version = route + 1 THEN "Watching" ELSE "Stopped"
    /\ route' = route + 1
    /\ through' = TRUE
    /\ UNCHANGED <<storeVars, net, framed, admitted, actor, exit, retained,
                   decision, answer, told, counters>>

\* The Caldus reward registers the actor that serves the exit, with the heads
\* of the snapshot that was read for it (prepare_post_acknowledgement).
RegisterExtraction ==
    /\ phase = "Watching"
    /\ through /\ ~actor
    /\ actor' = TRUE
    /\ exit' = inventory
    /\ UNCHANGED <<storeVars, net, phase, route, framed, admitted, through,
                   retained, decision, answer, told, counters>>

-----------------------------------------------------------------------------
(***************************************************************************)
(* The belt: use_consumable reserves the driver's next frame, commits the  *)
(* use and hands the frame back.                                           *)
(***************************************************************************)
\* prepare_consumable_use and resolve_consumable_reservation, for a use that is
\* not stored yet.  The waiting driver of the open exit serves no reservation.
\* The client names the inventory it knows; an older one is refused.
UseConsumable ==
    /\ phase = "Watching"
    /\ admitted /\ ~actor
    /\ uses < MaxUses
    /\ uses' = uses + 1
    /\ LET q == Request("Consumable", 0, inventory)
       IN q \notin results /\ Call(q)
    /\ phase' = "Reserved"
    /\ UNCHANGED <<storeVars, driverVars, retained, decision, told, losses, crashes>>

\* Fresh: the reserved frame applies the effect; otherwise it is given back.
ConsumableAnswered ==
    /\ phase = "Reserved"
    /\ answer # "None"
    /\ phase' = "Watching"
    /\ answer' = "None"
    /\ UNCHANGED <<storeVars, net, driverVars, retained, decision, told, counters>>

\* Mutant of ConsumableLost: the commit goes on behind the running driver, as if
\* the reservation had been given back when the transaction was sent.
ConsumableNotAwaited ==
    /\ phase = "Reserved"
    /\ phase' = "Watching"
    /\ Abandon
    /\ UNCHANGED <<storeVars, driverVars, retained, decision, told, counters>>

\* An error of the commit, and a connection task that is dropped, drop the
\* reservation: the driver goes on, although the unit may yet be consumed.
ConsumableLost ==
    /\ phase = "Reserved"
    /\ losses < MaxLosses
    /\ losses' = losses + 1
    /\ phase' = "Watching"
    /\ Abandon
    /\ UNCHANGED <<storeVars, driverVars, retained, decision, told, crashes, uses>>

\* CONSUMABLE_RESERVATION_TIMEOUT: the driver fails for good, without a verified
\* fault, and the owner hears no more of it.
ConsumableTimedOut ==
    /\ phase = "Reserved"
    /\ phase' = "Stopped"
    /\ Abandon
    /\ UNCHANGED <<storeVars, driverVars, retained, decision, told, counters>>

-----------------------------------------------------------------------------
(***************************************************************************)
(* The terminal owner.                                                     *)
(***************************************************************************)
\* load_current_danger_terminal_snapshot, and its comparison with the route
SnapshotMatches == Current(BellRequest)

Recalls == {"EmergencyRecall", "DisconnectRecovery"}

\* the winner the coordinator seals
Leads(k, due) == k \in due /\ \A o \in due : priority[k] <= priority[o]

\* evaluate_terminal_tick refuses two recalls that are due at once.
Evaluate(due) ==
    /\ \/ /\ SnapshotMatches /\ ~(Recalls \subseteq due) /\ due # {}
          /\ \E k \in due :
                /\ Leads(k, due)
                /\ winner' = k
                /\ planned' = IF k = "SuccessfulExtraction" THEN exit ELSE inventory
          /\ phase' = "Prepared"
       \/ /\ SnapshotMatches /\ due = {}
          /\ UNCHANGED <<phase, decision>>
       \/ /\ ~SnapshotMatches \/ Recalls \subseteq due
          /\ phase' = "Stopped"
          /\ UNCHANGED decision
    /\ UNCHANGED <<storeVars, net, route, admitted, through, actor, exit,
                   retained, answer, told, counters>>

\* A recall or a death may be due at any frame, an extraction needs its actor.
DueAtFrame ==
    SUBSET (Recalls \cup {"LethalDeath"} \cup
              (IF actor THEN {"SuccessfulExtraction"} ELSE {}))

process_frame ==
    /\ phase = "Watching"
    /\ \E due \in DueAtFrame :
          /\ Evaluate(due)
          /\ framed' = (framed \/ due = {})

\* The driver's runtime failed; the feed cannot say so before a first frame.
process_verified_fault ==
    /\ phase = "Watching"
    /\ framed
    /\ \E due \in DueAtFrame :
          /\ "LethalDeath" \notin due
          /\ Evaluate(due \cup {"FaultRestoration"})
    /\ UNCHANGED framed

FaultBeforeFirstFrame ==
    /\ phase = "Watching"
    /\ ~framed
    /\ phase' = "Stopped"
    /\ UNCHANGED <<storeVars, net, driverVars, retained, decision, answer, told,
                   counters>>

\* Any other error of the owner: a read that fails, a plan of the extraction that
\* is refused, a transaction that fails for good, a recall whose answer is lost, a
\* publication that is refused.
StopOwner ==
    /\ phase \in {"Watching", "Awaiting"}
    /\ phase' = "Stopped"
    /\ Abandon
    /\ UNCHANGED <<storeVars, driverVars, retained, decision, told, counters>>

\* process_verified_fault retires the extraction actor before it executes the
\* restoration; retire_actor_after_other_terminal demands a committed receipt.
RetireBeforeCommit ==
    /\ phase = "Prepared"
    /\ winner = "FaultRestoration"
    /\ actor
    /\ phase' = "Stopped"
    /\ UNCHANGED <<storeVars, net, driverVars, retained, decision, answer, told,
                   counters>>

Execute ==
    /\ phase = "Prepared"
    /\ ~(winner = "FaultRestoration" /\ actor)
    /\ phase' = "Awaiting"
    /\ Call(WinnerRequest)
    /\ UNCHANGED <<storeVars, driverVars, retained, decision, told, counters>>

\* may_have_ambiguous_commit_outcome: the three exact loops try again.
RetryExact ==
    /\ phase = "Awaiting"
    /\ winner \notin Recalls
    /\ losses < MaxLosses
    /\ losses' = losses + 1
    /\ phase' = "Prepared"
    /\ Abandon
    /\ UNCHANGED <<storeVars, driverVars, retained, decision, told, crashes,
                   uses>>

\* What the executor accepts; a restoration also has to be the route's own
\* and to be found in the store again.
Accepted ==
    IF winner = "FaultRestoration"
    THEN /\ answer = "Restored"
         /\ restoredVersion[run] = route + 1
         /\ version = restoredVersion[run]
         /\ location = "Hall"
    ELSE answer \in {"Fresh", "Replayed"}

Publish ==
    /\ phase = "Awaiting"
    /\ answer # "None"
    /\ Accepted
    /\ phase' = "Ended"
    /\ told' = [told EXCEPT ![run] = closing[winner]]
    /\ actor' = FALSE
    /\ answer' = "None"
    /\ UNCHANGED <<storeVars, net, route, framed, admitted, through, exit,
                   retained, decision, counters>>

\* Mutant of NotAccepted: a refusal is retried like a lost answer.
NotAcceptedRetries ==
    /\ phase = "Awaiting"
    /\ answer # "None"
    /\ ~Accepted
    /\ phase' = "Prepared"
    /\ UNCHANGED <<storeVars, net, driverVars, retained, decision, answer, told,
                   counters>>

NotAccepted ==
    /\ phase = "Awaiting"
    /\ answer # "None"
    /\ ~Accepted
    /\ phase' = "Stopped"
    /\ UNCHANGED <<storeVars, net, driverVars, retained, decision, answer, told,
                   counters>>

\* install_delivered_extraction_hall: map_bootstrap finds the extraction
\* committed and require_no_retained_route the retained danger route.
InstallDeliveredHall ==
    /\ phase = "Ended"
    /\ winner = "SuccessfulExtraction"
    /\ phase' = IF retained THEN "Stopped" ELSE "Hall"
    /\ UNCHANGED <<storeVars, net, driverVars, retained, decision, answer, told,
                   counters>>

-----------------------------------------------------------------------------
(***************************************************************************)
(* Crash, and the attachment of a transport when no microrealm is bound.   *)
(***************************************************************************)
Crash ==
    /\ phase # "Fresh"
    /\ crashes < MaxCrashes
    /\ crashes' = crashes + 1
    /\ phase' = "Fresh"
    /\ Abandon
    /\ retained' = FALSE
    /\ winner' = "None" /\ planned' = 0
    /\ framed' = FALSE /\ admitted' = FALSE
    /\ through' = FALSE /\ actor' = FALSE /\ exit' = 0
    /\ UNCHANGED <<storeVars, route, told, losses, uses>>

\* What bootstrap_process_restart shows of a character that is not in danger.
ShowSettled ==
    /\ phase' = IF life = "Dead" THEN "Ended" ELSE "Hall"
    /\ told' = IF run = 0 THEN told ELSE [told EXCEPT ![run] = root[run]]

AttachSettled ==
    /\ phase = "Fresh"
    /\ life = "Dead" \/ location = "Hall"
    /\ ShowSettled
    /\ retained' = (life = "Living")
    /\ UNCHANGED <<storeVars, net, driverVars, decision, answer, counters>>

\* attach_transport runs the resolver whenever no microrealm is bound, in a
\* fresh process or not.
AttachDanger ==
    /\ phase \in {"Fresh", "Entering", "Unbound"}
    /\ life = "Living" /\ location = "Danger"
    /\ phase' = "Restoring"
    /\ Call(RestoreRequest)
    /\ UNCHANGED <<storeVars, driverVars, retained, decision, told, counters>>

RestoreAnswered ==
    /\ phase = "Restoring"
    /\ answer # "None"
    /\ phase' = IF answer = "Error" THEN "Corrupt" ELSE "Reloading"
    /\ UNCHANGED <<storeVars, net, driverVars, retained, decision, answer, told,
                   counters>>

\* The resolver has no loop: any error is the client's to retry.
RestoreFails ==
    /\ phase \in {"Restoring", "Reloading"}
    /\ losses < MaxLosses
    /\ losses' = losses + 1
    /\ phase' = IF retained THEN "Unbound" ELSE "Fresh"
    /\ Abandon
    /\ UNCHANGED <<storeVars, driverVars, retained, decision, told, crashes,
                   uses>>

\* Mutant of receipt_matches_bootstrap: a superseding terminal is not known.
MatchesRestoredOnly ==
    answer \in {"Restored", "AlreadyRestored"} /\ location = "Hall"

receipt_matches_bootstrap ==
    \/ /\ answer = "Restored"
       /\ life = "Living" /\ location = "Hall" /\ version = restoredVersion[run]
    \/ answer = "AlreadyRestored" /\ life = "Living" /\ location = "Hall"
    \/ /\ answer \in {"Extraction", "Recall"}
       /\ life = "Living" /\ location = "Hall" /\ root[run] = answer
    \/ answer = "Death" /\ life = "Dead" /\ root[run] = "Death"

ReloadMatched ==
    /\ phase = "Reloading"
    /\ receipt_matches_bootstrap
    /\ ~retained
    /\ ShowSettled
    /\ retained' = (life = "Living")
    /\ answer' = "None"
    /\ UNCHANGED <<storeVars, net, driverVars, decision, counters>>

\* With a danger route still retained, map_bootstrap fails.
ReloadFails ==
    /\ phase = "Reloading"
    /\ ~receipt_matches_bootstrap \/ retained
    /\ phase' = IF receipt_matches_bootstrap THEN "Unbound" ELSE "Corrupt"
    /\ answer' = "None"
    /\ UNCHANGED <<storeVars, net, driverVars, retained, decision, told,
                   counters>>

-----------------------------------------------------------------------------
Admission == EnterDanger \/ BindMicrorealm \/ Admit \/ RollbackAdmission

Bell ==
    \/ FreezeForBell \/ BellAnswered \/ BellLost \/ BellDropped
    \/ InstallDungeon \/ RegisterExtraction

Belt ==
    UseConsumable \/ ConsumableAnswered \/ ConsumableLost \/ ConsumableTimedOut

Owner ==
    \/ process_frame \/ process_verified_fault \/ FaultBeforeFirstFrame
    \/ StopOwner \/ RetireBeforeCommit \/ Execute \/ RetryExact
    \/ Publish \/ NotAccepted \/ InstallDeliveredHall

Bootstrap ==
    \/ AttachSettled \/ AttachDanger \/ RestoreAnswered \/ RestoreFails
    \/ ReloadMatched \/ ReloadFails

RunNext ==
    \/ Admission \/ Bell \/ Belt \/ Owner \/ Crash \/ Bootstrap
    \/ \E m \in net : Apply(m)

\* The database works off the call somebody waits for; the owner and the
\* resolver go on when they can; the client attaches again.
Fairness ==
    /\ WF_vars(\E m \in net : m.live /\ Apply(m))
    /\ WF_vars(Execute)
    /\ WF_vars(Publish \/ NotAccepted)
    /\ WF_vars(phase = "Fresh" /\ (AttachSettled \/ AttachDanger))
    /\ WF_vars(RestoreAnswered)
    /\ WF_vars(ReloadMatched \/ ReloadFails)

RunSpec == RunInit /\ [][RunNext]_vars
FairRunSpec == RunSpec /\ Fairness

-----------------------------------------------------------------------------
(***************************************************************************)
(* Properties.                                                             *)
(***************************************************************************)
\* The location row, the life state and the restore roots are written by five
\* repositories.  However their transactions fall, late ones of abandoned
\* callers included, only the latest root can be active or end in death, the
\* character is in danger exactly while that is so, and is dead exactly when
\* one of its runs ended in death.
LocationFollowsRoot ==
    /\ \A r \in Runs : root[r] \in {"Active", "Death"} => r = run
    /\ location = "Danger" <=> \E r \in Runs : root[r] \in {"Active", "Death"}
    /\ life = "Dead" <=> \E r \in Runs : root[r] = "Death"

\* A process restart always gets the account settled or to the resolver's next
\* try: the stored answer of the crash restoration, fresh or replayed, agrees
\* with the state that is read after it, even when a terminal of the process
\* that died is applied in between (resolve_private_life_process_restart_v1,
\* receipt_matches_bootstrap).
RestartResolves == phase # "Corrupt"

\* A Bell transfer of the winner's own route is stored, or a unit was consumed
\* from the very inventory the winner was planned on (a restoration plans on none).
LateWrite ==
    \/ BellRequest \in results
    \/ winner # "FaultRestoration" /\ Request("Consumable", 0, planned) \in results

\* When the owner of a sealed winner is not served, there is one possible cause:
\* a Bell transfer or a consumable whose commit was reported as failed
\* (commit_prepared_bell, use_consumable) was applied after all, behind the
\* snapshot of the sealing frame.  No retry, crash restoration, rolled back
\* admission, answered use or transaction of an earlier run can take the decision
\* from the owner.  An extraction is refused in any case as long as its life
\* clock head is compared (ExitIsStale).
RefusedOnlyByLateWrite ==
    phase = "Awaiting" /\ answer # "None" /\ ~Accepted =>
        \/ losses > 0 /\ LateWrite
        \/ ExitIsStale(WinnerRequest)

\* The hall is shown, and the realm gate open, only to a living character that
\* the store has in the hall and that has been told the end of every run.
HallIsSettled ==
    phase = "Hall" =>
        /\ life = "Living" /\ location = "Hall"
        /\ \A r \in Runs : r <= run => root[r] \in Closings /\ told[r] = root[r]

\* The owner that publishes an end has made it durable as the end of the run.
OwnerEndsItsRun ==
    phase = "Ended" /\ winner # "None" =>
        root[run] = closing[winner] /\ told[run] = closing[winner]

\* What a player is promised of each run, whatever is lost, late or crashed.
Promise == INSTANCE RunOutcome WITH Last <- MaxRuns, outcome <- root
PlayerPromise == Promise!OutcomeSpec

\* With finitely many lost answers, a winner's transaction under way comes to
\* an end: published, given up, or interrupted by a crash; the owner does not
\* retry for ever (execute_death_exact, execute_extraction_exact,
\* execute_fault_restoration_exact).
AwaitingEnds == phase = "Awaiting" ~> phase \notin {"Awaiting", "Prepared"}

\* With finitely many crashes and failures, a fresh process shows the account
\* its hall or its death.
RestartSettles == phase = "Fresh" ~> phase \in {"Hall", "Ended"}

(***************************************************************************)
(* Statements of the repository that the code does not keep.               *)
(***************************************************************************)
\* "The owner [...] then executes the stable per-root TECH-023 transaction only
\* if fault restoration wins" (durable terminal owner evidence): a sealed fault
\* restoration goes to the store unless the process goes down.
FaultWinnerIsExecuted ==
    [][phase = "Prepared" /\ winner = "FaultRestoration" =>
          phase' \in {"Prepared", "Awaiting", "Fresh", "Unbound"}]_vars

\* The extraction that the owner executes is stored and the player stands in the
\* hall: "executes only a prepared extraction winner, publishes only the
\* executor's opaque proof" (durable terminal owner evidence), "then normal
\* bootstrap recreates the read-only Hall route actor from durable state"
\* (install_delivered_extraction_hall).
ExtractionReturnsToHall ==
    /\ [](phase = "Awaiting" /\ winner = "SuccessfulExtraction" /\ answer = "Refused"
             => LateWrite)
    /\ [][phase = "Ended" /\ winner = "SuccessfulExtraction" =>
              phase' \in {"Ended", "Hall", "Fresh", "Unbound"}]_vars

=============================================================================
