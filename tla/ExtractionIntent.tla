-------------------------- MODULE ExtractionIntent --------------------------
(* The way out: a request to extract is accepted durably, pinned to a tick,  *)
(* planned, committed by the terminal owner at that tick, delivered to the   *)
(* transport that is there and consumed once the Hall is installed.          *)
(*   production_extraction_intent.rs   the actor and its lock                *)
(*   core_extraction_runtime.rs        the directory: transports, delivery   *)
(*   core_private_life_tick.rs         the tick a request is pinned to       *)
(*   core_private_terminal_owner.rs    the frames that ask for the intent    *)
(*   persistence production_extraction_intent.rs   the acceptance            *)
(* The actor's lock is held over its repository calls (busy), and over those *)
(* of the owner (Planning); the directory is locked for single steps only.   *)
EXTENDS Naturals, Sequences, FiniteSets

CONSTANTS
    Frames,            \* request frames: one and those that change its material
    TickReserve,       \* ticks between the acknowledged one and the pinned one, 2
    MaxTick,           \* bound on the frames of the driver
    MaxTransports,     \* bound on the transport generations
    MaxRequests        \* bound on the requests the clients send

None == "None"

\* The reserve is one frame more than the one that may be in the barrier.
ASSUME ExtractionAssumption ==
    /\ None \notin Frames
    /\ TickReserve \in Nat \ {0, 1}
    /\ {MaxTick, MaxTransports} \subseteq Nat \ {0}
    /\ MaxRequests \in Nat

VARIABLES
    acked,       \* authoritative_tick
    owner,       \* the frame in the barrier and where its owner stands
    ended,       \* the terminal the database holds
    stored,      \* StoredProductionExtractionIntentAcceptanceV1
    intent,      \* ProductionExtractionPreparedIntentV1 of the actor
    unheard,     \* history: an acceptance committed and its answer was lost
    overtaken,   \* history: frames passed between a command's tick and its lock
    busy,        \* the command the actor handles, under its lock once it is served
    queue,       \* CoreExtractionActorInbox
    requests,    \* requests whose connection awaits the answer
    sent,        \* how many were sent
    told,        \* per transport, the answers its client has had
    registered,  \* the actor is in the directory
    transport,   \* the generation of ActiveExtractionTransport, 0 without one
    generations, \* generations given out
    committed,   \* CommittedExtractionPublication is retained
    delivery,    \* the delivery state of a generation
    sending,     \* the spawned deliveries
    attaching,   \* deliver_committed as part of an attachment
    broken,      \* transports whose writer has failed
    results,     \* per transport, the result events written
    hall         \* the projection a connection installs, and whether one was

barrier == <<acked, owner, ended>>
actor   == <<stored, intent, unheard, overtaken, busy, queue, registered>>
clients == <<requests, sent, told>>
links   == <<transport, generations, committed, delivery, sending, attaching, broken, results, hall>>
vars    == <<barrier, actor, clients, links>>

Transports == 1 .. MaxTransports
Idle == [stage |-> "Idle", tick |-> 0, other |-> FALSE, seen |-> 0, cause |-> None]
NoIntent == [frame |-> None, tick |-> 0, prepared |-> FALSE]
NotBusy == [step |-> None, frame |-> None, transport |-> 0, tick |-> 0, read |-> 0]
NoAcceptance == [frame |-> None, tick |-> 0]
NoDelivery == [transport |-> 0, state |-> None]

Unlocked == busy.step \in {None, "Taken"} /\ owner.stage # "Planning"

\* Caldus is beaten, the actor registered, and the session's transport bound to it.
Init ==
    /\ acked = 1 /\ owner = Idle /\ ended = None
    /\ stored = NoAcceptance /\ intent = NoIntent /\ unheard = FALSE /\ overtaken = FALSE
    /\ busy = NotBusy /\ queue = <<>>
    /\ requests = {} /\ sent = 0 /\ told = [t \in Transports |-> {}]
    /\ registered = TRUE /\ transport = 1 /\ generations = 1
    /\ committed = FALSE /\ delivery = NoDelivery /\ sending = {} /\ attaching = None
    /\ broken = {} /\ results = [t \in Transports |-> 0]
    /\ hall = [projection |-> 0, consumed |-> FALSE, refreshed |-> FALSE]

-----------------------------------------------------------------------------
(* A request and the actor that handles it.                                  *)

Waiting(t) == \E r \in requests : r.transport = t

\* handle_extraction of the directory: the actor of the current transport gets
\* the command, without an actor the retained result is the answer.
Request(f) ==
    /\ transport \notin broken \cup {0} /\ ~Waiting(transport) /\ hall.projection # transport
    /\ sent < MaxRequests /\ sent' = sent + 1
    /\ IF registered
       THEN /\ requests' = requests \cup {[transport |-> transport, frame |-> f, answer |-> None]}
            /\ queue' = Append(queue, [frame |-> f, transport |-> transport])
            /\ UNCHANGED told
       ELSE /\ told' = [told EXCEPT ![transport] =
                            @ \cup {IF committed /\ intent.frame = f THEN "Stored" ELSE "Rejected"}]
            /\ UNCHANGED <<requests, queue>>
    /\ UNCHANGED <<barrier, stored, intent, unheard, overtaken, busy, registered, links>>

Answered(t, answer) ==
    requests' = {IF r.transport = t THEN [r EXCEPT !.answer = answer] ELSE r : r \in requests}

\* Mutant of PinnedTick: the next frame's tick is used.
PinnedTickNext == acked + 1

\* current_tick of the extraction's tick source: the frame after the one that
\* may be in the barrier.
PinnedTick == acked + TickReserve

\* serve_next_with_tick: the command is received and the tick is read, without
\* the lock.
Take ==
    /\ queue # <<>> /\ busy = NotBusy /\ registered
    /\ busy' = [step |-> "Taken", frame |-> Head(queue).frame,
                transport |-> Head(queue).transport, tick |-> PinnedTick, read |-> acked]
    /\ queue' = Tail(queue)
    /\ UNCHANGED <<barrier, stored, intent, unheard, overtaken, registered, clients, links>>

\* What the reserve pays for: the frame in the barrier, the one that is pinned,
\* and the rest for frames that are acknowledged while the command has no lock.
Overtakes == acked > busy.read + (TickReserve - 2)

\* The start of handle, once it has the lock.  An intent answers a retry, audits a
\* changed frame, or is planned again.
Serve ==
    /\ busy.step = "Taken" /\ Unlocked
    /\ CASE intent = NoIntent ->
              /\ busy' = [busy EXCEPT !.step = "Loading"]
              /\ overtaken' = (overtaken \/ Overtakes)
              /\ UNCHANGED requests
         [] intent.frame = busy.frame /\ ~intent.prepared ->
              /\ busy' = [busy EXCEPT !.step = "Preparing", !.tick = intent.tick]
              /\ UNCHANGED <<overtaken, requests>>
         [] OTHER ->
              /\ Answered(busy.transport, IF intent.frame = busy.frame THEN "Pending" ELSE "Rejected")
              /\ busy' = NotBusy
              /\ UNCHANGED overtaken
    /\ UNCHANGED <<barrier, stored, intent, unheard, queue, registered, sent, told, links>>

\* Mutant of Load: a recovered intent is pinned to the tick of the retry.
LoadAtOwnTick ==
    /\ busy.step = "Loading"
    /\ CASE stored = NoAcceptance ->
              busy' = [busy EXCEPT !.step = "Accepting"] /\ UNCHANGED <<intent, requests>>
         [] stored.frame = busy.frame ->
              /\ busy' = [busy EXCEPT !.step = "Preparing"]
              /\ intent' = [frame |-> busy.frame, tick |-> busy.tick, prepared |-> FALSE]
              /\ UNCHANGED requests
         [] OTHER ->
              busy' = NotBusy /\ Answered(busy.transport, "Rejected") /\ UNCHANGED intent
    /\ UNCHANGED <<barrier, stored, unheard, overtaken, queue, registered, sent, told, links>>

\* recover_persisted_intent: an acceptance of this frame is taken up at its own
\* tick, one of another frame is audited.
Load ==
    /\ busy.step = "Loading"
    /\ CASE stored = NoAcceptance ->
              busy' = [busy EXCEPT !.step = "Accepting"] /\ UNCHANGED <<intent, requests>>
         [] stored.frame = busy.frame ->
              /\ busy' = [busy EXCEPT !.step = "Preparing", !.tick = stored.tick]
              /\ intent' = [frame |-> busy.frame, tick |-> stored.tick, prepared |-> FALSE]
              /\ UNCHANGED requests
         [] OTHER ->
              busy' = NotBusy /\ Answered(busy.transport, "Rejected") /\ UNCHANGED intent
    /\ UNCHANGED <<barrier, stored, unheard, overtaken, queue, registered, sent, told, links>>

\* accept_new_intent: the first acceptance is durable, and only as long as no
\* terminal is (lock_current_actor_authority).
Accept ==
    /\ busy.step = "Accepting" /\ ended = None
    /\ stored' = [frame |-> busy.frame, tick |-> busy.tick]
    /\ intent' = [frame |-> busy.frame, tick |-> busy.tick, prepared |-> FALSE]
    /\ busy' = [busy EXCEPT !.step = "Preparing"]
    /\ UNCHANGED <<barrier, unheard, overtaken, queue, registered, clients, links>>

\* Its commit may be known to the database alone.
LoseAnswer ==
    /\ busy.step = "Accepting" /\ ended = None
    /\ unheard' = TRUE
    /\ stored' = [frame |-> busy.frame, tick |-> busy.tick]
    /\ Answered(busy.transport, "Rejected") /\ busy' = NotBusy
    /\ UNCHANGED <<barrier, intent, overtaken, queue, registered, sent, told, links>>

\* Any of the three calls fails: DatabaseUnavailable, or TerminalLost.
CallFails ==
    /\ busy.step \notin {None, "Taken"}
    /\ Answered(busy.transport, "Rejected") /\ busy' = NotBusy
    /\ UNCHANGED <<barrier, stored, intent, unheard, overtaken, queue, registered, sent, told, links>>

\* prepare_pinned_intent.
Prepare ==
    /\ busy.step = "Preparing"
    /\ intent' = [intent EXCEPT !.prepared = TRUE]
    /\ Answered(busy.transport, "Pending") /\ busy' = NotBusy
    /\ UNCHANGED <<barrier, stored, unheard, overtaken, queue, registered, sent, told, links>>

\* The end of handle_extraction: a transport that was replaced is refused, a
\* result that is committed by now is better than Pending.
FinalAnswer(r) ==
    IF transport # r.transport THEN "Rejected"
    ELSE IF r.answer = "Pending" /\ committed THEN "Stored" ELSE r.answer

Answer(r) ==
    /\ r \in requests /\ r.answer # None
    /\ told' = [told EXCEPT ![r.transport] = @ \cup {FinalAnswer(r)}]
    /\ requests' = requests \ {r}
    /\ UNCHANGED <<barrier, actor, sent, links>>

-----------------------------------------------------------------------------
(* The frames and their owner.                                               *)

\* The driver delivers the next frame, with or without another terminal in it.
Deliver(other) ==
    /\ owner.stage = "Idle" /\ acked < MaxTick
    /\ owner' = [owner EXCEPT !.stage = "Asking", !.tick = acked + 1, !.other = other]
    /\ UNCHANGED <<acked, ended, actor, clients, links>>

Stop(cause) == owner' = [owner EXCEPT !.stage = "Stopped", !.cause = cause]

\* prepare_for_terminal_owner: with the lock, an intent without a plan is planned.
Ask ==
    /\ owner.stage = "Asking" /\ Unlocked
    /\ owner' = [owner EXCEPT !.seen = intent.tick, !.stage =
                    IF intent # NoIntent /\ ~intent.prepared THEN "Planning" ELSE "Judging"]
    /\ UNCHANGED <<acked, ended, actor, clients, links>>

Plan ==
    /\ owner.stage = "Planning"
    /\ intent' = [intent EXCEPT !.prepared = TRUE]
    /\ owner' = [owner EXCEPT !.stage = "Judging"]
    /\ UNCHANGED <<acked, ended, stored, unheard, overtaken, busy, queue, registered, clients, links>>

PlanFails ==
    /\ owner.stage = "Planning"
    /\ Stop("Planner")
    /\ UNCHANGED <<acked, ended, actor, clients, links>>

\* process_frame: an intent of an earlier tick is InvalidAuthority, one of this
\* tick a candidate, one of a later tick absent; death has priority.
Judge ==
    /\ owner.stage = "Judging"
    /\ CASE owner.seen # 0 /\ owner.seen < owner.tick -> Stop("InvalidAuthority") /\ UNCHANGED acked
         [] owner.other \/ owner.seen = owner.tick ->
              owner' = [owner EXCEPT !.stage = "Executing"] /\ UNCHANGED acked
         [] OTHER -> owner' = Idle /\ acked' = owner.tick
    /\ UNCHANGED <<ended, actor, clients, links>>

\* execute_death_exact and execute_extraction_exact.
Execute ==
    /\ owner.stage = "Executing"
    /\ ended' = IF owner.other THEN "Other" ELSE "Extraction"
    /\ owner' = [owner EXCEPT !.stage = IF owner.other THEN "Retiring" ELSE "Publishing"]
    /\ UNCHANGED <<acked, actor, clients, links>>

\* The transaction is refused (StateChanged, VersionMismatch), and the owner fails.
ExecuteRefused ==
    /\ owner.stage = "Executing"
    /\ Stop("Refused")
    /\ UNCHANGED <<acked, ended, actor, clients, links>>

\* publish_coordinated retains the result, with the actor's lock for a moment.
Publish ==
    /\ owner.stage = "Publishing" /\ Unlocked
    /\ committed' = TRUE
    /\ owner' = [owner EXCEPT !.stage = "Delivering"]
    /\ UNCHANGED <<acked, ended, actor, clients, transport, generations, delivery, sending,
                   attaching, broken, results, hall>>

\* retire_actor after the commit or after another terminal: the task of the actor
\* is stopped wherever it stands, its commands are abandoned, and the frame is
\* acknowledged.  Another terminal drops the transport as well.
Retire ==
    /\ owner.stage = "Retiring"
    /\ registered' = FALSE /\ busy' = NotBusy /\ queue' = <<>>
    /\ requests' = {IF r.answer = None THEN [r EXCEPT !.answer = "Rejected"] ELSE r : r \in requests}
    /\ owner' = [owner EXCEPT !.stage = "Done"] /\ acked' = owner.tick
    /\ IF owner.other THEN transport' = 0 /\ delivery' = NoDelivery
                      ELSE UNCHANGED <<transport, delivery>>
    /\ UNCHANGED <<ended, stored, intent, unheard, overtaken, sent, told, generations, committed, sending,
                   attaching, broken, results, hall>>

-----------------------------------------------------------------------------
(* Transports and the delivery of the result.                                *)

\* Mutant of Deliverable: a delivery that is on its way is begun again.
DeliverableAgain == transport # 0 /\ committed

\* deliver_committed: at most one delivery per transport.
Deliverable == transport # 0 /\ committed /\ delivery.transport # transport

Begin ==
    /\ Deliverable
    /\ delivery' = [transport |-> transport, state |-> "InFlight"]
    /\ sending' = sending \cup {[transport |-> transport, write |-> None]}

\* The owner delivers what it published, and waits for the end of the delivery.
OwnerDelivers ==
    /\ owner.stage = "Delivering"
    /\ Begin \/ (~Deliverable /\ UNCHANGED <<delivery, sending>>)
    /\ owner' = [owner EXCEPT !.stage = "Waiting"]
    /\ UNCHANGED <<acked, ended, actor, clients, transport, generations, committed,
                   attaching, broken, results, hall>>

OwnerWaited ==
    /\ owner.stage = "Waiting" /\ sending = {}
    /\ owner' = [owner EXCEPT !.stage = "Retiring"]
    /\ UNCHANGED <<acked, ended, actor, clients, links>>

\* send_event of the spawned delivery: written, or the writer is gone.
Write(s, ok) ==
    /\ s \in sending /\ s.write = None
    /\ sending' = (sending \ {s}) \cup {[s EXCEPT !.write = IF ok THEN "Written" ELSE "Failed"]}
    /\ results' = IF ok THEN [results EXCEPT ![s.transport] = @ + 1] ELSE results
    /\ broken' = IF ok THEN broken ELSE broken \cup {s.transport}
    /\ UNCHANGED <<barrier, actor, clients, transport, generations, committed, delivery,
                   attaching, hall>>

\* Mutant of Completed: the delivery of a replaced transport counts for its successor.
CompletedForAny(s) ==
    IF delivery.state = "InFlight"
    THEN IF s.write = "Written" THEN [delivery EXCEPT !.state = "Succeeded"] ELSE NoDelivery
    ELSE delivery


\* complete_delivery: only for the transport and the delivery it belongs to.
Completed(s) ==
    IF transport = s.transport /\ delivery = [transport |-> s.transport, state |-> "InFlight"]
    THEN IF s.write = "Written" THEN [delivery EXCEPT !.state = "Succeeded"] ELSE NoDelivery
    ELSE delivery

Complete(s) ==
    /\ s \in sending /\ s.write # None
    /\ delivery' = Completed(s)
    /\ sending' = sending \ {s}
    /\ UNCHANGED <<barrier, actor, clients, transport, generations, committed, attaching,
                   broken, results, hall>>

\* commit_prepared_reliable_writer_handoff: a new generation, to which a retained
\* result is delivered anew.
Attach ==
    /\ registered \/ committed
    /\ attaching = None /\ generations < MaxTransports
    /\ generations' = generations + 1 /\ transport' = generations'
    /\ delivery' = NoDelivery
    /\ attaching' = IF committed THEN "Deliver" ELSE None
    /\ UNCHANGED <<barrier, actor, clients, committed, sending, broken, results, hall>>

AttachDelivers ==
    /\ attaching = "Deliver"
    /\ Begin \/ (~Deliverable /\ UNCHANGED <<delivery, sending>>)
    /\ attaching' = None
    /\ UNCHANGED <<barrier, actor, clients, transport, generations, committed, broken, results, hall>>

\* detach_shared_reliable_writer, under the session lock like an attachment.
Detach ==
    /\ attaching = None /\ transport # 0
    /\ transport' = 0 /\ delivery' = NoDelivery
    /\ UNCHANGED <<barrier, actor, clients, generations, committed, sending, attaching, broken, results, hall>>

\* delivered_extraction_hall: the connection's loop looks for a delivered result.
PrepareHall ==
    /\ committed /\ transport \notin broken \cup {0} /\ ~Waiting(transport) /\ hall.projection = 0
    /\ delivery = [transport |-> transport, state |-> "Succeeded"]
    /\ hall' = [hall EXCEPT !.projection = transport]
    /\ UNCHANGED <<barrier, actor, clients, transport, generations, committed, delivery,
                   sending, attaching, broken, results>>

HallAccepted ==
    /\ ~registered /\ transport = hall.projection /\ committed
    /\ delivery = [transport |-> transport, state |-> "Succeeded"]

\* install_delivered_extraction_hall: acknowledge_hall_installed consumes the
\* result, and then the refresh shows the Hall or fails with the result consumed.
\* A refused acknowledgement ends the connection, which is detached.
InstallHall(refreshed) ==
    /\ hall.projection # 0 /\ attaching = None
    /\ IF HallAccepted
       THEN /\ committed' = FALSE /\ transport' = 0 /\ delivery' = NoDelivery
            /\ hall' = [projection |-> 0, consumed |-> TRUE, refreshed |-> refreshed]
       ELSE /\ hall' = [hall EXCEPT !.projection = 0]
            /\ transport' = IF transport = hall.projection THEN 0 ELSE transport
            /\ delivery' = IF transport = hall.projection THEN NoDelivery ELSE delivery
            /\ UNCHANGED committed
    /\ UNCHANGED <<barrier, actor, clients, generations, sending, attaching, broken, results>>

-----------------------------------------------------------------------------

Actor == Take \/ Serve \/ Load \/ Accept \/ Prepare
Owner == Ask \/ Plan \/ Judge \/ Execute \/ Publish \/ OwnerDelivers \/ OwnerWaited \/ Retire
Deliveries == (\E s \in sending : Write(s, TRUE) \/ Complete(s)) \/ AttachDelivers
Faults == LoseAnswer \/ CallFails \/ PlanFails \/ ExecuteRefused \/ \E s \in sending : Write(s, FALSE)

Next ==
    \/ \E f \in Frames : Request(f)
    \/ Actor \/ Owner \/ Deliveries \/ Faults
    \/ \E r \in requests : Answer(r)
    \/ \E other \in BOOLEAN : Deliver(other)
    \/ Attach \/ Detach \/ PrepareHall
    \/ \E refreshed \in BOOLEAN : InstallHall(refreshed)

\* Every task runs on; a client comes back as long as a result waits for it.
Fairness ==
    /\ WF_vars(Actor) /\ WF_vars(Owner) /\ WF_vars(Deliveries)
    /\ WF_vars(\E r \in requests : Answer(r)) /\ WF_vars(Deliver(FALSE))
    /\ WF_vars(\E refreshed \in BOOLEAN : InstallHall(refreshed)) /\ SF_vars(PrepareHall) /\ WF_vars(transport = 0 /\ Attach)
    /\ WF_vars(transport \in broken /\ Detach)

Spec == Init /\ [][Next]_vars
FairSpec == Spec /\ Fairness

-----------------------------------------------------------------------------

\* One type invariant; ticks of intents lie ahead by the reserve at most.
ExtractionTypeOK ==
    /\ acked \in 1 .. MaxTick /\ owner.tick <= acked + 1
    /\ intent.frame \in Frames \cup {None} /\ intent.tick <= acked + TickReserve
    /\ transport \in 0 .. generations
    /\ Len(queue) <= generations
    /\ delivery.state \in {None, "InFlight", "Succeeded"}

\* No frame finds an intent whose tick is past ("an accepted extraction can never
\* race an absence already in that barrier"), with two exceptions: the answer of an
\* acceptance was lost and a retry has recovered it at the tick it was accepted for,
\* or frames were acknowledged between the reading of a command's tick and its lock.
AcceptedTickAhead == owner.cause = "InvalidAuthority" => unheard \/ overtaken

\* What the actor holds is what the database accepted first, whatever was lost or
\* changed on the way, and what is committed was planned at its own tick.
IntentIsStored ==
    /\ intent # NoIntent => stored = [frame |-> intent.frame, tick |-> intent.tick]
    /\ ended = "Extraction" => intent.prepared /\ intent.tick = owner.tick

\* No answer contradicts the end of the run, whatever was committed between the
\* request and its answer: Stored is said of a committed extraction only.
StoredIsTrue == \A t \in Transports : "Stored" \in told[t] => ended = "Extraction"

\* Type; what is held and committed is what was stored; nobody is told of a result
\* that is not there.
IntentInv == ExtractionTypeOK /\ IntentIsStored /\ StoredIsTrue

\* The result is written at most once to a transport.
DeliveredOnce == \A t \in Transports : results[t] <= 1

\* A result is consumed only after it was written to the transport it is consumed
\* for and the frame is done, so when the refresh fails behind it the player has
\* been told.
InstalledIsCurrent ==
    [][hall'.consumed /\ ~hall.consumed =>
        results[hall.projection] = 1 /\ owner.stage = "Done"]_vars

=============================================================================
