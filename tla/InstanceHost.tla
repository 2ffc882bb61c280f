---------------------------- MODULE InstanceHost ----------------------------
(***************************************************************************)
(* The combat host: logical sessions (crates/server_app/src/lifecycle.rs), *)
(* the instances and the scheduler that own them (instance.rs), and the    *)
(* connection tasks and routes of the server process (runtime.rs).         *)
(*                                                                         *)
(* One connection task per transport and the tick loop share the runtime   *)
(* state behind one lock, so every handler below is one step.  What runs   *)
(* outside the lock is a step of its own: the connection may be lost at    *)
(* any time, the task may hold one request it read before the loss, and    *)
(* the replaced connection is closed only after the answer was written.    *)
(*                                                                         *)
(* Snapshots, diagnostics and the identity of messages are left out.  Of   *)
(* the input a session holds and its player's combat has taken, only the   *)
(* primary attack is kept, and of its press numbers only whether combat    *)
(* has already taken the latest (`held`, `presses`): that is what a tick   *)
(* can fail on.  SessionIngress models the numbers.                        *)
(***************************************************************************)
EXTENDS Integers, FiniteSets

CONSTANTS
    Owners,          \* authenticated owners, one per ticket hash
    Transports,      \* connections, in the order of nothing: ids are opaque
    OwnerOf,         \* the owner whose ticket a transport presents
    Requests,        \* the messages a client may send
    MaxInstances,    \* bound: instances ever allocated
    Capacity,        \* M02_ARENA_CAPACITY
    FormationTicks,  \* M02_FORMATION_TICKS
    LinkLostTicks,   \* LINK_LOST_TICKS
    MaxTicks         \* bound: scheduler ticks, u64::MAX in the code

Ids == 1 .. MaxInstances
SessionIds == 1 .. Capacity
NoTransport == "NoTransport"
NoInstance == 0

\* An input datagram has the primary attack pressed anew, still held under the
\* press number the session knows, or released.
Inputs == {"Press", "Hold", "Release"}
Kinds == {"Join", "Reconnect", "Leave", "Gameplay"} \cup Inputs

Request == [kind : Kinds, sequence : Nat, prior : SessionIds]

ASSUME HostAssumption ==
    /\ NoTransport \notin Transports
    /\ OwnerOf \in [Transports -> Owners]
    /\ Requests \subseteq Request
    /\ MaxInstances \in Nat
    /\ Capacity \in Nat \ {0}
    /\ FormationTicks \in Nat
    /\ LinkLostTicks \in Nat \ {0}
    /\ MaxTicks \in Nat

\* No session of the owner in a directory
NoSession ==
    [id |-> 0, transport |-> NoTransport, sequence |-> 0,
     phase |-> "NoSession", recall |-> 0, held |-> FALSE]

\* ManagedSession; `recall` is LinkLost.recall_tick, 0 in the other phases
Session ==
    [id : SessionIds, transport : Transports \cup {NoTransport},
     sequence : Nat,  \* TransportBinding.last_control_sequence, 0 if unbound
     phase : {"Connected", "LinkLost", "Recalled", "Dead", "Closed"},
     recall : Nat, held : BOOLEAN]

VARIABLES
    iphase,            \* HostedInstance.phase; "Free" is an id not in the map
    clock,             \* the last step of the shared arena, 0 before it exists
    forming,           \* HostedInstance.formation_ticks_remaining
    players,           \* the shared arena's players, by the session's id
    next_session_id,   \* SessionDirectory.next_session_id, per instance
    sessions,          \* SessionDirectory.sessions, per instance
    owner_index,       \* InstanceScheduler.owner_index
    next_instance_id,
    scheduler_tick,
    server,            \* how far serve_until came
    fault,             \* the error that ended the tick loop
    routes,            \* RuntimeState.routes_by_owner
    connections,       \* the keys of RuntimeState.connections_by_transport
    conn,              \* the connection and the task that serves it
    closes,            \* the replaced connection a task still has to close
    presses,           \* the press numbers of the owner's last session
    outcome            \* history: how the owner's last session ended

instanceVars == <<iphase, clock, forming, players, next_session_id>>
schedulerVars == <<owner_index, next_instance_id, scheduler_tick>>
runtimeVars == <<routes, connections>>
taskVars == <<conn, closes>>
hostVars ==
    <<iphase, clock, forming, players, next_session_id, sessions, owner_index,
      next_instance_id, scheduler_tick, server, fault, routes, connections,
      conn, closes, presses, outcome>>

\* number: is the session's latest press number one its player's combat has
\* taken; fired: did combat see the attack held on its last step; relinked: has
\* the session come to another transport since that press.  A client that kept
\* its button down then repeats the number, and so may one that was started
\* again and numbers from one.
NoPress == [number |-> "None", fired |-> FALSE, relinked |-> FALSE]

HostInit ==
    /\ iphase = [i \in Ids |-> "Free"]
    /\ clock = [i \in Ids |-> 0]
    /\ forming = [i \in Ids |-> FormationTicks]
    /\ players = [i \in Ids |-> [p \in SessionIds |-> "Absent"]]
    /\ next_session_id = [i \in Ids |-> 1]
    /\ sessions = [i \in Ids |-> [o \in Owners |-> NoSession]]
    /\ owner_index = [o \in Owners |-> NoInstance]
    /\ next_instance_id = 1
    /\ scheduler_tick = 0
    /\ server = "Serving"
    /\ fault = "None"
    /\ routes = [o \in Owners |-> NoTransport]
    /\ connections = {}
    /\ conn = [t \in Transports |-> "None"]
    /\ closes = [t \in Transports |-> NoTransport]
    /\ presses = [o \in Owners |-> NoPress]
    /\ outcome = [o \in Owners |-> "None"]

-----------------------------------------------------------------------------
(* Reading the state *)

Members(i) == {o \in Owners : sessions[i][o] # NoSession}
SimulationActive(s) == s.phase \in {"Connected", "LinkLost"}
IsResolved(s) == s.phase \in {"Recalled", "Dead", "Closed"}

\* Mutant of HasCapacity: a seat is free even in an arena that has formed.
HasCapacityOnceFormed(i) ==
    iphase[i] = "Active" /\ Cardinality(Members(i)) < Capacity

\* HostedInstance::has_capacity
HasCapacity(i) ==
    /\ iphase[i] = "Active"
    /\ clock[i] = 0
    /\ Cardinality(Members(i)) < Capacity

\* ManagedSession::require_active_transport
Bound(s, t) == s.transport = t

\* A request that reaches its session: the owner's, in the owner's instance
SessionOf(o) ==
    IF owner_index[o] = NoInstance THEN NoSession ELSE sessions[owner_index[o]][o]

\* The tick a link is lost at.  Before the shared arena exists the code takes
\* the session's own arena, which the host never steps: its tick is 0 too.
ServerTick(i) == clock[i]

\* Mutants of LinkLost: the input stays held; the deadline is not moved to the
\* shared clock.
LinkLostKeepsInput(s, i) ==
    [s EXCEPT !.phase = "LinkLost", !.transport = NoTransport, !.sequence = 0,
              !.recall = ServerTick(i) + LinkLostTicks]
LinkLostOnLocalClock(s, i) ==
    [s EXCEPT !.phase = "LinkLost", !.transport = NoTransport, !.sequence = 0,
              !.recall = LinkLostTicks, !.held = FALSE]

\* enter_link_lost, transport_lost_at_shared_tick and commit_leave
LinkLost(s, i) ==
    [s EXCEPT !.phase = "LinkLost", !.transport = NoTransport, !.sequence = 0,
              !.recall = ServerTick(i) + LinkLostTicks, !.held = FALSE]

-----------------------------------------------------------------------------
(* A request, handled under the lock *)

\* The task of `t` runs the handler for `r`: either the connection is up, or
\* it was lost after the task had read `r`.
Handles(t, r) ==
    /\ fault = "None"
    /\ conn[t] \in {"Open", "Late"}
    /\ closes[t] = NoTransport
    /\ r \in Requests

\* The loop goes round again; a connection that is down ends it.
LoopsOn(t) == conn' = [conn EXCEPT ![t] = IF @ = "Late" THEN "Closed" ELSE @]

SetSession(i, o, s) == sessions' = [sessions EXCEPT ![i][o] = s]

\* handle_reliable fails: run_connection_loop returns the error and the task
\* goes on to detach_transport.
RefusalCode(t, r) ==
    LET o == OwnerOf[t] IN
    CASE r.kind \notin Inputs \cup {"Gameplay"} /\ server # "Serving" ->
           "SchedulerDraining"
      [] owner_index[o] = NoInstance /\ r.kind \notin Inputs \cup {"Join"} ->
           "OwnerNotAssigned"
      [] r.kind = "Gameplay" /\ ~Bound(SessionOf(o), t) -> "StaleTransport"
      [] r.kind = "Gameplay" /\ SessionOf(o).phase # "Connected" ->
           "IngressUnavailable"
      [] OTHER -> "None"

Refuse(t, r) ==
    /\ Handles(t, r)
    /\ RefusalCode(t, r) # "None"
    /\ conn' = [conn EXCEPT ![t] = "Closed"]
    /\ UNCHANGED <<instanceVars, schedulerVars, sessions, server, fault,
                   runtimeVars, closes, presses, outcome>>

\* prepare_reconnect and the session id check of reconnect; prepare_leave and
\* validate_control_sequence; lifecycle_rejection_code.  A Closed session is
\* not met here: sessions are closed only once the scheduler drains.
RejectionCode(t, r) ==
    LET s == SessionOf(OwnerOf[t]) IN
    CASE r.kind = "Reconnect" /\ r.prior # s.id -> "SessionNotFound"
      [] r.kind = "Leave" /\ ~Bound(s, t) -> "Unauthorized"
      [] Bound(s, t) /\ r.sequence <= s.sequence -> "StaleSequence"
      [] r.kind = "Leave" /\ s.phase # "Connected" -> "SessionResolved"
      [] OTHER -> "None"

\* A control frame of an owner the scheduler knows
Controls(t, r) ==
    /\ Handles(t, r)
    /\ r.kind \in {"Join", "Reconnect", "Leave"}
    /\ server = "Serving"
    /\ owner_index[OwnerOf[t]] # NoInstance

\* SessionDirectory::rejected_response: a typed answer, nothing changes
Reject(t, r) ==
    /\ Controls(t, r)
    /\ RejectionCode(t, r) # "None"
    /\ LoopsOn(t)
    /\ UNCHANGED <<instanceVars, schedulerVars, sessions, server, fault,
                   runtimeVars, closes, presses, outcome>>

\* ManagedSession::commit_reconnect
Rebind(s, t, r) ==
    [s EXCEPT !.transport = t, !.sequence = r.sequence,
              !.phase = IF @ = "LinkLost" THEN "Connected" ELSE @,
              !.recall = 0]

\* What prepare_reconnect returns: the transport that loses the binding
Invalidated(s, t) == IF s.transport = t THEN NoTransport ELSE s.transport

\* Join of a known owner, or Reconnect; then handle_reliable's bookkeeping:
\* the old connection leaves the maps, the new one becomes the route.
Reattach(t, r) ==
    LET o   == OwnerOf[t]
        s   == SessionOf(o)
        old == Invalidated(s, t)
    IN  /\ Controls(t, r)
        /\ r.kind \in {"Join", "Reconnect"}
        /\ RejectionCode(t, r) = "None"
        /\ SetSession(owner_index[o], o, Rebind(s, t, r))
        /\ connections' = (connections \ {old}) \cup {t}
        /\ routes' = [routes EXCEPT ![o] = t]
        /\ closes' = [closes EXCEPT ![t] =
                         IF old \in connections THEN old ELSE NoTransport]
        /\ LoopsOn(t)
        /\ presses' = [presses EXCEPT ![o].relinked = @ \/ old # NoTransport
                                                       \/ s.phase = "LinkLost"]
        /\ UNCHANGED <<instanceVars, schedulerVars, server, fault, outcome>>

\* SessionDirectory::leave and synchronize_shared_control_response, which
\* moves the deadline to the shared arena's clock; the leaving connection is
\* taken out of the maps and closed by its own task.
Leave(t, r) ==
    LET o == OwnerOf[t]
        i == owner_index[o]
    IN  /\ Controls(t, r)
        /\ r.kind = "Leave"
        /\ RejectionCode(t, r) = "None"
        /\ SetSession(i, o, LinkLost(SessionOf(o), i))
        /\ connections' = connections \ {t}
        /\ routes' = IF t \in connections /\ routes[o] = t
                     THEN [routes EXCEPT ![o] = NoTransport]
                     ELSE routes
        /\ closes' = [closes EXCEPT ![t] =
                         IF t \in connections THEN t ELSE NoTransport]
        /\ LoopsOn(t)
        /\ UNCHANGED <<instanceVars, schedulerVars, server, fault, presses, outcome>>

\* The oldest instance with a free seat, or the next one to allocate
Admitting ==
    IF \E i \in Ids : HasCapacity(i)
    THEN CHOOSE i \in Ids : HasCapacity(i) /\ \A j \in Ids : HasCapacity(j) => i <= j
    ELSE next_instance_id

\* Join of an unknown owner: admit_or_route_control, SessionDirectory::join
\* and ManagedSession::new.  The phase Allocating lasts only inside this step.
Join(t, r) ==
    LET o == OwnerOf[t]
        i == Admitting
    IN  /\ Handles(t, r)
        /\ r.kind = "Join"
        /\ server = "Serving"
        /\ owner_index[o] = NoInstance
        /\ i \in Ids
        /\ iphase' = [iphase EXCEPT ![i] = "Active"]
        /\ SetSession(i, o, [id |-> next_session_id[i], transport |-> t,
                             sequence |-> r.sequence, phase |-> "Connected",
                             recall |-> 0, held |-> FALSE])
        /\ next_session_id' = [next_session_id EXCEPT ![i] = @ + 1]
        /\ owner_index' = [owner_index EXCEPT ![o] = i]
        /\ next_instance_id' = IF i = next_instance_id THEN i + 1
                                                       ELSE next_instance_id
        /\ connections' = connections \cup {t}
        /\ routes' = [routes EXCEPT ![o] = t]
        /\ LoopsOn(t)
        /\ presses' = [presses EXCEPT ![o] = NoPress]
        /\ outcome' = [outcome EXCEPT ![o] = "None"]
        /\ UNCHANGED <<clock, forming, players, scheduler_tick, server, fault,
                       closes>>

\* submit_input and handle_gameplay_reliable of the bound transport.  The
\* client numbers a press anew unless its attack is still held: it repeats the
\* latest number only while the session has it held, or after a change of the
\* transport.
Play(t, r) ==
    LET o == OwnerOf[t]
        s == SessionOf(o)
    IN  /\ Handles(t, r)
        /\ r.kind \in Inputs \cup {"Gameplay"}
        /\ Bound(s, t)
        /\ s.phase = "Connected"
        /\ r.kind = "Hold" => /\ presses[o].number # "None"
                              /\ s.held \/ presses[o].relinked
        /\ SetSession(owner_index[o], o,
                      [s EXCEPT !.held = IF r.kind = "Gameplay" THEN @
                                         ELSE r.kind # "Release"])
        /\ presses' = IF r.kind # "Press" THEN presses
                      ELSE [presses EXCEPT ![o].number = "New", ![o].relinked = FALSE]
        /\ LoopsOn(t)
        /\ UNCHANGED <<instanceVars, schedulerVars, server, fault, runtimeVars,
                       closes, outcome>>

\* A datagram that submit_input refuses is dropped and the loop goes on.
DropInput(t, r) ==
    LET o == OwnerOf[t] IN
    /\ Handles(t, r)
    /\ r.kind \in Inputs
    /\ ~Bound(SessionOf(o), t) \/ SessionOf(o).phase # "Connected"
    /\ LoopsOn(t)
    /\ UNCHANGED <<instanceVars, schedulerVars, sessions, server, fault,
                   runtimeVars, closes, presses, outcome>>

-----------------------------------------------------------------------------
(* The connection task outside the lock *)

\* serve_connection: the handshake is accepted and an identity is reserved.
Connect(t) ==
    /\ fault = "None"
    /\ server = "Serving"
    /\ conn[t] = "None"
    /\ conn' = [conn EXCEPT ![t] = "Open"]
    /\ UNCHANGED <<instanceVars, schedulerVars, sessions, server, fault,
                   runtimeVars, closes, presses, outcome>>

\* External: the peer goes away, the network fails, or a stream is reset.
Drop(t) ==
    /\ fault = "None"
    /\ conn[t] = "Open"
    /\ conn' = [conn EXCEPT ![t] = "Late"]
    /\ UNCHANGED <<instanceVars, schedulerVars, sessions, server, fault,
                   runtimeVars, closes, presses, outcome>>

\* The answer is written, then the replaced connection is closed; a leaving
\* task closes its own.
CloseReplaced(t) ==
    LET old == closes[t] IN
    /\ fault = "None"
    /\ old # NoTransport
    /\ conn[t] = "Open"
    /\ conn' = [conn EXCEPT ![old] = IF old = t THEN "Closed"
                                     ELSE IF @ = "Open" THEN "Late" ELSE @]
    /\ closes' = [closes EXCEPT ![t] = NoTransport]
    /\ UNCHANGED <<instanceVars, schedulerVars, sessions, server, fault,
                   runtimeVars, presses, outcome>>

\* The answer cannot be written: the loop returns before it closes anything.
AnswerFails(t) ==
    /\ fault = "None"
    /\ closes[t] # NoTransport
    /\ conn' = [conn EXCEPT ![t] = "Closed"]
    /\ closes' = [closes EXCEPT ![t] = NoTransport]
    /\ UNCHANGED <<instanceVars, schedulerVars, sessions, server, fault,
                   runtimeVars, presses, outcome>>

\* Mutant of DetachLoses: the route is left to the next handoff.
DetachKeepsRoute(t) == FALSE

\* detach_transport: was this transport the owner's route?
DetachLoses(t) == routes[OwnerOf[t]] = t

\* RuntimeState::detach_transport and InstanceScheduler::transport_lost, whose
\* errors (the session is not bound to this transport, or is resolved) are
\* only logged.
Detach(t) ==
    LET o == OwnerOf[t]
        i == owner_index[o]
    IN  /\ fault = "None"
        /\ conn[t] \in {"Late", "Closed"}
        /\ closes[t] = NoTransport
        /\ conn' = [conn EXCEPT ![t] = "Done"]
        /\ connections' = connections \ {t}
        /\ routes' = IF DetachLoses(t) THEN [routes EXCEPT ![o] = NoTransport]
                                       ELSE routes
        /\ sessions' =
             IF /\ DetachLoses(t)
                /\ Bound(SessionOf(o), t)
                /\ SessionOf(o).phase = "Connected"
             THEN [sessions EXCEPT ![i][o] = LinkLost(@, i)]
             ELSE sessions
        /\ UNCHANGED <<instanceVars, schedulerVars, server, fault, closes,
                       presses, outcome>>

-----------------------------------------------------------------------------
(* The tick: every instance steps its arena once, deaths and deadlines are   *)
(* resolved, and resolved sessions nobody is routed to are retired.          *)

\* finalize_roster_if_due says no
Waits(i) ==
    /\ clock[i] = 0
    /\ \/ Members(i) = {}
       \/ Cardinality(Members(i)) < Capacity /\ forming[i] > 0

Steps(i) == iphase[i] = "Active" /\ ~Waits(i)

\* The players of the arena that steps; the first step builds it.
Roster(i) ==
    IF clock[i] > 0 THEN players[i]
    ELSE [p \in SessionIds |->
            IF \E o \in Members(i) : sessions[i][o].id = p THEN "Alive" ELSE "Absent"]

Alive(i) == {p \in SessionIds : Roster(i)[p] = "Alive"}

\* SharedAuthoritativeArena::step wants one input per living player.
InputsComplete(i) ==
    {sessions[i][o].id : o \in {m \in Members(i) : SimulationActive(sessions[i][m])}}
        = Alive(i)

\* The players after the step, in which those of `d` lose their last health
Fallen(i, d) ==
    [p \in SessionIds |-> IF p \in d THEN "Dead" ELSE Roster(i)[p]]

\* Mutant of Recalls: the deadline comes a tick early.
RecallsEarly(s, i, d) ==
    /\ Fallen(i, d)[s.id] # "Dead"
    /\ s.phase = "LinkLost"
    /\ clock[i] + 2 >= s.recall

\* resolve_shared_post_simulation: death first, then the inclusive deadline
Recalls(s, i, d) ==
    /\ Fallen(i, d)[s.id] # "Dead"
    /\ s.phase = "LinkLost"
    /\ clock[i] + 1 >= s.recall

\* A session that is over has no transport.
Ended(s, phase) ==
    [s EXCEPT !.phase = phase, !.transport = NoTransport, !.sequence = 0, !.recall = 0]

Resolved(s, i, d) ==
    IF Recalls(s, i, d) THEN Ended(s, "Recalled")
    ELSE IF Fallen(i, d)[s.id] = "Dead" THEN Ended(s, "Dead")
    ELSE s

\* The session of `o` after this tick's resolution
Ticked(i, o, d) ==
    IF o \in Members(i) /\ Steps(i) THEN Resolved(sessions[i][o], i, d)
                                    ELSE sessions[i][o]

\* retire_resolved_excluding, with the routed owners retained
Retires(i, o, d) ==
    /\ o \in Members(i)
    /\ IsResolved(Ticked(i, o, d))
    /\ routes[o] = NoTransport

\* An instance all of whose sessions retire is closed.
Closes(i, d) ==
    /\ iphase[i] = "Active"
    /\ Members(i) # {}
    /\ \A o \in Members(i) : Retires(i, o, d)

\* The errors of a host whose parts disagree: IncompleteInputSet,
\* SharedPlayerMissing, the PlayerUnavailable of commit_automatic_recall_at,
\* OwnerIndexDrift.
HostFails(i, d) ==
    \/ Steps(i) /\ ~InputsComplete(i)
    \/ /\ Steps(i)
       /\ \E o \in Members(i) : Roster(i)[sessions[i][o].id] = "Absent"
    \/ /\ Steps(i)
       /\ \E o \in Members(i) : /\ Recalls(sessions[i][o], i, d)
                                /\ Fallen(i, d)[sessions[i][o].id] # "Alive"
    \/ \E o \in Members(i) : Retires(i, o, d) /\ owner_index[o] # i

\* Combat::validate_sequence: a rising edge under a number already taken
RepeatsPress(s, o) ==
    s.held /\ ~presses[o].fired /\ presses[o].number = "Taken"

\* The step of the arena fails with the error of one player's combat.
CombatFails(i) ==
    /\ Steps(i)
    /\ \E o \in Members(i) : /\ SimulationActive(sessions[i][o])
                             /\ RepeatsPress(sessions[i][o], o)

\* The error a tick ends in, for the deaths d
TickFault(d) ==
    IF \E i \in Ids : HostFails(i, d[i]) THEN "HostState"
    ELSE IF \E i \in Ids : CombatFails(i) THEN "MissingPress"
    ELSE "None"

\* take_shared_input hands the input over and combat keeps what it was given.
Takes(o) ==
    LET s == SessionOf(o) IN
    /\ owner_index[o] # NoInstance
    /\ Steps(owner_index[o])
    /\ SimulationActive(s)
    /\ ~RepeatsPress(s, o)

\* RuntimeState::tick_and_dispatch.  A closed instance leaves the map and its
\* state with it; its id is never given out again.
Tick ==
    /\ fault = "None"
    /\ server = "Serving"
    /\ scheduler_tick < MaxTicks
    /\ scheduler_tick' = scheduler_tick + 1
    /\ \E deaths \in [Ids -> SUBSET SessionIds] :
         LET D(i) == deaths[i] IN
         /\ \A i \in Ids : D(i) \subseteq (IF Steps(i) THEN Alive(i) ELSE {})
         /\ fault' = TickFault(deaths)
         /\ forming' = [i \in Ids |->
              IF iphase[i] = "Active" /\ Waits(i) /\ Members(i) # {}
              THEN forming[i] - 1
              ELSE IF Closes(i, D(i)) THEN FormationTicks ELSE forming[i]]
         /\ clock' = [i \in Ids |->
              IF Closes(i, D(i)) THEN 0
              ELSE IF Steps(i) THEN clock[i] + 1 ELSE clock[i]]
         /\ next_session_id' = [i \in Ids |->
              IF Closes(i, D(i)) THEN 1 ELSE next_session_id[i]]
         /\ players' = [i \in Ids |->
              IF Closes(i, D(i)) THEN [p \in SessionIds |-> "Absent"]
              ELSE IF ~Steps(i) THEN players[i]
              ELSE [p \in SessionIds |->
                     IF \E o \in Members(i) : /\ sessions[i][o].id = p
                                              /\ Recalls(sessions[i][o], i, D(i))
                     THEN "Recalled" ELSE Fallen(i, D(i))[p]]]
         /\ sessions' = [i \in Ids |-> [o \in Owners |->
              IF Retires(i, o, D(i)) \/ Closes(i, D(i)) THEN NoSession
              ELSE Ticked(i, o, D(i))]]
         /\ owner_index' = [o \in Owners |->
              IF \E i \in Ids : Retires(i, o, D(i)) THEN NoInstance
                                                    ELSE owner_index[o]]
         /\ iphase' = [i \in Ids |-> IF Closes(i, D(i)) THEN "Free" ELSE iphase[i]]
         /\ outcome' = [o \in Owners |->
              LET i == owner_index[o] IN
              IF i # NoInstance /\ IsResolved(Ticked(i, o, D(i)))
              THEN Ticked(i, o, D(i)).phase ELSE outcome[o]]
    /\ presses' = [o \in Owners |->
         IF ~Takes(o) THEN presses[o]
         ELSE [presses[o] EXCEPT !.number = IF @ = "New" THEN "Taken" ELSE @,
                                 !.fired = SessionOf(o).held]]
    /\ UNCHANGED <<next_instance_id, server, runtimeVars, taskVars>>

-----------------------------------------------------------------------------
(* Shutdown: serve_until leaves its loop, so no tick follows *)

\* InstanceScheduler::begin_shutdown, close_for_shutdown of every session
BeginShutdown ==
    /\ fault = "None"
    /\ server = "Serving"
    /\ server' = "Draining"
    /\ iphase' = [i \in Ids |-> IF iphase[i] = "Active" THEN "Draining" ELSE iphase[i]]
    /\ sessions' = [i \in Ids |-> [o \in Owners |->
         IF o \in Members(i)
         THEN [Ended(sessions[i][o], "Closed") EXCEPT !.held = FALSE]
         ELSE NoSession]]
    /\ UNCHANGED <<clock, forming, players, next_session_id, schedulerVars,
                   fault, runtimeVars, taskVars, presses, outcome>>

\* The clients are told and the endpoint closes every connection.
CloseEndpoint ==
    /\ server = "Draining"
    /\ server' = "Closed"
    /\ conn' = [t \in Transports |-> IF conn[t] = "Open" THEN "Late" ELSE conn[t]]
    /\ UNCHANGED <<instanceVars, schedulerVars, sessions, fault, runtimeVars,
                   closes, presses, outcome>>

\* The workers have been joined; finish_shutdown clears every map.
FinishShutdown ==
    /\ server = "Closed"
    /\ \A t \in Transports : conn[t] \in {"None", "Done"}
    /\ server' = "Finished"
    /\ iphase' = [i \in Ids |-> "Free"]
    /\ clock' = [i \in Ids |-> 0]
    /\ forming' = [i \in Ids |-> FormationTicks]
    /\ players' = [i \in Ids |-> [p \in SessionIds |-> "Absent"]]
    /\ next_session_id' = [i \in Ids |-> 1]
    /\ sessions' = [i \in Ids |-> [o \in Owners |-> NoSession]]
    /\ owner_index' = [o \in Owners |-> NoInstance]
    /\ routes' = [o \in Owners |-> NoTransport]
    /\ connections' = {}
    /\ UNCHANGED <<next_instance_id, scheduler_tick, fault, taskVars, presses,
                   outcome>>

\* The process has exited, or serve_until returned the error of a tick.
Finished == (server = "Finished" \/ fault # "None") /\ UNCHANGED hostVars

TaskStep(t) ==
    \/ CloseReplaced(t)
    \/ AnswerFails(t)
    \/ Detach(t)

HostNext ==
    \/ \E t \in Transports, r \in Requests :
         \/ Refuse(t, r) \/ Reject(t, r) \/ Reattach(t, r) \/ Leave(t, r)
         \/ Join(t, r) \/ Play(t, r) \/ DropInput(t, r)
    \/ \E t \in Transports : Connect(t) \/ Drop(t) \/ TaskStep(t)
    \/ Tick
    \/ BeginShutdown \/ CloseEndpoint \/ FinishShutdown
    \/ Finished

HostSpec == HostInit /\ [][HostNext]_hostVars

\* The tick loop runs as long as the server does, and the runtime polls every
\* task whose connection ended or whose answer is due.  Nothing is assumed of
\* the clients.
HostFairness ==
    /\ WF_hostVars(Tick)
    /\ \A t \in Transports : WF_hostVars(TaskStep(t))

HostFairSpec == HostSpec /\ HostFairness

-----------------------------------------------------------------------------
(* Properties *)

HostTypeOK ==
    /\ iphase \in [Ids -> {"Free", "Active", "Draining"}]
    /\ clock \in [Ids -> Nat]
    /\ forming \in [Ids -> 0 .. FormationTicks]
    /\ players \in [Ids -> [SessionIds -> {"Absent", "Alive", "Dead", "Recalled"}]]
    /\ next_session_id \in [Ids -> 1 .. Capacity + 1]
    /\ sessions \in [Ids -> [Owners -> Session \cup {NoSession}]]
    /\ owner_index \in [Owners -> Ids \cup {NoInstance}]
    /\ next_instance_id \in 1 .. MaxInstances + 1
    /\ scheduler_tick \in 0 .. MaxTicks
    /\ server \in {"Serving", "Draining", "Closed", "Finished"}
    /\ fault \in {"None", "HostState", "MissingPress"}
    /\ routes \in [Owners -> Transports \cup {NoTransport}]
    /\ connections \subseteq Transports
    /\ conn \in [Transports -> {"None", "Open", "Late", "Closed", "Done"}]
    /\ closes \in [Transports -> Transports \cup {NoTransport}]
    /\ outcome \in [Owners -> {"None", "Recalled", "Dead"}]

PressTypeOK ==
    presses \in [Owners -> [number : {"None", "New", "Taken"}, fired : BOOLEAN,
                            relinked : BOOLEAN]]

\* No order of joins, losses, handoffs, deaths and retirements makes the host
\* itself fail a tick: the living players of a formed arena are the sessions
\* that still simulate, nobody sits in an arena without a player, a recall
\* finds its player alive, and the two owner stores agree.
HostNeverFails == fault # "HostState"

\* A tick fails, which ends serve_until for every player of the process, only
\* on a press number repeated by a client whose session came to another
\* transport: never on the host's own state, and never on the input of a player
\* who kept the connection.
TickFailsOnlyOnRepeat ==
    /\ HostNeverFails
    /\ fault = "MissingPress" =>
         \E o \in Owners : /\ presses[o].number = "Taken"
                           /\ ~presses[o].fired
                           /\ presses[o].relinked

\* The scheduler's owner index and the directories name the same sessions.
OwnerIndexAgrees ==
    \A o \in Owners, i \in Ids : owner_index[o] = i <=> o \in Members(i)

\* A connected character is steered by exactly the transport its owner is
\* routed to; a character whose link is lost has no transport, no route and no
\* input left over from the one it had.
OneVoicePerCharacter ==
    \A o \in Owners : owner_index[o] # NoInstance =>
        LET s == SessionOf(o) IN
        /\ s.phase = "Connected" =>
             /\ s.transport # NoTransport
             /\ routes[o] = s.transport
             /\ s.transport \in connections
        /\ s.phase = "LinkLost" =>
             /\ s.transport = NoTransport
             /\ routes[o] = NoTransport
             /\ ~s.held

\* No route outlives the task that would remove it: a route left behind would
\* keep its owner's resolved session from ever being retired.
RoutesAreServed ==
    \A o \in Owners : routes[o] # NoTransport =>
        /\ routes[o] \in connections
        /\ OwnerOf[routes[o]] = o
        /\ conn[routes[o]] \in {"Open", "Late", "Closed"}

\* A lost link is resolved on time: no character is still waiting on the tick
\* of its deadline, and none waits longer than the grace the code gives it.
DeadlineKept ==
    \A i \in Ids : \A o \in Members(i) : sessions[i][o].phase = "LinkLost" =>
        /\ clock[i] < sessions[i][o].recall
        /\ sessions[i][o].recall <= clock[i] + LinkLostTicks

\* What every handler under the runtime lock finds: the owner stores agree,
\* routes have a task, and lost links are counted on their arena's clock.
HostInv ==
    HostTypeOK /\ PressTypeOK /\ OwnerIndexAgrees /\ RoutesAreServed /\ DeadlineKept

\* A character is recalled on the very tick of its deadline, while its link is
\* lost: never a connected one, never early, never late.
RecallOnDeadline ==
    [][\A o \in Owners :
         outcome'[o] = "Recalled" /\ outcome[o] # "Recalled" =>
            /\ SessionOf(o).phase = "LinkLost"
            /\ clock[owner_index[o]] + 1 = SessionOf(o).recall]_hostVars

\* While any connection of the owner may still speak for it
HasTask(o) ==
    \E t \in Transports : OwnerOf[t] = o /\ conn[t] \in {"Open", "Late", "Closed"}

\* The ticks until the owner's session is retired: one once it is over, else
\* those until its arena forms and then until the deadline
TicksToRetire(o) ==
    LET i == owner_index[o]
        s == SessionOf(o)
    IN  IF IsResolved(s) THEN 1
        ELSE (IF clock[i] = 0 THEN forming[i] ELSE 0) + s.recall - clock[i]

TicksEnough(o) == scheduler_tick + TicksToRetire(o) <= MaxTicks

\* An owner who goes away and stays away leaves nothing behind: the session is
\* recalled or dies, and is retired, unless the server drains, a tick fails or
\* the tick counter runs out first.
AbandonedSessionRetires ==
    \A o \in Owners :
        (owner_index[o] # NoInstance /\ ~HasTask(o) /\ TicksEnough(o))
            ~> (\/ owner_index[o] = NoInstance \/ HasTask(o)
                \/ server # "Serving" \/ fault # "None")

=============================================================================
