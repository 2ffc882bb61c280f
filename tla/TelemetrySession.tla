-------------------------- MODULE TelemetrySession --------------------------
(* The logical sessions telemetry keeps of one account.                      *)
(*   core_private_telemetry_session.rs   the coordinator of the process      *)
(*   persistence telemetry_sources.rs    its transactions                    *)
(*   core_private_life_server.rs         the connections that hold leases    *)
(*   client_bevy native_crash_report.rs  the marker of a crashed client      *)
(* The coordinator's lock is held over its calls (op).  A call has a second  *)
(* to answer.  One that is given up at its commit may be committed all the   *)
(* same (late): until it is settled it keeps its locks, so no later write of *)
(* its session, and no second begin, overtakes it, but reads may.            *)
(* Platform, build and region of a session, and the signature of a crash are *)
(* left out.  The server's clock does not go back; the client's, from which  *)
(* the time of a crash is read, shows anything.                              *)
EXTENDS Naturals, FiniteSets

CONSTANTS
    MaxConnections,   \* bound: connections of the account
    MaxLosses,        \* bound: calls that fail or are given up
    MaxRestarts,      \* bound: starts of the server after the first
    MaxTime           \* bound on the clock

ASSUME TelemetryAssumption ==
    /\ {MaxConnections, MaxLosses, MaxRestarts} \subseteq Nat
    /\ MaxTime \in Nat \ {0}

VARIABLES
    now,        \* the clock, in milliseconds of the code
    ids,        \* ids given out (uuid v7)
    rows,       \* core_telemetry_sessions_v1, each with its latest event
    crashes,    \* crash_outbox_events_v1
    late,       \* writes nobody waits for that are not settled
    server,     \* the process: Running, Stopping (begin_shutdown) or Down
    tracked,    \* TrackedLogicalSession of the account
    op,         \* the operation that holds the coordinator's lock
    conns,      \* the connection tasks and their leases
    client,     \* the client program, its crash marker, and as a history the
                \* crashes it reported before the server's clock showed their time
    losses,
    restarts

telemetryVars ==
    <<now, ids, rows, crashes, late, server, tracked, op, conns, client, losses, restarts>>

Conns == 1 .. MaxConnections
Stages == {"Idle", "Dialing", "Attached", "Serving", "Reporting", "Leaving", "Done"}

NoCall == [id |-> 0, kind |-> "None", session |-> 0, time |-> 0]
NoOp == [step |-> "None", conn |-> 0, call |-> NoCall, attempt |-> 0, found |-> 0,
         again |-> FALSE, calm |-> FALSE]
Untracked == [session |-> 0, origin |-> 0, active |-> 0, next |-> 0, connected |-> FALSE]
NoConn == [at |-> "Idle", lease |-> 0, clean |-> FALSE, report |-> NoCall]
Gone == [NoConn EXCEPT !.at = "Done"]
NoMarker == [id |-> 0, time |-> 0]

-----------------------------------------------------------------------------
(* The store: one serializable transaction per call. *)

OpenRows(R) == {r \in R : r.end = 0}
RowOf(R, s) == CHOOSE r \in R : r.id = s

\* Mutant of Within: the time of a crash is not compared with its session.
WithinAny(r, t) == TRUE

Within(r, t) == t >= r.start /\ (r.end # 0 => t <= r.end)

\* plan_session_observation
Permitted(r, c) ==
    /\ c.time >= r.at
    /\ c.kind = "Disconnected" => r.head # "Disconnected"
    /\ c.kind = "Reconnected" => r.head = "Disconnected"

Result(c) ==
    CASE c.kind = "Begin" ->
            IF \E r \in rows : r.id = c.session THEN "Ok"
            ELSE IF OpenRows(rows) # {} THEN "OpenSessionConflict" ELSE "Ok"
      [] c.kind = "Crash" ->
            IF ~Within(RowOf(rows, c.session), c.time) THEN "InvalidTransition"
            ELSE IF \E k \in crashes : k.id = c.id /\ k # c THEN "IdempotencyConflict"
            ELSE "Ok"
      [] OTHER ->
            LET r == RowOf(rows, c.session) IN
            IF c.id \in r.seen THEN "Ok"
            ELSE IF r.end # 0 THEN "SessionEnded"
            ELSE IF Permitted(r, c) THEN "Ok" ELSE "InvalidTransition"

\* What a session is after an observation that is not a repetition
Observed(r, c) ==
    [r EXCEPT !.head = c.kind, !.at = c.time, !.seen = @ \cup {c.id},
              !.end = IF c.kind = "Ended" THEN c.time ELSE 0]

Begun(c) == [id |-> c.session, start |-> c.time, end |-> 0, head |-> "Started",
             at |-> c.time, seen |-> {c.id}]

\* The transaction of call c; a repetition changes nothing.
Commit(c) ==
    /\ crashes' = IF c.kind = "Crash" /\ Result(c) = "Ok" THEN crashes \cup {c} ELSE crashes
    /\ rows' = IF c.kind = "Crash" \/ Result(c) # "Ok" \/ (\E r \in rows : c.id \in r.seen)
               THEN rows
               ELSE IF c.kind = "Begin" THEN rows \cup {Begun(c)}
               ELSE LET r == RowOf(rows, c.session) IN (rows \ {r}) \cup {Observed(r, c)}

\* Locks a write that is not settled still holds
Blocked(c) ==
    \E d \in late : d.session = c.session \/ (c.kind = "Begin" /\ d.kind = "Begin")

\* The transaction of c may have come to its commit: it does not wait for a lock
\* and its checks found no error, which would have rolled it back.
Committing(c) == ~Blocked(c) /\ Result(c) = "Ok"

\* The writes that may be committed once nobody waits for c
Abandoned(c) == IF Committing(c) THEN late \cup {c} ELSE late

\* A write nobody waits for is committed after all, or rolled back.
SettleLate(c) ==
    /\ c \in late
    /\ late' = late \ {c}
    /\ \/ Commit(c)
       \/ UNCHANGED <<rows, crashes>>
    /\ UNCHANGED <<now, ids, server, tracked, op, conns, client, losses, restarts>>

-----------------------------------------------------------------------------
(* Steps of an operation *)

\* The operation o goes on with a write; its id and time are new.
Call(o, step, kind, session) ==
    /\ op' = [o EXCEPT !.step = step, !.attempt = 1,
                       !.call = [id |-> ids + 1, kind |-> kind, time |-> now,
                                 session |-> IF kind = "Begin" THEN ids + 1 ELSE session]]
    /\ ids' = ids + 1

\* attach ends: the connection goes on, with a lease or without.
Leased(g) ==
    /\ op' = NoOp
    /\ conns' = [conns EXCEPT ![op.conn].at = "Attached", ![op.conn].lease = g]

Accepts(c, r) == r = "Ok" \/ (r = "SessionEnded" /\ c.kind = "Ended")

\* attach_inner: the account was not tracked
Track(session, origin) ==
    /\ tracked' = [session |-> session, origin |-> origin, active |-> 1, next |-> 2,
                   connected |-> TRUE]
    /\ Leased(1)

\* Mutant of Reattached: the lease is given although Reconnected was not stored.
ReattachedAnyway(r) ==
    /\ op.step = "Reattach"
    /\ LET g == tracked.next - 1 IN
       tracked' = [tracked EXCEPT !.active = g, !.connected = TRUE] /\ Leased(g)
    /\ UNCHANGED <<ids, server>>

\* attach_tracked, after its observation
Reattached(r) ==
    /\ op.step = "Reattach"
    /\ LET g == tracked.next - 1 IN
       IF Accepts(op.call, r)
       THEN tracked' = [tracked EXCEPT !.active = g, !.connected = TRUE] /\ Leased(g)
       ELSE UNCHANGED tracked /\ Leased(0)
    /\ UNCHANGED <<ids, server>>

\* recover_open, after Reconnected
Reopened(r) ==
    /\ op.step = "Reopen"
    /\ IF Accepts(op.call, r) THEN Track(op.found, op.found)
                              ELSE UNCHANGED tracked /\ Leased(0)
    /\ UNCHANGED <<ids, server>>

\* recover_open, after the orphan was ended
Closed(r) ==
    /\ op.step = "Close"
    /\ IF Accepts(op.call, r) THEN Call(op, "Start", "Begin", 0) /\ UNCHANGED conns
                              ELSE Leased(0) /\ UNCHANGED ids
    /\ UNCHANGED <<tracked, server>>

\* start_new and start_new_once; found is the orphan that was closed before
Started(r) ==
    /\ op.step = "Start"
    /\ IF Accepts(op.call, r)
       THEN Track(op.call.session, IF op.found # 0 THEN op.found ELSE op.call.session)
       ELSE /\ UNCHANGED tracked
            /\ IF r = "OpenSessionConflict" /\ op.found = 0
               THEN op' = [op EXCEPT !.step = "LoadOpen", !.again = TRUE, !.call = NoCall]
                    /\ UNCHANGED conns
               ELSE Leased(0)
    /\ UNCHANGED <<ids, server>>

Retired == op' = NoOp /\ conns' = [conns EXCEPT ![op.conn] = Gone]

Detached(r) ==
    /\ op.step = "Detach"
    /\ Retired
    /\ UNCHANGED <<tracked, ids, server>>

Ended(r) ==
    /\ op.step = "End"
    /\ tracked' = IF Accepts(op.call, r) THEN Untracked
                                         ELSE [tracked EXCEPT !.connected = FALSE]
    /\ Retired
    /\ UNCHANGED <<ids, server>>

ShutDown(r) ==
    /\ op.step = "Shutdown"
    /\ op' = NoOp /\ server' = "Down"
    /\ UNCHANGED <<tracked, ids, conns>>

Proceed(r) ==
    Reattached(r) \/ Reopened(r) \/ Closed(r) \/ Started(r) \/ Detached(r) \/ Ended(r)
        \/ ShutDown(r)

Answered ==
    /\ op.call # NoCall /\ ~Blocked(op.call)
    /\ Commit(op.call)
    /\ Proceed(Result(op.call))
    /\ UNCHANGED <<now, late, client, losses, restarts>>

Lose == losses < MaxLosses /\ losses' = losses + 1

\* A retryable error: the same command is tried once more.
TriedAgain ==
    /\ op.call # NoCall /\ op.attempt = 1
    /\ Lose
    /\ late' = Abandoned(op.call)
    /\ op' = [op EXCEPT !.attempt = 2, !.calm = FALSE]
    /\ UNCHANGED <<now, ids, rows, crashes, server, tracked, conns, client, restarts>>

\* The second has passed (for attach as a whole too), or the second try failed.
GivenUp ==
    /\ op.call # NoCall
    /\ Lose
    /\ late' = Abandoned(op.call)
    /\ Proceed("Failed")
    /\ UNCHANGED <<now, rows, crashes, client, restarts>>

-----------------------------------------------------------------------------
(* attach, detach, end, shutdown *)

\* Mutant of Reusable: any session that went on after its start is reconnected.
ReusableIfResumed(head) == head # "Started"

\* recover_open: a session whose disconnection was stored is continued.
Reusable(head) == head = "Disconnected"

BeginAttach(c) ==
    /\ conns[c].at = "Dialing" /\ op = NoOp
    /\ LET o == [NoOp EXCEPT !.conn = c, !.calm = (late = {})] IN
       \/ /\ server # "Running"
          /\ conns' = [conns EXCEPT ![c].at = "Attached"]
          /\ UNCHANGED <<op, ids, tracked>>
       \/ /\ server = "Running" /\ tracked.session = 0
          /\ op' = [o EXCEPT !.step = "LoadOpen"]
          /\ UNCHANGED <<conns, ids, tracked>>
       \/ /\ server = "Running" /\ tracked.session # 0
          /\ IF tracked.connected
             THEN /\ tracked' = [tracked EXCEPT !.active = tracked.next, !.next = @ + 1]
                  /\ conns' = [conns EXCEPT ![c].at = "Attached", ![c].lease = tracked.next]
                  /\ UNCHANGED <<op, ids>>
             ELSE /\ tracked' = [tracked EXCEPT !.next = @ + 1]
                  /\ Call(o, "Reattach", "Reconnected", tracked.session)
                  /\ UNCHANGED conns
    /\ UNCHANGED <<now, rows, crashes, late, server, client, losses, restarts>>

\* attach waits for the lock longer than its second.
AttachTimesOut(c) ==
    /\ conns[c].at = "Dialing" /\ op # NoOp /\ op.conn # c
    /\ Lose
    /\ conns' = [conns EXCEPT ![c].at = "Attached"]
    /\ UNCHANGED <<now, ids, rows, crashes, late, server, tracked, op, client, restarts>>

\* begin_or_recover, and start_new after a conflict
LoadOpen ==
    /\ op.step = "LoadOpen"
    /\ \/ /\ OpenRows(rows) = {}
          /\ IF op.again THEN Leased(0) /\ UNCHANGED ids
                         ELSE Call(op, "Start", "Begin", 0) /\ UNCHANGED conns
       \/ \E r \in OpenRows(rows) :
          /\ op' = [op EXCEPT !.step = "LoadHead", !.found = r.id]
          /\ UNCHANGED <<ids, conns>>
    /\ UNCHANGED <<now, rows, crashes, late, server, tracked, client, losses, restarts>>

LoadHead ==
    /\ op.step = "LoadHead"
    /\ LET head == RowOf(rows, op.found).head IN
       \/ head = "Ended" /\ Leased(0) /\ UNCHANGED ids
       \/ Reusable(head) /\ Call(op, "Reopen", "Reconnected", op.found) /\ UNCHANGED conns
       \/ head # "Ended" /\ ~Reusable(head)
          /\ Call(op, "Close", "Ended", op.found) /\ UNCHANGED conns
    /\ UNCHANGED <<now, rows, crashes, late, server, tracked, client, losses, restarts>>

LoadFails ==
    /\ op.step \in {"LoadOpen", "LoadHead"}
    /\ Lose
    /\ Leased(0)
    /\ UNCHANGED <<now, ids, rows, crashes, late, server, tracked, client, restarts>>

\* The lease is that of the transport that attached last.
Holds(c) ==
    /\ conns[c].lease # 0 /\ tracked.session # 0
    /\ tracked.connected /\ tracked.active = conns[c].lease

\* detach and end
Retire(c) ==
    /\ conns[c].at = "Leaving" /\ (conns[c].lease = 0 \/ op = NoOp)
    /\ \/ /\ server # "Running" \/ ~Holds(c)
          /\ conns' = [conns EXCEPT ![c] = Gone]
          /\ UNCHANGED <<op, ids, tracked>>
       \/ /\ server = "Running" /\ Holds(c)
          /\ IF conns[c].clean
             THEN /\ Call([NoOp EXCEPT !.conn = c], "End", "Ended", tracked.session)
                  /\ UNCHANGED tracked
             ELSE /\ tracked' = [tracked EXCEPT !.connected = FALSE]
                  /\ Call([NoOp EXCEPT !.conn = c], "Detach", "Disconnected", tracked.session)
          /\ UNCHANGED conns
    /\ UNCHANGED <<now, rows, crashes, late, server, client, losses, restarts>>

\* begin_shutdown; then the endpoint closes every connection.
BeginShutdown ==
    /\ server = "Running" /\ op = NoOp
    /\ server' = "Stopping"
    /\ client' = [client EXCEPT !.link = 0]
    /\ UNCHANGED <<now, ids, rows, crashes, late, tracked, op, conns, losses, restarts>>

FinishShutdown ==
    /\ server = "Stopping" /\ op = NoOp
    /\ \A c \in Conns : conns[c].at \in {"Idle", "Done"}
    /\ tracked' = Untracked
    /\ IF tracked.session # 0
       THEN Call(NoOp, "Shutdown", "Ended", tracked.session) /\ UNCHANGED server
       ELSE server' = "Down" /\ UNCHANGED <<op, ids>>
    /\ UNCHANGED <<now, rows, crashes, late, conns, client, losses, restarts>>

\* The process dies; what it was writing is not settled.
ServerCrash ==
    /\ server # "Down" /\ restarts < MaxRestarts
    /\ server' = "Down" /\ op' = NoOp /\ tracked' = Untracked
    /\ late' = late \cup {k \in {op.call} \cup {conns[c].report : c \in Conns} :
                            k # NoCall /\ Committing(k)}
    /\ conns' = [c \in Conns |-> IF conns[c].at = "Idle" THEN NoConn ELSE Gone]
    /\ client' = [client EXCEPT !.link = 0]
    /\ UNCHANGED <<now, ids, rows, crashes, losses, restarts>>

Restart ==
    /\ server = "Down" /\ restarts < MaxRestarts /\ now < MaxTime
    /\ server' = "Running" /\ restarts' = restarts + 1 /\ now' = now + 1
    /\ UNCHANGED <<ids, rows, crashes, late, tracked, op, conns, client, losses>>

-----------------------------------------------------------------------------
(* Connections and the client *)

Dial(c) ==
    /\ client.up /\ client.link = 0 /\ server = "Running"
    /\ conns[c].at = "Idle" /\ \A d \in Conns : d < c => conns[d].at # "Idle"
    /\ conns' = [conns EXCEPT ![c].at = "Dialing"]
    /\ client' = [client EXCEPT !.link = c, !.sent = FALSE]
    /\ UNCHANGED <<now, ids, rows, crashes, late, server, tracked, op, losses, restarts>>

\* attach_transport fails and its lease is handed back; or the first
\* publications fail and nobody hands it back; or the loop begins.
Serve(c) ==
    /\ conns[c].at = "Attached"
    /\ \E next \in { [conns[c] EXCEPT !.at = "Leaving", !.clean = FALSE], Gone,
                      [conns[c] EXCEPT !.at = "Serving"] } :
          /\ conns' = [conns EXCEPT ![c] = next]
          /\ client' = IF next.at # "Serving" /\ client.link = c
                       THEN [client EXCEPT !.link = 0] ELSE client
    /\ UNCHANGED <<now, ids, rows, crashes, late, server, tracked, op, losses, restarts>>

\* The loop ends: the link is gone, replaced, or failed.
Leave(c) ==
    /\ conns[c].at = "Serving"
    /\ conns' = [conns EXCEPT ![c].at = "Leaving"]
    /\ client' = IF client.link = c THEN [client EXCEPT !.link = 0] ELSE client
    /\ UNCHANGED <<now, ids, rows, crashes, late, server, tracked, op, losses, restarts>>

\* record_client_crash, up to its call
Report(c) ==
    /\ conns[c].at = "Serving" /\ client.link = c /\ ~client.sent
    /\ client.marker # NoMarker /\ op = NoOp
    /\ client' = [client EXCEPT !.sent = TRUE,
                    !.ahead = IF client.marker.time > now THEN @ \cup {client.marker.id} ELSE @]
    /\ IF server = "Running" /\ Holds(c)
       THEN conns' = [conns EXCEPT ![c].at = "Reporting",
                         ![c].report = [id |-> client.marker.id, kind |-> "Crash",
                                        session |-> tracked.origin,
                                        time |-> client.marker.time]]
       ELSE UNCHANGED conns
    /\ UNCHANGED <<now, ids, rows, crashes, late, server, tracked, op, losses, restarts>>

\* The answer; an accepted crash is forgotten by a client that hears of it.
ReportAnswered(c) ==
    /\ conns[c].at = "Reporting" /\ ~Blocked(conns[c].report)
    /\ Commit(conns[c].report)
    /\ conns' = [conns EXCEPT ![c].at = "Serving", ![c].report = NoCall]
    /\ client' = IF client.link = c /\ Result(conns[c].report) = "Ok"
                 THEN [client EXCEPT !.marker = NoMarker] ELSE client
    /\ UNCHANGED <<now, ids, late, server, tracked, op, losses, restarts>>

ReportTimesOut(c) ==
    /\ conns[c].at = "Reporting"
    /\ Lose
    /\ late' = Abandoned(conns[c].report)
    /\ conns' = [conns EXCEPT ![c].at = "Serving", ![c].report = NoCall]
    /\ UNCHANGED <<now, ids, rows, crashes, server, tracked, op, client, restarts>>

LoseLink ==
    /\ client.link # 0
    /\ client' = [client EXCEPT !.link = 0]
    /\ UNCHANGED <<now, ids, rows, crashes, late, server, tracked, op, conns, losses, restarts>>

\* The client panics and its clock shows time; the first marker is kept until it
\* is accepted.
ClientCrash(time) ==
    /\ client.up /\ client.marker = NoMarker
    /\ client' = [client EXCEPT !.up = FALSE, !.link = 0,
                                !.marker = [id |-> ids + 1, time |-> time]]
    /\ ids' = ids + 1
    /\ UNCHANGED <<now, rows, crashes, late, server, tracked, op, conns, losses, restarts>>

CleanExit ==
    /\ client.up /\ client.link # 0
    /\ conns' = [conns EXCEPT ![client.link].clean = @ \/ conns[client.link].at # "Done"]
    /\ client' = [client EXCEPT !.up = FALSE, !.link = 0]
    /\ UNCHANGED <<now, ids, rows, crashes, late, server, tracked, op, losses, restarts>>

Launch ==
    /\ ~client.up
    /\ client' = [client EXCEPT !.up = TRUE]
    /\ UNCHANGED <<now, ids, rows, crashes, late, server, tracked, op, conns, losses, restarts>>

Tick ==
    /\ now < MaxTime
    /\ now' = now + 1
    /\ UNCHANGED <<ids, rows, crashes, late, server, tracked, op, conns, client, losses, restarts>>

-----------------------------------------------------------------------------
TelemetryInit ==
    /\ now = 1 /\ ids = 0 /\ rows = {} /\ crashes = {} /\ late = {}
    /\ server = "Running" /\ tracked = Untracked /\ op = NoOp
    /\ conns = [c \in Conns |-> NoConn]
    /\ client = [up |-> TRUE, link |-> 0, marker |-> NoMarker, sent |-> FALSE, ahead |-> {}]
    /\ losses = 0 /\ restarts = 0

TelemetryNext ==
    \/ \E c \in late : SettleLate(c)
    \/ Answered \/ TriedAgain \/ GivenUp \/ LoadOpen \/ LoadHead \/ LoadFails
    \/ BeginShutdown \/ FinishShutdown \/ ServerCrash \/ Restart
    \/ LoseLink \/ CleanExit \/ Launch \/ Tick
    \/ \E time \in 1 .. MaxTime : ClientCrash(time)
    \/ \E c \in Conns : \/ BeginAttach(c) \/ AttachTimesOut(c) \/ Retire(c)
                        \/ Dial(c) \/ Serve(c) \/ Leave(c)
                        \/ Report(c) \/ ReportAnswered(c) \/ ReportTimesOut(c)

TelemetrySpec == TelemetryInit /\ [][TelemetryNext]_telemetryVars

-----------------------------------------------------------------------------
\* Type, and the unique index: one session of the account is open at most.
TelemetryTypeOK ==
    /\ \A r \in rows : r.head \in {"Started", "Disconnected", "Reconnected", "Ended"}
                       /\ r.end \in 0 .. MaxTime /\ r.start \in 1 .. MaxTime
    /\ Cardinality(OpenRows(rows)) <= 1
    /\ server \in {"Running", "Stopping", "Down"}
    /\ \A c \in Conns : conns[c].at \in Stages
    /\ tracked.connected \in BOOLEAN

\* "A failed reconnect observation cannot claim a connected telemetry lease":
\* whatever calls failed, were given up or committed late, a session the
\* coordinator takes for connected is open and stored as connected.
LeaseIsConnected ==
    (tracked.connected /\ op = NoOp) =>
        \E r \in OpenRows(rows) : r.id = tracked.session /\ r.head \in {"Started", "Reconnected"}

TelemetryInv == TelemetryTypeOK /\ LeaseIsConnected

\* The crash was never reported with a time the server's clock had not reached.
Timely(k) == k.id \notin client.ahead

\* A stored crash is not from before its session, and one whose time the server's
\* clock had reached when it was reported is not from after its end and not from
\* within another session, whatever is written late: a session cannot end, with a
\* time read earlier, before a crash it was given.  The store compares a crash with
\* the end of a closed session only, so it gives no bound to a clock that is ahead.
CrashesInTheirSession ==
    \A k \in crashes : \A r \in rows :
        IF r.id = k.session
        THEN k.time >= r.start /\ (Timely(k) /\ r.end # 0 => k.time <= r.end)
        ELSE Timely(k) => k.time <= r.start \/ (r.end # 0 /\ k.time >= r.end)

\* A process that does not know the account and is not disturbed by failing or
\* late calls finds or makes a session for it, whatever its predecessor left.
RecoversUndisturbed ==
    [][(op.step \in {"LoadOpen", "LoadHead", "Reopen", "Close", "Start"} /\ op.calm
            /\ op' = NoOp /\ losses' = losses /\ server' = "Running")
        => tracked'.connected]_telemetryVars
=============================================================================
