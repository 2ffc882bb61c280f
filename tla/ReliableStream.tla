--------------------------- MODULE ReliableStream ---------------------------
(***************************************************************************)
(* Reliable events of the Core route from the tasks that produce them to   *)
(* the client that publishes them.                                         *)
(*                                                                         *)
(* Server: every connection has a CoreReliableWriter                       *)
(* (server_app/src/core_reliable_writer.rs).  A task with an event takes   *)
(* the writer's lock, is given the next sequence number, writes a stream   *)
(* and commits.  A task that is cancelled or fails between the number and  *)
(* the commit leaves a number nobody may have seen: the writer is poisoned *)
(* and its connection closed.  Route events hold a second lock over this,  *)
(* so that no connection is told of a route version twice or backwards.    *)
(*                                                                         *)
(* Client: the worker of client_bevy/src/network_transport.rs asks for the *)
(* account, then answers commands one at a time and reads pushes between   *)
(* them, through the inbox of protocol/src/reliable_inbox.rs.  It connects *)
(* again when the connection is lost and gives up when it is lost during   *)
(* an exchange.                                                            *)
(***************************************************************************)
EXTENDS ReliableInbox

CONSTANTS Tasks,          \* server tasks that produce events
          NoTask,         \* nobody holds the lock
          MaxSequence,    \* the last sequence number (u32::MAX in the code)
          MaxConnections, \* bound: connections of the account
          MaxVersion,     \* bound: versions of the route
          MaxRequests     \* bound: commands of the client after the first

ASSUME StreamAssumption ==
    /\ NoTask \notin Tasks
    /\ {MaxSequence, MaxConnections, MaxVersion, MaxRequests} \subseteq Nat

VARIABLES writers,    \* the writer of each connection
          routes,     \* route_state_version of each writer, and who locked it
          tasks,      \* what each task is doing
          open,       \* connections that are open
          current,    \* the connection of the account's session, 0 before the first
          asked,      \* the client's request on the current connection is unanswered
          wire,       \* frames under way on each connection
          worker,     \* the client's worker
          requests,   \* commands the client has sent
          written,    \* history: the frames written on each connection
          published   \* history: the frames the client published of each connection

streamVars == <<writers, routes, tasks, open, current, asked, wire, worker,
                requests, written, published>>
clientSide == <<worker, requests, published>>

Connections == 1..MaxConnections
Versions == 1..MaxVersion
Kinds == {"Answer", "Push", "Route"}
Event == [kind : Kinds, version : {0} \cup Versions]
Frame == [sequence : 1..MaxSequence, event : Event]

Idle == [at |-> "Idle"]
NewWriter == [last |-> 0, available |-> TRUE, holder |-> NoTask]

StreamInit ==
    /\ writers = [c \in Connections |-> NewWriter]
    /\ routes = [c \in Connections |-> [holder |-> NoTask, version |-> 0]]
    /\ tasks = [t \in Tasks |-> Idle]
    /\ open = {}
    /\ current = 0
    /\ asked = FALSE
    /\ wire = [c \in Connections |-> {}]
    /\ worker = [phase |-> "Connecting", inbox |-> ResumeAfter(0)]
    /\ requests = 0
    /\ written = [c \in Connections |-> {}]
    /\ published = [c \in Connections |-> <<>>]

-----------------------------------------------------------------------------
(* A task and its writer *)

\* Nothing more arrives on a connection that is closed.
Closed(c) == wire' = [wire EXCEPT ![c] = {}] /\ open' = open \ {c}

\* The task that answers a request is the connection's own loop: when the
\* answer is not sent the loop ends and its connection with it.
EndsLoop(t) ==
    IF tasks[t].event.kind = "Answer" THEN Closed(tasks[t].conn) ELSE UNCHANGED <<wire, open>>

\* A task has an event for the account and the writer of its connection.  A
\* route event carries the version the task happened to observe.
Produce(t, e) ==
    /\ tasks[t] = Idle
    /\ current # 0
    /\ e.kind = "Answer" => asked
    /\ e.kind = "Route" <=> e.version # 0
    /\ asked' = (asked /\ e.kind # "Answer")
    /\ tasks' = [tasks EXCEPT ![t] =
                    [at |-> IF e.kind = "Route" THEN "Routing" ELSE "Sending",
                     conn |-> current, event |-> e]]
    /\ UNCHANGED <<writers, routes, open, current, wire, clientSide, written>>

\* Mutant of LockRoute: a version that was published already goes out again.
LockRouteAgain(t) ==
    /\ tasks[t].at = "Routing"
    /\ LET c == tasks[t].conn IN
       /\ routes[c].holder = NoTask
       /\ IF tasks[t].event.version < routes[c].version
          THEN /\ tasks' = [tasks EXCEPT ![t] = Idle]
               /\ UNCHANGED routes
          ELSE /\ tasks' = [tasks EXCEPT ![t] =
                               [at |-> "Sending", conn |-> c, event |-> @.event]]
               /\ routes' = [routes EXCEPT ![c].holder = t]
    /\ UNCHANGED <<writers, open, current, asked, wire, clientSide, written>>

\* send_route_event takes the version lock and skips what is not newer.
LockRoute(t) ==
    /\ tasks[t].at = "Routing"
    /\ LET c == tasks[t].conn IN
       /\ routes[c].holder = NoTask
       /\ IF tasks[t].event.version <= routes[c].version
          THEN /\ tasks' = [tasks EXCEPT ![t] = Idle]
               /\ UNCHANGED routes
          ELSE /\ tasks' = [tasks EXCEPT ![t] =
                               [at |-> "Sending", conn |-> c, event |-> @.event]]
               /\ routes' = [routes EXCEPT ![c].holder = t]
    /\ UNCHANGED <<writers, open, current, asked, wire, clientSide, written>>

\* The version lock when task t is done with connection c, `sent` or not
Unrouted(t, c, sent) ==
    IF routes[c].holder = t
    THEN [routes EXCEPT ![c] =
             [holder |-> NoTask, version |-> IF sent THEN tasks[t].event.version ELSE @.version]]
    ELSE routes

Exhausted(c) == writers[c].last = MaxSequence

\* prepare_write: the lock, then the next number.
TakeSequence(t) ==
    /\ tasks[t].at = "Sending"
    /\ LET c == tasks[t].conn IN
       /\ writers[c].available
       /\ writers[c].holder = NoTask
       /\ ~Exhausted(c)
       /\ writers' = [writers EXCEPT ![c].last = @ + 1, ![c].holder = t]
       /\ tasks' = [tasks EXCEPT ![t] =
                       [at |-> "Writing", conn |-> c, event |-> @.event,
                        frame |-> [sequence |-> writers[c].last + 1, event |-> @.event]]]
    /\ UNCHANGED <<routes, open, current, asked, wire, clientSide, written>>

\* prepare_write fails: the writer is unavailable or out of numbers.
GiveUp(t) ==
    /\ tasks[t].at = "Sending"
    /\ LET c == tasks[t].conn IN
       /\ \/ ~writers[c].available
          \/ writers[c].holder = NoTask /\ Exhausted(c)
       /\ routes' = Unrouted(t, c, FALSE)
    /\ EndsLoop(t)
    /\ tasks' = [tasks EXCEPT ![t] = Idle]
    /\ UNCHANGED <<writers, current, asked, clientSide, written>>

\* The bytes reach the connection.
Write(t) ==
    /\ tasks[t].at = "Writing"
    /\ LET c == tasks[t].conn IN
       /\ c \in open
       /\ wire' = [wire EXCEPT ![c] = @ \cup {tasks[t].frame}]
       /\ written' = [written EXCEPT ![c] = @ \cup {tasks[t].frame}]
    /\ tasks' = [tasks EXCEPT ![t].at = "Written"]
    /\ UNCHANGED <<writers, routes, open, current, asked, clientSide>>

\* CoreReliableWritePermit::commit: Unavailable when the writer was retired in
\* the meantime, and then the version is not taken as published.
Commit(t) ==
    /\ tasks[t].at = "Written"
    /\ LET c == tasks[t].conn IN
       /\ writers' = [writers EXCEPT ![c].holder = NoTask]
       /\ routes' = Unrouted(t, c, writers[c].available)
    /\ tasks' = [tasks EXCEPT ![t] = Idle]
    /\ UNCHANGED <<open, current, asked, wire, clientSide, written>>

\* Mutant of Poisoned: the lock is let go and the writer stays in use.
Forgotten(t, c) == [writers EXCEPT ![c].holder = NoTask]

\* CoreReliableWritePermit::drop
Poisoned(t, c) ==
    [writers EXCEPT ![c] = [last |-> @.last, available |-> FALSE, holder |-> NoTask]]

\* The task is cancelled, or its write fails, before the commit.
Abandon(t) ==
    /\ tasks[t].at \in {"Writing", "Written"}
    /\ LET c == tasks[t].conn IN
       /\ writers' = Poisoned(t, c)
       /\ routes' = Unrouted(t, c, FALSE)
       /\ IF writers[c].available /\ ~writers'[c].available
          THEN Closed(c) ELSE UNCHANGED <<wire, open>>
    /\ tasks' = [tasks EXCEPT ![t] = Idle]
    /\ UNCHANGED <<current, asked, clientSide, written>>

\* A task that waits for a lock is cancelled.
Cancel(t) ==
    /\ tasks[t].at \in {"Routing", "Sending"}
    /\ routes' = Unrouted(t, tasks[t].conn, FALSE)
    /\ EndsLoop(t)
    /\ tasks' = [tasks EXCEPT ![t] = Idle]
    /\ UNCHANGED <<writers, current, asked, clientSide, written>>

\* CoreReliableWriter::retire: a handoff fails, the session ends or shuts down.
Retire(c) ==
    /\ writers[c].available
    /\ c <= current
    /\ writers' = [writers EXCEPT ![c].available = FALSE]
    /\ Closed(c)
    /\ UNCHANGED <<routes, tasks, current, asked, clientSide, written>>

-----------------------------------------------------------------------------
(* The client *)

\* connect_and_handshake and the request of perform_startup.  The server gives
\* the connection a writer of its own and makes it the account's; the writer
\* of a connection that it replaces is retired.
Connect ==
    /\ worker.phase = "Connecting"
    /\ current + 1 \in Connections
    /\ current' = current + 1
    /\ open' = (open \ {current}) \cup {current + 1}
    /\ writers' = [c \in Connections |->
                      IF c = current THEN [writers[c] EXCEPT !.available = FALSE] ELSE writers[c]]
    /\ wire' = [c \in Connections |-> IF c = current THEN {} ELSE wire[c]]
    /\ asked' = TRUE
    /\ worker' = [phase |-> "Starting", inbox |-> ResumeAfter(0)]
    /\ UNCHANGED <<routes, tasks, requests, written, published>>

\* A command of the game goes out; the worker waits for its answer.
Ask ==
    /\ worker.phase = "Connected"
    /\ requests < MaxRequests
    /\ requests' = requests + 1
    /\ asked' = TRUE
    /\ worker' = [worker EXCEPT !.phase = "Waiting"]
    /\ UNCHANGED <<writers, routes, tasks, open, current, wire, written, published>>

\* deliver_reliable; an inbox error closes the connection, and one of the first
\* answer ends the worker.
Deliver(f) ==
    /\ wire' = [wire EXCEPT ![current] = @ \ {f}]
    /\ IF PushError(worker.inbox, f) = "None"
       THEN /\ worker' = [phase |-> "Connected", inbox |-> Pushed(worker.inbox, f)]
            /\ published' = [published EXCEPT ![current] =
                                @ \o InOrder(Ready(worker.inbox, f))]
            /\ UNCHANGED open
       ELSE /\ worker' = [worker EXCEPT !.phase =
                             IF @ = "Starting" THEN "Fatal" ELSE "Connecting"]
            /\ open' = open \ {current}
            /\ UNCHANGED published
    /\ UNCHANGED <<writers, routes, tasks, current, asked, requests, written>>

\* An exchange reads the answer to its request; between exchanges the worker
\* reads what the server pushes.
Receive(f) ==
    /\ current \in open
    /\ f \in wire[current]
    /\ \/ f.event.kind = "Answer" /\ worker.phase \in {"Starting", "Waiting"}
       \/ f.event.kind # "Answer" /\ worker.phase = "Connected"
    /\ Deliver(f)

\* The gap timer: the missing frame did not come in RELIABLE_GAP_TIMEOUT.
GapTimeout ==
    /\ worker.phase = "Connected"
    /\ HasGap(worker.inbox)
    /\ worker' = [worker EXCEPT !.phase = "Connecting"]
    /\ Closed(current)
    /\ UNCHANGED <<writers, routes, tasks, current, asked, requests, written, published>>

\* The connection is found closed: a worker that waits for a push connects
\* again, one in an exchange or about to send its input fails.
NoticeLoss ==
    /\ worker.phase \in {"Starting", "Connected", "Waiting"}
    /\ current \notin open
    /\ \E next \in {"Connecting", "Fatal"} :
          /\ next = "Connecting" => worker.phase = "Connected"
          /\ worker' = [worker EXCEPT !.phase = next]
    /\ UNCHANGED <<writers, routes, tasks, open, current, asked, wire, requests,
                   written, published>>

\* The network loses the connection.
LoseLink ==
    /\ current \in open
    /\ Closed(current)
    /\ UNCHANGED <<writers, routes, tasks, current, asked, clientSide, written>>

\* The player starts the client again.
Restart ==
    /\ worker.phase = "Fatal"
    /\ worker' = [worker EXCEPT !.phase = "Connecting"]
    /\ UNCHANGED <<writers, routes, tasks, open, current, asked, wire, requests,
                   written, published>>

\* The bound on connections is reached, or the client has stopped.
Finished ==
    /\ worker.phase \in {"Fatal", "Connecting"} /\ current \in Connections
    /\ UNCHANGED streamVars

TaskStep(t) == LockRoute(t) \/ TakeSequence(t) \/ GiveUp(t) \/ Write(t) \/ Commit(t)

StreamNext ==
    \/ \E t \in Tasks, e \in Event : Produce(t, e)
    \/ \E t \in Tasks : TaskStep(t) \/ Abandon(t) \/ Cancel(t)
    \/ \E c \in Connections : Retire(c)
    \/ Connect \/ Ask \/ GapTimeout \/ NoticeLoss \/ LoseLink \/ Restart \/ Finished
    \/ \E f \in Frame : Receive(f)

StreamSpec == StreamInit /\ [][StreamNext]_streamVars

Answer == [kind |-> "Answer", version |-> 0]

\* Tasks run on (tokio), streams that were written arrive, and the connection
\* loop comes to a request however often it has events to push (select! takes
\* one of the ready branches at random).
StreamFairness ==
    /\ \A t \in Tasks : WF_streamVars(TaskStep(t))
    /\ SF_streamVars(\E t \in Tasks : Produce(t, Answer))
    /\ \A f \in Frame : WF_streamVars(Receive(f))

StreamFairSpec == StreamSpec /\ StreamFairness

-----------------------------------------------------------------------------
(* Properties *)

Numbers(frames) == {f.sequence : f \in frames}

\* The number that was given out and is not written yet
Unwritten(c) == {tasks[t].frame.sequence : t \in {u \in Tasks : /\ tasks[u].at = "Writing"
                                                                /\ tasks[u].conn = c}}

\* Type: one task at most holds a writer, and numbers keep to their range.
StreamTypeOK ==
    /\ \A c \in Connections :
          /\ writers[c].last \in 0..MaxSequence
          /\ writers[c].available \in BOOLEAN
          /\ writers[c].holder \in Tasks \cup {NoTask}
          /\ routes[c].holder \in Tasks \cup {NoTask}
          /\ routes[c].version \in {0} \cup Versions
          /\ wire[c] \subseteq written[c]
          /\ written[c] \subseteq Frame
    /\ \A t \in Tasks :
          /\ tasks[t].at \in {"Idle", "Routing", "Sending", "Writing", "Written"}
          /\ tasks[t].at \in {"Writing", "Written"} <=>
                \E c \in Connections : writers[c].holder = t
    /\ open \subseteq Connections
    /\ current \in 0..MaxConnections
    /\ worker.phase \in {"Connecting", "Starting", "Connected", "Waiting", "Fatal"}

\* "Dropping an armed permit ... the transport becomes unusable": as long as a
\* writer is in use, every number it gave out has been written, except the one
\* its holder is about to write.
NoHoleWhileAvailable ==
    \A c \in Connections :
        writers[c].available => Numbers(written[c]) \cup Unwritten(c) = 1..writers[c].last

\* Reward, driver and connection publishers "cannot duplicate or rewind route
\* control": on one connection a later route frame has a later version.
RouteNeverRewinds ==
    \A c \in Connections : \A f, g \in written[c] :
        /\ f.event.kind = "Route" /\ g.event.kind = "Route"
        /\ f.sequence < g.sequence
        => f.event.version < g.event.version

\* The client publishes, of every connection, the frames 1, 2, 3 ... that the
\* server wrote, none twice and none out of order.
PublishesPrefix ==
    \A c \in Connections : \A i \in 1..Len(published[c]) :
        /\ published[c][i].sequence = i
        /\ published[c][i] \in written[c]

\* A gap in the inbox of an open connection is only a matter of order: the
\* frames it waits for are under way or about to be written, so that the gap
\* timer never closes a connection for a frame that does not exist.
GapsCanFill ==
    (worker.phase \in {"Connected", "Waiting"} /\ current \in open)
        => \A f \in worker.inbox.pending : \A n \in (worker.inbox.last + 1)..f.sequence :
              n \in Numbers(worker.inbox.pending \cup wire[current]) \cup Unwritten(current)

\* Every frame that was written is published, unless its connection is lost.
WrittenIsPublished ==
    \A c \in Connections : \A n \in 1..MaxSequence :
        (n \in Numbers(written[c])) ~> (Len(published[c]) >= n \/ c \notin open)
=============================================================================
