------------------------ MODULE ReliableStreamProofs ------------------------
(* The reliable stream, for any number of tasks, connections, numbers and     *)
(* versions.  Server: a writer that is in use has no hole, and route control  *)
(* is never told twice or backwards.  The argument is that both locks mean    *)
(* what they say (LockInv), that the number of the holder is the writer's     *)
(* last and nothing written is above it (HolderInv, BelowInv, GapInv), and    *)
(* that a writer out of use belongs to a closed connection (OpenInv), on      *)
(* which a version that was written and not recorded does no harm (NewerInv,  *)
(* RecordedInv).  Client: what was written and neither published nor pending  *)
(* is under way (InboxInv), and the frames that become ready are the next     *)
(* numbers without a gap (ReadySegment).                                      *)
EXTENDS ReliableStream, FiniteSetTheorems, SequenceTheorems, TLAPS

Holding == {"Writing", "Written"}
Routed == {"Sending", "Writing", "Written"}
Phases == {"Connecting", "Starting", "Connected", "Waiting", "Fatal"}

WaitingTask == [at : {"Routing", "Sending"}, conn : Connections, event : Event]
HoldingTask == [at : Holding, conn : Connections, event : Event, frame : Frame]

TypeInv ==
    /\ writers \in [Connections -> [last : 0..MaxSequence, available : BOOLEAN,
                                    holder : Tasks \cup {NoTask}]]
    /\ routes \in [Connections -> [holder : Tasks \cup {NoTask}, version : {0} \cup Versions]]
    /\ tasks \in [Tasks -> {Idle} \cup WaitingTask \cup HoldingTask]
    /\ open \subseteq Connections
    /\ current \in 0..MaxConnections
    /\ wire \in [Connections -> SUBSET Frame]
    /\ written \in [Connections -> SUBSET Frame]
    /\ \A c \in Connections : wire[c] \subseteq written[c]
    /\ worker = [phase |-> worker.phase, inbox |-> worker.inbox]
    /\ worker.phase \in Phases

\* A lock is held by the task that is between taking it and giving it back.
LockInv ==
    \A t \in Tasks : \A c \in Connections :
        /\ writers[c].holder = t <=> tasks[t].at \in Holding /\ tasks[t].conn = c
        /\ routes[c].holder = t <=>
              /\ tasks[t].at \in Routed
              /\ tasks[t].event.kind = "Route"
              /\ tasks[t].conn = c

\* The holder of a writer has its last number, written or not.
HolderInv ==
    \A t \in Tasks : tasks[t].at \in Holding =>
        /\ tasks[t].frame.sequence = writers[tasks[t].conn].last
        /\ tasks[t].frame.event = tasks[t].event
        /\ tasks[t].at = "Written" => tasks[t].frame \in written[tasks[t].conn]
        /\ tasks[t].at = "Writing" =>
              \A f \in written[tasks[t].conn] : f.sequence < tasks[t].frame.sequence

\* Nothing is written beyond the last number.
BelowInv ==
    \A c \in Connections : \A f \in written[c] : f.sequence <= writers[c].last

IsHeld(n, c) ==
    \E t \in Tasks : tasks[t].at = "Writing" /\ tasks[t].conn = c /\ tasks[t].frame.sequence = n

\* No number of a writer in use was left out.
GapInv ==
    \A c \in Connections : writers[c].available =>
        \A n \in 1..writers[c].last : (\E f \in written[c] : f.sequence = n) \/ IsHeld(n, c)

\* Whoever holds the version lock has a newer version than was recorded.
NewerInv ==
    \A t \in Tasks :
        /\ tasks[t].at = "Routing" => tasks[t].event.kind = "Route"
        /\ tasks[t].at \in Routed /\ tasks[t].event.kind = "Route" =>
              tasks[t].event.version > routes[tasks[t].conn].version

Recording(f, c) ==
    \E t \in Tasks : tasks[t].at = "Written" /\ tasks[t].conn = c /\ tasks[t].frame = f

\* What was written is recorded, or is about to be by its writer.
RecordedInv ==
    \A c \in Connections : writers[c].available =>
        \A f \in written[c] : f.event.kind = "Route" =>
            f.event.version <= routes[c].version \/ Recording(f, c)

\* A connection whose writer is out of use is closed, for good.
OpenInv ==
    /\ \A c \in open : writers[c].available
    /\ \A c \in Connections : c > current => writers[c].available
    /\ \A t \in Tasks : tasks[t] # Idle => tasks[t].conn <= current

StreamInv ==
    /\ TypeInv /\ LockInv /\ OpenInv
    /\ HolderInv /\ BelowInv /\ GapInv
    /\ NewerInv /\ RecordedInv /\ RouteNeverRewinds

LEMMA InitStream == StreamInit => StreamInv
<1>. SUFFICES ASSUME StreamInit PROVE StreamInv
  OBVIOUS
<1>1. TypeInv
  BY StreamAssumption DEF StreamInit, TypeInv, NewWriter, Phases, Connections
<1>2. LockInv
  BY StreamAssumption DEF StreamInit, LockInv, NewWriter, Idle, Holding, Routed
<1>3. HolderInv /\ BelowInv /\ GapInv
  BY StreamAssumption DEF StreamInit, HolderInv, BelowInv, GapInv, NewWriter, Idle, Holding
<1>4. NewerInv /\ RecordedInv /\ RouteNeverRewinds
  BY StreamAssumption DEF StreamInit, NewerInv, RecordedInv, RouteNeverRewinds, Idle, Routed
<1>5. OpenInv
  BY StreamAssumption DEF StreamInit, OpenInv, NewWriter, Idle
<1>. QED
  BY <1>1, <1>2, <1>3, <1>4, <1>5 DEF StreamInv

-----------------------------------------------------------------------------
(* What a task is, by where it stands *)

LEMMA TaskShape ==
    ASSUME TypeInv, NEW t \in Tasks
    PROVE  /\ tasks[t].at \in {"Idle", "Routing"} \cup Routed
           /\ tasks[t].at \in {"Routing", "Sending"} => tasks[t] \in WaitingTask
           /\ tasks[t].at \in Holding => tasks[t] \in HoldingTask
           /\ tasks[t].at = "Idle" <=> tasks[t] = Idle
<1>1. CASE tasks[t] = Idle
  BY <1>1 DEF Idle, Routed, Holding
<1>2. CASE tasks[t] \in WaitingTask
  BY <1>2 DEF WaitingTask, Idle, Routed, Holding
<1>3. CASE tasks[t] \in HoldingTask
  BY <1>3 DEF HoldingTask, Idle, Routed, Holding
<1>. QED
  BY <1>1, <1>2, <1>3 DEF TypeInv

\* The bytes of a frame reach the connection
LEMMA WriteKeeps ==
    ASSUME StreamInv, NEW t \in Tasks, Write(t) PROVE StreamInv'
<1>. DEFINE c == tasks[t].conn
            done == [at |-> "Written", conn |-> c, event |-> tasks[t].event,
                     frame |-> tasks[t].frame]
<1>1. /\ tasks[t].at = "Writing"
      /\ tasks[t] \in HoldingTask
      /\ c \in Connections
      /\ tasks[t].frame \in Frame
      /\ tasks[t].event \in Event
  BY TaskShape DEF StreamInv, Write, Holding, HoldingTask
<1>2. done \in HoldingTask
  BY <1>1 DEF HoldingTask, Holding
<1>3. /\ tasks'[t] = done
      /\ \A u \in Tasks : u # t => tasks'[u] = tasks[u]
      /\ DOMAIN tasks' = Tasks
      /\ tasks' = [u \in Tasks |-> tasks'[u]]
  <2>1. [tasks[t] EXCEPT !.at = "Written"] = done
    BY <1>1 DEF HoldingTask
  <2>. QED
    BY <2>1 DEF Write, StreamInv, TypeInv
<1>4. /\ wire' = [wire EXCEPT ![c] = @ \cup {tasks[t].frame}]
      /\ written' = [written EXCEPT ![c] = @ \cup {tasks[t].frame}]
      /\ UNCHANGED <<writers, routes, open, current, worker>>
      /\ writers[c].available
  BY DEF Write, clientSide, StreamInv, OpenInv
<1>5. /\ written'[c] = written[c] \cup {tasks[t].frame}
      /\ \A d \in Connections : d # c => written'[d] = written[d]
  BY <1>1, <1>4 DEF StreamInv, TypeInv
<1>6. /\ \A f \in written[c] : f.sequence < tasks[t].frame.sequence
      /\ tasks[t].frame.sequence = writers[c].last
      /\ tasks[t].frame.event = tasks[t].event
  BY <1>1 DEF StreamInv, HolderInv, Holding
<1>7. \A u \in Tasks : u # t /\ tasks[u].at \in Holding => tasks[u].conn # c
  BY <1>1 DEF StreamInv, LockInv, Holding
<1>8. TypeInv'
  <2>1. tasks' \in [Tasks -> {Idle} \cup WaitingTask \cup HoldingTask]
    BY <1>2, <1>3 DEF StreamInv, TypeInv
  <2>2. /\ wire' \in [Connections -> SUBSET Frame]
        /\ written' \in [Connections -> SUBSET Frame]
        /\ \A d \in Connections : wire'[d] \subseteq written'[d]
    BY <1>1, <1>4 DEF StreamInv, TypeInv
  <2>. QED
    BY <2>1, <2>2, <1>4 DEF StreamInv, TypeInv
<1>9. LockInv' /\ OpenInv'
  BY <1>1, <1>3, <1>4 DEF StreamInv, LockInv, OpenInv, Idle, Holding, Routed
<1>10. HolderInv'
  BY <1>3, <1>4, <1>5, <1>6, <1>7, TaskShape DEF StreamInv, HolderInv, Holding, HoldingTask
<1>11. BelowInv'
  BY <1>1, <1>4, <1>5, <1>6 DEF StreamInv, BelowInv, TypeInv, Frame
<1>12. GapInv'
  <2>. SUFFICES ASSUME NEW d \in Connections, writers[d].available,
                       NEW n \in 1..writers[d].last
                PROVE  (\E f \in written'[d] : f.sequence = n) \/ IsHeld(n, d)'
    BY <1>4 DEF GapInv
  <2>1. CASE \E f \in written[d] : f.sequence = n
    BY <2>1, <1>5
  <2>2. CASE IsHeld(n, d)
    <3>. PICK u \in Tasks : tasks[u].at = "Writing" /\ tasks[u].conn = d
                            /\ tasks[u].frame.sequence = n
      BY <2>2 DEF IsHeld
    <3>1. CASE u = t
      BY <3>1, <1>5
    <3>2. CASE u # t
      BY <3>2, <1>3 DEF IsHeld
    <3>. QED
      BY <3>1, <3>2
  <2>. QED
    BY <2>1, <2>2 DEF StreamInv, GapInv
<1>13. NewerInv'
  BY <1>1, <1>3, <1>4 DEF StreamInv, NewerInv, Routed
<1>14. \A f \in written[c] : f.event.kind = "Route" => f.event.version <= routes[c].version
  BY <1>1, <1>4, <1>7 DEF StreamInv, RecordedInv, Recording, Holding
<1>15. RecordedInv'
  <2>. SUFFICES ASSUME NEW d \in Connections, writers[d].available,
                       NEW f \in written'[d], f.event.kind = "Route"
                PROVE  f.event.version <= routes[d].version \/ Recording(f, d)'
    BY <1>4 DEF RecordedInv
  <2>1. CASE d # c
    <3>1. f.event.version <= routes[d].version \/ Recording(f, d)
      BY <2>1, <1>5 DEF StreamInv, RecordedInv
    <3>. QED
      BY <3>1, <2>1, <1>1, <1>3 DEF Recording
  <2>2. CASE d = c /\ f = tasks[t].frame
    BY <2>2, <1>3 DEF Recording
  <2>3. CASE d = c /\ f \in written[c]
    BY <2>3, <1>14
  <2>. QED
    BY <2>1, <2>2, <2>3, <1>5
<1>16. RouteNeverRewinds'
  <2>. SUFFICES ASSUME NEW d \in Connections, NEW f \in written'[d], NEW g \in written'[d],
                       f.event.kind = "Route", g.event.kind = "Route",
                       f.sequence < g.sequence
                PROVE  f.event.version < g.event.version
    BY DEF RouteNeverRewinds
  <2>1. CASE f \in written[d] /\ g \in written[d]
    BY <2>1 DEF StreamInv, RouteNeverRewinds
  <2>2. CASE d = c /\ f \in written[c] /\ g = tasks[t].frame
    <3>1. g.event.version > routes[c].version
      BY <2>2, <1>1, <1>6 DEF StreamInv, NewerInv, Routed
    <3>2. f.event.version <= routes[c].version
      BY <2>2, <1>14
    <3>3. f.event.version \in Nat /\ g.event.version \in Nat /\ routes[c].version \in Nat
      BY <2>2, <1>1, StreamAssumption DEF StreamInv, TypeInv, Frame, Event, Versions
    <3>. QED
      BY <3>1, <3>2, <3>3
  <2>3. CASE d = c /\ f = tasks[t].frame
    BY <2>3, <1>1, <1>5, <1>6 DEF StreamInv, TypeInv, Frame
  <2>. QED
    BY <2>1, <2>2, <2>3, <1>5
<1>. QED
  BY <1>8, <1>9, <1>10, <1>11, <1>12, <1>13, <1>15, <1>16 DEF StreamInv

\* What the steps below leave of the writers: numbers stay, and a writer that
\* is out of use stays so.
WritersFall ==
    /\ writers' \in [Connections -> [last : 0..MaxSequence, available : BOOLEAN,
                                     holder : Tasks \cup {NoTask}]]
    /\ \A d \in Connections :
          /\ writers'[d].last = writers[d].last
          /\ writers'[d].available => writers[d].available

\* A step that is no task's
LEMMA QuietKeeps ==
    ASSUME StreamInv, UNCHANGED <<tasks, routes, written>>, WritersFall,
           \A d \in Connections : writers'[d].holder = writers[d].holder,
           TypeInv', OpenInv'
    PROVE  StreamInv'
<1>1. LockInv'
  BY DEF StreamInv, LockInv
<1>2. HolderInv'
  <2>. SUFFICES ASSUME NEW t \in Tasks, tasks[t].at \in Holding
                PROVE  writers'[tasks[t].conn].last = writers[tasks[t].conn].last
    BY DEF StreamInv, HolderInv
  <2>. QED
    BY TaskShape DEF StreamInv, WritersFall, HoldingTask
<1>3. BelowInv'
  BY DEF StreamInv, BelowInv, WritersFall
<1>4. GapInv'
  BY DEF StreamInv, GapInv, IsHeld, WritersFall
<1>5. NewerInv' /\ RouteNeverRewinds'
  BY DEF StreamInv, NewerInv, RouteNeverRewinds
<1>6. RecordedInv'
  BY DEF StreamInv, RecordedInv, Recording, WritersFall
<1>. QED
  BY <1>1, <1>2, <1>3, <1>4, <1>5, <1>6 DEF StreamInv

\* The end of a task, with its event sent or not: it gives its locks back, and
\* a number that it may not have written leaves the writer out of use.
LEMMA TaskEnds ==
    ASSUME StreamInv, NEW t \in Tasks, tasks[t] # Idle, NEW sent \in BOOLEAN,
           tasks' = [tasks EXCEPT ![t] = Idle],
           routes' = Unrouted(t, tasks[t].conn, sent),
           WritersFall,
           \A d \in Connections : writers'[d].holder =
               IF writers[d].holder = t THEN NoTask ELSE writers[d].holder,
           tasks[t].at = "Writing" => ~writers'[tasks[t].conn].available,
           tasks[t].at = "Written" => sent \/ ~writers'[tasks[t].conn].available,
           open' \subseteq open, \A d \in open' : writers'[d].available,
           \A d \in Connections : d > current => writers'[d].available,
           wire' \in [Connections -> SUBSET Frame],
           \A d \in Connections : wire'[d] \subseteq wire[d],
           UNCHANGED <<written, current, worker>>
    PROVE  StreamInv'
<1>. DEFINE c == tasks[t].conn
            version == IF sent THEN tasks[t].event.version ELSE routes[c].version
<1>1. /\ c \in Connections
      /\ tasks[t].event \in Event
  BY TaskShape DEF StreamInv, WaitingTask, HoldingTask, Routed, Holding
<1>2. /\ tasks'[t] = Idle
      /\ \A u \in Tasks : u # t => tasks'[u] = tasks[u]
      /\ tasks' \in [Tasks -> {Idle} \cup WaitingTask \cup HoldingTask]
  BY DEF StreamInv, TypeInv
<1>3. /\ routes[c].holder = t => routes'[c] = [holder |-> NoTask, version |-> version]
      /\ routes[c].holder # t => routes'[c] = routes[c]
      /\ \A d \in Connections : d # c => routes'[d] = routes[d]
      /\ routes' \in [Connections -> [holder : Tasks \cup {NoTask}, version : {0} \cup Versions]]
  BY <1>1 DEF Unrouted, StreamInv, TypeInv, Event
<1>4. TypeInv'
  BY <1>2, <1>3 DEF StreamInv, TypeInv, WritersFall
<1>5. OpenInv'
  BY <1>2 DEF StreamInv, OpenInv
<1>6. LockInv'
  <2>. SUFFICES ASSUME NEW u \in Tasks, NEW d \in Connections
                PROVE  /\ writers'[d].holder = u <=>
                             tasks'[u].at \in Holding /\ tasks'[u].conn = d
                       /\ routes'[d].holder = u <=>
                             /\ tasks'[u].at \in Routed
                             /\ tasks'[u].event.kind = "Route"
                             /\ tasks'[u].conn = d
    BY DEF LockInv
  <2>1. u # NoTask
    BY StreamAssumption
  <2>2. CASE u = t
    <3>1. tasks'[t].at \notin Holding /\ tasks'[t].at \notin Routed
      BY <1>2 DEF Idle, Holding, Routed
    <3>2. writers'[d].holder # t
      BY <2>1, <2>2
    <3>3. routes'[d].holder # t
      BY <2>1, <2>2, <1>1, <1>3 DEF StreamInv, LockInv
    <3>. QED
      BY <2>2, <3>1, <3>2, <3>3
  <2>3. CASE u # t
    <3>1. tasks'[u] = tasks[u]
      BY <2>3, <1>2
    <3>2. writers'[d].holder = u <=> writers[d].holder = u
      BY <2>1, <2>3
    <3>3. routes'[d].holder = u <=> routes[d].holder = u
      BY <2>1, <2>3, <1>1, <1>3
    <3>. QED
      BY <3>1, <3>2, <3>3 DEF StreamInv, LockInv
  <2>. QED
    BY <2>2, <2>3
<1>7. HolderInv'
  <2>1. ASSUME NEW u \in Tasks, tasks'[u].at \in Holding
        PROVE  /\ tasks'[u] = tasks[u]
               /\ writers'[tasks[u].conn].last = writers[tasks[u].conn].last
    <3>1. u # t /\ tasks'[u] = tasks[u]
      BY <2>1, <1>2 DEF Idle, Holding
    <3>. QED
      BY <2>1, <3>1, TaskShape DEF StreamInv, WritersFall, HoldingTask
  <2>. QED
    BY <2>1 DEF StreamInv, HolderInv
<1>8. BelowInv'
  BY DEF StreamInv, BelowInv, WritersFall
<1>9. GapInv'
  <2>. SUFFICES ASSUME NEW d \in Connections, writers'[d].available, NEW n \in 1..writers[d].last
                PROVE  (\E f \in written[d] : f.sequence = n) \/ IsHeld(n, d)'
    BY DEF GapInv, WritersFall
  <2>1. (\E f \in written[d] : f.sequence = n) \/ IsHeld(n, d)
    BY DEF StreamInv, GapInv, WritersFall
  <2>2. CASE IsHeld(n, d)
    BY <2>2, <1>2 DEF IsHeld
  <2>. QED
    BY <2>1, <2>2
<1>10. \A u \in Tasks : tasks'[u].at \in {"Routing"} \cup Routed => u # t /\ tasks'[u] = tasks[u]
  BY <1>2 DEF Idle, Routed
<1>11. NewerInv'
  <2>. SUFFICES ASSUME NEW u \in Tasks, u # t,
                       tasks[u].at \in Routed, tasks[u].event.kind = "Route"
                PROVE  routes'[tasks[u].conn] = routes[tasks[u].conn]
    BY <1>10 DEF StreamInv, NewerInv, Routed
  <2>1. tasks[u].conn \in Connections
    BY TaskShape DEF StreamInv, WaitingTask, HoldingTask, Routed, Holding
  <2>2. routes[tasks[u].conn].holder = u
    BY <2>1 DEF StreamInv, LockInv
  <2>. QED
    BY <2>1, <2>2, <1>3
<1>12. ASSUME routes[c].holder = t
       PROVE  tasks[t].event.version > routes[c].version
  BY <1>1, <1>12 DEF StreamInv, LockInv, NewerInv
<1>13. \A d \in Connections : /\ routes[d].version \in Nat /\ routes'[d].version \in Nat
                             /\ routes[d].version <= routes'[d].version
  <2>1. \A d \in Connections : routes[d].version \in Nat /\ routes'[d].version \in Nat
    BY <1>3, StreamAssumption DEF StreamInv, TypeInv, Versions
  <2>2. tasks[t].event.version \in Nat
    BY <1>1, StreamAssumption DEF Event, Versions
  <2>3. routes[c].version <= routes'[c].version
    BY <1>1, <1>3, <1>12, <2>1, <2>2
  <2>. QED
    BY <1>3, <2>1, <2>3
<1>14. RecordedInv'
  <2>. SUFFICES ASSUME NEW d \in Connections, writers'[d].available,
                       NEW f \in written[d], f.event.kind = "Route"
                PROVE  f.event.version <= routes'[d].version \/ Recording(f, d)'
    BY DEF RecordedInv
  <2>0. f.event.version \in Nat
    BY StreamAssumption DEF StreamInv, TypeInv, Frame, Event, Versions
  <2>1. f.event.version <= routes[d].version \/ Recording(f, d)
    BY DEF StreamInv, RecordedInv, WritersFall
  <2>2. CASE f.event.version <= routes[d].version
    BY <2>0, <2>2, <1>13
  <2>3. CASE Recording(f, d)
    <3>. PICK u \in Tasks : tasks[u].at = "Written" /\ tasks[u].conn = d /\ tasks[u].frame = f
      BY <2>3 DEF Recording
    <3>1. CASE u # t
      BY <3>1, <1>2 DEF Recording
    <3>2. CASE u = t
      <4>1. f.event = tasks[t].event /\ d = c
        BY <3>2 DEF StreamInv, HolderInv, Holding
      <4>2. routes[c].holder = t
        BY <4>1, <3>2, <1>1 DEF StreamInv, LockInv, Routed
      <4>3. sent
        BY <3>2, <4>1
      <4>4. version = tasks[t].event.version
        BY <4>3
      <4>5. routes'[d].version = f.event.version
        <5>. HIDE DEF version
        <5>. QED
          BY <4>1, <4>2, <4>4, <1>3
      <4>. QED
        BY <4>5, <2>0
    <3>. QED
      BY <3>1, <3>2
  <2>. QED
    BY <2>1, <2>2, <2>3
<1>15. RouteNeverRewinds'
  BY DEF StreamInv, RouteNeverRewinds
<1>. QED
  BY <1>4, <1>5, <1>6, <1>7, <1>8, <1>9, <1>11, <1>14, <1>15 DEF StreamInv

\* A task that waits for a lock is not the holder of a writer.
LEMMA EndsLoopFalls ==
    ASSUME StreamInv, NEW t \in Tasks, tasks[t].conn \in Connections, EndsLoop(t)
    PROVE  /\ open' \subseteq open
           /\ wire' \in [Connections -> SUBSET Frame]
           /\ \A d \in Connections : wire'[d] \subseteq wire[d]
BY DEF EndsLoop, Closed, StreamInv, TypeInv

LEMMA GiveUpKeeps ==
    ASSUME StreamInv, NEW t \in Tasks, GiveUp(t) PROVE StreamInv'
<1>1. /\ tasks[t].at = "Sending"
      /\ tasks[t] # Idle
      /\ tasks[t].conn \in Connections
  BY TaskShape DEF StreamInv, GiveUp, WaitingTask, Idle
<1>2. \A d \in Connections : writers[d].holder # t
  BY <1>1 DEF StreamInv, LockInv, Holding
<1>3. /\ WritersFall
      /\ \A d \in Connections : writers'[d].holder =
             IF writers[d].holder = t THEN NoTask ELSE writers[d].holder
  BY <1>2 DEF StreamInv, TypeInv, GiveUp, WritersFall
<1>4. /\ open' \subseteq open
      /\ wire' \in [Connections -> SUBSET Frame]
      /\ \A d \in Connections : wire'[d] \subseteq wire[d]
  BY <1>1, EndsLoopFalls DEF GiveUp
<1>5. /\ \A d \in open' : writers'[d].available
      /\ \A d \in Connections : d > current => writers'[d].available
  BY <1>4 DEF StreamInv, OpenInv, GiveUp
<1>6. /\ routes' = Unrouted(t, tasks[t].conn, FALSE)
      /\ tasks' = [tasks EXCEPT ![t] = Idle]
      /\ UNCHANGED <<written, current, worker>>
  BY DEF GiveUp, clientSide
<1>. QED
  BY <1>1, <1>3, <1>4, <1>5, <1>6, TaskEnds

LEMMA CancelKeeps ==
    ASSUME StreamInv, NEW t \in Tasks, Cancel(t) PROVE StreamInv'
<1>1. /\ tasks[t].at \in {"Routing", "Sending"}
      /\ tasks[t] # Idle
      /\ tasks[t].conn \in Connections
  BY TaskShape DEF StreamInv, Cancel, WaitingTask, Idle
<1>2. \A d \in Connections : writers[d].holder # t
  BY <1>1 DEF StreamInv, LockInv, Holding
<1>3. /\ WritersFall
      /\ \A d \in Connections : writers'[d].holder =
             IF writers[d].holder = t THEN NoTask ELSE writers[d].holder
  BY <1>2 DEF StreamInv, TypeInv, Cancel, WritersFall
<1>4. /\ open' \subseteq open
      /\ wire' \in [Connections -> SUBSET Frame]
      /\ \A d \in Connections : wire'[d] \subseteq wire[d]
  BY <1>1, EndsLoopFalls DEF Cancel
<1>5. /\ \A d \in open' : writers'[d].available
      /\ \A d \in Connections : d > current => writers'[d].available
  BY <1>4 DEF StreamInv, OpenInv, Cancel
<1>6. /\ routes' = Unrouted(t, tasks[t].conn, FALSE)
      /\ tasks' = [tasks EXCEPT ![t] = Idle]
      /\ UNCHANGED <<written, current, worker>>
  BY DEF Cancel, clientSide
<1>. QED
  BY <1>1, <1>3, <1>4, <1>5, <1>6, TaskEnds

LEMMA CommitKeeps ==
    ASSUME StreamInv, NEW t \in Tasks, Commit(t) PROVE StreamInv'
<1>. DEFINE c == tasks[t].conn
<1>1. /\ tasks[t].at = "Written"
      /\ tasks[t] # Idle
      /\ c \in Connections
  BY TaskShape DEF StreamInv, Commit, HoldingTask, Holding, Idle
<1>2. \A d \in Connections : writers[d].holder = t <=> d = c
  BY <1>1 DEF StreamInv, LockInv, Holding
<1>3. /\ \A d \in Connections : d # c => writers'[d] = writers[d]
      /\ writers'[c].last = writers[c].last
      /\ writers'[c].available = writers[c].available
      /\ writers'[c].holder = NoTask
      /\ writers' \in [Connections -> [last : 0..MaxSequence, available : BOOLEAN,
                                       holder : Tasks \cup {NoTask}]]
  BY <1>1 DEF StreamInv, TypeInv, Commit
<1>4. /\ WritersFall
      /\ \A d \in Connections : writers'[d].holder =
             IF writers[d].holder = t THEN NoTask ELSE writers[d].holder
  BY <1>1, <1>2, <1>3 DEF WritersFall
<1>5. /\ \A d \in open' : writers'[d].available
      /\ \A d \in Connections : d > current => writers'[d].available
  BY <1>1, <1>3 DEF StreamInv, TypeInv, OpenInv, Commit
<1>6. /\ routes' = Unrouted(t, c, writers[c].available)
      /\ tasks' = [tasks EXCEPT ![t] = Idle]
      /\ UNCHANGED <<written, current, worker, wire, open>>
      /\ writers[c].available \in BOOLEAN
  BY <1>1 DEF Commit, clientSide, StreamInv, TypeInv
<1>7. /\ wire' \in [Connections -> SUBSET Frame]
      /\ \A d \in Connections : wire'[d] \subseteq wire[d]
  BY <1>6 DEF StreamInv, TypeInv
<1>. QED
  BY <1>1, <1>3, <1>4, <1>5, <1>6, <1>7, TaskEnds

LEMMA AbandonKeeps ==
    ASSUME StreamInv, NEW t \in Tasks, Abandon(t) PROVE StreamInv'
<1>. DEFINE c == tasks[t].conn
<1>1. /\ tasks[t].at \in Holding
      /\ tasks[t] # Idle
      /\ c \in Connections
      /\ c <= current
  BY TaskShape DEF StreamInv, Abandon, OpenInv, HoldingTask, Holding, Idle
<1>2. \A d \in Connections : writers[d].holder = t <=> d = c
  BY <1>1 DEF StreamInv, LockInv
<1>3. /\ \A d \in Connections : d # c => writers'[d] = writers[d]
      /\ writers'[c].last = writers[c].last
      /\ writers'[c].available = FALSE
      /\ writers'[c].holder = NoTask
      /\ writers' \in [Connections -> [last : 0..MaxSequence, available : BOOLEAN,
                                       holder : Tasks \cup {NoTask}]]
  <2>. DEFINE out == [last |-> writers[c].last, available |-> FALSE, holder |-> NoTask]
  <2>1. writers[c] \in [last : 0..MaxSequence, available : BOOLEAN, holder : Tasks \cup {NoTask}]
    BY <1>1 DEF StreamInv, TypeInv
  <2>3. out \in [last : 0..MaxSequence, available : BOOLEAN, holder : Tasks \cup {NoTask}]
    BY <2>1
  <2>4. writers' = [writers EXCEPT ![c] = out]
    BY DEF Abandon, Poisoned
  <2>5. writers'[c] = out /\ \A d \in Connections : d # c => writers'[d] = writers[d]
    BY <1>1, <2>4 DEF StreamInv, TypeInv
  <2>6. writers' \in [Connections -> [last : 0..MaxSequence, available : BOOLEAN,
                                     holder : Tasks \cup {NoTask}]]
    BY <2>3, <2>4 DEF StreamInv, TypeInv
  <2>. QED
    BY <2>5, <2>6
<1>4. /\ WritersFall
      /\ \A d \in Connections : writers'[d].holder =
             IF writers[d].holder = t THEN NoTask ELSE writers[d].holder
  BY <1>1, <1>2, <1>3 DEF WritersFall
<1>5. /\ open' \subseteq open \ {c}
      /\ wire' \in [Connections -> SUBSET Frame]
      /\ \A d \in Connections : wire'[d] \subseteq wire[d]
  <2>1. CASE writers[c].available
    BY <2>1, <1>1, <1>3 DEF StreamInv, TypeInv, Abandon, Closed
  <2>2. CASE ~writers[c].available
    <3>1. UNCHANGED <<wire, open>>
      BY <2>2 DEF Abandon
    <3>. QED
      BY <2>2, <3>1 DEF StreamInv, TypeInv, OpenInv
  <2>. QED
    BY <2>1, <2>2
<1>6. /\ \A d \in open' : writers'[d].available
      /\ \A d \in Connections : d > current => writers'[d].available
  <2>1. \A d \in open' : d \in open /\ d \in Connections /\ d # c
    BY <1>5 DEF StreamInv, TypeInv
  <2>2. \A d \in Connections : d > current => d # c
    BY <1>1, StreamAssumption DEF StreamInv, TypeInv, Connections
  <2>. QED
    BY <2>1, <2>2, <1>3 DEF StreamInv, OpenInv
<1>7. /\ routes' = Unrouted(t, c, FALSE)
      /\ tasks' = [tasks EXCEPT ![t] = Idle]
      /\ UNCHANGED <<written, current, worker>>
  BY DEF Abandon, clientSide
<1>. QED
  BY <1>1, <1>3, <1>4, <1>5, <1>6, <1>7, TaskEnds

\* A step of a task between Idle, Routing and Sending: nothing is numbered or
\* written, and a version lock is taken only for a newer version.
LEMMA TaskWaits ==
    ASSUME StreamInv, NEW t \in Tasks, tasks[t].at \in {"Idle", "Routing"},
           NEW w \in WaitingTask, tasks' = [tasks EXCEPT ![t] = w], w.conn <= current,
           w.at = "Routing" => w.event.kind = "Route",
           w.at = "Sending" /\ w.event.kind = "Route" =>
               /\ routes[w.conn].holder = NoTask
               /\ w.event.version > routes[w.conn].version
               /\ routes'[w.conn].holder = t,
           w.at = "Routing" \/ w.event.kind # "Route" => routes' = routes,
           \A d \in Connections : d # w.conn => routes'[d] = routes[d],
           routes'[w.conn].version = routes[w.conn].version,
           routes' \in [Connections -> [holder : Tasks \cup {NoTask}, version : {0} \cup Versions]],
           UNCHANGED <<writers, open, current, wire, written, worker>>
    PROVE  StreamInv'
<1>1. /\ tasks'[t] = w
      /\ \A u \in Tasks : u # t => tasks'[u] = tasks[u]
      /\ tasks' \in [Tasks -> {Idle} \cup WaitingTask \cup HoldingTask]
  BY DEF StreamInv, TypeInv
<1>2. /\ w.at \in {"Routing", "Sending"}
      /\ w.conn \in Connections
      /\ w # Idle
      /\ w.at \notin Holding
  BY DEF WaitingTask, Idle, Holding
<1>3. TypeInv'
  BY <1>1 DEF StreamInv, TypeInv
<1>4. OpenInv'
  BY <1>1, <1>2 DEF StreamInv, OpenInv
<1>5. LockInv'
  <2>. SUFFICES ASSUME NEW u \in Tasks, NEW d \in Connections
                PROVE  /\ writers[d].holder = u <=>
                             tasks'[u].at \in Holding /\ tasks'[u].conn = d
                       /\ routes'[d].holder = u <=>
                             /\ tasks'[u].at \in Routed
                             /\ tasks'[u].event.kind = "Route"
                             /\ tasks'[u].conn = d
    BY DEF LockInv
  <2>1. u # NoTask
    BY StreamAssumption
  <2>2. CASE u = t
    <3>1. writers[d].holder # t /\ routes[d].holder # t
      BY DEF StreamInv, LockInv, Holding, Routed
    <3>2. CASE w.at = "Sending" /\ w.event.kind = "Route"
      BY <2>2, <3>1, <3>2, <1>1, <1>2 DEF Routed
    <3>3. CASE w.at = "Routing" \/ w.event.kind # "Route"
      BY <2>2, <3>1, <3>3, <1>1, <1>2 DEF Routed
    <3>. QED
      BY <3>2, <3>3, <1>2
  <2>3. CASE u # t
    <3>1. tasks'[u] = tasks[u]
      BY <2>3, <1>1
    <3>2. routes'[d].holder = u <=> routes[d].holder = u
      BY <2>1, <2>3, <1>2
    <3>. QED
      BY <3>1, <3>2 DEF StreamInv, LockInv
  <2>. QED
    BY <2>2, <2>3
<1>6. \A u \in Tasks : tasks[u].at \in Holding \/ tasks'[u].at \in Holding =>
                         u # t /\ tasks'[u] = tasks[u]
  BY <1>1, <1>2 DEF Holding
<1>7. HolderInv'
  BY <1>6 DEF StreamInv, HolderInv
<1>8. BelowInv' /\ RouteNeverRewinds'
  BY DEF StreamInv, BelowInv, RouteNeverRewinds
<1>9. \A n : \A d \in Connections : IsHeld(n, d) => IsHeld(n, d)'
  BY <1>6 DEF IsHeld, Holding
<1>10. GapInv'
  BY <1>9 DEF StreamInv, GapInv
<1>11. \A d \in Connections : routes'[d].version = routes[d].version
  BY <1>2
<1>12. NewerInv'
  <2>. SUFFICES ASSUME NEW u \in Tasks
                PROVE  /\ tasks'[u].at = "Routing" => tasks'[u].event.kind = "Route"
                       /\ tasks'[u].at \in Routed /\ tasks'[u].event.kind = "Route" =>
                            tasks'[u].event.version > routes'[tasks'[u].conn].version
    BY DEF NewerInv
  <2>1. CASE u = t
    BY <2>1, <1>1, <1>2, <1>11 DEF Routed
  <2>2. CASE u # t
    <3>1. tasks'[u] = tasks[u]
      BY <2>2, <1>1
    <3>2. tasks[u].at \in Routed => tasks[u].conn \in Connections
      BY TaskShape DEF StreamInv, WaitingTask, HoldingTask, Routed, Holding
    <3>. QED
      BY <3>1, <3>2, <1>11 DEF StreamInv, NewerInv
  <2>. QED
    BY <2>1, <2>2
<1>13. \A f : \A d \in Connections : Recording(f, d) => Recording(f, d)'
  BY <1>6 DEF Recording, Holding
<1>14. RecordedInv'
  BY <1>11, <1>13 DEF StreamInv, RecordedInv
<1>. QED
  BY <1>3, <1>4, <1>5, <1>7, <1>8, <1>10, <1>12, <1>14 DEF StreamInv

LEMMA ProduceKeeps ==
    ASSUME StreamInv, NEW t \in Tasks, NEW e \in Event, Produce(t, e) PROVE StreamInv'
<1>. DEFINE w == [at |-> IF e.kind = "Route" THEN "Routing" ELSE "Sending",
                  conn |-> current, event |-> e]
<1>1. current \in Connections
  BY StreamAssumption DEF Produce, StreamInv, TypeInv, Connections
<1>2. w \in WaitingTask
  BY <1>1 DEF WaitingTask
<1>3. /\ tasks[t].at = "Idle"
      /\ tasks' = [tasks EXCEPT ![t] = w]
      /\ UNCHANGED <<writers, routes, open, current, wire, written, worker>>
  BY DEF Produce, clientSide, Idle
<1>4. /\ w.conn = current
      /\ w.at = "Routing" <=> w.event.kind = "Route"
      /\ ~(w.at = "Sending" /\ w.event.kind = "Route")
  OBVIOUS
<1>5. current <= current
  BY DEF StreamInv, TypeInv
<1>6. routes' \in [Connections -> [holder : Tasks \cup {NoTask}, version : {0} \cup Versions]]
  BY <1>3 DEF StreamInv, TypeInv
<1>. HIDE DEF w
<1>. QED
  BY <1>2, <1>3, <1>4, <1>5, <1>6, TaskWaits

LEMMA LockRouteKeeps ==
    ASSUME StreamInv, NEW t \in Tasks, LockRoute(t) PROVE StreamInv'
<1>. DEFINE c == tasks[t].conn
            w == [at |-> "Sending", conn |-> c, event |-> tasks[t].event]
<1>1. /\ tasks[t].at = "Routing"
      /\ tasks[t] # Idle
      /\ tasks[t] \in WaitingTask
      /\ c \in Connections
      /\ tasks[t].event \in Event
      /\ tasks[t].event.kind = "Route"
      /\ c <= current
  BY TaskShape DEF StreamInv, LockRoute, WaitingTask, Idle, NewerInv, OpenInv
<1>2. UNCHANGED <<writers, open, current, wire, written, worker>>
  BY DEF LockRoute, clientSide
<1>3. CASE tasks[t].event.version <= routes[c].version
  <2>1. /\ tasks' = [tasks EXCEPT ![t] = Idle]
        /\ routes' = routes
    BY <1>3 DEF LockRoute
  <2>2. \A d \in Connections : writers[d].holder # t /\ routes[d].holder # t
    BY <1>1 DEF StreamInv, LockInv, Holding, Routed
  <2>3. routes' = Unrouted(t, tasks[t].conn, FALSE)
    BY <2>1, <2>2, <1>1 DEF Unrouted
  <2>4. /\ WritersFall
        /\ \A d \in Connections : writers'[d].holder =
               IF writers[d].holder = t THEN NoTask ELSE writers[d].holder
    BY <2>2, <1>2 DEF StreamInv, TypeInv, WritersFall
  <2>5. /\ open' \subseteq open
        /\ \A d \in open' : writers'[d].available
        /\ \A d \in Connections : d > current => writers'[d].available
        /\ wire' \in [Connections -> SUBSET Frame]
        /\ \A d \in Connections : wire'[d] \subseteq wire[d]
    BY <1>2 DEF StreamInv, TypeInv, OpenInv
  <2>. QED
    BY <1>1, <1>2, <2>1, <2>3, <2>4, <2>5, TaskEnds
<1>4. CASE ~(tasks[t].event.version <= routes[c].version)
  <2>1. /\ routes[c].holder = NoTask
        /\ tasks' = [tasks EXCEPT ![t] = w]
        /\ routes' = [routes EXCEPT ![c].holder = t]
    BY <1>4 DEF LockRoute
  <2>2. w \in WaitingTask
    BY <1>1 DEF WaitingTask
  <2>3. /\ routes'[c].holder = t
        /\ routes'[c].version = routes[c].version
        /\ \A d \in Connections : d # c => routes'[d] = routes[d]
        /\ routes' \in [Connections -> [holder : Tasks \cup {NoTask}, version : {0} \cup Versions]]
    BY <2>1, <1>1 DEF StreamInv, TypeInv
  <2>4. tasks[t].event.version > routes[c].version
    BY <1>1, <1>4, StreamAssumption DEF StreamInv, TypeInv, Event, Versions
  <2>5. w.conn = c /\ w.at = "Sending" /\ w.event = tasks[t].event
    OBVIOUS
  <2>. HIDE DEF w
  <2>6. /\ tasks[t].at \in {"Idle", "Routing"}
        /\ w.conn <= current
        /\ w.at = "Routing" => w.event.kind = "Route"
        /\ w.at = "Sending" /\ w.event.kind = "Route" =>
               /\ routes[w.conn].holder = NoTask
               /\ w.event.version > routes[w.conn].version
               /\ routes'[w.conn].holder = t
        /\ w.at = "Routing" \/ w.event.kind # "Route" => routes' = routes
        /\ \A d \in Connections : d # w.conn => routes'[d] = routes[d]
        /\ routes'[w.conn].version = routes[w.conn].version
    BY <1>1, <2>1, <2>3, <2>4, <2>5
  <2>. QED
    BY <1>2, <2>1, <2>2, <2>3, <2>6, TaskWaits
<1>. QED
  BY <1>3, <1>4

LEMMA TakeSequenceKeeps ==
    ASSUME StreamInv, NEW t \in Tasks, TakeSequence(t) PROVE StreamInv'
<1>. DEFINE c == tasks[t].conn
            n == writers[c].last + 1
            w == [at |-> "Writing", conn |-> c, event |-> tasks[t].event,
                  frame |-> [sequence |-> n, event |-> tasks[t].event]]
<1>1. /\ tasks[t].at = "Sending"
      /\ tasks[t] \in WaitingTask
      /\ c \in Connections
      /\ c <= current
      /\ tasks[t].event \in Event
  BY TaskShape DEF StreamInv, TakeSequence, WaitingTask, Idle, OpenInv
<1>2. /\ writers[c].available
      /\ writers[c].holder = NoTask
      /\ writers[c].last \in 0..MaxSequence
      /\ writers[c].last # MaxSequence
      /\ n \in 1..MaxSequence
      /\ tasks' = [tasks EXCEPT ![t] = w]
      /\ UNCHANGED <<routes, open, current, wire, written, worker>>
  BY <1>1, StreamAssumption DEF StreamInv, TypeInv, TakeSequence, Exhausted, clientSide
<1>3. /\ writers'[c].last = n
      /\ writers'[c].holder = t
      /\ writers'[c].available = writers[c].available
      /\ \A d \in Connections : d # c => writers'[d] = writers[d]
      /\ writers' \in [Connections -> [last : 0..MaxSequence, available : BOOLEAN,
                                       holder : Tasks \cup {NoTask}]]
  <2>1. writers \in [Connections -> [last : 0..MaxSequence, available : BOOLEAN,
                                     holder : Tasks \cup {NoTask}]]
    BY DEF StreamInv, TypeInv
  <2>2. writers' = [writers EXCEPT ![c] = [writers[c] EXCEPT !.last = n, !.holder = t]]
    BY <1>1, <1>2, <2>1 DEF TakeSequence
  <2>3. n \in 0..MaxSequence
    BY <1>2, StreamAssumption
  <2>4. [writers[c] EXCEPT !.last = n, !.holder = t]
            \in [last : 0..MaxSequence, available : BOOLEAN, holder : Tasks \cup {NoTask}]
    BY <1>1, <2>1, <2>3
  <2>. HIDE DEF n
  <2>. QED
    BY <1>1, <2>1, <2>2, <2>4
<1>4. w \in HoldingTask
  BY <1>1, <1>2 DEF HoldingTask, Holding, Frame
<1>5. /\ tasks'[t] = w
      /\ \A u \in Tasks : u # t => tasks'[u] = tasks[u]
      /\ tasks' \in [Tasks -> {Idle} \cup WaitingTask \cup HoldingTask]
  BY <1>2, <1>4 DEF StreamInv, TypeInv
<1>6. /\ w.at = "Writing" /\ w.conn = c /\ w.event = tasks[t].event
      /\ w.frame.sequence = n /\ w.frame.event = tasks[t].event
      /\ w # Idle
  BY DEF Idle
<1>. HIDE DEF w
<1>7. TypeInv'
  BY <1>2, <1>3, <1>5 DEF StreamInv, TypeInv
<1>8. OpenInv'
  <2>1. \A d \in Connections : writers'[d].available = writers[d].available
    BY <1>1, <1>3
  <2>2. \A u \in Tasks : tasks'[u] # Idle => tasks'[u].conn <= current
    BY <1>1, <1>5, <1>6 DEF StreamInv, OpenInv
  <2>. QED
    BY <2>1, <2>2, <1>2 DEF StreamInv, TypeInv, OpenInv
<1>9. LockInv'
  <2>. SUFFICES ASSUME NEW u \in Tasks, NEW d \in Connections
                PROVE  /\ writers'[d].holder = u <=>
                             tasks'[u].at \in Holding /\ tasks'[u].conn = d
                       /\ routes[d].holder = u <=>
                             /\ tasks'[u].at \in Routed
                             /\ tasks'[u].event.kind = "Route"
                             /\ tasks'[u].conn = d
    BY <1>2 DEF LockInv
  <2>1. u # NoTask
    BY StreamAssumption
  <2>2. CASE u = t
    BY <2>2, <1>1, <1>3, <1>5, <1>6 DEF StreamInv, LockInv, Holding, Routed
  <2>3. CASE u # t
    BY <2>1, <2>3, <1>1, <1>2, <1>3, <1>5 DEF StreamInv, LockInv
  <2>. QED
    BY <2>2, <2>3
<1>10. \A u \in Tasks : tasks[u].at \in Holding => u # t /\ tasks'[u] = tasks[u] /\ tasks[u].conn # c
  BY <1>1, <1>2, <1>5, StreamAssumption DEF StreamInv, LockInv, Holding
<1>11. \A f \in written[c] : f.sequence < n
  BY <1>1, <1>2, StreamAssumption DEF StreamInv, BelowInv, TypeInv, Frame
<1>12. HolderInv'
  <2>. SUFFICES ASSUME NEW u \in Tasks, tasks'[u].at \in Holding
                PROVE  /\ tasks'[u].frame.sequence = writers'[tasks'[u].conn].last
                       /\ tasks'[u].frame.event = tasks'[u].event
                       /\ tasks'[u].at = "Written" => tasks'[u].frame \in written[tasks'[u].conn]
                       /\ tasks'[u].at = "Writing" =>
                             \A f \in written[tasks'[u].conn] : f.sequence < tasks'[u].frame.sequence
    BY <1>2 DEF HolderInv
  <2>1. CASE u = t
    BY <2>1, <1>3, <1>5, <1>6, <1>11
  <2>2. CASE u # t
    <3>1. tasks'[u] = tasks[u] /\ tasks[u].conn # c /\ tasks[u].conn \in Connections
      BY <2>2, <1>5, <1>10, TaskShape DEF StreamInv, HoldingTask
    <3>. QED
      BY <3>1, <1>3 DEF StreamInv, HolderInv
  <2>. QED
    BY <2>1, <2>2
<1>13. BelowInv'
  <2>1. \A f \in written[c] : f.sequence <= n
    BY <1>1, <1>2, <1>11, StreamAssumption DEF StreamInv, TypeInv, Frame
  <2>. QED
    BY <2>1, <1>2, <1>3 DEF StreamInv, BelowInv
<1>14. GapInv'
  <2>. SUFFICES ASSUME NEW d \in Connections, writers'[d].available,
                       NEW m \in 1..writers'[d].last
                PROVE  (\E f \in written[d] : f.sequence = m) \/ IsHeld(m, d)'
    BY <1>2 DEF GapInv
  <2>1. CASE d = c /\ m = n
    BY <2>1, <1>5, <1>6 DEF IsHeld
  <2>2. CASE ~(d = c /\ m = n)
    <3>1. writers[d].available /\ m \in 1..writers[d].last
      BY <2>2, <1>2, <1>3, StreamAssumption
    <3>2. IsHeld(m, d) => IsHeld(m, d)'
      BY <1>10 DEF IsHeld, Holding
    <3>. QED
      BY <3>1, <3>2 DEF StreamInv, GapInv
  <2>. QED
    BY <2>1, <2>2
<1>15. NewerInv'
  BY <1>1, <1>2, <1>5, <1>6 DEF StreamInv, NewerInv, Routed
<1>16. RecordedInv' /\ RouteNeverRewinds'
  <2>1. \A f : \A d \in Connections : Recording(f, d) => Recording(f, d)'
    BY <1>10 DEF Recording, Holding
  <2>. QED
    BY <2>1, <1>2, <1>3 DEF StreamInv, RecordedInv, RouteNeverRewinds
<1>. QED
  BY <1>7, <1>8, <1>9, <1>12, <1>13, <1>14, <1>15, <1>16 DEF StreamInv

LEMMA RetireKeeps ==
    ASSUME StreamInv, NEW c \in Connections, Retire(c) PROVE StreamInv'
<1>1. /\ \A d \in Connections : d # c => writers'[d] = writers[d]
      /\ writers'[c].last = writers[c].last
      /\ writers'[c].available = FALSE
      /\ writers'[c].holder = writers[c].holder
      /\ writers' \in [Connections -> [last : 0..MaxSequence, available : BOOLEAN,
                                       holder : Tasks \cup {NoTask}]]
  BY DEF StreamInv, TypeInv, Retire
<1>2. /\ WritersFall
      /\ \A d \in Connections : writers'[d].holder = writers[d].holder
  BY <1>1 DEF WritersFall
<1>3. /\ UNCHANGED <<tasks, routes, written, current, worker>>
      /\ open' = open \ {c}
      /\ wire' = [wire EXCEPT ![c] = {}]
      /\ c <= current
  BY DEF Retire, Closed, clientSide
<1>4. TypeInv'
  BY <1>1, <1>3 DEF StreamInv, TypeInv
<1>5. OpenInv'
  <2>1. \A d \in Connections : d > current => d # c
    BY <1>3, StreamAssumption DEF StreamInv, TypeInv, Connections
  <2>. QED
    BY <2>1, <1>1, <1>3 DEF StreamInv, TypeInv, OpenInv
<1>. QED
  BY <1>2, <1>3, <1>4, <1>5, QuietKeeps

LEMMA ConnectKeeps ==
    ASSUME StreamInv, Connect PROVE StreamInv'
<1>1. /\ current + 1 \in Connections
      /\ current' = current + 1
      /\ open' = (open \ {current}) \cup {current + 1}
      /\ wire' = [c \in Connections |-> IF c = current THEN {} ELSE wire[c]]
      /\ UNCHANGED <<routes, tasks, written>>
  BY DEF Connect
<1>2. /\ \A d \in Connections : d # current => writers'[d] = writers[d]
      /\ \A d \in Connections : d = current =>
            /\ writers'[d].last = writers[d].last
            /\ writers'[d].available = FALSE
            /\ writers'[d].holder = writers[d].holder
      /\ writers' \in [Connections -> [last : 0..MaxSequence, available : BOOLEAN,
                                       holder : Tasks \cup {NoTask}]]
  BY DEF StreamInv, TypeInv, Connect
<1>3. /\ WritersFall
      /\ \A d \in Connections : writers'[d].holder = writers[d].holder
  BY <1>2 DEF WritersFall
<1>4. TypeInv'
  <2>1. /\ wire' \in [Connections -> SUBSET Frame]
        /\ \A d \in Connections : wire'[d] \subseteq written'[d]
    BY <1>1 DEF StreamInv, TypeInv
  <2>2. /\ worker' = [phase |-> worker'.phase, inbox |-> worker'.inbox]
        /\ worker'.phase \in Phases
    BY DEF Connect, Phases
  <2>3. open' \subseteq Connections /\ current' \in 0..MaxConnections
    BY <1>1, StreamAssumption DEF StreamInv, TypeInv, Connections
  <2>. QED
    BY <1>1, <1>2, <2>1, <2>2, <2>3 DEF StreamInv, TypeInv
<1>5. OpenInv'
  <2>1. current + 1 > current /\ current + 1 # current
    BY DEF StreamInv, TypeInv
  <2>2. \A d \in open' : writers'[d].available
    BY <2>1, <1>1, <1>2 DEF StreamInv, TypeInv, OpenInv
  <2>3. \A d \in Connections : d > current' => writers'[d].available
    <3>1. \A d \in Connections : d > current + 1 => d > current /\ d # current
      BY StreamAssumption DEF StreamInv, TypeInv, Connections
    <3>. QED
      BY <3>1, <1>1, <1>2 DEF StreamInv, OpenInv
  <2>4. \A t \in Tasks : tasks[t] # Idle => tasks[t].conn <= current + 1
    <3>1. \A t \in Tasks : tasks[t] # Idle => tasks[t].conn \in Connections
      BY TaskShape DEF StreamInv, WaitingTask, HoldingTask, Routed, Holding
    <3>. QED
      BY <3>1, StreamAssumption DEF StreamInv, TypeInv, OpenInv, Connections
  <2>. QED
    BY <2>2, <2>3, <2>4, <1>1 DEF OpenInv
<1>. QED
  BY <1>1, <1>3, <1>4, <1>5, QuietKeeps

\* The client only takes frames off the wire and closes its connection.
LEMMA ClientKeeps ==
    ASSUME StreamInv, UNCHANGED <<writers, routes, tasks, current, written>>,
           open' \subseteq open, wire' \in [Connections -> SUBSET Frame],
           \A d \in Connections : wire'[d] \subseteq wire[d],
           worker' = [phase |-> worker'.phase, inbox |-> worker'.inbox],
           worker'.phase \in Phases
    PROVE  StreamInv'
<1>1. WritersFall /\ \A d \in Connections : writers'[d].holder = writers[d].holder
  BY DEF StreamInv, TypeInv, WritersFall
<1>2. TypeInv'
  BY DEF StreamInv, TypeInv
<1>3. OpenInv'
  BY DEF StreamInv, TypeInv, OpenInv
<1>. QED
  BY <1>1, <1>2, <1>3, QuietKeeps

\* A worker that changes its phase only keeps its shape.
LEMMA WorkerShape ==
    ASSUME StreamInv, NEW p \in Phases, worker' = [worker EXCEPT !.phase = p]
    PROVE  /\ worker' = [phase |-> worker'.phase, inbox |-> worker'.inbox]
           /\ worker'.phase \in Phases
           /\ worker'.inbox = worker.inbox
<1>1. worker = [phase |-> worker.phase, inbox |-> worker.inbox]
  BY DEF StreamInv, TypeInv
<1>2. worker' = [phase |-> p, inbox |-> worker.inbox]
  BY <1>1
<1>. QED
  BY <1>2

LEMMA ReceiveKeeps ==
    ASSUME StreamInv, NEW f \in Frame, Receive(f) PROVE StreamInv'
<1>1. /\ current \in Connections
      /\ wire' = [wire EXCEPT ![current] = @ \ {f}]
      /\ open' \subseteq open
      /\ UNCHANGED <<writers, routes, tasks, current, written>>
  BY DEF Receive, Deliver, StreamInv, TypeInv
<1>2. /\ wire' \in [Connections -> SUBSET Frame]
      /\ \A d \in Connections : wire'[d] \subseteq wire[d]
  BY <1>1 DEF StreamInv, TypeInv
<1>3. /\ worker' = [phase |-> worker'.phase, inbox |-> worker'.inbox]
      /\ worker'.phase \in Phases
  <2>1. CASE PushError(worker.inbox, f) = "None"
    BY <2>1 DEF Receive, Deliver, Phases
  <2>2. CASE PushError(worker.inbox, f) # "None"
    <3>1. PICK p \in {"Fatal", "Connecting"} : worker' = [worker EXCEPT !.phase = p]
      BY <2>2 DEF Receive, Deliver
    <3>. QED
      BY <3>1, WorkerShape DEF Phases
  <2>. QED
    BY <2>1, <2>2
<1>. QED
  BY <1>1, <1>2, <1>3, ClientKeeps

LEMMA OtherClientSteps ==
    ASSUME StreamInv, Ask \/ GapTimeout \/ NoticeLoss \/ LoseLink \/ Restart
    PROVE  StreamInv'
<1>1. /\ UNCHANGED <<writers, routes, tasks, current, written>>
      /\ open' \subseteq open
  BY DEF Ask, GapTimeout, NoticeLoss, LoseLink, Restart, Closed, clientSide
<1>2. wire' = wire \/ wire' = [wire EXCEPT ![current] = {}]
  BY DEF Ask, GapTimeout, NoticeLoss, LoseLink, Restart, Closed, clientSide
<1>3. /\ wire' \in [Connections -> SUBSET Frame]
      /\ \A d \in Connections : wire'[d] \subseteq wire[d]
  BY <1>2 DEF StreamInv, TypeInv
<1>4. worker' = worker \/ \E p \in Phases : worker' = [worker EXCEPT !.phase = p]
  BY DEF Ask, GapTimeout, NoticeLoss, LoseLink, Restart, Phases, clientSide
<1>5. /\ worker' = [phase |-> worker'.phase, inbox |-> worker'.inbox]
      /\ worker'.phase \in Phases
  <2>1. CASE worker' = worker
    BY <2>1 DEF StreamInv, TypeInv
  <2>2. CASE \E p \in Phases : worker' = [worker EXCEPT !.phase = p]
    BY <2>2, WorkerShape
  <2>. QED
    BY <1>4, <2>1, <2>2
<1>. QED
  BY <1>1, <1>3, <1>5, ClientKeeps

LEMMA StepKeeps == StreamInv /\ [StreamNext]_streamVars => StreamInv'
<1>. SUFFICES ASSUME StreamInv, [StreamNext]_streamVars PROVE StreamInv'
  OBVIOUS
<1>1. ASSUME NEW t \in Tasks, NEW e \in Event, Produce(t, e) PROVE StreamInv'
  BY <1>1, ProduceKeeps
<1>2. ASSUME NEW t \in Tasks, TaskStep(t) \/ Abandon(t) \/ Cancel(t) PROVE StreamInv'
  BY <1>2, LockRouteKeeps, TakeSequenceKeeps, GiveUpKeeps, WriteKeeps, CommitKeeps,
     AbandonKeeps, CancelKeeps DEF TaskStep
<1>3. ASSUME NEW c \in Connections, Retire(c) PROVE StreamInv'
  BY <1>3, RetireKeeps
<1>4. CASE Connect
  BY <1>4, ConnectKeeps
<1>5. CASE Ask \/ GapTimeout \/ NoticeLoss \/ LoseLink \/ Restart
  BY <1>5, OtherClientSteps
<1>6. ASSUME NEW f \in Frame, Receive(f) PROVE StreamInv'
  BY <1>6, ReceiveKeeps
<1>7. CASE UNCHANGED streamVars
  <2>1. /\ UNCHANGED <<writers, routes, tasks, current, written, open, wire, worker>>
    BY <1>7 DEF streamVars
  <2>. QED
    BY <2>1, ClientKeeps DEF StreamInv, TypeInv
<1>. QED
  BY <1>1, <1>2, <1>3, <1>4, <1>5, <1>6, <1>7 DEF StreamNext, Finished

-----------------------------------------------------------------------------
(* Theorems *)

\* For any number of tasks and connections the invariant of the writers holds.
THEOREM StreamInvariant == StreamSpec => []StreamInv
<1>. QED
  BY InitStream, StepKeeps, PTL DEF StreamSpec

\* Numbers, locks and frames keep their types: a writer has one holder at most,
\* and a connection carries only what was written to it.
THEOREM StreamTypeCorrect == StreamSpec => []StreamTypeOK
<1>1. StreamInv => StreamTypeOK
  <2>. SUFFICES ASSUME StreamInv PROVE StreamTypeOK
    OBVIOUS
  <2>1. ASSUME NEW t \in Tasks
        PROVE  /\ tasks[t].at \in {"Idle", "Routing", "Sending", "Writing", "Written"}
               /\ tasks[t].at \in {"Writing", "Written"} <=>
                     \E c \in Connections : writers[c].holder = t
    <3>1. tasks[t].at \in Holding => tasks[t].conn \in Connections
      BY TaskShape DEF StreamInv, HoldingTask
    <3>. QED
      BY <3>1, TaskShape DEF StreamInv, LockInv, Holding, Routed
  <2>. QED
    BY <2>1 DEF StreamInv, TypeInv, StreamTypeOK, Phases
<1>. QED
  BY <1>1, StreamInvariant, PTL

\* CoreReliableWritePermit: a writer in use has written every number it gave
\* out, except the one its holder is about to write.
THEOREM NoHoles == StreamSpec => []NoHoleWhileAvailable
<1>1. StreamInv => NoHoleWhileAvailable
  <2>. SUFFICES ASSUME StreamInv, NEW c \in Connections, writers[c].available
                PROVE  Numbers(written[c]) \cup Unwritten(c) = 1..writers[c].last
    BY DEF NoHoleWhileAvailable
  <2>1. \A f \in written[c] : f.sequence \in 1..writers[c].last
    BY StreamAssumption DEF StreamInv, TypeInv, BelowInv, Frame
  <2>2. ASSUME NEW t \in Tasks, tasks[t].at = "Writing", tasks[t].conn = c
        PROVE  tasks[t].frame.sequence \in 1..writers[c].last
    <3>1. tasks[t].frame.sequence \in 1..MaxSequence
      BY <2>2, TaskShape DEF StreamInv, Holding, HoldingTask, Frame
    <3>2. tasks[t].frame.sequence = writers[c].last
      BY <2>2 DEF StreamInv, HolderInv, Holding
    <3>. QED
      BY <3>1, <3>2, StreamAssumption
  <2>3. ASSUME NEW n \in 1..writers[c].last
        PROVE  n \in Numbers(written[c]) \cup Unwritten(c)
    <3>1. (\E f \in written[c] : f.sequence = n) \/ IsHeld(n, c)
      BY <2>3 DEF StreamInv, GapInv
    <3>. QED
      BY <3>1 DEF IsHeld, Numbers, Unwritten
  <2>. QED
    BY <2>1, <2>2, <2>3 DEF Numbers, Unwritten
<1>. QED
  BY <1>1, StreamInvariant, PTL

\* send_route_event: on one connection a later route frame has a later version,
\* whoever publishes and whatever fails.
THEOREM RouteIsMonotone == StreamSpec => []RouteNeverRewinds
<1>1. StreamInv => RouteNeverRewinds
  BY DEF StreamInv
<1>. QED
  BY <1>1, StreamInvariant, PTL

-----------------------------------------------------------------------------
(* The client's inbox                                                        *)

\* A finite set of numbers above last that has no gap is an interval.
LEMMA NoGapIsInterval ==
    ASSUME NEW N \in SUBSET Nat, IsFiniteSet(N), NEW last \in Nat,
           \A m \in N : m > last /\ (last + 1) .. m \subseteq N
    PROVE  Cardinality(N) \in Nat /\ N = (last + 1) .. (last + Cardinality(N))
<1>. DEFINE k == Cardinality(N)
            I == (last + 1) .. (last + k)
<1>1. k \in Nat
  BY FS_CardinalityType
<1>. HIDE DEF k
<1>2. \A m \in Nat : IsFiniteSet((last + 1) .. (last + m)) /\ Cardinality((last + 1) .. (last + m)) = m
  <2>. TAKE m \in Nat
  <2>1. /\ IsFiniteSet((last + 1) .. (last + m))
        /\ Cardinality((last + 1) .. (last + m))
              = IF last + 1 > last + m THEN 0 ELSE (last + m) - (last + 1) + 1
    BY FS_Interval
  <2>. QED
    BY <2>1
<1>3. \A m \in N : m <= last + k
  <2>. TAKE m \in N
  <2>. DEFINE d == m - last
  <2>1. d \in Nat /\ m = last + d
    OBVIOUS
  <2>2. (last + 1) .. (last + d) \subseteq N
    BY <2>1
  <2>. HIDE DEF d
  <2>3. Cardinality((last + 1) .. (last + d)) <= k
    BY <2>2, FS_Subset DEF k
  <2>4. d <= k
    BY <1>2, <2>1, <2>3
  <2>. QED
    BY <1>1, <2>1, <2>4
<1>4. N \subseteq I
  BY <1>1, <1>3
<1>5. IsFiniteSet(I) /\ Cardinality(I) = k
  BY <1>1, <1>2
<1>6. N = I
  <2>. HIDE DEF I
  <2>. QED
    BY <1>4, <1>5, FS_Subset DEF k
<1>. QED
  BY <1>1, <1>6 DEF k

UniqueNumbers(S) == \A f, g \in S : f.sequence = g.sequence => f = g

\* As many frames as numbers
LEMMA FramesAreCounted ==
    ASSUME NEW S, UniqueNumbers(S), NEW last \in Nat, NEW k \in Nat,
           Numbers(S) = (last + 1) .. (last + k)
    PROVE  IsFiniteSet(S) /\ Cardinality(S) = k
<1>. DEFINE I == (last + 1) .. (last + k)
            h == [n \in I |-> CHOOSE g \in S : g.sequence = n]
<1>1. IsFiniteSet(I) /\ Cardinality(I) = k
  <2>1. IsFiniteSet(I) /\ Cardinality(I) = IF last + 1 > last + k THEN 0 ELSE (last + k) - (last + 1) + 1
    BY FS_Interval
  <2>. QED
    BY <2>1
<1>2. Numbers(S) = I
  OBVIOUS
<1>. HIDE DEF I
<1>3. \A n \in I : h[n] \in S /\ h[n].sequence = n
  BY <1>2 DEF Numbers
<1>4. \A g \in S : g.sequence \in I
  BY <1>2 DEF Numbers
<1>5. DOMAIN h = I /\ h = [n \in I |-> h[n]]
  OBVIOUS
<1>. HIDE DEF h
<1>6. h \in [I -> S]
  BY <1>3, <1>5
<1>7. \A m, n \in I : h[m] = h[n] => m = n
  BY <1>3
<1>8. \A g \in S : \E n \in I : h[n] = g
  BY <1>3, <1>4 DEF UniqueNumbers
<1>9. h \in Bijection(I, S)
  BY <1>6, <1>7, <1>8 DEF Bijection, Injection, Surjection, IsInjective
<1>. QED
  BY <1>1, <1>9, FS_Bijection DEF ExistsBijection

\* The frames that become ready are the next k numbers, in this order.
LEMMA ReadySegment ==
    ASSUME NEW inbox, NEW f, inbox.last \in Nat,
           inbox.pending \cup {f} \subseteq Frame, UniqueNumbers(inbox.pending \cup {f}),
           \A g \in inbox.pending \cup {f} : g.sequence > inbox.last
    PROVE  LET ready == Ready(inbox, f)
               k == Cardinality(ready)
           IN  /\ k \in Nat
               /\ ready \subseteq inbox.pending \cup {f}
               /\ InOrder(ready) \in Seq(Frame) /\ Len(InOrder(ready)) = k
               /\ \A i \in 1 .. k : /\ InOrder(ready)[i] \in ready
                                     /\ InOrder(ready)[i].sequence = inbox.last + i
               /\ \A g \in ready : g.sequence <= inbox.last + k
               /\ \A g \in (inbox.pending \cup {f}) \ ready : g.sequence > inbox.last + k
<1>. DEFINE all == inbox.pending \cup {f}
            ready == Ready(inbox, f)
            last == inbox.last
            N == Numbers(ready)
            k == Cardinality(N)
<1>1. last \in Nat /\ all \subseteq Frame /\ UniqueNumbers(all) /\ \A g \in all : g.sequence > last
  OBVIOUS
<1>2. ready = {g \in all : \A n \in (last + 1) .. g.sequence : \E h \in all : h.sequence = n}
  BY DEF Ready
<1>3. \A g \in all : g.sequence \in 1 .. MaxSequence
  BY <1>1 DEF Frame
<1>. HIDE DEF all, ready, last
<1>4. N \in SUBSET Nat /\ \A n \in N : n <= MaxSequence
  BY <1>2, <1>3, StreamAssumption DEF Numbers
<1>5. IsFiniteSet(N)
  BY <1>4, StreamAssumption, FS_BoundedSetOfNaturals
<1>6. ASSUME NEW m \in N PROVE m > last /\ (last + 1) .. m \subseteq N
  <2>1. PICK g \in ready : g.sequence = m
    BY DEF Numbers
  <2>2. m > last /\ m \in Nat
    BY <1>1, <1>2, <1>3, <2>1
  <2>3. ASSUME NEW n \in (last + 1) .. m PROVE n \in N
    <3>1. PICK h \in all : h.sequence = n
      BY <1>2, <2>1, <2>3
    <3>2. h \in ready
      <4>1. \A i \in (last + 1) .. n : i \in (last + 1) .. m
        BY <1>1, <2>2, <2>3
      <4>. QED
        BY <1>2, <2>1, <3>1, <4>1
    <3>. QED
      BY <3>1, <3>2 DEF Numbers
  <2>. QED
    BY <2>2, <2>3
<1>7. k \in Nat /\ N = (last + 1) .. (last + k)
  BY <1>1, <1>4, <1>5, <1>6, NoGapIsInterval
<1>. HIDE DEF k
<1>8. UniqueNumbers(ready) /\ ready \subseteq all /\ ready \subseteq Frame
  BY <1>1, <1>2 DEF UniqueNumbers
<1>9. Cardinality(ready) = k
  BY <1>1, <1>7, <1>8, FramesAreCounted
<1>10. ASSUME NEW j \in 1 .. k, NEW g \in ready, g.sequence = last + j
       PROVE  Cardinality({h \in ready : h.sequence <= g.sequence}) = j
  <2>. DEFINE S == {h \in ready : h.sequence <= g.sequence}
  <2>1. UniqueNumbers(S)
    BY <1>8 DEF UniqueNumbers
  <2>2. Numbers(S) = (last + 1) .. (last + j)
    <3>1. \A h \in ready : h.sequence \in (last + 1) .. (last + k)
      BY <1>7 DEF Numbers
    <3>2. \A n \in (last + 1) .. (last + k) : \E h \in ready : h.sequence = n
      BY <1>7 DEF Numbers
    <3>3. \A n \in (last + 1) .. (last + j) : n \in (last + 1) .. (last + k) /\ n <= last + j
      BY <1>1, <1>7
    <3>4. \A n \in (last + 1) .. (last + k) : n <= last + j => n \in (last + 1) .. (last + j)
      BY <1>1, <1>7
    <3>. QED
      BY <1>10, <3>1, <3>2, <3>3, <3>4 DEF Numbers
  <2>. HIDE DEF S
  <2>3. Cardinality(S) = j
    BY <1>1, <1>7, <2>1, <2>2, FramesAreCounted
  <2>. QED
    BY <2>3 DEF S
<1>11. \A g \in ready : \E j \in 1 .. k : g.sequence = last + j
  <2>. TAKE g \in ready
  <2>1. g.sequence \in (last + 1) .. (last + k)
    BY <1>7 DEF Numbers
  <2>2. g.sequence - last \in 1 .. k /\ g.sequence = last + (g.sequence - last)
    BY <1>1, <1>7, <2>1
  <2>. QED
    BY <2>2
<1>12. ASSUME NEW i \in 1 .. k
       PROVE  InOrder(ready)[i] \in ready /\ InOrder(ready)[i].sequence = last + i
  <2>1. last + i \in (last + 1) .. (last + k)
    BY <1>1, <1>7
  <2>2. PICK g \in ready : g.sequence = last + i
    BY <1>7, <2>1 DEF Numbers
  <2>3. Cardinality({h \in ready : h.sequence <= g.sequence}) = i
    BY <1>10, <2>2
  <2>. DEFINE x == CHOOSE y \in ready : Cardinality({h \in ready : h.sequence <= y.sequence}) = i
  <2>4. x \in ready /\ Cardinality({h \in ready : h.sequence <= x.sequence}) = i
    BY <2>3
  <2>5. InOrder(ready)[i] = x
    BY <1>9 DEF InOrder
  <2>. HIDE DEF x
  <2>6. PICK j \in 1 .. k : x.sequence = last + j
    BY <1>11, <2>4
  <2>7. Cardinality({h \in ready : h.sequence <= x.sequence}) = j
    BY <1>10, <2>4, <2>6
  <2>. QED
    BY <2>4, <2>5, <2>6, <2>7
<1>13. InOrder(ready) \in Seq(Frame) /\ Len(InOrder(ready)) = k
  <2>. DEFINE e(i) == CHOOSE y \in ready : Cardinality({h \in ready : h.sequence <= y.sequence}) = i
  <2>1. InOrder(ready) = [i \in 1 .. k |-> e(i)]
    BY <1>9 DEF InOrder
  <2>. HIDE DEF e
  <2>2. \A i \in 1 .. k : e(i) \in Frame
    BY <1>8, <1>12, <2>1
  <2>3. InOrder(ready) \in [1 .. k -> Frame]
    BY <2>1, <2>2
  <2>4. InOrder(ready) \in Seq(Frame)
    BY <1>7, <2>3, SeqDef
  <2>. QED
    BY <1>7, <2>3, <2>4, LenProperties
<1>14. \A g \in ready : g.sequence <= last + k
  BY <1>7 DEF Numbers
<1>15. ASSUME NEW g \in all \ ready PROVE g.sequence > last + k
  <2>. SUFFICES ASSUME g.sequence <= last + k PROVE FALSE
    BY <1>1, <1>3, <1>7
  <2>1. \A n \in (last + 1) .. g.sequence : n \in N
    BY <1>1, <1>3, <1>7
  <2>2. \A n \in N : \E h \in all : h.sequence = n
    BY <1>8 DEF Numbers
  <2>. QED
    BY <1>2, <2>1, <2>2
<1>. QED
  BY <1>7, <1>8, <1>9, <1>12, <1>13, <1>14, <1>15 DEF all, ready, last

\* The client side.  Connections that are still to come have no history; no
\* number was written twice; the inbox stands where the published frames of the
\* current connection end, and while that connection is open every frame it
\* wrote is published, pending or under way.
InboxInv ==
    /\ published \in [Connections -> Seq(Frame)]
    /\ \A c \in Connections : c > current => published[c] = <<>> /\ written[c] = {}
    /\ \A c \in Connections : UniqueNumbers(written[c])
    /\ worker.inbox.last \in Nat
    /\ current \in Connections =>
          /\ worker.inbox.last = Len(published[current])
          /\ worker.inbox.pending \subseteq written[current]
          /\ \A f \in worker.inbox.pending : f.sequence > worker.inbox.last
    /\ current \in open =>
          \A f \in written[current] :
              f.sequence <= worker.inbox.last \/ f \in worker.inbox.pending \cup wire[current]
    /\ PublishesPrefix

LEMMA InitInbox == StreamInit => InboxInv
<1>. SUFFICES ASSUME StreamInit PROVE InboxInv
  OBVIOUS
<1>1. current = 0 /\ open = {} /\ worker.inbox.last = 0 /\ 0 \notin Connections
  BY DEF StreamInit, ResumeAfter, Connections
<1>2. \A c \in Connections : published[c] = <<>> /\ written[c] = {}
  BY DEF StreamInit
<1>3. published \in [Connections -> Seq(Frame)]
  BY EmptySeq DEF StreamInit
<1>. QED
  BY <1>1, <1>2, <1>3 DEF InboxInv, PublishesPrefix, UniqueNumbers

\* A step that leaves the inbox and what was written alone
LEMMA InboxAlone ==
    ASSUME StreamInv, InboxInv, UNCHANGED <<current, written, published>>,
           worker'.inbox = worker.inbox, open' \subseteq open,
           current \in open' => wire'[current] = wire[current]
    PROVE  InboxInv'
<1>1. /\ \A c \in Connections : c > current' => published'[c] = <<>> /\ written'[c] = {}
      /\ \A c \in Connections : UniqueNumbers(written'[c])
      /\ published' \in [Connections -> Seq(Frame)]
      /\ PublishesPrefix'
  BY DEF InboxInv, PublishesPrefix
<1>2. /\ worker'.inbox.last \in Nat
      /\ current' \in Connections =>
            /\ worker'.inbox.last = Len(published'[current'])
            /\ worker'.inbox.pending \subseteq written'[current']
            /\ \A f \in worker'.inbox.pending : f.sequence > worker'.inbox.last
  BY DEF InboxInv
<1>3. ASSUME current' \in open', NEW f \in written'[current']
      PROVE  f.sequence <= worker'.inbox.last \/ f \in worker'.inbox.pending \cup wire'[current']
  BY <1>3 DEF InboxInv
<1>. QED
  BY <1>1, <1>2, <1>3 DEF InboxInv

\* Closing a connection takes only its own frames.
LEMMA ClosedLeavesOthers ==
    ASSUME StreamInv, NEW c \in Connections, Closed(c)
    PROVE  open' \subseteq open /\ (current \in open' => wire'[current] = wire[current])
<1>1. open' = open \ {c} /\ wire' = [wire EXCEPT ![c] = {}]
  BY DEF Closed
<1>. QED
  BY <1>1 DEF StreamInv, TypeInv

LEMMA ServerLeavesInbox ==
    ASSUME StreamInv, InboxInv, NEW t \in Tasks,
           \/ \E e \in Event : Produce(t, e)
           \/ LockRoute(t) \/ TakeSequence(t) \/ GiveUp(t) \/ Commit(t)
           \/ Abandon(t) \/ Cancel(t)
    PROVE  InboxInv'
<1>1. UNCHANGED <<current, written, published, worker>>
  BY DEF Produce, LockRoute, TakeSequence, GiveUp, Commit, Abandon, Cancel, clientSide
<1>2. UNCHANGED <<wire, open>> \/ (Closed(tasks[t].conn) /\ tasks[t].at \in {"Routing"} \cup Routed)
  <2>1. CASE (\E e \in Event : Produce(t, e)) \/ LockRoute(t) \/ TakeSequence(t) \/ Commit(t)
    BY <2>1 DEF Produce, LockRoute, TakeSequence, Commit
  <2>2. CASE GiveUp(t) \/ Cancel(t)
    BY <2>2 DEF GiveUp, Cancel, EndsLoop, Routed
  <2>3. CASE Abandon(t)
    BY <2>3 DEF Abandon, Routed
  <2>. QED
    BY <2>1, <2>2, <2>3
<1>3. tasks[t].at \in {"Routing"} \cup Routed => tasks[t].conn \in Connections
  BY TaskShape DEF StreamInv, WaitingTask, HoldingTask, Routed, Holding
<1>4. open' \subseteq open /\ (current \in open' => wire'[current] = wire[current])
  BY <1>2, <1>3, ClosedLeavesOthers
<1>. QED
  BY <1>1, <1>4, InboxAlone

\* Only a frame with the next number is written, on a connection up to the
\* current one, and it is under way.
LEMMA WriteLeavesInbox ==
    ASSUME StreamInv, InboxInv, NEW t \in Tasks, Write(t) PROVE InboxInv'
<1>. DEFINE c == tasks[t].conn
            f == tasks[t].frame
<1>1. tasks[t].at = "Writing" /\ c \in Connections /\ f \in Frame /\ tasks[t] # Idle
  BY TaskShape DEF StreamInv, Write, Holding, HoldingTask, Idle
<1>2. /\ \A g \in written[c] : g.sequence < f.sequence
      /\ c <= current
  BY <1>1 DEF StreamInv, HolderInv, Holding, OpenInv
<1>3. /\ UNCHANGED <<current, published, worker, open>>
      /\ wire' = [wire EXCEPT ![c] = @ \cup {f}]
      /\ written' = [written EXCEPT ![c] = @ \cup {f}]
  BY DEF Write, clientSide
<1>4. /\ wire'[c] = wire[c] \cup {f} /\ written'[c] = written[c] \cup {f}
      /\ \A d \in Connections : d # c => wire'[d] = wire[d] /\ written'[d] = written[d]
  BY <1>1, <1>3 DEF StreamInv, TypeInv
<1>5. c \in Nat /\ current \in Nat /\ Connections \subseteq Nat /\ open \subseteq Connections
  BY <1>1, StreamAssumption DEF Connections, StreamInv, TypeInv
<1>6. \A g \in written[c] : g.sequence \in Nat /\ f.sequence \in Nat
  BY <1>1, StreamAssumption DEF StreamInv, TypeInv, Frame
<1>. HIDE DEF c, f
<1>7. \A d \in Connections : d > current => published'[d] = <<>> /\ written'[d] = {}
  BY <1>2, <1>3, <1>4, <1>5 DEF InboxInv
<1>8. \A d \in Connections : UniqueNumbers(written'[d])
  <2>1. UniqueNumbers(written[c])
    BY <1>1 DEF InboxInv
  <2>2. UniqueNumbers(written'[c])
    BY <2>1, <1>2, <1>4, <1>6 DEF UniqueNumbers
  <2>. QED
    BY <2>2, <1>4 DEF InboxInv
<1>9. current \in Connections => worker.inbox.pending \subseteq written'[current]
  BY <1>4 DEF InboxInv
<1>10. ASSUME current \in open, NEW g \in written'[current]
       PROVE  g.sequence <= worker.inbox.last \/ g \in worker.inbox.pending \cup wire'[current]
  <2>1. current \in Connections
    BY <1>5, <1>10
  <2>2. CASE g \in written[current]
    BY <2>1, <2>2, <1>4, <1>10 DEF InboxInv
  <2>3. CASE g \notin written[current]
    BY <2>1, <2>3, <1>4, <1>10
  <2>. QED
    BY <2>2, <2>3
<1>11. PublishesPrefix'
  BY <1>3, <1>4 DEF InboxInv, PublishesPrefix
<1>. QED
  BY <1>3, <1>7, <1>8, <1>9, <1>10, <1>11 DEF InboxInv

\* A new connection has an empty inbox and no history.
LEMMA ConnectLeavesInbox ==
    ASSUME StreamInv, InboxInv, Connect PROVE InboxInv'
<1>1. /\ current' = current + 1 /\ current' \in Connections
      /\ worker'.inbox.last = 0 /\ worker'.inbox.pending = {}
      /\ UNCHANGED <<written, published>>
  BY DEF Connect, ResumeAfter
<1>2. current \in Nat /\ Connections \subseteq Nat
  BY StreamAssumption DEF Connections, StreamInv, TypeInv
<1>3. published[current'] = <<>> /\ written[current'] = {}
  BY <1>1, <1>2 DEF InboxInv
<1>4. \A c \in Connections : c > current' => published'[c] = <<>> /\ written'[c] = {}
  BY <1>1, <1>2 DEF InboxInv
<1>5. PublishesPrefix' /\ published' \in [Connections -> Seq(Frame)]
      /\ \A c \in Connections : UniqueNumbers(written'[c])
  BY <1>1 DEF InboxInv, PublishesPrefix
<1>6. Len(published'[current']) = 0 /\ written'[current'] = {}
  BY <1>1, <1>3
<1>. QED
  BY <1>1, <1>4, <1>5, <1>6 DEF InboxInv

\* A frame that is refused closes the connection; one that is taken publishes
\* the next numbers without a gap.
LEMMA ReceiveLeavesInbox ==
    ASSUME StreamInv, InboxInv, NEW f \in Frame, Receive(f) PROVE InboxInv'
<1>. DEFINE inbox == worker.inbox
            ready == Ready(inbox, f)
            k == Cardinality(ready)
            order == InOrder(ready)
            all == inbox.pending \cup {f}
<1>1. /\ current \in open /\ current \in Connections /\ f \in wire[current]
      /\ f \in written[current]
  BY DEF Receive, StreamInv, TypeInv
<1>2. UNCHANGED <<current, written>> /\ wire' = [wire EXCEPT ![current] = @ \ {f}]
  BY DEF Receive, Deliver
<1>3. wire'[current] = wire[current] \ {f}
  BY <1>1, <1>2 DEF StreamInv, TypeInv
<1>4. CASE PushError(inbox, f) # "None"
  <2>1. /\ worker' = [worker EXCEPT !.phase = IF @ = "Starting" THEN "Fatal" ELSE "Connecting"]
        /\ open' = open \ {current} /\ published' = published
    BY <1>4 DEF Receive, Deliver
  <2>2. worker'.inbox = worker.inbox
    <3>1. \E p \in Phases : worker' = [worker EXCEPT !.phase = p]
      BY <2>1 DEF Phases
    <3>. QED
      BY <3>1, WorkerShape
  <2>. QED
    BY <1>2, <2>1, <2>2, InboxAlone
<1>5. CASE PushError(inbox, f) = "None"
  <2>1. /\ worker'.inbox = Pushed(inbox, f) /\ open' = open
        /\ published' = [published EXCEPT ![current] = @ \o order]
    <3>1. /\ worker' = [phase |-> "Connected", inbox |-> Pushed(worker.inbox, f)]
          /\ published' = [published EXCEPT ![current] = @ \o InOrder(Ready(worker.inbox, f))]
          /\ open' = open
      BY <1>5 DEF Receive, Deliver
    <3>. QED
      BY <3>1
  <2>2. /\ inbox.last \in Nat /\ inbox.last = Len(published[current])
        /\ inbox.pending \subseteq written[current]
        /\ \A g \in inbox.pending : g.sequence > inbox.last
        /\ published[current] \in Seq(Frame)
    BY <1>1 DEF InboxInv
  <2>3. f.sequence \in Nat /\ Window \in Nat
    BY InboxAssumption, StreamAssumption DEF Frame
  <2>4. f.sequence > inbox.last
    <3>. SUFFICES ASSUME f.sequence < inbox.last + 1 PROVE PushError(inbox, f) = "StaleSequence"
      BY <1>5, <2>2, <2>3
    <3>1. /\ ~(f.sequence > (inbox.last + 1) + Window)
          /\ f.sequence \notin ((inbox.last + 1) + 1)..((inbox.last + 1) + Window)
      BY <2>2, <2>3
    <3>. QED
      BY <3>1 DEF PushError
  <2>5. all \subseteq written[current] /\ all \subseteq Frame
    BY <1>1, <2>2 DEF StreamInv, TypeInv
  <2>6. UniqueNumbers(all)
    <3>1. UniqueNumbers(written[current])
      BY <1>1 DEF InboxInv
    <3>. QED
      BY <2>5, <3>1 DEF UniqueNumbers
  <2>7. \A g \in all : g.sequence > inbox.last
    BY <2>2, <2>4
  <2>8. /\ k \in Nat /\ ready \subseteq all
        /\ order \in Seq(Frame) /\ Len(order) = k
        /\ \A i \in 1 .. k : order[i] \in ready /\ order[i].sequence = inbox.last + i
        /\ \A g \in ready : g.sequence <= inbox.last + k
        /\ \A g \in all \ ready : g.sequence > inbox.last + k
    BY <2>2, <2>5, <2>6, <2>7, ReadySegment
  <2>9. worker'.inbox.last = inbox.last + k /\ worker'.inbox.pending = all \ ready
    BY <2>1 DEF Pushed
  <2>. HIDE DEF all, order, k, ready, inbox
  <2>10. /\ published'[current] = published[current] \o order
         /\ \A c \in Connections : c # current => published'[c] = published[c]
    BY <1>1, <2>1 DEF InboxInv
  <2>11. /\ published[current] \o order \in Seq(Frame)
         /\ Len(published[current] \o order) = inbox.last + k
         /\ \A i \in 1 .. (inbox.last + k) : (published[current] \o order)[i] =
               IF i <= inbox.last THEN published[current][i] ELSE order[i - inbox.last]
    <3>. DEFINE old == published[current]
    <3>1. old \in Seq(Frame) /\ order \in Seq(Frame)
      BY <2>2, <2>8
    <3>. HIDE DEF old
    <3>2. /\ old \o order \in Seq(Frame)
          /\ Len(old \o order) = Len(old) + Len(order)
          /\ \A i \in 1 .. Len(old) + Len(order) : (old \o order)[i] =
                IF i <= Len(old) THEN old[i] ELSE order[i - Len(old)]
      BY <3>1, ConcatProperties
    <3>3. Len(old) = inbox.last /\ Len(order) = k
      BY <2>2, <2>8 DEF old
    <3>. QED
      BY <3>2, <3>3 DEF old
  <2>12. published' \in [Connections -> Seq(Frame)]
    BY <1>1, <2>1, <2>11 DEF InboxInv
  <2>13. \A c \in Connections : c > current => published'[c] = <<>> /\ written'[c] = {}
    <3>1. ~(current > current)
      BY StreamAssumption, <1>1 DEF Connections
    <3>. QED
      BY <1>2, <2>10, <3>1 DEF InboxInv
  <2>14. ASSUME NEW i \in 1 .. (inbox.last + k)
         PROVE  /\ (published[current] \o order)[i].sequence = i
                /\ (published[current] \o order)[i] \in written[current]
    <3>1. CASE i <= inbox.last
      <4>1. i \in 1 .. Len(published[current])
        BY <2>2, <2>8, <2>14, <3>1
      <4>. QED
        BY <1>1, <2>11, <2>14, <3>1, <4>1 DEF InboxInv, PublishesPrefix
    <3>2. CASE i > inbox.last
      <4>1. i - inbox.last \in 1 .. k /\ inbox.last + (i - inbox.last) = i /\ ~(i <= inbox.last)
        BY <2>2, <2>8, <2>14, <3>2
      <4>2. (published[current] \o order)[i] = order[i - inbox.last]
        BY <2>11, <2>14, <4>1
      <4>. QED
        BY <2>5, <2>8, <4>1, <4>2
    <3>. QED
      BY <2>2, <2>8, <2>14, <3>1, <3>2
  <2>15. PublishesPrefix'
    <3>. SUFFICES ASSUME NEW c \in Connections, NEW i \in 1 .. Len(published'[c])
                  PROVE  published'[c][i].sequence = i /\ published'[c][i] \in written[c]
      BY <1>2 DEF PublishesPrefix
    <3>1. CASE c = current
      BY <2>10, <2>11, <2>14, <3>1
    <3>2. CASE c # current
      BY <2>10, <3>2 DEF InboxInv, PublishesPrefix
    <3>. QED
      BY <3>1, <3>2
  <2>16. ASSUME NEW g \in written[current]
         PROVE  g.sequence <= inbox.last + k \/ g \in (all \ ready) \cup wire'[current]
    <3>1. g.sequence \in Nat
      BY <1>1, StreamAssumption DEF StreamInv, TypeInv, Frame
    <3>2. g.sequence <= inbox.last \/ g \in inbox.pending \cup wire[current]
      BY <1>1 DEF InboxInv, inbox
    <3>3. CASE g.sequence <= inbox.last
      BY <3>1, <3>3, <2>2, <2>8
    <3>4. CASE g \in all
      BY <3>4, <2>8
    <3>5. CASE g \notin all
      BY <3>2, <3>3, <3>5, <1>3 DEF all
    <3>. QED
      BY <3>4, <3>5
  <2>17. current' \in Connections =>
            /\ worker'.inbox.last = Len(published'[current'])
            /\ worker'.inbox.pending \subseteq written'[current']
            /\ \A g \in worker'.inbox.pending : g.sequence > worker'.inbox.last
    BY <1>2, <2>5, <2>8, <2>9, <2>10, <2>11
  <2>18. \A c \in Connections : UniqueNumbers(written'[c])
    BY <1>2 DEF InboxInv
  <2>19. worker'.inbox.last \in Nat
    BY <2>2, <2>8, <2>9
  <2>. QED
    BY <1>2, <2>1, <2>9, <2>12, <2>13, <2>15, <2>16, <2>17, <2>18, <2>19 DEF InboxInv
<1>. QED
  BY <1>4, <1>5

LEMMA OthersLeaveInbox ==
    ASSUME StreamInv, InboxInv,
           \/ \E c \in Connections : Retire(c)
           \/ Ask \/ GapTimeout \/ NoticeLoss \/ LoseLink \/ Restart
           \/ UNCHANGED streamVars
    PROVE  InboxInv'
<1>1. UNCHANGED <<current, written, published>>
  BY DEF Retire, Ask, GapTimeout, NoticeLoss, LoseLink, Restart, clientSide, streamVars
<1>2. worker'.inbox = worker.inbox
  <2>1. worker' = worker \/ \E p \in Phases : worker' = [worker EXCEPT !.phase = p]
    BY DEF Retire, Ask, GapTimeout, NoticeLoss, LoseLink, Restart, Phases, clientSide, streamVars
  <2>. QED
    BY <2>1, WorkerShape
<1>3. \/ UNCHANGED <<wire, open>>
      \/ \E c \in Connections : Closed(c)
      \/ Closed(current)
  BY DEF Retire, Ask, GapTimeout, NoticeLoss, LoseLink, Restart, streamVars
<1>4. CASE Closed(current)
  BY <1>1, <1>2, <1>4, InboxAlone DEF Closed
<1>5. CASE UNCHANGED <<wire, open>> \/ \E c \in Connections : Closed(c)
  BY <1>1, <1>2, <1>5, ClosedLeavesOthers, InboxAlone
<1>. QED
  BY <1>3, <1>4, <1>5

LEMMA StepKeepsInbox == StreamInv /\ InboxInv /\ [StreamNext]_streamVars => InboxInv'
<1>. SUFFICES ASSUME StreamInv, InboxInv, [StreamNext]_streamVars PROVE InboxInv'
  OBVIOUS
<1>1. ASSUME NEW t \in Tasks, \/ \E e \in Event : Produce(t, e)
                              \/ TaskStep(t) \/ Abandon(t) \/ Cancel(t)
      PROVE  InboxInv'
  BY <1>1, ServerLeavesInbox, WriteLeavesInbox DEF TaskStep
<1>2. CASE Connect
  BY <1>2, ConnectLeavesInbox
<1>3. ASSUME NEW f \in Frame, Receive(f) PROVE InboxInv'
  BY <1>3, ReceiveLeavesInbox
<1>4. CASE \/ \E c \in Connections : Retire(c)
           \/ Ask \/ GapTimeout \/ NoticeLoss \/ LoseLink \/ Restart
           \/ UNCHANGED streamVars
  BY <1>4, OthersLeaveInbox
<1>. QED
  BY <1>1, <1>2, <1>3, <1>4 DEF StreamNext, Finished

\* The client's inbox (frames published, waiting and closed over) agrees with
\* what the server's writer has numbered, across link losses and restarts.
THEOREM InboxInvariant == StreamSpec => []InboxInv
<1>. QED
  BY StreamInvariant, InitInbox, StepKeepsInbox, PTL DEF StreamSpec

\* ReliableEventInbox::push: of every connection the client publishes the frames
\* 1, 2, 3 ... that the server wrote, none twice and none out of order, for any
\* window, capacity and order of arrival.
THEOREM PublishedInOrder == StreamSpec => []PublishesPrefix
<1>1. InboxInv => PublishesPrefix
  BY DEF InboxInv
<1>. QED
  BY <1>1, InboxInvariant, PTL

\* RELIABLE_GAP_TIMEOUT: as long as the connection is open, every frame that the
\* inbox waits for is under way or about to be written.
THEOREM GapsAreOrder == StreamSpec => []GapsCanFill
<1>1. StreamInv /\ InboxInv => GapsCanFill
  <2>. SUFFICES ASSUME StreamInv, InboxInv, current \in open,
                       NEW f \in worker.inbox.pending,
                       NEW n \in (worker.inbox.last + 1)..f.sequence
                PROVE  n \in Numbers(worker.inbox.pending \cup wire[current])
                              \cup Unwritten(current)
    BY DEF GapsCanFill
  <2>1. current \in Connections /\ writers[current].available
    BY DEF StreamInv, TypeInv, OpenInv
  <2>2. /\ worker.inbox.last \in Nat /\ f \in written[current]
        /\ f.sequence \in Nat /\ writers[current].last \in Nat
    BY <2>1, StreamAssumption DEF InboxInv, StreamInv, TypeInv, Frame
  <2>3. f.sequence <= writers[current].last
    BY <2>1, <2>2 DEF StreamInv, BelowInv
  <2>4. n \in 1 .. writers[current].last /\ n > worker.inbox.last
    BY <2>2, <2>3
  <2>5. CASE IsHeld(n, current)
    BY <2>5 DEF IsHeld, Unwritten
  <2>6. CASE \E g \in written[current] : g.sequence = n
    <3>. PICK g \in written[current] : g.sequence = n
      BY <2>6
    <3>1. ~(g.sequence <= worker.inbox.last)
      BY <2>2, <2>4
    <3>2. g \in worker.inbox.pending \cup wire[current]
      BY <2>1, <3>1 DEF InboxInv
    <3>. QED
      BY <3>2 DEF Numbers
  <2>. QED
    BY <2>1, <2>4, <2>5, <2>6 DEF StreamInv, GapInv
<1>. QED
  BY <1>1, StreamInvariant, InboxInvariant, PTL
=============================================================================
