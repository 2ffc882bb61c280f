----------------------- MODULE TelemetrySessionProofs -----------------------
(* Theorems about the telemetry sessions of an account, for any number of    *)
(* connections, lost calls, restarts and instants.                           *)
(*                                                                           *)
(* That a lease is of a connected session, and that a crash whose time the   *)
(* server's clock had reached lies within its session, depend on what is on  *)
(* its way to the database: which writes nobody waits for are not settled    *)
(* (late), and how their times compare with the sessions stored and with the *)
(* call that is waited for.                                                  *)
EXTENDS TelemetrySession, FiniteSetTheorems, TLAPS

Heads == {"Started", "Disconnected", "Reconnected", "Ended"}
RowSet == [id : Nat, start : Nat, end : Nat, head : Heads, at : Nat, seen : SUBSET Nat]
Writes == {"Begin", "Disconnected", "Reconnected", "Ended"}
CallSet == [id : Nat, kind : Writes \cup {"None", "Crash"}, session : Nat, time : Nat]
Recovery == {"LoadOpen", "LoadHead", "Reopen", "Close", "Start"}
Waiting == {"Reattach", "Reopen", "Close", "Start", "Detach", "End", "Shutdown"}
OpSet == [step : {"None", "LoadOpen", "LoadHead"} \cup Waiting, conn : Nat, call : CallSet,
          attempt : Nat, found : Nat, again : BOOLEAN, calm : BOOLEAN]
TrackedSet == [session : Nat, origin : Nat, active : Int, next : Nat, connected : BOOLEAN]
ConnSet == [at : Stages, lease : Int, clean : BOOLEAN, report : CallSet]
ClientSet == [up : BOOLEAN, link : Nat, marker : [id : Nat, time : Nat], sent : BOOLEAN,
              ahead : SUBSET Nat]

\* Session s is stored
HasRow(s) == \E r \in rows : r.id = s

\* The event a call appends
HeadOf(c) == IF c.kind = "Begin" THEN "Started" ELSE c.kind

-----------------------------------------------------------------------------
(* The invariant *)

TypeInv ==
    /\ now \in 1 .. MaxTime /\ ids \in Nat
    /\ rows \subseteq RowSet
    /\ crashes \subseteq CallSet /\ late \subseteq CallSet
    /\ server \in {"Running", "Stopping", "Down"}
    /\ tracked \in TrackedSet /\ op \in OpSet
    /\ conns \in [Conns -> ConnSet] /\ client \in ClientSet

\* A session's events are in order, its last is its end, and one session of the
\* account has ended before the next begins.
RowInv ==
    /\ \A r \in rows : /\ r.id \in 1 .. ids /\ r.id \in r.seen /\ r.seen \subseteq 1 .. ids
                       /\ 1 <= r.start /\ r.start <= r.at /\ r.at <= now
                       /\ r.end = 0 \/ r.end = r.at
                       /\ (r.head = "Ended") <=> (r.end # 0)
    /\ \A r, q \in rows : r.id = q.id => r = q
    /\ \A r, q \in rows : r # q => \/ r.end # 0 /\ r.end <= q.start
                                   \/ q.end # 0 /\ q.end <= r.start

\* A write is of a session that is stored, or begins one with its own id; only
\* its session has seen it.
GoodWrite(c) ==
    /\ c.kind \in Writes /\ c.id \in 1 .. ids /\ c.time \in 1 .. now
    /\ c.kind = "Begin" => c.session = c.id
    /\ c.kind # "Begin" => HasRow(c.session)
    /\ \A r \in rows : c.id \in r.seen => r.id = c.session

\* The writes that are not settled: one per session, one begin.
LateInv ==
    /\ \A d \in late : d.kind = "Crash" \/ GoodWrite(d)
    /\ \A d, e \in late :
          /\ d.kind # "Crash" /\ e.kind # "Crash"
          /\ d.session = e.session \/ d.id = e.id \/ (d.kind = "Begin" /\ e.kind = "Begin")
          => d = e
    /\ \A d \in late : d.kind = "Begin" /\ ~HasRow(d.session) =>
          \A r \in rows : r.end # 0 /\ r.end <= d.time

\* The write that is waited for: it is the latest, and if it was tried before
\* and stored, nothing has happened to its session since.
CallInv ==
    /\ op.call # NoCall =>
          /\ GoodWrite(op.call)
          /\ op.attempt \in {1, 2}
          /\ \A d \in late : d.kind # "Crash" =>
                d.time <= op.call.time /\ (d.id = op.call.id => d = op.call)
          /\ op.call.kind = "Begin" => \A r \in rows : r.end <= op.call.time
          /\ op.attempt = 1 => op.call \notin late /\ \A r \in rows : op.call.id \notin r.seen
          /\ \A r \in rows : op.call.id \in r.seen =>
                /\ r.head = HeadOf(op.call)
                /\ \A d \in late : d.kind # "Crash" => d.session # r.id

\* Each step of an operation waits for its own kind of call.
StepInv ==
    /\ (op.step = "None") <=> (op = NoOp)
    /\ (op.step \in Waiting) <=> (op.call # NoCall)
    /\ op.step = "LoadOpen" => op.found = 0
    /\ op.step = "LoadHead" => op.found # 0 /\ HasRow(op.found)
    /\ op.step = "Reattach" =>
          op.call.kind = "Reconnected" /\ op.call.session = tracked.session /\ tracked.session # 0
    /\ op.step = "Reopen" =>
          op.call.kind = "Reconnected" /\ op.call.session = op.found /\ op.found # 0
    /\ op.step = "Close" => op.call.kind = "Ended" /\ op.call.session = op.found /\ op.found # 0
    /\ op.step = "Start" =>
          op.call.kind = "Begin"
          /\ (op.found # 0 => \E r \in rows : r.id = op.found /\ r.end # 0)
    /\ op.step = "Detach" => op.call.kind = "Disconnected"
    /\ op.step \in {"End", "Shutdown"} => op.call.kind = "Ended"

\* A tracked session is stored, and so is the one reports are bound to: it is
\* the same, or has ended.
TrackInv ==
    /\ tracked.session # 0 =>
          /\ HasRow(tracked.session)
          /\ \E r \in rows : r.id = tracked.origin
                             /\ (tracked.origin # tracked.session => r.end # 0)
    /\ tracked.connected => tracked.session # 0 /\ (op # NoOp => op.step = "End")

\* A session taken for connected is stored as such and nothing can change that.
LeaseInv ==
    tracked.connected /\ op = NoOp =>
        \E r \in rows :
            /\ r.id = tracked.session /\ r.end = 0 /\ r.head \in {"Started", "Reconnected"}
            /\ \A d \in late : d.kind # "Crash" => d.session # r.id

\* The crash reports stored, unsettled and under way
Reports ==
    crashes \cup {d \in late : d.kind = "Crash"}
            \cup {k \in {conns[c].report : c \in Conns} : k # NoCall}

\* No write that may still end its session has a time before that of crash k.
NotOvertaken(k) ==
    /\ k.time <= now
    /\ op.call # NoCall => k.time <= op.call.time
    /\ \A d \in late, r \in rows :
          d.kind # "Crash" /\ d.session = r.id /\ k.session = r.id /\ r.end = 0
              => k.time <= d.time

\* What a timely crash is compared with may not end before it.
CrashInv ==
    /\ \A c \in Conns : conns[c].at = "Reporting" => conns[c].report # NoCall
    /\ \A k \in Reports : /\ k.kind = "Crash" /\ HasRow(k.session)
                          /\ Timely(k) => NotOvertaken(k)
    /\ \A k \in crashes, r \in rows : r.id = k.session =>
          r.start <= k.time /\ (Timely(k) => Within(r, k.time))

\* A recovery that was not disturbed finds what it has read.
CalmInv ==
    op.calm /\ op.step \in Recovery =>
        /\ \A d \in late : d.kind = "Crash"
        /\ ~op.again
        /\ op.call # NoCall => op.attempt = 1
        /\ op.step \in {"LoadHead", "Reopen", "Close"} =>
              \E r \in rows : r.id = op.found /\ r.end = 0
        /\ op.step = "Reopen" => \A r \in rows : r.id = op.found =>
              r.head = "Disconnected" /\ r.at <= op.call.time
        /\ op.step = "Close" => \A r \in rows : r.id = op.found => r.at <= op.call.time
        /\ op.step = "Start" => \A r \in rows : r.end # 0

TelemetryIInv ==
    /\ TypeInv /\ RowInv /\ LateInv /\ CallInv /\ StepInv /\ TrackInv /\ LeaseInv
    /\ CrashInv /\ CalmInv

-----------------------------------------------------------------------------
(* The constants of the model *)

LEMMA Blanks ==
    /\ NoCall \in CallSet /\ NoCall.kind = "None" /\ NoCall.session = 0
    /\ NoOp \in OpSet /\ NoOp.step = "None" /\ NoOp.call = NoCall /\ NoOp.found = 0
    /\ NoOp.again = FALSE
    /\ Untracked \in TrackedSet /\ Untracked.session = 0 /\ Untracked.connected = FALSE
    /\ NoConn \in ConnSet /\ NoConn.report = NoCall /\ NoConn.at = "Idle"
    /\ Gone \in ConnSet /\ Gone.report = NoCall /\ Gone.at = "Done"
    /\ NoMarker \in [id : Nat, time : Nat] /\ NoMarker.time = 0
<1>1. NoCall \in CallSet /\ NoCall.kind = "None" /\ NoCall.session = 0
  BY DEF NoCall, CallSet
<1>2. /\ NoOp \in OpSet /\ NoOp.step = "None" /\ NoOp.call = NoCall /\ NoOp.found = 0
      /\ NoOp.again = FALSE
  BY <1>1 DEF NoOp, OpSet
<1>3. Untracked \in TrackedSet /\ Untracked.session = 0 /\ Untracked.connected = FALSE
  BY DEF Untracked, TrackedSet
<1>4. NoConn \in ConnSet /\ NoConn.report = NoCall /\ NoConn.at = "Idle"
  BY <1>1 DEF NoConn, ConnSet, Stages
<1>5. Gone \in ConnSet /\ Gone.report = NoCall /\ Gone.at = "Done"
  BY <1>4 DEF Gone, ConnSet, Stages
<1>6. NoMarker \in [id : Nat, time : Nat] /\ NoMarker.time = 0
  BY DEF NoMarker
<1>. QED
  BY <1>1, <1>2, <1>3, <1>4, <1>5, <1>6

-----------------------------------------------------------------------------
(* What a transaction does to the sessions *)

\* A session is begun: none is open.
BegunStep(c, f) ==
    /\ c.kind = "Begin" /\ \A r \in rows : r.end # 0 /\ r.id # c.session
    /\ f \in RowSet /\ f.id = c.session /\ f.head = "Started" /\ f.seen = {c.id}
    /\ f.start = c.time /\ f.at = c.time /\ f.end = 0
    /\ rows' = rows \cup {f}

\* The open session r takes an observation and becomes f.
ObservedStep(c, r, f) ==
    /\ c.kind # "Begin" /\ r \in rows
    /\ r.id = c.session /\ r.end = 0 /\ r.at <= c.time /\ c.id \notin r.seen
    /\ f \in RowSet /\ f.id = r.id /\ f.head = c.kind /\ f.seen = r.seen \cup {c.id}
    /\ f.start = r.start /\ f.at = c.time /\ f.end = (IF c.kind = "Ended" THEN c.time ELSE 0)
    /\ rows' = (rows \ {r}) \cup {f}

Stored(c) ==
    rows' = rows \/ (\E f : BegunStep(c, f)) \/ (\E r, f : ObservedStep(c, r, f))

\* RowOf finds the session of an id.
LEMMA RowOfId ==
    ASSUME RowInv, NEW r \in rows
    PROVE  RowOf(rows, r.id) = r
  BY DEF RowInv, RowOf

LEMMA CommitStores ==
    ASSUME TypeInv, RowInv, NEW c \in CallSet, GoodWrite(c), Commit(c)
    PROVE  crashes' = crashes /\ Stored(c)
<1>1. /\ c.kind \in Writes /\ c.id \in Nat /\ c.session \in Nat /\ c.time \in Nat
      /\ rows \subseteq RowSet /\ c.kind # "Crash"
  BY DEF GoodWrite, CallSet, TypeInv, Writes
<1>2. crashes' = crashes
  BY <1>1 DEF Commit
<1>3. CASE Result(c) # "Ok" \/ \E r \in rows : c.id \in r.seen
  BY <1>1, <1>2, <1>3 DEF Commit, Stored
<1>4. CASE Result(c) = "Ok" /\ ~ \E r \in rows : c.id \in r.seen
  <2>1. CASE c.kind = "Begin"
    <3>1. rows' = rows \cup {Begun(c)}
      BY <1>4, <2>1 DEF Commit
    <3>2. \A r \in rows : r.id # c.session
      BY <1>4, <2>1 DEF GoodWrite, RowInv
    <3>3. OpenRows(rows) = {}
      BY <1>4, <2>1, <3>2 DEF Result
    <3>4. /\ Begun(c) \in RowSet /\ Begun(c).id = c.session /\ Begun(c).head = "Started"
          /\ Begun(c).seen = {c.id} /\ Begun(c).start = c.time /\ Begun(c).at = c.time
          /\ Begun(c).end = 0
      BY <1>1 DEF Begun, RowSet, Heads
    <3>5. BegunStep(c, Begun(c))
      BY <2>1, <3>1, <3>2, <3>3, <3>4 DEF BegunStep, OpenRows
    <3>. QED
      BY <1>2, <3>5 DEF Stored
  <2>2. CASE c.kind # "Begin"
    <3>1. PICK r \in rows : r.id = c.session
      BY <2>2 DEF GoodWrite, HasRow
    <3>2. RowOf(rows, c.session) = r
      BY <3>1, RowOfId
    <3>3. rows' = (rows \ {r}) \cup {Observed(r, c)}
      BY <1>1, <1>4, <2>2, <3>2 DEF Commit
    <3>4. r.end = 0 /\ Permitted(r, c)
      BY <1>1, <1>4, <2>2, <3>1, <3>2 DEF Result
    <3>5. r \in RowSet /\ r.at \in Nat
      BY <1>1 DEF RowSet
    <3>6. r.at <= c.time
      BY <1>1, <3>4, <3>5 DEF Permitted
    <3>7. c.kind \in Heads
      BY <1>1, <2>2 DEF Writes, Heads
    <3>8. /\ Observed(r, c) \in RowSet /\ Observed(r, c).id = r.id
          /\ Observed(r, c).head = c.kind /\ Observed(r, c).seen = r.seen \cup {c.id}
          /\ Observed(r, c).start = r.start /\ Observed(r, c).at = c.time
          /\ Observed(r, c).end = (IF c.kind = "Ended" THEN c.time ELSE 0)
      BY <1>1, <3>5, <3>7 DEF Observed, RowSet
    <3>9. ObservedStep(c, r, Observed(r, c))
      BY <1>4, <2>2, <3>1, <3>3, <3>4, <3>6, <3>8 DEF ObservedStep
    <3>. QED
      BY <1>2, <3>9 DEF Stored
  <2>. QED
    BY <2>1, <2>2
<1>. QED
  BY <1>3, <1>4

\* What the answer of a write tells: an accepted one is the last event of its
\* session, unless it was stored before.
LEMMA AnswerTells ==
    ASSUME TypeInv, RowInv, NEW c \in CallSet, GoodWrite(c), Commit(c),
           \A r \in rows : c.id \in r.seen => r.head = HeadOf(c)
    PROVE  /\ Result(c) = "Ok" => \E q \in rows' : q.id = c.session /\ q.head = HeadOf(c)
           /\ Result(c) = "SessionEnded" => rows' = rows /\ \E q \in rows' : q.id = c.session /\ q.end # 0
<1>1. c.kind \in Writes /\ c.kind # "Crash"
  BY DEF GoodWrite, Writes
<1>2. CASE Result(c) = "Ok" /\ \E r \in rows : c.id \in r.seen
  <2>1. PICK r \in rows : c.id \in r.seen
    BY <1>2
  <2>2. rows' = rows
    BY <1>2 DEF Commit
  <2>. QED
    BY <1>2, <2>1, <2>2 DEF GoodWrite
<1>3. CASE Result(c) = "Ok" /\ ~ \E r \in rows : c.id \in r.seen
  <2>1. CASE c.kind = "Begin"
    <3>1. Begun(c) \in rows' /\ Begun(c).id = c.session /\ Begun(c).head = "Started"
      BY <1>3, <2>1 DEF Commit, Begun
    <3>. QED
      BY <1>3, <2>1, <3>1 DEF HeadOf
  <2>2. CASE c.kind # "Begin"
    <3>1. PICK r \in rows : r.id = c.session
      BY <2>2 DEF GoodWrite, HasRow
    <3>2. RowOf(rows, c.session) = r
      BY <3>1, RowOfId
    <3>3. Observed(r, c) \in rows'
      BY <1>1, <1>3, <2>2, <3>2 DEF Commit
    <3>4. Observed(r, c).id = r.id /\ Observed(r, c).head = c.kind
      BY <3>1 DEF Observed, TypeInv, RowSet
    <3>. QED
      BY <1>3, <2>2, <3>1, <3>3, <3>4 DEF HeadOf
  <2>. QED
    BY <2>1, <2>2
<1>4. CASE Result(c) = "SessionEnded"
  <2>1. rows' = rows
    BY <1>4 DEF Commit
  <2>2. c.kind # "Begin"
    BY <1>4 DEF Result
  <2>3. PICK r \in rows : r.id = c.session
    BY <2>2 DEF GoodWrite, HasRow
  <2>4. RowOf(rows, c.session) = r
    BY <2>3, RowOfId
  <2>5. r.end # 0
    BY <1>1, <1>4, <2>2, <2>4 DEF Result
  <2>. QED
    BY <1>4, <2>1, <2>3, <2>5
<1>. QED
  BY <1>2, <1>3, <1>4

-----------------------------------------------------------------------------
(* What a stored write keeps *)

LEMMA StoredRows ==
    ASSUME TypeInv, RowInv, NEW c \in CallSet, GoodWrite(c), Stored(c),
           c.kind = "Begin" => (HasRow(c.session) \/ \A r \in rows : r.end <= c.time),
           now' = now, ids' \in Nat, ids <= ids'
    PROVE  rows' \subseteq RowSet /\ RowInv'
<1>1. rows \subseteq RowSet /\ now \in Nat /\ ids \in Nat /\ now \in 1 .. MaxTime
  BY TelemetryAssumption DEF TypeInv
<1>2. c.kind \in Writes /\ c.id \in 1 .. ids /\ c.time \in 1 .. now /\ c.id \in Nat /\ c.time \in Nat
  BY <1>1 DEF GoodWrite, CallSet
<1>3. \A r \in rows : /\ r.id \in Nat /\ r.start \in Nat /\ r.end \in Nat /\ r.at \in Nat
                      /\ r.seen \subseteq Nat
  BY <1>1 DEF RowSet
<1>4. CASE rows' = rows
  BY <1>1, <1>3, <1>4 DEF RowInv
<1>5. ASSUME NEW f, BegunStep(c, f)
      PROVE  rows' \subseteq RowSet /\ RowInv'
  <2>1. c.session = c.id
    BY <1>5 DEF BegunStep, GoodWrite
  <2>2. \A r \in rows : r.end <= c.time /\ r.end # 0 /\ r.id # c.session
    BY <1>5 DEF BegunStep, HasRow
  <2>3. rows' \subseteq RowSet
    BY <1>1, <1>5 DEF BegunStep
  <2>4. /\ f.id \in 1 .. ids' /\ f.id \in f.seen /\ f.seen \subseteq 1 .. ids'
        /\ 1 <= f.start /\ f.start <= f.at /\ f.at <= now' /\ f.end = 0 /\ f.head # "Ended"
    BY <1>1, <1>2, <1>5, <2>1 DEF BegunStep
  <2>. QED
    BY <1>1, <1>2, <1>3, <1>5, <2>2, <2>3, <2>4 DEF BegunStep, RowInv
<1>6. ASSUME NEW r, NEW f, ObservedStep(c, r, f)
      PROVE  rows' \subseteq RowSet /\ RowInv'
  <2>1. /\ r \in rows /\ r.id = c.session /\ r.end = 0 /\ r.at <= c.time
        /\ f \in RowSet /\ f.id = r.id /\ f.head = c.kind /\ f.seen = r.seen \cup {c.id}
        /\ f.start = r.start /\ f.at = c.time
        /\ f.end = (IF c.kind = "Ended" THEN c.time ELSE 0)
        /\ rows' = (rows \ {r}) \cup {f} /\ c.kind # "Begin"
    BY <1>6 DEF ObservedStep
  <2>2. rows' \subseteq RowSet
    BY <1>1, <2>1
  <2>3. \A q \in rows \ {r} : q.id # r.id /\ q.end # 0 /\ q.end <= r.start
    BY <1>1, <1>3, <2>1 DEF RowInv
  <2>4. /\ f.id \in 1 .. ids' /\ f.id \in f.seen /\ f.seen \subseteq 1 .. ids'
        /\ 1 <= f.start /\ f.start <= f.at /\ f.at <= now' /\ (f.end = 0 \/ f.end = f.at)
        /\ (f.head = "Ended") <=> (f.end # 0)
    BY <1>1, <1>2, <1>3, <2>1 DEF RowInv
  <2>5. \A q \in rows' : q = f \/ (q \in rows /\ q # r)
    BY <2>1
  <2>6. \A q \in rows' : /\ q.id \in 1 .. ids' /\ q.id \in q.seen /\ q.seen \subseteq 1 .. ids'
                         /\ 1 <= q.start /\ q.start <= q.at /\ q.at <= now'
                         /\ q.end = 0 \/ q.end = q.at
                         /\ (q.head = "Ended") <=> (q.end # 0)
    BY <1>1, <1>3, <2>4, <2>5 DEF RowInv
  <2>7. \A p, q \in rows' : p.id = q.id => p = q
    BY <2>1, <2>3, <2>5 DEF RowInv
  <2>8. \A p, q \in rows' : p # q => \/ p.end # 0 /\ p.end <= q.start
                                     \/ q.end # 0 /\ q.end <= p.start
    BY <2>1, <2>3, <2>5 DEF RowInv
  <2>. QED
    BY <2>2, <2>6, <2>7, <2>8 DEF RowInv
<1>. QED
  BY <1>4, <1>5, <1>6 DEF Stored

\* A session stays stored, and one that has ended stays as it is.
LEMMA StoredKeeps ==
    ASSUME TypeInv, RowInv, NEW c, Stored(c)
    PROVE  /\ \A s : HasRow(s) => HasRow(s)'
           /\ \A r \in rows : r.end # 0 \/ r.id # c.session => r \in rows'
<1>1. CASE rows' = rows
  BY <1>1 DEF HasRow
<1>2. ASSUME NEW f, BegunStep(c, f)
      PROVE  /\ \A s : HasRow(s) => HasRow(s)'
             /\ \A r \in rows : r.end # 0 \/ r.id # c.session => r \in rows'
  BY <1>2 DEF BegunStep, HasRow
<1>3. ASSUME NEW r, NEW f, ObservedStep(c, r, f)
      PROVE  /\ \A s : HasRow(s) => HasRow(s)'
             /\ \A q \in rows : q.end # 0 \/ q.id # c.session => q \in rows'
  BY <1>3 DEF ObservedStep, HasRow
<1>. QED
  BY <1>1, <1>2, <1>3 DEF Stored

\* Every session after a stored write was there before, or is that of the write.
LEMMA StoredNew ==
    ASSUME TypeInv, RowInv, NEW c, Stored(c), NEW q \in rows', q \notin rows
    PROVE  /\ q.id = c.session /\ q.head = HeadOf(c) /\ c.id \in q.seen
           /\ q.end = (IF c.kind = "Ended" THEN c.time ELSE 0)
           /\ \/ /\ c.kind = "Begin" /\ q.start = c.time /\ q.seen = {c.id}
                 /\ \A r \in rows : r.end # 0 /\ r.id # c.session
              \/ /\ c.kind # "Begin"
                 /\ \E r \in rows : /\ r.id = c.session /\ r.end = 0 /\ r.at <= c.time
                                    /\ q.start = r.start /\ q.seen = r.seen \cup {c.id}
<1>1. ASSUME NEW f, BegunStep(c, f)
      PROVE  /\ q = f /\ c.kind = "Begin" /\ q.start = c.time /\ q.seen = {c.id}
             /\ \A r \in rows : r.end # 0 /\ r.id # c.session
             /\ q.id = c.session /\ q.head = "Started" /\ q.end = 0
  BY <1>1 DEF BegunStep
<1>2. ASSUME NEW r, NEW f, ObservedStep(c, r, f)
      PROVE  /\ q = f /\ c.kind # "Begin" /\ r \in rows
             /\ r.id = c.session /\ r.end = 0 /\ r.at <= c.time
             /\ q.start = r.start /\ q.seen = r.seen \cup {c.id}
             /\ q.id = c.session /\ q.head = c.kind
             /\ q.end = (IF c.kind = "Ended" THEN c.time ELSE 0)
  BY <1>2 DEF ObservedStep
<1>3. (\E f : BegunStep(c, f)) \/ (\E r, f : ObservedStep(c, r, f))
  BY DEF Stored
<1>4. CASE \E f : BegunStep(c, f)
  BY <1>1, <1>4 DEF HeadOf
<1>5. CASE \E r, f : ObservedStep(c, r, f)
  <2>1. PICK r, f : ObservedStep(c, r, f)
    BY <1>5
  <2>. QED
    BY <1>2, <2>1 DEF HeadOf
<1>. QED
  BY <1>3, <1>4, <1>5

\* The other writes stay good.
LEMMA StoredGood ==
    ASSUME TypeInv, RowInv, NEW c \in CallSet, GoodWrite(c), Stored(c),
           NEW d \in CallSet, GoodWrite(d),
           d.id = c.id => d = c,
           now' = now, ids' \in Nat, ids <= ids'
    PROVE  GoodWrite(d)'
<1>1. /\ d.kind \in Writes /\ d.id \in 1 .. ids' /\ d.time \in 1 .. now'
      /\ d.kind = "Begin" => d.session = d.id
  BY DEF GoodWrite, TypeInv
<1>2. d.kind # "Begin" => HasRow(d.session)'
  BY StoredKeeps DEF GoodWrite
<1>3. ASSUME NEW q \in rows', d.id \in q.seen
      PROVE  q.id = d.session
  <2>1. CASE q \in rows
    BY <1>3, <2>1 DEF GoodWrite
  <2>2. CASE q \notin rows
    BY <1>3, <2>2, StoredNew DEF GoodWrite
  <2>. QED
    BY <2>1, <2>2
<1>. QED
  BY <1>1, <1>2, <1>3 DEF GoodWrite

LEMMA StoredLate ==
    ASSUME TypeInv, RowInv, LateInv, NEW c \in CallSet, GoodWrite(c), Stored(c),
           late' \subseteq late,
           \A d \in late' : d.kind # "Crash" =>
               /\ d.session # c.session /\ d.id # c.id
               /\ ~(d.kind = "Begin" /\ c.kind = "Begin"),
           now' = now, ids' \in Nat, ids <= ids'
    PROVE  LateInv'
<1>0. late \subseteq CallSet
  BY DEF TypeInv
<1>1. \A d \in late' : d.kind = "Crash" \/ GoodWrite(d)'
  <2>. SUFFICES ASSUME NEW d \in late', d.kind # "Crash"
                PROVE  GoodWrite(d)'
    OBVIOUS
  <2>1. d \in CallSet /\ GoodWrite(d) /\ d.session # c.session /\ d.id # c.id
    BY <1>0 DEF LateInv
  <2>. QED
    BY <2>1, StoredGood
<1>2. \A d, e \in late' :
          /\ d.kind # "Crash" /\ e.kind # "Crash"
          /\ d.session = e.session \/ d.id = e.id \/ (d.kind = "Begin" /\ e.kind = "Begin")
          => d = e
  BY DEF LateInv
<1>3. ASSUME NEW d \in late', d.kind = "Begin", ~HasRow(d.session)', NEW q \in rows'
      PROVE  q.end # 0 /\ q.end <= d.time
  <2>1. ~HasRow(d.session)
    BY <1>3, StoredKeeps
  <2>2. \A r \in rows : r.end # 0 /\ r.end <= d.time
    BY <1>3, <2>1 DEF LateInv
  <2>3. q \in rows
    BY <1>3, <2>2, StoredNew
  <2>. QED
    BY <2>2, <2>3
<1>. QED
  BY <1>1, <1>2, <1>3 DEF LateInv

LEMMA StoredCrash ==
    ASSUME TypeInv, RowInv, CrashInv, NEW c \in CallSet, GoodWrite(c), Stored(c),
           crashes' = crashes, late' \subseteq late, Reports' \subseteq Reports,
           \A d \in late' : d.kind # "Crash" => d.session # c.session,
           \A k \in crashes : \A r \in rows :
               Timely(k) /\ k.session = r.id /\ c.session = r.id /\ r.end = 0
                   => k.time <= c.time,
           op'.call # NoCall => \A k \in Reports : Timely(k) => k.time <= op'.call.time,
           client.ahead \subseteq client'.ahead,
           \A i \in Conns : conns'[i].at = "Reporting" => conns'[i].report # NoCall,
           now' = now
    PROVE  CrashInv'
<1>0. \A k : Timely(k)' => Timely(k)
  BY DEF Timely
<1>1. ASSUME NEW k \in Reports'
      PROVE  k.kind = "Crash" /\ HasRow(k.session)' /\ (Timely(k)' => NotOvertaken(k)')
  <2>1. k \in Reports
    BY <1>1
  <2>2. k.kind = "Crash" /\ HasRow(k.session)
    BY <2>1 DEF CrashInv
  <2>3. HasRow(k.session)'
    BY <2>2, StoredKeeps
  <2>4. ASSUME Timely(k)'
        PROVE  NotOvertaken(k)'
    <3>1. Timely(k) /\ NotOvertaken(k)
      BY <1>0, <2>1, <2>4 DEF CrashInv
    <3>2. ASSUME NEW d \in late', NEW q \in rows',
                 d.kind # "Crash", d.session = q.id, k.session = q.id, q.end = 0
          PROVE  k.time <= d.time
      <4>1. q \in rows
        BY <3>2, StoredNew
      <4>. QED
        BY <3>1, <3>2, <4>1 DEF NotOvertaken
    <3>. QED
      BY <2>1, <3>1, <3>2 DEF NotOvertaken
  <2>. QED
    BY <2>2, <2>3, <2>4
<1>2. ASSUME NEW k \in crashes', NEW q \in rows', q.id = k.session
      PROVE  q.start <= k.time /\ (Timely(k)' => Within(q, k.time))
  <2>1. CASE q \in rows
    BY <1>0, <1>2, <2>1 DEF CrashInv
  <2>2. CASE q \notin rows
    <3>1. k \in Reports
      BY <1>2 DEF Reports
    <3>2. HasRow(k.session)
      BY <3>1 DEF CrashInv
    <3>3. PICK r \in rows : r.id = c.session /\ r.end = 0 /\ q.start = r.start
      BY <1>2, <2>2, <3>2, StoredNew DEF HasRow
    <3>4. r.start <= k.time /\ (Timely(k) => Within(r, k.time))
      BY <1>2, <2>2, <3>3, StoredNew DEF CrashInv
    <3>5. q.id = c.session /\ q.end = (IF c.kind = "Ended" THEN c.time ELSE 0)
      BY <2>2, StoredNew
    <3>6. Timely(k) => k.time <= c.time
      BY <1>2, <3>3, <3>5
    <3>. QED
      BY <1>0, <3>3, <3>4, <3>5, <3>6 DEF Within
  <2>. QED
    BY <2>1, <2>2
<1>. QED
  BY <1>1, <1>2 DEF CrashInv

-----------------------------------------------------------------------------
(* What is kept while no session changes *)

\* A write that nobody waits for any more is the one that was waited for.
LateGrowth ==
    \A d \in late' : \/ d \in late
                     \/ d \in Reports
                     \/ d = op.call /\ op.call # NoCall /\ Committing(op.call)

LEMMA RowsStay ==
    ASSUME TypeInv, RowInv, rows' = rows, now' \in Nat, now <= now', ids' \in Nat, ids <= ids'
    PROVE  RowInv'
<1>1. /\ now \in Nat /\ ids \in Nat
      /\ \A r \in rows : r.id \in Nat /\ r.seen \subseteq Nat /\ r.at \in Nat
  BY TelemetryAssumption DEF TypeInv, RowSet
<1>. QED
  BY <1>1 DEF RowInv

LEMMA GoodStays ==
    ASSUME TypeInv, rows' = rows, now' \in Nat, now <= now', ids' \in Nat, ids <= ids',
           NEW d, GoodWrite(d)
    PROVE  GoodWrite(d)'
<1>1. now \in Nat /\ ids \in Nat
  BY TelemetryAssumption DEF TypeInv
<1>. QED
  BY <1>1 DEF GoodWrite, HasRow

LEMMA LateStays ==
    ASSUME TypeInv, RowInv, LateInv, CallInv, CrashInv, LateGrowth, rows' = rows,
           now' \in Nat, now <= now', ids' \in Nat, ids <= ids'
    PROVE  LateInv'
<1>1. \A d \in Reports : d.kind = "Crash"
  BY DEF CrashInv
<1>2. ASSUME op.call # NoCall, Committing(op.call)
      PROVE  /\ GoodWrite(op.call)
             /\ \A d \in late : d.kind # "Crash" =>
                   /\ d.session # op.call.session /\ (d.id = op.call.id => d = op.call)
                   /\ ~(d.kind = "Begin" /\ op.call.kind = "Begin")
             /\ op.call.kind = "Begin" /\ ~HasRow(op.call.session) =>
                   \A r \in rows : r.end # 0 /\ r.end <= op.call.time
  <2>1. GoodWrite(op.call)
    BY <1>2 DEF CallInv
  <2>2. \A d \in late : d.session # op.call.session /\ ~(d.kind = "Begin" /\ op.call.kind = "Begin")
    BY <1>2 DEF Committing, Blocked
  <2>3. ASSUME op.call.kind = "Begin", ~HasRow(op.call.session)
        PROVE  \A r \in rows : r.end # 0 /\ r.end <= op.call.time
    <3>1. OpenRows(rows) = {}
      BY <1>2, <2>3 DEF Committing, Result, HasRow
    <3>. QED
      BY <1>2, <2>3, <3>1 DEF CallInv, OpenRows
  <2>. QED
    BY <1>2, <2>1, <2>2, <2>3 DEF CallInv
<1>3. \A d \in late' : d.kind = "Crash" \/ GoodWrite(d)'
  <2>. SUFFICES ASSUME NEW d \in late', d.kind # "Crash"
                PROVE  GoodWrite(d)
    BY GoodStays
  <2>. QED
    BY <1>1, <1>2 DEF LateGrowth, LateInv
<1>4. \A d, e \in late' :
          /\ d.kind # "Crash" /\ e.kind # "Crash"
          /\ d.session = e.session \/ d.id = e.id \/ (d.kind = "Begin" /\ e.kind = "Begin")
          => d = e
  BY <1>1, <1>2 DEF LateGrowth, LateInv
<1>5. \A d \in late' : d.kind = "Begin" /\ ~HasRow(d.session)' =>
          \A r \in rows' : r.end # 0 /\ r.end <= d.time
  BY <1>1, <1>2 DEF LateGrowth, LateInv, HasRow
<1>. QED
  BY <1>3, <1>4, <1>5 DEF LateInv

LEMMA CrashStays ==
    ASSUME TypeInv, CrashInv, LateGrowth, rows' = rows,
           Reports' \subseteq Reports,
           \A k \in crashes' : k \in crashes \/ \A r \in rows : r.id = k.session => Within(r, k.time),
           op'.call # NoCall => (op'.call = op.call \/ op'.call.time = now),
           client.ahead \subseteq client'.ahead,
           \A i \in Conns : conns'[i].at = "Reporting" => conns'[i].report # NoCall,
           now' \in Nat, now <= now'
    PROVE  CrashInv'
<1>0. now \in Nat /\ \A k \in Reports : k.time \in Nat
  BY TelemetryAssumption, Blanks DEF TypeInv, Reports, CallSet, ConnSet
<1>3. \A k : Timely(k)' => Timely(k)
  BY DEF Timely
<1>1. ASSUME NEW k \in Reports'
      PROVE  k.kind = "Crash" /\ HasRow(k.session)' /\ (Timely(k)' => NotOvertaken(k)')
  <2>1. k \in Reports /\ k.time \in Nat
    BY <1>0, <1>1
  <2>2. k.kind = "Crash" /\ HasRow(k.session)'
    BY <2>1 DEF CrashInv, HasRow
  <2>3. ASSUME Timely(k)'
        PROVE  NotOvertaken(k)'
    <3>1. NotOvertaken(k)
      BY <1>3, <2>1, <2>3 DEF CrashInv
    <3>2. k.time <= now' /\ (op'.call # NoCall => k.time <= op'.call.time)
      BY <1>0, <2>1, <3>1 DEF NotOvertaken
    <3>3. ASSUME NEW d \in late', NEW q \in rows',
                 d.kind # "Crash", d.session = q.id, k.session = q.id, q.end = 0
          PROVE  k.time <= d.time
      <4>1. \A e \in Reports : e.kind = "Crash"
        BY DEF CrashInv
      <4>2. d \in late \/ (d = op.call /\ op.call # NoCall)
        BY <3>3, <4>1 DEF LateGrowth
      <4>. QED
        BY <3>1, <3>3, <4>2 DEF NotOvertaken
    <3>. QED
      BY <3>2, <3>3 DEF NotOvertaken
  <2>. QED
    BY <2>2, <2>3
<1>2. \A k \in crashes', r \in rows' : r.id = k.session =>
          r.start <= k.time /\ (Timely(k)' => Within(r, k.time))
  BY <1>3 DEF CrashInv, Within
<1>. QED
  BY <1>1, <1>2 DEF CrashInv

\* A step that touches neither sessions, nor the operation, nor what is tracked
LEMMA QuietSessions ==
    ASSUME TelemetryIInv, TypeInv', rows' = rows, op' = op,
           tracked'.session = tracked.session, tracked'.origin = tracked.origin,
           tracked'.connected = tracked.connected,
           \A d \in late' : d \in late \/ d \in Reports,
           CrashInv', now <= now', ids <= ids'
    PROVE  TelemetryIInv'
<1>1. TypeInv /\ RowInv /\ LateInv /\ CallInv /\ StepInv /\ TrackInv /\ LeaseInv /\ CrashInv /\ CalmInv
  BY DEF TelemetryIInv
<1>2. now' \in Nat /\ ids' \in Nat
  BY TelemetryAssumption DEF TypeInv
<1>3. \A d \in late' : d.kind # "Crash" => d \in late
  BY <1>1 DEF CrashInv
<1>4. RowInv'
  BY <1>1, <1>2, RowsStay
<1>5. LateInv'
  BY <1>1, <1>2, LateStays DEF LateGrowth
<1>7. CallInv'
  <2>1. op.call # NoCall => GoodWrite(op.call)'
    BY <1>1, <1>2, GoodStays DEF CallInv
  <2>2. op.call.kind = "Crash" => op.call = NoCall
    BY <1>1 DEF CallInv, GoodWrite, Writes
  <2>3. op.call # NoCall /\ op.call \notin late => op.call \notin late'
    BY <1>3, <2>2
  <2>. QED
    BY <1>1, <1>3, <2>1, <2>3 DEF CallInv
<1>8. StepInv'
  BY <1>1 DEF StepInv, HasRow
<1>9. TrackInv'
  BY <1>1 DEF TrackInv, HasRow
<1>10. LeaseInv'
  BY <1>1, <1>3 DEF LeaseInv
<1>11. CalmInv'
  BY <1>1, <1>3 DEF CalmInv
<1>. QED
  BY <1>4, <1>5, <1>7, <1>8, <1>9, <1>10, <1>11 DEF TelemetryIInv

LEMMA QuietKeeps ==
    ASSUME TelemetryIInv, TypeInv', rows' = rows, op' = op,
           tracked'.session = tracked.session, tracked'.origin = tracked.origin,
           tracked'.connected = tracked.connected,
           \A d \in late' : d \in late \/ d \in Reports,
           Reports' \subseteq Reports,
           \A k \in crashes' : k \in crashes \/ \A r \in rows : r.id = k.session => Within(r, k.time),
           client.ahead \subseteq client'.ahead,
           \A i \in Conns : conns'[i].at = "Reporting" => conns'[i].report # NoCall,
           now <= now', ids <= ids'
    PROVE  TelemetryIInv'
<1>1. TypeInv /\ CrashInv /\ now' \in Nat
  BY TelemetryAssumption DEF TelemetryIInv, TypeInv
<1>2. CrashInv'
  BY <1>1, CrashStays DEF LateGrowth
<1>. QED
  BY <1>2, QuietSessions

\* An operation ends without a lease, or nothing is tracked any more.
LEMMA IdleKeeps ==
    ASSUME TelemetryIInv, TypeInv', rows' = rows, op' = NoOp, ~tracked'.connected,
           \/ tracked'.session = 0
           \/ tracked'.session = tracked.session /\ tracked'.origin = tracked.origin,
           LateGrowth, crashes' = crashes, Reports' \subseteq Reports,
           client.ahead \subseteq client'.ahead,
           \A i \in Conns : conns'[i].at = "Reporting" => conns'[i].report # NoCall,
           now' = now, ids' = ids
    PROVE  TelemetryIInv'
<1>1. TypeInv /\ RowInv /\ LateInv /\ CallInv /\ StepInv /\ TrackInv /\ LeaseInv /\ CrashInv /\ CalmInv
  BY DEF TelemetryIInv
<1>2. now' \in Nat /\ ids' \in Nat /\ now <= now' /\ ids <= ids'
  BY TelemetryAssumption DEF TypeInv
<1>3. op'.call = NoCall /\ op'.step = "None"
  BY Blanks
<1>4. RowInv'
  BY <1>1, <1>2, RowsStay
<1>5. LateInv'
  BY <1>1, <1>2, LateStays
<1>6. CrashInv'
  BY <1>1, <1>2, <1>3, CrashStays
<1>7. CallInv' /\ StepInv' /\ CalmInv'
  BY <1>3 DEF CallInv, StepInv, CalmInv, Waiting, Recovery
<1>8. TrackInv' /\ LeaseInv'
  BY <1>1 DEF TrackInv, LeaseInv, HasRow
<1>. QED
  BY <1>4, <1>5, <1>6, <1>7, <1>8 DEF TelemetryIInv

\* An operation goes on to a write with a new id and the present time.
LEMMA FreshCall ==
    ASSUME TelemetryIInv, NEW o \in OpSet, NEW step, NEW kind \in Writes, NEW s \in Nat,
           Call(o, step, kind, s), step \in Waiting,
           \A r \in rows' : /\ r.end \in Nat /\ r.end <= now
                            /\ \A i \in r.seen : i \in Nat /\ i <= ids,
           late' = late, now' = now,
           kind # "Begin" => \E r \in rows' : r.id = s
    PROVE  /\ CallInv'
           /\ op' \in OpSet /\ ids' \in Nat /\ ids' = ids + 1
           /\ op'.step = step /\ op'.call # NoCall /\ op'.call.kind = kind /\ op'.call.time = now
           /\ kind # "Begin" => op'.call.session = s
           /\ op'.attempt = 1 /\ op' # NoOp
           /\ op'.found = o.found /\ op'.again = o.again /\ op'.calm = o.calm
<1> DEFINE k == [id |-> ids + 1, kind |-> kind, time |-> now,
                 session |-> IF kind = "Begin" THEN ids + 1 ELSE s]
<1>1. /\ LateInv /\ now \in Nat /\ ids \in Nat /\ now \in 1 .. MaxTime
      /\ late \subseteq CallSet
  BY TelemetryAssumption DEF TelemetryIInv, TypeInv
<1>2. /\ k \in CallSet /\ k.id = ids + 1 /\ k.kind = kind /\ k.time = now
      /\ k.session = (IF kind = "Begin" THEN ids + 1 ELSE s)
  BY <1>1 DEF CallSet
<1>3. op' = [o EXCEPT !.step = step, !.attempt = 1, !.call = k] /\ ids' = ids + 1
  BY DEF Call
<1>4. /\ op' \in OpSet /\ op'.step = step /\ op'.call = k /\ op'.attempt = 1
      /\ op'.found = o.found /\ op'.again = o.again /\ op'.calm = o.calm
  BY <1>2, <1>3 DEF OpSet
<1>5. k # NoCall
  BY <1>2, Blanks DEF Writes
<1>6. op' # NoOp
  BY <1>4, <1>5, Blanks
<1>8. \A d \in late : d.kind # "Crash" => d.id \in Nat /\ d.id <= ids /\ d.time <= now
  BY <1>1 DEF LateInv, GoodWrite
<1>9. \A d \in late : d.kind # "Crash" => d.id # k.id
  BY <1>1, <1>2, <1>8
<1>10. \A r \in rows' : k.id \notin r.seen
  BY <1>1, <1>2
<1>11. GoodWrite(op.call)'
  <2>1. k.kind \in Writes /\ k.id \in 1 .. ids' /\ k.time \in 1 .. now'
    BY <1>1, <1>2, <1>3
  <2>2. k.kind # "Begin" => \E r \in rows' : r.id = k.session
    BY <1>2
  <2>. QED
    BY <1>2, <1>4, <1>10, <2>1, <2>2 DEF GoodWrite, HasRow
<1>12. k \notin late
  BY <1>2, <1>9 DEF Writes
<1>13. CallInv'
  BY <1>2, <1>4, <1>8, <1>9, <1>10, <1>11, <1>12 DEF CallInv
<1>. QED
  BY <1>1, <1>2, <1>3, <1>4, <1>5, <1>6, <1>13

LEMMA NewCall ==
    ASSUME TelemetryIInv, NEW o \in OpSet, NEW step, NEW kind \in Writes, NEW s \in Nat,
           Call(o, step, kind, s), step \in Waiting,
           rows' = rows, late' = late, now' = now,
           kind # "Begin" => HasRow(s)
    PROVE  /\ CallInv'
           /\ op' \in OpSet /\ ids' \in Nat /\ ids' = ids + 1
           /\ op'.step = step /\ op'.call # NoCall /\ op'.call.kind = kind /\ op'.call.time = now
           /\ kind # "Begin" => op'.call.session = s
           /\ op'.attempt = 1 /\ op' # NoOp
           /\ op'.found = o.found /\ op'.again = o.again /\ op'.calm = o.calm
<1>1. RowInv /\ rows \subseteq RowSet /\ now \in Nat /\ ids \in Nat
  BY TelemetryAssumption DEF TelemetryIInv, TypeInv
<1>2. \A r \in rows' : /\ r.end \in Nat /\ r.end <= now
                       /\ \A i \in r.seen : i \in Nat /\ i <= ids
  BY <1>1 DEF RowInv, RowSet
<1>3. kind # "Begin" => \E r \in rows' : r.id = s
  BY DEF HasRow
<1>. QED
  BY <1>2, <1>3, FreshCall

\* Reports, when the connections keep theirs or drop them
LEMMA FewerReports ==
    ASSUME crashes' = crashes,
           \A d \in late' : d.kind = "Crash" => d \in Reports,
           \A c \in Conns : conns'[c].report = conns[c].report \/ conns'[c].report = NoCall
    PROVE  Reports' \subseteq Reports
  BY DEF Reports

-----------------------------------------------------------------------------
(* Steps of connections and clients *)

\* One connection changes; it keeps its report or has none.
LEMMA ConnectionKeeps ==
    ASSUME TelemetryIInv, NEW c \in Conns, conns' \in [Conns -> ConnSet],
           \A i \in Conns \ {c} : conns'[i] = conns[i],
           conns'[c].report = conns[c].report \/ conns'[c].report = NoCall,
           conns'[c].at # "Reporting",
           client' \in ClientSet, client'.ahead = client.ahead,
           UNCHANGED <<now, ids, rows, crashes, late, server, tracked, op>>
    PROVE  TelemetryIInv'
<1>1. TypeInv /\ CrashInv
  BY DEF TelemetryIInv
<1>2. TypeInv'
  BY <1>1 DEF TypeInv
<1>3. Reports' \subseteq Reports
  BY DEF Reports
<1>4. \A i \in Conns : conns'[i].at = "Reporting" => conns'[i].report # NoCall
  BY <1>1 DEF CrashInv
<1>5. client.ahead \subseteq client'.ahead
  OBVIOUS
<1>6. now <= now' /\ ids <= ids'
  BY <1>1, TelemetryAssumption DEF TypeInv
<1>. QED
  BY <1>2, <1>3, <1>4, <1>5, <1>6, QuietKeeps

LEMMA AttachTimesOutKeeps ==
    ASSUME TelemetryIInv, NEW c \in Conns, AttachTimesOut(c)
    PROVE  TelemetryIInv'
<1>1. /\ conns' = [conns EXCEPT ![c].at = "Attached"]
      /\ UNCHANGED <<now, ids, rows, crashes, late, server, tracked, op, client>>
  BY DEF AttachTimesOut
<1>2. conns \in [Conns -> ConnSet] /\ client \in ClientSet
  BY DEF TelemetryIInv, TypeInv
<1>3. /\ conns' \in [Conns -> ConnSet] /\ \A i \in Conns \ {c} : conns'[i] = conns[i]
      /\ conns'[c].report = conns[c].report /\ conns'[c].at = "Attached"
  BY <1>1, <1>2 DEF ConnSet, Stages
<1>. QED
  BY <1>1, <1>2, <1>3, ConnectionKeeps

LEMMA DialKeeps ==
    ASSUME TelemetryIInv, NEW c \in Conns, Dial(c)
    PROVE  TelemetryIInv'
<1>1. /\ conns' = [conns EXCEPT ![c].at = "Dialing"]
      /\ client' = [client EXCEPT !.link = c, !.sent = FALSE]
      /\ UNCHANGED <<now, ids, rows, crashes, late, server, tracked, op>>
  BY DEF Dial
<1>2. conns \in [Conns -> ConnSet] /\ client \in ClientSet /\ c \in Nat
  BY TelemetryAssumption DEF TelemetryIInv, TypeInv, Conns
<1>3. /\ conns' \in [Conns -> ConnSet] /\ \A i \in Conns \ {c} : conns'[i] = conns[i]
      /\ conns'[c].report = conns[c].report /\ conns'[c].at = "Dialing"
  BY <1>1, <1>2 DEF ConnSet, Stages
<1>4. client' \in ClientSet /\ client'.ahead = client.ahead
  BY <1>1, <1>2 DEF ClientSet
<1>. QED
  BY <1>1, <1>3, <1>4, ConnectionKeeps

LEMMA LeaveKeeps ==
    ASSUME TelemetryIInv, NEW c \in Conns, Leave(c)
    PROVE  TelemetryIInv'
<1>1. /\ conns' = [conns EXCEPT ![c].at = "Leaving"]
      /\ client' = IF client.link = c THEN [client EXCEPT !.link = 0] ELSE client
      /\ UNCHANGED <<now, ids, rows, crashes, late, server, tracked, op>>
  BY DEF Leave
<1>2. conns \in [Conns -> ConnSet] /\ client \in ClientSet
  BY DEF TelemetryIInv, TypeInv
<1>3. /\ conns' \in [Conns -> ConnSet] /\ \A i \in Conns \ {c} : conns'[i] = conns[i]
      /\ conns'[c].report = conns[c].report /\ conns'[c].at = "Leaving"
  BY <1>1, <1>2 DEF ConnSet, Stages
<1>4. client' \in ClientSet /\ client'.ahead = client.ahead
  BY <1>1, <1>2 DEF ClientSet
<1>. QED
  BY <1>1, <1>3, <1>4, ConnectionKeeps

LEMMA ServeKeeps ==
    ASSUME TelemetryIInv, NEW c \in Conns, Serve(c)
    PROVE  TelemetryIInv'
<1>1. PICK next \in { [conns[c] EXCEPT !.at = "Leaving", !.clean = FALSE], Gone,
                      [conns[c] EXCEPT !.at = "Serving"] } :
          /\ conns' = [conns EXCEPT ![c] = next]
          /\ client' = IF next.at # "Serving" /\ client.link = c
                       THEN [client EXCEPT !.link = 0] ELSE client
  BY DEF Serve
<1>2. UNCHANGED <<now, ids, rows, crashes, late, server, tracked, op>>
  BY DEF Serve
<1>3. conns \in [Conns -> ConnSet] /\ client \in ClientSet /\ conns[c] \in ConnSet
  BY DEF TelemetryIInv, TypeInv
<1>4. /\ next \in ConnSet /\ next.at \in {"Leaving", "Done", "Serving"}
      /\ next.report = conns[c].report \/ next.report = NoCall
  BY <1>1, <1>3, Blanks DEF ConnSet, Stages
<1>5. /\ conns' \in [Conns -> ConnSet] /\ \A i \in Conns \ {c} : conns'[i] = conns[i]
      /\ conns'[c] = next
  BY <1>1, <1>3, <1>4
<1>6. client' \in ClientSet /\ client'.ahead = client.ahead
  BY <1>1, <1>3 DEF ClientSet
<1>. QED
  BY <1>2, <1>4, <1>5, <1>6, ConnectionKeeps

\* Steps of the client, the clock and the process that change no connection's report
LEMMA OutsideKeeps ==
    ASSUME TelemetryIInv, TypeInv',
           UNCHANGED <<rows, crashes, late, tracked, op>>,
           now <= now', ids <= ids', client.ahead \subseteq client'.ahead,
           \A i \in Conns : conns'[i].report = conns[i].report /\ conns'[i].at = conns[i].at
    PROVE  TelemetryIInv'
<1>1. CrashInv
  BY DEF TelemetryIInv
<1>2. Reports' \subseteq Reports
  BY DEF Reports
<1>3. \A i \in Conns : conns'[i].at = "Reporting" => conns'[i].report # NoCall
  BY <1>1 DEF CrashInv
<1>. QED
  BY <1>2, <1>3, QuietKeeps

LEMMA ClientKeeps ==
    ASSUME TelemetryIInv, LoseLink \/ CleanExit \/ Launch \/ Tick \/ (\E time \in 1 .. MaxTime : ClientCrash(time))
    PROVE  TelemetryIInv'
<1>1. /\ TypeInv /\ CrashInv /\ now \in Nat /\ ids \in Nat /\ conns \in [Conns -> ConnSet]
      /\ client \in ClientSet /\ now \in 1 .. MaxTime
  BY TelemetryAssumption DEF TelemetryIInv, TypeInv, ClientSet, CrashInv
<1>2. CASE LoseLink \/ Launch
  <2>0. client' = [client EXCEPT !.link = 0] \/ client' = [client EXCEPT !.up = TRUE]
    BY <1>2 DEF LoseLink, Launch
  <2>1. client' \in ClientSet /\ client'.ahead = client.ahead
    <3>1. CASE client' = [client EXCEPT !.link = 0]
      BY <1>1, <3>1 DEF ClientSet
    <3>2. CASE client' = [client EXCEPT !.up = TRUE]
      <4>1. TRUE \in BOOLEAN
        OBVIOUS
      <4>. QED
        BY <1>1, <3>2, <4>1 DEF ClientSet
    <3>. QED
      BY <2>0, <3>1, <3>2
  <2>2. UNCHANGED <<now, ids, rows, crashes, late, server, tracked, op, conns>>
    BY <1>2 DEF LoseLink, Launch
  <2>3. TypeInv'
    BY <1>1, <2>1, <2>2 DEF TypeInv
  <2>. QED
    BY <1>1, <2>1, <2>2, <2>3, OutsideKeeps
<1>3. CASE \E time \in 1 .. MaxTime : ClientCrash(time)
  <2>0. PICK time \in 1 .. MaxTime : ClientCrash(time)
    BY <1>3
  <2>1. /\ client' = [client EXCEPT !.up = FALSE, !.link = 0,
                                     !.marker = [id |-> ids + 1, time |-> time]]
        /\ ids' = ids + 1
        /\ UNCHANGED <<now, rows, crashes, late, server, tracked, op, conns>>
    BY <2>0 DEF ClientCrash
  <2>2. [id |-> ids + 1, time |-> time] \in [id : Nat, time : Nat]
    <3>1. time \in Nat /\ ids + 1 \in Nat
      BY <1>1, <2>0, TelemetryAssumption
    <3>. QED
      BY <3>1
  <2>3. client' \in ClientSet /\ client'.ahead = client.ahead /\ ids' \in Nat /\ ids <= ids'
    <3>1. client' \in ClientSet /\ client'.ahead = client.ahead
      BY <1>1, <2>1, <2>2 DEF ClientSet
    <3>. QED
      BY <1>1, <2>1, <3>1
  <2>4. TypeInv'
    BY <1>1, <2>1, <2>3 DEF TypeInv
  <2>. QED
    BY <1>1, <2>1, <2>3, <2>4, OutsideKeeps
<1>4. CASE CleanExit
  <2>1. client' \in ClientSet /\ client'.ahead = client.ahead
    BY <1>1, <1>4 DEF CleanExit, ClientSet
  <2>2. /\ conns' = [conns EXCEPT ![client.link].clean = @ \/ conns[client.link].at # "Done"]
        /\ UNCHANGED <<now, ids, rows, crashes, late, server, tracked, op>>
    BY <1>4 DEF CleanExit
  <2>3. /\ conns' \in [Conns -> ConnSet]
        /\ \A i \in Conns : conns'[i].report = conns[i].report /\ conns'[i].at = conns[i].at
    BY <1>1, <2>2 DEF ConnSet
  <2>4. TypeInv'
    BY <1>1, <2>1, <2>2, <2>3 DEF TypeInv
  <2>. QED
    BY <1>1, <2>1, <2>2, <2>3, <2>4, OutsideKeeps
<1>5. CASE Tick
  <2>1. /\ now' = now + 1 /\ now' \in 1 .. MaxTime
        /\ UNCHANGED <<ids, rows, crashes, late, server, tracked, op, conns, client>>
    BY <1>1, <1>5, TelemetryAssumption DEF Tick
  <2>2. TypeInv'
    BY <1>1, <2>1 DEF TypeInv
  <2>3. client.ahead \subseteq client'.ahead /\ now <= now' /\ ids <= ids'
    BY <1>1, <2>1
  <2>. QED
    BY <2>1, <2>2, <2>3, OutsideKeeps
<1>. QED
  BY <1>2, <1>3, <1>4, <1>5

LEMMA ProcessKeeps ==
    ASSUME TelemetryIInv, BeginShutdown \/ Restart \/ UNCHANGED telemetryVars
    PROVE  TelemetryIInv'
<1>1. /\ TypeInv /\ CrashInv /\ now \in Nat /\ ids \in Nat
      /\ client \in ClientSet /\ now \in 1 .. MaxTime
  BY TelemetryAssumption DEF TelemetryIInv, TypeInv, ClientSet, CrashInv
<1>2. /\ UNCHANGED <<ids, rows, crashes, late, tracked, op, conns>>
      /\ client' \in ClientSet /\ client'.ahead = client.ahead
      /\ now' \in {now, now + 1} /\ now' \in 1 .. MaxTime
      /\ server' \in {"Running", "Stopping", "Down"}
  BY <1>1, TelemetryAssumption DEF BeginShutdown, Restart, telemetryVars, TypeInv, ClientSet
<1>3. TypeInv'
  BY <1>1, <1>2 DEF TypeInv
<1>4. client.ahead \subseteq client'.ahead /\ now <= now' /\ ids <= ids'
  BY <1>1, <1>2
<1>. QED
  BY <1>2, <1>3, <1>4, OutsideKeeps

-----------------------------------------------------------------------------
(* Crash reports *)

\* The report is bound to the session tracked, which nothing that is not
\* settled can end, or to one that has ended.
LEMMA ReportKeeps ==
    ASSUME TelemetryIInv, NEW c \in Conns, Report(c)
    PROVE  TelemetryIInv'
<1>1. /\ TypeInv /\ RowInv /\ StepInv /\ TrackInv /\ LeaseInv /\ CrashInv /\ now \in Nat
      /\ ids \in Nat
  BY TelemetryAssumption DEF TelemetryIInv, TypeInv
<1>2. /\ op = NoOp /\ conns[c].at = "Serving"
      /\ client' = [client EXCEPT !.sent = TRUE,
                       !.ahead = IF client.marker.time > now THEN client.ahead \cup {client.marker.id}
                                                             ELSE client.ahead]
      /\ UNCHANGED <<now, ids, rows, crashes, late, server, tracked, op>>
  BY DEF Report
<1>3. conns \in [Conns -> ConnSet] /\ client \in ClientSet /\ tracked \in TrackedSet
  BY <1>1 DEF TypeInv
<1>4. /\ client' \in ClientSet /\ client.ahead \subseteq client'.ahead
      /\ client.marker.time > now => client.marker.id \in client'.ahead
  <2>1. TRUE \in BOOLEAN
    OBVIOUS
  <2>2. client.marker \in [id : Nat, time : Nat] /\ client.ahead \in SUBSET Nat
    BY <1>3 DEF ClientSet
  <2>. QED
    BY <1>2, <1>3, <2>1, <2>2 DEF ClientSet
<1>5. CASE conns' = conns
  <2>1. TypeInv'
    BY <1>1, <1>2, <1>4, <1>5 DEF TypeInv
  <2>. QED
    BY <1>1, <1>2, <1>4, <1>5, <2>1, OutsideKeeps
<1>6. CASE conns' # conns
  <2> DEFINE k == [id |-> client.marker.id, kind |-> "Crash",
                   session |-> tracked.origin, time |-> client.marker.time]
  <2>1. Holds(c) /\ conns' = [conns EXCEPT ![c].at = "Reporting", ![c].report = k]
    BY <1>6 DEF Report
  <2>2. /\ k \in CallSet /\ k.kind = "Crash" /\ k.session = tracked.origin
        /\ k.time = client.marker.time /\ k.id = client.marker.id /\ k # NoCall
        /\ k.time \in Nat
    BY <1>3, Blanks DEF CallSet, ClientSet, TrackedSet
  <2>3. /\ conns' \in [Conns -> ConnSet] /\ \A i \in Conns \ {c} : conns'[i] = conns[i]
        /\ conns'[c].report = k
    BY <1>3, <2>1, <2>2 DEF ConnSet, Stages
  <2>4. TypeInv'
    BY <1>1, <1>2, <1>4, <2>3 DEF TypeInv
  <2>5. \A e \in Reports' : e \in Reports \/ e = k
    BY <1>2, <2>3 DEF Reports
  <2>6. op.call = NoCall
    BY <1>2, Blanks
  <2>7. tracked.connected /\ tracked.session # 0
    BY <2>1 DEF Holds
  <2>8. HasRow(tracked.origin)
    BY <1>1, <2>7 DEF TrackInv, HasRow
  <2>9. ASSUME NEW d \in late, NEW r \in rows, d.kind # "Crash", d.session = r.id,
               r.id = tracked.origin, r.end = 0
        PROVE  FALSE
    <3>1. tracked.origin = tracked.session
      BY <1>1, <2>7, <2>9 DEF TrackInv, RowInv
    <3>. QED
      BY <1>1, <1>2, <2>7, <2>9, <3>1 DEF LeaseInv
  <2>10. CrashInv'
    <3>1. ASSUME NEW e \in Reports'
          PROVE  e.kind = "Crash" /\ HasRow(e.session)' /\ (Timely(e)' => NotOvertaken(e)')
      <4>1. CASE e \in Reports
        BY <1>1, <1>2, <1>4, <4>1 DEF CrashInv, HasRow, Timely, NotOvertaken
      <4>2. CASE e = k
        <5>0. client.marker.time \in Nat /\ (client.marker.time <= now \/ client.marker.time > now)
          BY <1>1, <1>3 DEF ClientSet
        <5>1. Timely(e)' => client.marker.id \notin client'.ahead
          BY <2>2, <4>2 DEF Timely
        <5>2. Timely(e)' => e.time <= now
          BY <1>4, <2>2, <4>2, <5>0, <5>1
        <5>. QED
          BY <1>2, <2>2, <2>6, <2>8, <2>9, <4>2, <5>2 DEF HasRow, NotOvertaken
      <4>. QED
        BY <2>5, <3>1, <4>1, <4>2
    <3>2. \A i \in Conns : conns'[i].at = "Reporting" => conns'[i].report # NoCall
      BY <1>1, <2>2, <2>3 DEF CrashInv
    <3>. QED
      BY <1>1, <1>2, <1>4, <3>1, <3>2 DEF CrashInv, Timely
  <2>. QED
    BY <1>1, <1>2, <2>4, <2>10, QuietSessions
<1>. QED
  BY <1>5, <1>6

\* A committed crash lies within its session.
LEMMA CrashCommits ==
    ASSUME TypeInv, RowInv, CrashInv, NEW k \in Reports, Commit(k)
    PROVE  /\ rows' = rows
           /\ \A e \in crashes' : e \in crashes \/
                 (e = k /\ \A r \in rows : r.id = e.session => Within(r, e.time))
<1>1. k.kind = "Crash"
  BY DEF CrashInv
<1>2. rows' = rows /\ crashes' = (IF Result(k) = "Ok" THEN crashes \cup {k} ELSE crashes)
  BY <1>1 DEF Commit
<1>3. ASSUME Result(k) = "Ok", NEW r \in rows, r.id = k.session
      PROVE  Within(r, k.time)
  <2>1. RowOf(rows, k.session) = r
    BY <1>3, RowOfId
  <2>. QED
    BY <1>1, <1>3, <2>1 DEF Result
<1>. QED
  BY <1>2, <1>3

LEMMA ReportAnsweredKeeps ==
    ASSUME TelemetryIInv, NEW c \in Conns, ReportAnswered(c)
    PROVE  TelemetryIInv'
<1>1. TypeInv /\ RowInv /\ CrashInv /\ now \in Nat /\ ids \in Nat
  BY TelemetryAssumption DEF TelemetryIInv, TypeInv
<1>2. /\ conns[c].at = "Reporting" /\ Commit(conns[c].report)
      /\ conns' = [conns EXCEPT ![c].at = "Serving", ![c].report = NoCall]
      /\ client' = client \/ client' = [client EXCEPT !.marker = NoMarker]
      /\ UNCHANGED <<now, ids, late, server, tracked, op>>
  BY DEF ReportAnswered
<1>3. /\ conns \in [Conns -> ConnSet] /\ client \in ClientSet
      /\ crashes \subseteq CallSet
  BY <1>1 DEF TypeInv, CrashInv
<1>4. conns[c].report \in Reports /\ conns[c].report \in CallSet
  BY <1>1, <1>2, <1>3 DEF CrashInv, Reports, ConnSet
<1>5. /\ rows' = rows
      /\ \A e \in crashes' : e \in crashes \/
            (e = conns[c].report /\ \A r \in rows : r.id = e.session => Within(r, e.time))
  BY <1>1, <1>2, <1>4, CrashCommits
<1>6. /\ conns' \in [Conns -> ConnSet] /\ \A i \in Conns \ {c} : conns'[i] = conns[i]
      /\ conns'[c].report = NoCall /\ conns'[c].at = "Serving"
  BY <1>2, <1>3, Blanks DEF ConnSet, Stages
<1>7. client' \in ClientSet /\ client'.ahead = client.ahead
  BY <1>2, <1>3, Blanks DEF ClientSet
<1>8. TypeInv'
  <2>1. crashes' \subseteq CallSet
    BY <1>3, <1>4, <1>5
  <2>. QED
    BY <1>1, <1>2, <1>5, <1>6, <1>7, <2>1 DEF TypeInv
<1>9. Reports' \subseteq Reports
  <2>1. \A e \in Reports' : e \in crashes' \/ e \in Reports
    BY <1>2, <1>6 DEF Reports
  <2>. QED
    BY <1>4, <1>5, <2>1 DEF Reports
<1>10. \A i \in Conns : conns'[i].at = "Reporting" => conns'[i].report # NoCall
  BY <1>1, <1>6 DEF CrashInv
<1>11. \A e \in crashes' : e \in crashes \/ \A r \in rows : r.id = e.session => Within(r, e.time)
  BY <1>5
<1>12. now <= now' /\ ids <= ids' /\ \A d \in late' : d \in late \/ d \in Reports
  BY <1>1, <1>2
<1>. QED
  BY <1>2, <1>5, <1>7, <1>8, <1>9, <1>10, <1>11, <1>12, QuietKeeps

LEMMA ReportTimesOutKeeps ==
    ASSUME TelemetryIInv, NEW c \in Conns, ReportTimesOut(c)
    PROVE  TelemetryIInv'
<1>1. TypeInv /\ RowInv /\ CrashInv /\ now \in Nat /\ ids \in Nat
  BY TelemetryAssumption DEF TelemetryIInv, TypeInv
<1>2. /\ conns[c].at = "Reporting" /\ late' \subseteq late \cup {conns[c].report}
      /\ conns' = [conns EXCEPT ![c].at = "Serving", ![c].report = NoCall]
      /\ UNCHANGED <<now, ids, rows, crashes, server, tracked, op, client>>
  BY DEF ReportTimesOut, Abandoned
<1>3. conns \in [Conns -> ConnSet] /\ late \subseteq CallSet
  BY <1>1 DEF TypeInv, CrashInv
<1>4. conns[c].report \in Reports /\ conns[c].report \in CallSet
  BY <1>1, <1>2, <1>3 DEF CrashInv, Reports, ConnSet
<1>5. /\ conns' \in [Conns -> ConnSet] /\ \A i \in Conns \ {c} : conns'[i] = conns[i]
      /\ conns'[c].report = NoCall /\ conns'[c].at = "Serving"
  BY <1>2, <1>3, Blanks DEF ConnSet, Stages
<1>6. TypeInv'
  <2>1. late' \subseteq CallSet
    BY <1>2, <1>3, <1>4
  <2>. QED
    BY <1>1, <1>2, <1>5, <2>1 DEF TypeInv
<1>7. \A d \in late' : d \in late \/ d \in Reports
  BY <1>2, <1>4
<1>8. Reports' \subseteq Reports
  <2>1. \A d \in late' : d.kind = "Crash" => d \in Reports
    BY <1>7 DEF Reports
  <2>. QED
    BY <1>2, <1>5, <2>1, FewerReports
<1>9. \A i \in Conns : conns'[i].at = "Reporting" => conns'[i].report # NoCall
  BY <1>1, <1>5 DEF CrashInv
<1>. QED
  BY <1>1, <1>2, <1>3, <1>6, <1>7, <1>8, <1>9, QuietKeeps

-----------------------------------------------------------------------------
(* Writes nobody waits for *)

\* What is known of a write that is not settled, once it is committed
LEMMA LateCommits ==
    ASSUME TelemetryIInv, NEW c \in late, c.kind # "Crash", Commit(c), late' = late \ {c},
           UNCHANGED <<now, ids, op, tracked, client, conns>>
    PROVE  /\ crashes' = crashes /\ Stored(c) /\ rows' \subseteq RowSet
           /\ RowInv' /\ LateInv' /\ CrashInv'
<1>1. /\ TypeInv /\ RowInv /\ LateInv /\ CrashInv /\ now \in Nat /\ ids \in Nat
      /\ c \in CallSet /\ GoodWrite(c)
  BY TelemetryAssumption DEF TelemetryIInv, TypeInv, LateInv
<1>2. crashes' = crashes /\ Stored(c)
  BY <1>1, CommitStores
<1>3. c.kind = "Begin" => HasRow(c.session) \/ \A r \in rows : r.end <= c.time
  BY <1>1 DEF LateInv
<1>4. rows' \subseteq RowSet /\ RowInv'
  BY <1>1, <1>2, <1>3, StoredRows
<1>5. \A d \in late' : d.kind # "Crash" =>
          /\ d.session # c.session /\ d.id # c.id
          /\ ~(d.kind = "Begin" /\ c.kind = "Begin")
  BY <1>1 DEF LateInv
<1>6. LateInv'
  BY <1>1, <1>2, <1>5, StoredLate
<1>7. Reports' \subseteq Reports
  BY <1>2 DEF Reports
<1>8. \A k \in crashes : \A r \in rows :
          Timely(k) /\ k.session = r.id /\ c.session = r.id /\ r.end = 0 => k.time <= c.time
  BY <1>1 DEF CrashInv, Reports, NotOvertaken
<1>9. op'.call # NoCall => \A k \in Reports : Timely(k) => k.time <= op'.call.time
  BY <1>1 DEF CrashInv, NotOvertaken
<1>10. /\ client.ahead \subseteq client'.ahead
       /\ \A i \in Conns : conns'[i].at = "Reporting" => conns'[i].report # NoCall
  BY <1>1 DEF CrashInv
<1>11. CrashInv'
  BY <1>1, <1>2, <1>5, <1>7, <1>8, <1>9, <1>10, StoredCrash
<1>. QED
  BY <1>2, <1>4, <1>6, <1>11

\* The call that is waited for, when another try of it, or an earlier write of
\* its session, is committed
LEMMA LateCommitsCall ==
    ASSUME TelemetryIInv, NEW c \in late, c.kind # "Crash", Stored(c), late' = late \ {c},
           UNCHANGED <<now, ids, op>>
    PROVE  CallInv'
<1>1. /\ TypeInv /\ RowInv /\ LateInv /\ CallInv /\ now \in Nat /\ ids \in Nat
      /\ c \in CallSet /\ GoodWrite(c) /\ op.call \in CallSet
  BY TelemetryAssumption DEF TelemetryIInv, TypeInv, LateInv, OpSet
<1>. SUFFICES ASSUME op.call # NoCall
              PROVE  CallInv'
  BY DEF CallInv
<1>2. /\ GoodWrite(op.call) /\ c.time <= op.call.time /\ (c.id = op.call.id => c = op.call)
  BY <1>1 DEF CallInv
<1>3. GoodWrite(op.call)'
  BY <1>1, <1>2, StoredGood
<1>4. op.call.kind = "Begin" => \A q \in rows' : q.end <= op.call.time
  <2>. SUFFICES ASSUME op.call.kind = "Begin", NEW q \in rows'
                PROVE  q.end <= op.call.time
    OBVIOUS
  <2>1. CASE q \in rows
    BY <1>1, <2>1 DEF CallInv
  <2>2. CASE q \notin rows
    <3>1. q.end = 0 \/ q.end = c.time
      BY <1>1, <2>2, StoredNew
    <3>. QED
      BY <1>1, <1>2, <3>1 DEF CallSet
  <2>. QED
    BY <2>1, <2>2
<1>5. ASSUME NEW q \in rows', op.call.id \in q.seen, q \notin rows
      PROVE  /\ c = op.call /\ q.head = HeadOf(op.call)
             /\ \A d \in late' : d.kind # "Crash" => d.session # q.id
  <2>1. /\ q.id = c.session /\ q.head = HeadOf(c)
        /\ q.seen = {c.id} \/ \E r \in rows : r.id = c.session /\ q.seen = r.seen \cup {c.id}
    BY <1>1, <1>5, StoredNew
  <2>2. \A r \in rows : r.id = c.session => op.call.id \notin r.seen
    BY <1>1 DEF CallInv
  <2>3. c = op.call
    BY <1>2, <1>5, <2>1, <2>2
  <2>. QED
    BY <1>1, <2>1, <2>3 DEF LateInv
<1>6. op.attempt = 1 => op.call \notin late' /\ \A q \in rows' : op.call.id \notin q.seen
  BY <1>1, <1>5 DEF CallInv
<1>7. \A q \in rows' : op.call.id \in q.seen =>
          /\ q.head = HeadOf(op.call)
          /\ \A d \in late' : d.kind # "Crash" => d.session # q.id
  BY <1>1, <1>5 DEF CallInv
<1>8. \A d \in late' : d.kind # "Crash" =>
          d.time <= op.call.time /\ (d.id = op.call.id => d = op.call)
  BY <1>1 DEF CallInv
<1>. QED
  BY <1>1, <1>3, <1>4, <1>6, <1>7, <1>8 DEF CallInv, HeadOf

LEMMA SettleLateKeeps ==
    ASSUME TelemetryIInv, NEW c \in late, SettleLate(c)
    PROVE  TelemetryIInv'
<1>1. /\ TypeInv /\ RowInv /\ LateInv /\ StepInv /\ TrackInv /\ LeaseInv /\ CrashInv /\ CalmInv
      /\ now \in Nat /\ ids \in Nat /\ c \in CallSet
  BY TelemetryAssumption DEF TelemetryIInv, TypeInv
<1>2. /\ late' = late \ {c} /\ (Commit(c) \/ UNCHANGED <<rows, crashes>>)
      /\ UNCHANGED <<now, ids, server, tracked, op, conns, client>>
  BY DEF SettleLate
<1>3. /\ client.ahead \subseteq client'.ahead /\ now <= now' /\ ids <= ids'
      /\ \A i \in Conns : conns'[i].at = "Reporting" => conns'[i].report # NoCall
      /\ \A d \in late' : d \in late \/ d \in Reports
  BY <1>1, <1>2 DEF CrashInv
<1>4. CASE UNCHANGED <<rows, crashes>>
  <2>1. TypeInv'
    BY <1>1, <1>2, <1>4 DEF TypeInv
  <2>2. Reports' \subseteq Reports
    BY <1>2, <1>4 DEF Reports
  <2>. QED
    BY <1>2, <1>3, <1>4, <2>1, <2>2, QuietKeeps
<1>5. CASE c.kind = "Crash" /\ Commit(c)
  <2>1. c \in Reports
    BY <1>5 DEF Reports
  <2>2. /\ rows' = rows
        /\ \A e \in crashes' : e \in crashes \/
              (e = c /\ \A r \in rows : r.id = e.session => Within(r, e.time))
    BY <1>1, <1>5, <2>1, CrashCommits
  <2>3. TypeInv'
    <3>1. crashes' \subseteq CallSet
      BY <1>1, <2>2 DEF TypeInv
    <3>. QED
      BY <1>1, <1>2, <2>2, <3>1 DEF TypeInv
  <2>4. Reports' \subseteq Reports
    <3>1. \A e \in Reports' : e \in crashes' \/ e \in Reports
      BY <1>2 DEF Reports
    <3>. QED
      BY <2>1, <2>2, <3>1 DEF Reports
  <2>5. \A e \in crashes' : e \in crashes \/ \A r \in rows : r.id = e.session => Within(r, e.time)
    BY <2>2
  <2>. QED
    BY <1>2, <1>3, <2>2, <2>3, <2>4, <2>5, QuietKeeps
<1>6. CASE c.kind # "Crash" /\ Commit(c)
  <2>1. /\ crashes' = crashes /\ Stored(c) /\ rows' \subseteq RowSet
        /\ RowInv' /\ LateInv' /\ CrashInv'
    BY <1>2, <1>6, LateCommits
  <2>2. TypeInv'
    BY <1>1, <1>2, <2>1 DEF TypeInv
  <2>3. CallInv'
    BY <1>2, <1>6, <2>1, LateCommitsCall
  <2>4. /\ \A r \in rows : \E q \in rows' : q.id = r.id
        /\ \A r \in rows : r.end # 0 \/ r.id # c.session => r \in rows'
    BY <1>1, <2>1, StoredKeeps DEF HasRow
  <2>5. StepInv'
    <3>1. op.step = "LoadHead" => op.found # 0 /\ \E r \in rows' : r.id = op.found
      BY <1>1, <2>4 DEF StepInv, HasRow
    <3>2. op.step = "Start" => op.call.kind = "Begin"
             /\ (op.found # 0 => \E r \in rows' : r.id = op.found /\ r.end # 0)
      BY <1>1, <2>4 DEF StepInv
    <3>. QED
      BY <1>1, <1>2, <3>1, <3>2 DEF StepInv, HasRow
  <2>6. TrackInv'
    <3>1. tracked.session # 0 => \E r \in rows' : r.id = tracked.session
      BY <1>1, <2>4 DEF TrackInv, HasRow
    <3>2. tracked.session # 0 => \E r \in rows' : r.id = tracked.origin
                                     /\ (tracked.origin # tracked.session => r.end # 0)
      <4>1. CASE tracked.origin = tracked.session
        BY <3>1, <4>1
      <4>2. CASE tracked.origin # tracked.session
        BY <1>1, <2>4, <4>2 DEF TrackInv
      <4>. QED
        BY <4>1, <4>2
    <3>. QED
      BY <1>1, <1>2, <3>1, <3>2 DEF TrackInv, HasRow
  <2>7. LeaseInv'
    BY <1>1, <1>2, <1>6, <2>4 DEF LeaseInv
  <2>8. CalmInv'
    BY <1>1, <1>2, <1>6 DEF CalmInv
  <2>. QED
    BY <2>1, <2>2, <2>3, <2>5, <2>6, <2>7, <2>8 DEF TelemetryIInv
<1>. QED
  BY <1>2, <1>4, <1>5, <1>6

-----------------------------------------------------------------------------
(* Operations that fail or are interrupted *)

LEMMA LeasedConns ==
    ASSUME TypeInv, CrashInv, NEW g \in Int,
           conns' = [conns EXCEPT ![op.conn].at = "Attached", ![op.conn].lease = g]
    PROVE  /\ conns' \in [Conns -> ConnSet]
           /\ \A i \in Conns : conns'[i].report = conns[i].report
           /\ \A i \in Conns : conns'[i].at = "Reporting" => conns'[i].report # NoCall
<1>1. conns \in [Conns -> ConnSet]
  BY DEF TypeInv
<1>2. /\ conns' \in [Conns -> ConnSet]
      /\ \A i \in Conns : conns'[i].report = conns[i].report
      /\ \A i \in Conns : conns'[i].at \in {conns[i].at, "Attached"}
  BY <1>1 DEF ConnSet, Stages
<1>. QED
  BY <1>2 DEF CrashInv

LEMMA UnleasedConns ==
    ASSUME TypeInv, CrashInv,
           conns' = [conns EXCEPT ![op.conn].at = "Attached", ![op.conn].lease = 0]
    PROVE  /\ conns' \in [Conns -> ConnSet]
           /\ \A i \in Conns : conns'[i].report = conns[i].report
           /\ \A i \in Conns : conns'[i].at = "Reporting" => conns'[i].report # NoCall
<1>1. 0 \in Int
  OBVIOUS
<1>. QED
  BY <1>1, LeasedConns

LEMMA RetiredConns ==
    ASSUME TypeInv, CrashInv, NEW c, conns' = [conns EXCEPT ![c] = Gone]
    PROVE  /\ conns' \in [Conns -> ConnSet]
           /\ \A i \in Conns : conns'[i].report = conns[i].report \/ conns'[i].report = NoCall
           /\ \A i \in Conns : conns'[i].at = "Reporting" => conns'[i].report # NoCall
<1>1. conns \in [Conns -> ConnSet]
  BY DEF TypeInv
<1>2. /\ conns' \in [Conns -> ConnSet]
      /\ \A i \in Conns : conns'[i] = conns[i] \/ conns'[i] = Gone
  BY <1>1, Blanks
<1>. QED
  BY <1>2, Blanks DEF CrashInv

\* A call that fails ends its operation without a lease.
LEMMA FailureEnds ==
    ASSUME TelemetryIInv, op.call # NoCall, Proceed("Failed")
    PROVE  /\ op' = NoOp /\ ids' = ids /\ server' \in {"Running", "Stopping", "Down"}
           /\ tracked' \in TrackedSet /\ ~tracked'.connected
           /\ tracked'.session = tracked.session /\ tracked'.origin = tracked.origin
           /\ conns' \in [Conns -> ConnSet]
           /\ \A i \in Conns : conns'[i].report = conns[i].report \/ conns'[i].report = NoCall
           /\ \A i \in Conns : conns'[i].at = "Reporting" => conns'[i].report # NoCall
<1>1. /\ TypeInv /\ TrackInv /\ CrashInv /\ tracked \in TrackedSet /\ op # NoOp
      /\ server \in {"Running", "Stopping", "Down"}
  BY Blanks DEF TelemetryIInv, TypeInv
<1>2. ~Accepts(op.call, "Failed")
  BY DEF Accepts
<1>3. tracked.connected => op.step = "End"
  BY <1>1 DEF TrackInv
<1>4. CASE Reattached("Failed") \/ Reopened("Failed") \/ Closed("Failed") \/ Started("Failed")
  <2>1. /\ op' = NoOp /\ ids' = ids /\ server' = server /\ tracked' = tracked
        /\ conns' = [conns EXCEPT ![op.conn].at = "Attached", ![op.conn].lease = 0]
        /\ op.step # "End"
    BY <1>2, <1>4 DEF Reattached, Reopened, Closed, Started, Leased
  <2>. QED
    BY <1>1, <1>3, <2>1, UnleasedConns
<1>5. CASE Detached("Failed") \/ Ended("Failed")
  <2>1. /\ op' = NoOp /\ ids' = ids /\ server' = server
        /\ conns' = [conns EXCEPT ![op.conn] = Gone]
        /\ \/ tracked' = tracked /\ op.step # "End"
           \/ tracked' = [tracked EXCEPT !.connected = FALSE]
    BY <1>2, <1>5 DEF Detached, Ended, Retired
  <2>2. /\ tracked' \in TrackedSet /\ ~tracked'.connected
        /\ tracked'.session = tracked.session /\ tracked'.origin = tracked.origin
    BY <1>1, <1>3, <2>1 DEF TrackedSet
  <2>. QED
    BY <1>1, <2>1, <2>2, RetiredConns
<1>6. CASE ShutDown("Failed")
  <2>1. op' = NoOp /\ ids' = ids /\ server' = "Down" /\ tracked' = tracked /\ conns' = conns
        /\ op.step # "End"
    BY <1>6 DEF ShutDown
  <2>. QED
    BY <1>1, <1>3, <2>1 DEF TypeInv, CrashInv
<1>. QED
  BY <1>4, <1>5, <1>6 DEF Proceed

LEMMA GivenUpKeeps ==
    ASSUME TelemetryIInv, GivenUp
    PROVE  TelemetryIInv'
<1>1. /\ op.call # NoCall /\ late' = Abandoned(op.call) /\ Proceed("Failed")
      /\ UNCHANGED <<now, rows, crashes, client>>
  BY DEF GivenUp
<1>2. TypeInv /\ CrashInv /\ op.call \in CallSet /\ late \subseteq CallSet
  BY DEF TelemetryIInv, TypeInv, OpSet
<1>3. LateGrowth /\ late' \subseteq CallSet
  BY <1>1, <1>2 DEF LateGrowth, Abandoned
<1>4. /\ op' = NoOp /\ ids' = ids /\ server' \in {"Running", "Stopping", "Down"}
      /\ tracked' \in TrackedSet /\ ~tracked'.connected
      /\ tracked'.session = tracked.session /\ tracked'.origin = tracked.origin
      /\ conns' \in [Conns -> ConnSet]
      /\ \A i \in Conns : conns'[i].report = conns[i].report \/ conns'[i].report = NoCall
      /\ \A i \in Conns : conns'[i].at = "Reporting" => conns'[i].report # NoCall
  BY <1>1, FailureEnds
<1>5. TypeInv'
  BY <1>1, <1>2, <1>3, <1>4, Blanks DEF TypeInv
<1>6. \A d \in late' : d.kind = "Crash" => d \in Reports
  <2>1. op.call.kind # "Crash"
    BY <1>1 DEF TelemetryIInv, CallInv, GoodWrite, Writes
  <2>. QED
    BY <1>1, <2>1 DEF Abandoned, Reports
<1>7. Reports' \subseteq Reports
  BY <1>1, <1>4, <1>6, FewerReports
<1>8. client.ahead \subseteq client'.ahead
  BY <1>1, <1>2 DEF CrashInv
<1>. QED
  BY <1>1, <1>3, <1>4, <1>5, <1>7, <1>8, IdleKeeps

LEMMA LoadFailsKeeps ==
    ASSUME TelemetryIInv, LoadFails
    PROVE  TelemetryIInv'
<1>1. /\ op' = NoOp /\ op.step \in {"LoadOpen", "LoadHead"}
      /\ conns' = [conns EXCEPT ![op.conn].at = "Attached", ![op.conn].lease = 0]
      /\ UNCHANGED <<now, ids, rows, crashes, late, server, tracked, client>>
  BY DEF LoadFails, Leased
<1>2. TypeInv /\ CrashInv /\ TrackInv
  BY DEF TelemetryIInv
<1>3. /\ conns' \in [Conns -> ConnSet]
      /\ \A i \in Conns : conns'[i].report = conns[i].report
      /\ \A i \in Conns : conns'[i].at = "Reporting" => conns'[i].report # NoCall
  BY <1>1, <1>2, UnleasedConns
<1>4. ~tracked'.connected
  BY <1>1, <1>2, Blanks DEF TrackInv
<1>5. TypeInv'
  BY <1>1, <1>2, <1>3, Blanks DEF TypeInv
<1>6. LateGrowth
  BY <1>1 DEF LateGrowth
<1>7. Reports' \subseteq Reports
  BY <1>1, <1>3 DEF Reports
<1>8. client.ahead \subseteq client'.ahead
  BY <1>1, <1>2 DEF CrashInv
<1>. QED
  BY <1>1, <1>3, <1>4, <1>5, <1>6, <1>7, <1>8, IdleKeeps

LEMMA ServerCrashKeeps ==
    ASSUME TelemetryIInv, ServerCrash
    PROVE  TelemetryIInv'
<1>1. /\ server' = "Down" /\ op' = NoOp /\ tracked' = Untracked
      /\ late' = late \cup {k \in {op.call} \cup {conns[c].report : c \in Conns} :
                               k # NoCall /\ Committing(k)}
      /\ conns' = [c \in Conns |-> IF conns[c].at = "Idle" THEN NoConn ELSE Gone]
      /\ client' = [client EXCEPT !.link = 0]
      /\ UNCHANGED <<now, ids, rows, crashes>>
  BY DEF ServerCrash
<1>2. /\ TypeInv /\ CrashInv /\ op.call \in CallSet /\ late \subseteq CallSet
      /\ conns \in [Conns -> ConnSet] /\ client \in ClientSet
  BY DEF TelemetryIInv, TypeInv, OpSet
<1>3. LateGrowth /\ late' \subseteq CallSet
  BY <1>1, <1>2 DEF LateGrowth, Reports, ConnSet
<1>4. /\ conns' \in [Conns -> ConnSet]
      /\ \A i \in Conns : conns'[i].report = NoCall /\ conns'[i].at \in {"Idle", "Done"}
  BY <1>1, Blanks
<1>5. client' \in ClientSet /\ client'.ahead = client.ahead
  BY <1>1, <1>2 DEF ClientSet
<1>6. TypeInv'
  BY <1>1, <1>2, <1>3, <1>4, <1>5, Blanks DEF TypeInv
<1>7. \A d \in late' : d.kind = "Crash" => d \in Reports
  <2>1. op.call.kind # "Crash" \/ op.call = NoCall
    BY DEF TelemetryIInv, CallInv, GoodWrite, Writes
  <2>. QED
    BY <1>1, <2>1 DEF Reports
<1>8. Reports' \subseteq Reports
  BY <1>1, <1>4, <1>7, FewerReports
<1>9. client.ahead \subseteq client'.ahead
  BY <1>1, <1>2, <1>5 DEF CrashInv
<1>10. tracked'.session = 0 /\ ~tracked'.connected
  BY <1>1, Blanks
<1>11. \A i \in Conns : conns'[i].at = "Reporting" => conns'[i].report # NoCall
  BY <1>4
<1>. QED
  BY <1>1, <1>3, <1>6, <1>8, <1>9, <1>10, <1>11, IdleKeeps

LEMMA TriedAgainKeeps ==
    ASSUME TelemetryIInv, TriedAgain
    PROVE  TelemetryIInv'
<1>1. /\ op.call # NoCall /\ op.attempt = 1 /\ late' = Abandoned(op.call)
      /\ op' = [op EXCEPT !.attempt = 2, !.calm = FALSE]
      /\ UNCHANGED <<now, ids, rows, crashes, server, tracked, conns, client>>
  BY DEF TriedAgain
<1>2. /\ TypeInv /\ RowInv /\ LateInv /\ CallInv /\ StepInv /\ TrackInv /\ CrashInv
      /\ op \in OpSet /\ op.call \in CallSet /\ late \subseteq CallSet
      /\ now \in Nat /\ ids \in Nat
  BY TelemetryAssumption DEF TelemetryIInv, TypeInv, OpSet
<1>3. /\ op' \in OpSet /\ op'.call = op.call /\ op'.step = op.step /\ op'.found = op.found
      /\ op'.attempt = 2 /\ op'.calm = FALSE
  BY <1>1, <1>2 DEF OpSet
<1>4. op # NoOp /\ op' # NoOp
  BY <1>1, <1>3, Blanks
<1>5. LateGrowth /\ late' \subseteq CallSet /\ \A d \in late' : d \in late \/ d = op.call
  BY <1>1, <1>2 DEF LateGrowth, Abandoned
<1>6. TypeInv'
  BY <1>1, <1>2, <1>3, <1>5 DEF TypeInv
<1>7. RowInv' /\ LateInv'
  BY <1>1, <1>2, <1>5, RowsStay, LateStays
<1>8. op.call.kind # "Crash" /\ op.call.time \in Nat
  BY <1>1, <1>2 DEF CallInv, GoodWrite, Writes, CallSet
<1>9. Reports' \subseteq Reports
  <2>1. \A d \in late' : d.kind = "Crash" => d \in Reports
    BY <1>5, <1>8 DEF Reports
  <2>. QED
    BY <1>1, <2>1, FewerReports
<1>10. CrashInv'
  <2>1. /\ client.ahead \subseteq client'.ahead
        /\ \A i \in Conns : conns'[i].at = "Reporting" => conns'[i].report # NoCall
    BY <1>1, <1>2 DEF CrashInv
  <2>. QED
    BY <1>1, <1>2, <1>3, <1>5, <1>9, <2>1, CrashStays
<1>11. CallInv'
  <2>1. GoodWrite(op.call)
    BY <1>1, <1>2 DEF CallInv
  <2>2. GoodWrite(op.call)'
    BY <1>1, <1>3, <2>1 DEF GoodWrite, HasRow
  <2>3. \A r \in rows' : op'.call.id \notin r.seen
    BY <1>1, <1>2, <1>3 DEF CallInv
  <2>4. \A d \in late' : d.kind # "Crash" =>
           d.time <= op'.call.time /\ (d.id = op'.call.id => d = op'.call)
    BY <1>1, <1>2, <1>3, <1>5, <1>8 DEF CallInv
  <2>5. op'.call.kind = "Begin" => \A r \in rows' : r.end <= op'.call.time
    BY <1>1, <1>2, <1>3 DEF CallInv
  <2>. QED
    BY <1>3, <2>2, <2>3, <2>4, <2>5 DEF CallInv
<1>12. StepInv'
  BY <1>1, <1>2, <1>3, <1>4 DEF StepInv, HasRow
<1>13. TrackInv'
  BY <1>1, <1>2, <1>3, <1>4 DEF TrackInv, HasRow
<1>14. LeaseInv' /\ CalmInv'
  BY <1>3, <1>4 DEF LeaseInv, CalmInv
<1>. QED
  BY <1>6, <1>7, <1>10, <1>11, <1>12, <1>13, <1>14 DEF TelemetryIInv

-----------------------------------------------------------------------------
(* Operations that go on *)

\* An operation waits for a new call.
LEMMA CallKeeps ==
    ASSUME TelemetryIInv, NEW o \in OpSet, NEW step, NEW kind \in Writes, NEW s \in Nat,
           Call(o, step, kind, s), step \in Waiting, kind # "Begin" => HasRow(s),
           UNCHANGED <<now, rows, crashes, late, client, conns>>,
           server' \in {"Running", "Stopping", "Down"}, tracked' \in TrackedSet,
           StepInv', TrackInv', CalmInv'
    PROVE  TelemetryIInv'
<1>1. /\ TypeInv /\ RowInv /\ LateInv /\ CallInv /\ CrashInv /\ now \in Nat /\ ids \in Nat
  BY TelemetryAssumption DEF TelemetryIInv, TypeInv
<1>2. /\ CallInv' /\ op' \in OpSet /\ ids' \in Nat /\ ids' = ids + 1
      /\ op'.call.time = now /\ op' # NoOp
  BY NewCall
<1>3. TypeInv'
  BY <1>1, <1>2 DEF TypeInv
<1>4. ids <= ids' /\ now <= now' /\ now' \in Nat
  BY <1>1, <1>2
<1>5. LateGrowth
  BY DEF LateGrowth
<1>6. RowInv' /\ LateInv'
  BY <1>1, <1>2, <1>4, <1>5, RowsStay, LateStays
<1>7. CrashInv'
  <2>1. /\ client.ahead \subseteq client'.ahead /\ Reports' \subseteq Reports
        /\ \A i \in Conns : conns'[i].at = "Reporting" => conns'[i].report # NoCall
    BY <1>1 DEF CrashInv, Reports
  <2>. QED
    BY <1>1, <1>2, <1>4, <1>5, <2>1, CrashStays
<1>8. LeaseInv'
  BY <1>2 DEF LeaseInv
<1>. QED
  BY <1>2, <1>3, <1>6, <1>7, <1>8 DEF TelemetryIInv

\* An operation goes on to read the sessions.
LEMMA ReadKeeps ==
    ASSUME TelemetryIInv, op' \in OpSet, op'.call = NoCall,
           op'.step \in {"LoadOpen", "LoadHead"},
           op'.step = "LoadOpen" => op'.found = 0,
           op'.step = "LoadHead" => op'.found # 0 /\ HasRow(op'.found),
           ~tracked.connected, CalmInv',
           UNCHANGED <<now, ids, rows, crashes, late, server, tracked, conns, client>>
    PROVE  TelemetryIInv'
<1>1. /\ TypeInv /\ RowInv /\ LateInv /\ CallInv /\ CrashInv /\ TrackInv /\ now \in Nat /\ ids \in Nat
  BY TelemetryAssumption DEF TelemetryIInv, TypeInv
<1>2. TypeInv'
  BY <1>1 DEF TypeInv
<1>3. LateGrowth
  BY DEF LateGrowth
<1>4. RowInv' /\ LateInv'
  BY <1>1, <1>3, RowsStay, LateStays
<1>5. CrashInv'
  <2>1. /\ client.ahead \subseteq client'.ahead /\ Reports' \subseteq Reports
        /\ \A i \in Conns : conns'[i].at = "Reporting" => conns'[i].report # NoCall
    BY <1>1 DEF CrashInv, Reports
  <2>. QED
    BY <1>1, <1>3, <2>1, CrashStays
<1>6. CallInv' /\ LeaseInv' /\ TrackInv'
  BY <1>1 DEF CallInv, LeaseInv, TrackInv, HasRow
<1>7. StepInv'
  <2>1. op' # NoOp
    BY Blanks
  <2>. QED
    BY <2>1 DEF StepInv, Waiting, HasRow
<1>. QED
  BY <1>2, <1>4, <1>5, <1>6, <1>7 DEF TelemetryIInv

LEMMA FinishShutdownKeeps ==
    ASSUME TelemetryIInv, FinishShutdown
    PROVE  TelemetryIInv'
<1>1. /\ op = NoOp /\ tracked' = Untracked
      /\ UNCHANGED <<now, rows, crashes, late, conns, client>>
  BY DEF FinishShutdown
<1>2. /\ TypeInv /\ TrackInv /\ CrashInv /\ server \in {"Running", "Stopping", "Down"}
      /\ tracked.session \in Nat
  BY DEF TelemetryIInv, TypeInv, TrackedSet
<1>3. tracked' \in TrackedSet /\ tracked'.session = 0 /\ ~tracked'.connected
  BY <1>1, Blanks
<1>4. CASE tracked.session # 0
  <2>1. Call(NoOp, "Shutdown", "Ended", tracked.session) /\ server' = server
    BY <1>4 DEF FinishShutdown
  <2>2. HasRow(tracked.session)
    BY <1>2, <1>4 DEF TrackInv
  <2>3. NoOp \in OpSet /\ "Ended" \in Writes /\ "Shutdown" \in Waiting
    BY Blanks DEF Writes, Waiting
  <2>4. /\ op'.step = "Shutdown" /\ op'.call # NoCall /\ op'.call.kind = "Ended" /\ op' # NoOp
    BY <1>1, <1>2, <2>1, <2>2, <2>3, NewCall
  <2>5. StepInv' /\ TrackInv' /\ CalmInv'
    BY <1>3, <2>4 DEF StepInv, TrackInv, CalmInv, Recovery, Waiting
  <2>. QED
    BY <1>1, <1>2, <1>3, <2>1, <2>2, <2>3, <2>5, CallKeeps
<1>5. CASE tracked.session = 0
  <2>1. server' = "Down" /\ op' = NoOp /\ ids' = ids
    BY <1>1, <1>5 DEF FinishShutdown
  <2>2. TypeInv'
    BY <1>1, <1>2, <1>3, <2>1, Blanks DEF TypeInv
  <2>3. LateGrowth /\ Reports' \subseteq Reports
    BY <1>1 DEF LateGrowth, Reports
  <2>4. /\ client.ahead \subseteq client'.ahead
        /\ \A i \in Conns : conns'[i].at = "Reporting" => conns'[i].report # NoCall
    BY <1>1, <1>2 DEF CrashInv
  <2>. QED
    BY <1>1, <1>3, <2>1, <2>2, <2>3, <2>4, IdleKeeps
<1>. QED
  BY <1>4, <1>5

LEMMA RetireKeeps ==
    ASSUME TelemetryIInv, NEW c \in Conns, Retire(c)
    PROVE  TelemetryIInv'
<1>1. UNCHANGED <<now, rows, crashes, late, server, client>>
  BY DEF Retire
<1>2. /\ TypeInv /\ TrackInv /\ CrashInv /\ server \in {"Running", "Stopping", "Down"}
      /\ tracked \in TrackedSet /\ tracked.session \in Nat /\ client \in ClientSet
      /\ c \in Nat
  BY TelemetryAssumption DEF TelemetryIInv, TypeInv, TrackedSet, Conns
<1>3. CASE conns' = [conns EXCEPT ![c] = Gone] /\ UNCHANGED <<op, ids, tracked>>
  <2>1. /\ conns' \in [Conns -> ConnSet] /\ \A i \in Conns \ {c} : conns'[i] = conns[i]
        /\ conns'[c].report = NoCall /\ conns'[c].at = "Done"
    BY <1>2, <1>3, Blanks DEF TypeInv
  <2>. QED
    BY <1>1, <1>2, <1>3, <2>1, ConnectionKeeps
<1>4. CASE /\ server = "Running" /\ Holds(c)
           /\ IF conns[c].clean
              THEN /\ Call([NoOp EXCEPT !.conn = c], "End", "Ended", tracked.session)
                   /\ UNCHANGED tracked
              ELSE /\ tracked' = [tracked EXCEPT !.connected = FALSE]
                   /\ Call([NoOp EXCEPT !.conn = c], "Detach", "Disconnected", tracked.session)
           /\ UNCHANGED conns
  <2> DEFINE o == [NoOp EXCEPT !.conn = c]
  <2>1. o \in OpSet
    BY <1>2, Blanks DEF OpSet
  <2>2. tracked.session # 0 /\ HasRow(tracked.session)
    BY <1>2, <1>4 DEF Holds, TrackInv
  <2>3. {"Ended", "Disconnected"} \subseteq Writes /\ {"End", "Detach"} \subseteq Waiting
    BY DEF Writes, Waiting
  <2>4. CASE conns[c].clean
    <3>1. Call(o, "End", "Ended", tracked.session) /\ tracked' = tracked
      BY <1>4, <2>4
    <3>2. op'.step = "End" /\ op'.call # NoCall /\ op'.call.kind = "Ended" /\ op' # NoOp
      BY <1>1, <1>2, <2>1, <2>2, <2>3, <3>1, NewCall
    <3>3. StepInv' /\ CalmInv'
      BY <3>2 DEF StepInv, CalmInv, Recovery, Waiting
    <3>4. TrackInv'
      BY <1>1, <1>2, <3>1, <3>2 DEF TrackInv, HasRow
    <3>. QED
      BY <1>1, <1>2, <1>4, <2>1, <2>2, <2>3, <3>1, <3>3, <3>4, CallKeeps
  <2>5. CASE ~conns[c].clean
    <3>1. /\ Call(o, "Detach", "Disconnected", tracked.session)
          /\ tracked' = [tracked EXCEPT !.connected = FALSE]
      BY <1>4, <2>5
    <3>2. /\ op'.step = "Detach" /\ op'.call # NoCall /\ op'.call.kind = "Disconnected"
          /\ op' # NoOp
      BY <1>1, <1>2, <2>1, <2>2, <2>3, <3>1, NewCall
    <3>3. StepInv' /\ CalmInv'
      BY <3>2 DEF StepInv, CalmInv, Recovery, Waiting
    <3>4. /\ tracked' \in TrackedSet /\ ~tracked'.connected
          /\ tracked'.session = tracked.session /\ tracked'.origin = tracked.origin
      BY <1>2, <3>1 DEF TrackedSet
    <3>5. TrackInv'
      BY <1>1, <1>2, <3>4 DEF TrackInv, HasRow
    <3>. QED
      BY <1>1, <1>2, <1>4, <2>1, <2>2, <2>3, <3>1, <3>3, <3>4, <3>5, CallKeeps
  <2>. QED
    BY <2>4, <2>5
<1>. QED
  BY <1>3, <1>4 DEF Retire

LEMMA BeginAttachKeeps ==
    ASSUME TelemetryIInv, NEW c \in Conns, BeginAttach(c)
    PROVE  TelemetryIInv'
<1> DEFINE o == [NoOp EXCEPT !.conn = c, !.calm = (late = {})]
<1>1. /\ op = NoOp /\ conns[c].at = "Dialing"
      /\ UNCHANGED <<now, rows, crashes, late, server, client>>
  BY DEF BeginAttach
<1>2. /\ TypeInv /\ TrackInv /\ CrashInv /\ server \in {"Running", "Stopping", "Down"}
      /\ tracked \in TrackedSet /\ tracked.session \in Nat /\ client \in ClientSet
      /\ conns \in [Conns -> ConnSet] /\ c \in Nat /\ now \in Nat /\ ids \in Nat
  BY TelemetryAssumption DEF TelemetryIInv, TypeInv, TrackedSet, Conns
<1>3. /\ o \in OpSet /\ o.call = NoCall /\ o.found = 0 /\ o.again = FALSE
      /\ o.calm <=> late = {}
  <2>1. (late = {}) \in BOOLEAN
    OBVIOUS
  <2>. QED
    BY <1>2, <2>1, Blanks DEF OpSet
<1>4. CASE /\ conns' = [conns EXCEPT ![c].at = "Attached"] /\ UNCHANGED <<op, ids, tracked>>
  <2>1. /\ conns' \in [Conns -> ConnSet] /\ \A i \in Conns \ {c} : conns'[i] = conns[i]
        /\ conns'[c].report = conns[c].report /\ conns'[c].at = "Attached"
    BY <1>2, <1>4 DEF ConnSet, Stages
  <2>. QED
    BY <1>1, <1>2, <1>4, <2>1, ConnectionKeeps
<1>5. CASE tracked.session = 0 /\ op' = [o EXCEPT !.step = "LoadOpen"] /\ UNCHANGED <<conns, ids, tracked>>
  <2>1. /\ op' \in OpSet /\ op'.call = NoCall /\ op'.found = 0 /\ op'.again = FALSE
        /\ op'.step = "LoadOpen" /\ (op'.calm <=> late = {})
    BY <1>3, <1>5 DEF OpSet
  <2>2. ~tracked.connected
    BY <1>2, <1>5 DEF TrackInv
  <2>3. CalmInv'
    BY <1>1, <2>1 DEF CalmInv
  <2>. QED
    BY <1>1, <1>5, <2>1, <2>2, <2>3, ReadKeeps
<1>6. CASE /\ tracked.connected
           /\ tracked' = [tracked EXCEPT !.active = tracked.next, !.next = @ + 1]
           /\ conns' = [conns EXCEPT ![c].at = "Attached", ![c].lease = tracked.next]
           /\ UNCHANGED <<op, ids>>
  <2>0. tracked.next \in Nat /\ tracked' = [tracked EXCEPT !.active = tracked.next, !.next = tracked.next + 1]
    BY <1>2, <1>6 DEF TrackedSet
  <2>1. /\ tracked' \in TrackedSet /\ tracked'.session = tracked.session
        /\ tracked'.origin = tracked.origin /\ tracked'.connected = tracked.connected
        /\ tracked.next \in Nat
    <3>1. tracked' \in TrackedSet
      <4>1. tracked.next + 1 \in Nat /\ tracked.next \in Int
        BY <2>0
      <4>2. \A m \in Int, n \in Nat : [tracked EXCEPT !.active = m, !.next = n] \in TrackedSet
        BY <1>2 DEF TrackedSet
      <4>. QED
        BY <2>0, <4>1, <4>2
    <3>2. tracked'.session = tracked.session /\ tracked'.origin = tracked.origin
      BY <1>2, <2>0 DEF TrackedSet
    <3>3. tracked'.connected = tracked.connected
      BY <1>2, <2>0, Zenon DEF TrackedSet
    <3>. QED
      BY <2>0, <3>1, <3>2, <3>3
  <2>2. /\ conns' \in [Conns -> ConnSet]
        /\ \A i \in Conns : /\ conns'[i].report = conns[i].report
                            /\ conns'[i].at \in {conns[i].at, "Attached"}
    <3>1. tracked.next \in Int
      BY <2>1
    <3>. QED
      BY <1>2, <1>6, <3>1 DEF ConnSet, Stages
  <2>3. TypeInv'
    BY <1>1, <1>2, <1>6, <2>1, <2>2 DEF TypeInv
  <2>4. Reports' \subseteq Reports
    BY <1>1, <2>2 DEF Reports
  <2>5. client.ahead \subseteq client'.ahead /\ now <= now' /\ ids <= ids'
    BY <1>1, <1>2, <1>6 DEF CrashInv
  <2>6. \A i \in Conns : conns'[i].at = "Reporting" => conns'[i].report # NoCall
    BY <1>2, <2>2 DEF CrashInv
  <2>7. \A d \in late' : d \in late \/ d \in Reports
    BY <1>1
  <2>8. \A e \in crashes' : e \in crashes \/ \A r \in rows : r.id = e.session => Within(r, e.time)
    BY <1>1
  <2>. QED
    BY <1>1, <1>6, <2>1, <2>3, <2>4, <2>5, <2>6, <2>7, <2>8, QuietKeeps
<1>7. CASE /\ tracked.session # 0 /\ ~tracked.connected
           /\ tracked' = [tracked EXCEPT !.next = @ + 1]
           /\ Call(o, "Reattach", "Reconnected", tracked.session)
           /\ UNCHANGED conns
  <2>1. /\ tracked' \in TrackedSet /\ tracked'.session = tracked.session
        /\ tracked'.origin = tracked.origin /\ ~tracked'.connected
    BY <1>2, <1>7 DEF TrackedSet
  <2>2. HasRow(tracked.session)
    BY <1>2, <1>7 DEF TrackInv
  <2>3. "Reconnected" \in Writes /\ "Reattach" \in Waiting
    BY DEF Writes, Waiting
  <2>4. /\ op'.step = "Reattach" /\ op'.call # NoCall /\ op'.call.kind = "Reconnected"
        /\ op' # NoOp /\ op'.call.session = tracked.session
    BY <1>1, <1>2, <1>3, <1>7, <2>2, <2>3, NewCall
  <2>5. StepInv' /\ CalmInv'
    BY <1>7, <2>1, <2>4 DEF StepInv, CalmInv, Recovery, Waiting
  <2>6. TrackInv'
    BY <1>1, <1>2, <2>1 DEF TrackInv, HasRow
  <2>. QED
    BY <1>1, <1>2, <1>3, <1>7, <2>1, <2>2, <2>3, <2>5, <2>6, CallKeeps
<1>. QED
  BY <1>4, <1>5, <1>6, <1>7 DEF BeginAttach

LEMMA LoadOpenKeeps ==
    ASSUME TelemetryIInv, LoadOpen
    PROVE  TelemetryIInv'
<1>1. /\ op.step = "LoadOpen"
      /\ UNCHANGED <<now, rows, crashes, late, server, tracked, client>>
  BY DEF LoadOpen
<1>2. /\ TypeInv /\ RowInv /\ StepInv /\ TrackInv /\ CrashInv /\ CalmInv /\ op \in OpSet
      /\ server \in {"Running", "Stopping", "Down"} /\ tracked \in TrackedSet
      /\ rows \subseteq RowSet
  BY DEF TelemetryIInv, TypeInv
<1>3. op # NoOp /\ ~tracked.connected /\ op.call = NoCall /\ op.found = 0
  BY <1>1, <1>2, Blanks DEF TrackInv, StepInv, Waiting
<1>4. CASE Leased(0) /\ ids' = ids
  <2>1. op' = NoOp /\ conns' = [conns EXCEPT ![op.conn].at = "Attached", ![op.conn].lease = 0]
    BY <1>4 DEF Leased
  <2>2. /\ conns' \in [Conns -> ConnSet]
        /\ \A i \in Conns : conns'[i].report = conns[i].report
        /\ \A i \in Conns : conns'[i].at = "Reporting" => conns'[i].report # NoCall
    BY <1>2, <2>1, UnleasedConns
  <2>3. TypeInv'
    BY <1>1, <1>2, <1>4, <2>1, <2>2, Blanks DEF TypeInv
  <2>4. LateGrowth /\ Reports' \subseteq Reports /\ client.ahead \subseteq client'.ahead
    BY <1>1, <1>2, <2>2 DEF LateGrowth, Reports, CrashInv
  <2>. QED
    BY <1>1, <1>3, <1>4, <2>1, <2>2, <2>3, <2>4, IdleKeeps
<1>5. CASE OpenRows(rows) = {} /\ Call(op, "Start", "Begin", 0) /\ conns' = conns
  <2>1. "Begin" \in Writes /\ "Start" \in Waiting
    BY DEF Writes, Waiting
  <2>2. /\ op'.step = "Start" /\ op'.call # NoCall /\ op'.call.kind = "Begin" /\ op' # NoOp
        /\ op'.attempt = 1 /\ op'.found = 0 /\ op'.again = op.again /\ op'.calm = op.calm
    BY <1>1, <1>2, <1>3, <1>5, <2>1, NewCall
  <2>3. StepInv'
    BY <2>2 DEF StepInv, Waiting
  <2>4. TrackInv'
    BY <1>1, <1>2, <1>3 DEF TrackInv, HasRow
  <2>5. \A r \in rows : r.end # 0
    BY <1>5 DEF OpenRows
  <2>6. CalmInv'
    BY <1>1, <1>2, <2>2, <2>5 DEF CalmInv, Recovery
  <2>. QED
    BY <1>1, <1>2, <1>5, <2>1, <2>3, <2>4, <2>6, CallKeeps
<1>6. ASSUME NEW r \in OpenRows(rows), op' = [op EXCEPT !.step = "LoadHead", !.found = r.id],
             UNCHANGED <<ids, conns>>
      PROVE  TelemetryIInv'
  <2>1. r \in rows /\ r.end = 0 /\ r.id \in Nat /\ r.id # 0
    BY <1>2 DEF OpenRows, RowInv, RowSet
  <2>2. /\ op' \in OpSet /\ op'.call = NoCall /\ op'.step = "LoadHead" /\ op'.found = r.id
        /\ op'.again = op.again /\ op'.calm = op.calm
    BY <1>2, <1>3, <1>6, <2>1 DEF OpSet
  <2>3. CalmInv'
    BY <1>1, <1>2, <2>1, <2>2 DEF CalmInv, Recovery
  <2>4. HasRow(r.id)
    BY <2>1 DEF HasRow
  <2>. QED
    BY <1>1, <1>3, <1>6, <2>1, <2>2, <2>3, <2>4, ReadKeeps
<1>. QED
  BY <1>4, <1>5, <1>6 DEF LoadOpen

LEMMA LoadHeadKeeps ==
    ASSUME TelemetryIInv, LoadHead
    PROVE  TelemetryIInv'
<1>1. /\ op.step = "LoadHead"
      /\ UNCHANGED <<now, rows, crashes, late, server, tracked, client>>
  BY DEF LoadHead
<1>2. /\ TypeInv /\ RowInv /\ StepInv /\ TrackInv /\ CrashInv /\ CalmInv /\ op \in OpSet
      /\ server \in {"Running", "Stopping", "Down"} /\ tracked \in TrackedSet
      /\ rows \subseteq RowSet /\ op.found \in Nat
  BY DEF TelemetryIInv, TypeInv, OpSet
<1>3. op # NoOp /\ ~tracked.connected /\ op.call = NoCall /\ op.found # 0 /\ HasRow(op.found)
  BY <1>1, <1>2, Blanks DEF TrackInv, StepInv, Waiting
<1>4. PICK r \in rows : r.id = op.found
  BY <1>3 DEF HasRow
<1>5. RowOf(rows, op.found) = r
  BY <1>2, <1>4, RowOfId
<1>6. CASE Leased(0) /\ ids' = ids
  <2>1. op' = NoOp /\ conns' = [conns EXCEPT ![op.conn].at = "Attached", ![op.conn].lease = 0]
    BY <1>6 DEF Leased
  <2>2. /\ conns' \in [Conns -> ConnSet]
        /\ \A i \in Conns : conns'[i].report = conns[i].report
        /\ \A i \in Conns : conns'[i].at = "Reporting" => conns'[i].report # NoCall
    BY <1>2, <2>1, UnleasedConns
  <2>3. TypeInv'
    BY <1>1, <1>2, <1>6, <2>1, <2>2, Blanks DEF TypeInv
  <2>4. LateGrowth /\ Reports' \subseteq Reports /\ client.ahead \subseteq client'.ahead
    BY <1>1, <1>2, <2>2 DEF LateGrowth, Reports, CrashInv
  <2>. QED
    BY <1>1, <1>3, <1>6, <2>1, <2>2, <2>3, <2>4, IdleKeeps
<1>7. {"Reconnected", "Ended"} \subseteq Writes /\ {"Reopen", "Close"} \subseteq Waiting
  BY DEF Writes, Waiting
<1>8. TrackInv'
  BY <1>1, <1>2, <1>3 DEF TrackInv, HasRow
<1>9. \A q \in rows : q.id = op.found => q = r /\ q.at <= now
  BY <1>2, <1>4 DEF RowInv
<1>10. CASE Reusable(r.head) /\ Call(op, "Reopen", "Reconnected", op.found) /\ conns' = conns
  <2>1. /\ op'.step = "Reopen" /\ op'.call # NoCall /\ op'.call.kind = "Reconnected"
        /\ op'.call.session = op.found /\ op'.call.time = now
        /\ op' # NoOp /\ op'.attempt = 1 /\ op'.found = op.found /\ op'.again = op.again
        /\ op'.calm = op.calm
    BY <1>1, <1>2, <1>3, <1>7, <1>10, NewCall
  <2>2. StepInv'
    BY <1>3, <2>1 DEF StepInv, Waiting
  <2>3. CalmInv'
    BY <1>1, <1>2, <1>9, <1>10, <2>1 DEF CalmInv, Recovery, Reusable
  <2>. QED
    BY <1>1, <1>2, <1>3, <1>7, <1>8, <1>10, <2>2, <2>3, CallKeeps
<1>11. CASE Call(op, "Close", "Ended", op.found) /\ conns' = conns
  <2>1. /\ op'.step = "Close" /\ op'.call # NoCall /\ op'.call.kind = "Ended"
        /\ op'.call.session = op.found /\ op'.call.time = now
        /\ op' # NoOp /\ op'.attempt = 1 /\ op'.found = op.found /\ op'.again = op.again
        /\ op'.calm = op.calm
    BY <1>1, <1>2, <1>3, <1>7, <1>11, NewCall
  <2>2. StepInv'
    BY <1>3, <2>1 DEF StepInv, Waiting
  <2>3. CalmInv'
    BY <1>1, <1>2, <1>9, <2>1 DEF CalmInv, Recovery
  <2>. QED
    BY <1>1, <1>2, <1>3, <1>7, <1>8, <1>11, <2>2, <2>3, CallKeeps
<1>. QED
  BY <1>5, <1>6, <1>10, <1>11 DEF LoadHead

-----------------------------------------------------------------------------
(* Answers *)

\* What every answer keeps, whatever the operation does next
LEMMA AnswerStores ==
    ASSUME TelemetryIInv, op.call # NoCall, ~Blocked(op.call), Commit(op.call),
           UNCHANGED <<now, late, client>>, ids' \in Nat, ids <= ids',
           op'.call # NoCall => op'.call.time = now,
           \A i \in Conns : conns'[i].report = conns[i].report \/ conns'[i].report = NoCall,
           \A i \in Conns : conns'[i].at = "Reporting" => conns'[i].report # NoCall
    PROVE  /\ crashes' = crashes /\ Stored(op.call) /\ rows' \subseteq RowSet
           /\ RowInv' /\ LateInv' /\ CrashInv'
           /\ \A r \in rows : \E q \in rows' : q.id = r.id
           /\ \A r \in rows : r.end # 0 => r \in rows'
           /\ \A d \in late' : d.kind # "Crash" => d.session # op.call.session
           /\ Result(op.call) = "Ok" =>
                 \E q \in rows' : q.id = op.call.session /\ q.head = HeadOf(op.call)
           /\ Result(op.call) = "SessionEnded" =>
                 \E q \in rows' : q.id = op.call.session /\ q.end # 0
<1>1. /\ TypeInv /\ RowInv /\ LateInv /\ CallInv /\ CrashInv /\ now \in Nat /\ ids \in Nat
      /\ op.call \in CallSet /\ GoodWrite(op.call)
  BY TelemetryAssumption DEF TelemetryIInv, TypeInv, OpSet, CallInv
<1>2. crashes' = crashes /\ Stored(op.call)
  BY <1>1, CommitStores
<1>3. op.call.kind = "Begin" => HasRow(op.call.session) \/ \A r \in rows : r.end <= op.call.time
  BY <1>1 DEF CallInv
<1>4. rows' \subseteq RowSet /\ RowInv'
  BY <1>1, <1>2, <1>3, StoredRows
<1>5. \A d \in late' : d.kind # "Crash" =>
          /\ d.session # op.call.session /\ d.id # op.call.id
          /\ ~(d.kind = "Begin" /\ op.call.kind = "Begin")
  BY <1>1 DEF Blocked, CallInv
<1>6. LateInv'
  BY <1>1, <1>2, <1>5, StoredLate
<1>7. Reports' \subseteq Reports
  <2>1. \A d \in late' : d.kind = "Crash" => d \in Reports
    BY DEF Reports
  <2>. QED
    BY <1>2, <2>1, FewerReports
<1>8. \A k \in crashes : \A r \in rows :
          Timely(k) /\ k.session = r.id /\ op.call.session = r.id /\ r.end = 0
              => k.time <= op.call.time
  BY <1>1 DEF CrashInv, Reports, NotOvertaken
<1>9. op'.call # NoCall => \A k \in Reports : Timely(k) => k.time <= op'.call.time
  BY <1>1 DEF CrashInv, NotOvertaken
<1>10. client.ahead \subseteq client'.ahead
  BY <1>1 DEF CrashInv
<1>11. CrashInv'
  BY <1>1, <1>2, <1>5, <1>7, <1>8, <1>9, <1>10, StoredCrash
<1>12. /\ \A r \in rows : \E q \in rows' : q.id = r.id
       /\ \A r \in rows : r.end # 0 => r \in rows'
  BY <1>1, <1>2, StoredKeeps DEF HasRow
<1>13. \A r \in rows : op.call.id \in r.seen => r.head = HeadOf(op.call)
  BY <1>1 DEF CallInv
<1>14. /\ Result(op.call) = "Ok" =>
             \E q \in rows' : q.id = op.call.session /\ q.head = HeadOf(op.call)
       /\ Result(op.call) = "SessionEnded" =>
             \E q \in rows' : q.id = op.call.session /\ q.end # 0
  BY <1>1, <1>13, AnswerTells
<1>. QED
  BY <1>2, <1>4, <1>5, <1>6, <1>11, <1>12, <1>14

\* The answer ends its operation.
LEMMA AnswerEnds ==
    ASSUME TelemetryIInv, op.call # NoCall, ~Blocked(op.call), Commit(op.call),
           UNCHANGED <<now, ids, late, client>>, op' = NoOp,
           server' \in {"Running", "Stopping", "Down"}, tracked' \in TrackedSet,
           conns' \in [Conns -> ConnSet],
           \A i \in Conns : conns'[i].report = conns[i].report \/ conns'[i].report = NoCall,
           \A i \in Conns : conns'[i].at = "Reporting" => conns'[i].report # NoCall,
           \/ ~tracked'.connected /\ tracked'.session = 0
           \/ /\ ~tracked'.connected
              /\ tracked'.session = tracked.session /\ tracked'.origin = tracked.origin
           \/ /\ Result(op.call) = "Ok" /\ op.call.kind \in {"Begin", "Reconnected"}
              /\ tracked'.session = op.call.session /\ op.call.session # 0
              /\ \/ tracked'.origin = op.call.session
                 \/ \E r \in rows : r.id = tracked'.origin /\ r.end # 0
    PROVE  TelemetryIInv'
<1>1. TypeInv /\ TrackInv /\ ids \in Nat /\ now \in Nat
  BY TelemetryAssumption DEF TelemetryIInv, TypeInv
<1>2. op'.call = NoCall /\ op'.step = "None" /\ op' \in OpSet
  BY Blanks
<1>3. /\ crashes' = crashes /\ rows' \subseteq RowSet
      /\ RowInv' /\ LateInv' /\ CrashInv'
      /\ \A r \in rows : \E q \in rows' : q.id = r.id
      /\ \A r \in rows : r.end # 0 => r \in rows'
      /\ \A d \in late' : d.kind # "Crash" => d.session # op.call.session
      /\ Result(op.call) = "Ok" =>
            \E q \in rows' : q.id = op.call.session /\ q.head = HeadOf(op.call)
  BY <1>1, <1>2, AnswerStores
<1>4. TypeInv'
  BY <1>1, <1>2, <1>3 DEF TypeInv
<1>5. CallInv' /\ StepInv' /\ CalmInv'
  BY <1>2 DEF CallInv, StepInv, CalmInv, Waiting, Recovery
<1>6. CASE ~tracked'.connected /\ tracked'.session = 0
  BY <1>3, <1>4, <1>5, <1>6 DEF TelemetryIInv, TrackInv, LeaseInv
<1>7. CASE /\ ~tracked'.connected
           /\ tracked'.session = tracked.session /\ tracked'.origin = tracked.origin
  <2>1. tracked.session # 0 => \E q \in rows' : q.id = tracked.session
    BY <1>1, <1>3 DEF TrackInv, HasRow
  <2>2. tracked.session # 0 =>
           \E q \in rows' : q.id = tracked.origin /\ (tracked.origin # tracked.session => q.end # 0)
    <3>1. CASE tracked.origin = tracked.session
      BY <2>1, <3>1
    <3>2. CASE tracked.origin # tracked.session
      BY <1>1, <1>3, <3>2 DEF TrackInv
    <3>. QED
      BY <3>1, <3>2
  <2>3. TrackInv' /\ LeaseInv'
    BY <1>7, <2>1, <2>2 DEF TrackInv, LeaseInv, HasRow
  <2>. QED
    BY <1>3, <1>4, <1>5, <2>3 DEF TelemetryIInv
<1>8. CASE /\ Result(op.call) = "Ok" /\ op.call.kind \in {"Begin", "Reconnected"}
           /\ tracked'.session = op.call.session /\ op.call.session # 0
           /\ \/ tracked'.origin = op.call.session
              \/ \E r \in rows : r.id = tracked'.origin /\ r.end # 0
  <2>1. PICK q \in rows' : q.id = op.call.session /\ q.head = HeadOf(op.call)
    BY <1>3, <1>8
  <2>2. q.head \in {"Started", "Reconnected"}
    BY <1>8, <2>1 DEF HeadOf
  <2>3. q.end = 0
    BY <1>3, <2>2 DEF RowInv
  <2>4. TrackInv'
    BY <1>3, <1>8, <2>1 DEF TrackInv, HasRow
  <2>5. LeaseInv'
    BY <1>3, <1>8, <2>1, <2>2, <2>3 DEF LeaseInv
  <2>. QED
    BY <1>3, <1>4, <1>5, <2>4, <2>5 DEF TelemetryIInv
<1>. QED
  BY <1>6, <1>7, <1>8

\* recover_open: the orphan is ended, its replacement is begun.
LEMMA ClosedKeeps ==
    ASSUME TelemetryIInv, op.call # NoCall, ~Blocked(op.call), Commit(op.call),
           op.step = "Close", Accepts(op.call, Result(op.call)),
           Call(op, "Start", "Begin", 0),
           UNCHANGED <<now, late, client, conns, tracked, server>>
    PROVE  TelemetryIInv'
<1>1. /\ TypeInv /\ RowInv /\ StepInv /\ TrackInv /\ CalmInv /\ CrashInv /\ CallInv
      /\ ids \in Nat /\ now \in Nat
      /\ op \in OpSet /\ rows \subseteq RowSet /\ op.call.id \in Nat /\ op.call.id <= ids
  BY TelemetryAssumption DEF TelemetryIInv, TypeInv, CallInv, GoodWrite
<1>2. /\ op.call.kind = "Ended" /\ op.call.session = op.found /\ op.found # 0
      /\ op # NoOp /\ ~tracked.connected
  BY <1>1, Blanks DEF StepInv, TrackInv
<1>3. ids' = ids + 1 /\ ids' \in Nat /\ ids <= ids'
  BY <1>1 DEF Call
<1>4. op'.call.time = now
  <2>1. op'.call = [id |-> ids + 1, kind |-> "Begin", time |-> now, session |-> ids + 1]
    BY <1>1 DEF Call, OpSet
  <2>. QED
    BY <2>1
<1>5. \A i \in Conns : conns'[i].at = "Reporting" => conns'[i].report # NoCall
  BY <1>1 DEF CrashInv
<1>6. /\ crashes' = crashes /\ Stored(op.call) /\ rows' \subseteq RowSet
      /\ RowInv' /\ LateInv' /\ CrashInv'
      /\ \A r \in rows : \E q \in rows' : q.id = r.id
      /\ \A r \in rows : r.end # 0 => r \in rows'
      /\ Result(op.call) = "Ok" =>
            \E q \in rows' : q.id = op.call.session /\ q.head = HeadOf(op.call)
      /\ Result(op.call) = "SessionEnded" =>
            \E q \in rows' : q.id = op.call.session /\ q.end # 0
  BY <1>3, <1>4, <1>5, AnswerStores
<1>7. PICK f \in rows' : f.id = op.found /\ f.end # 0
  <2>1. CASE Result(op.call) = "Ok"
    BY <1>2, <1>6, <2>1 DEF HeadOf, RowInv
  <2>2. CASE Result(op.call) = "SessionEnded"
    BY <1>2, <1>6, <2>2
  <2>. QED
    BY <2>1, <2>2 DEF Accepts
<1>8. \A r \in rows' : /\ r.end \in Nat /\ r.end <= now
                       /\ \A i \in r.seen : i \in Nat /\ i <= ids
  <2>. SUFFICES ASSUME NEW r \in rows'
                PROVE  /\ r.end \in Nat /\ r.end <= now
                       /\ \A i \in r.seen : i \in Nat /\ i <= ids
    OBVIOUS
  <2>1. r.end \in Nat /\ r.end <= now
    BY <1>1, <1>6 DEF RowInv, RowSet
  <2>2. CASE r \in rows
    BY <1>1, <2>1, <2>2 DEF RowInv, RowSet
  <2>3. CASE r \notin rows
    <3>1. PICK q \in rows : r.seen = q.seen \cup {op.call.id}
      BY <1>1, <1>2, <1>6, <2>3, StoredNew
    <3>. QED
      BY <1>1, <2>1, <3>1 DEF RowInv, RowSet
  <2>. QED
    BY <2>2, <2>3
<1>9. "Begin" \in Writes /\ "Start" \in Waiting /\ 0 \in Nat
  BY DEF Writes, Waiting
<1>10. /\ CallInv' /\ op' \in OpSet /\ op'.step = "Start" /\ op'.call # NoCall
       /\ op'.call.kind = "Begin" /\ op'.attempt = 1 /\ op' # NoOp
       /\ op'.found = op.found /\ op'.again = op.again /\ op'.calm = op.calm
  BY <1>1, <1>8, <1>9, FreshCall
<1>11. TypeInv'
  BY <1>1, <1>3, <1>6, <1>10 DEF TypeInv
<1>12. StepInv'
  BY <1>7, <1>10 DEF StepInv, Waiting
<1>13. TrackInv'
  <2>1. tracked.session # 0 => \E q \in rows' : q.id = tracked.session
    BY <1>1, <1>6 DEF TrackInv, HasRow
  <2>2. tracked.session # 0 =>
           \E q \in rows' : q.id = tracked.origin /\ (tracked.origin # tracked.session => q.end # 0)
    <3>1. CASE tracked.origin = tracked.session
      BY <2>1, <3>1
    <3>2. CASE tracked.origin # tracked.session
      BY <1>1, <1>6, <3>2 DEF TrackInv
    <3>. QED
      BY <3>1, <3>2
  <2>. QED
    BY <1>2, <2>1, <2>2 DEF TrackInv, HasRow
<1>14. LeaseInv'
  BY <1>10 DEF LeaseInv
<1>15. CalmInv'
  <2>. SUFFICES ASSUME op.calm
                PROVE  CalmInv'
    BY <1>10 DEF CalmInv
  <2>1. /\ \A d \in late : d.kind = "Crash"
        /\ ~op.again
        /\ \E r \in rows : r.id = op.found /\ r.end = 0
    BY <1>1 DEF CalmInv, Recovery
  <2>2. ASSUME NEW q \in rows'
        PROVE  q.end # 0
    <3>1. CASE q.id = op.found
      BY <1>6, <1>7, <3>1 DEF RowInv
    <3>2. CASE q.id # op.found
      <4>1. q \in rows
        BY <1>1, <1>2, <1>6, <3>2, StoredNew
      <4>. QED
        BY <1>1, <2>1, <3>2, <4>1 DEF RowInv
    <3>. QED
      BY <3>1, <3>2
  <2>. QED
    BY <1>10, <2>1, <2>2 DEF CalmInv
<1>. QED
  BY <1>6, <1>10, <1>11, <1>12, <1>13, <1>14, <1>15 DEF TelemetryIInv

\* start_new: another session is open after all.
LEMMA ConflictKeeps ==
    ASSUME TelemetryIInv, op.call # NoCall, Commit(op.call),
           op.step = "Start", op.found = 0, Result(op.call) = "OpenSessionConflict",
           op' = [op EXCEPT !.step = "LoadOpen", !.again = TRUE, !.call = NoCall],
           UNCHANGED <<now, ids, late, client, conns, tracked, server>>
    PROVE  TelemetryIInv'
<1>1. /\ TypeInv /\ StepInv /\ TrackInv /\ CalmInv /\ op \in OpSet
  BY DEF TelemetryIInv, TypeInv
<1>2. op # NoOp /\ ~tracked.connected /\ op.call.kind = "Begin"
  BY <1>1, Blanks DEF TrackInv, StepInv
<1>3. rows' = rows /\ crashes' = crashes
  BY <1>2 DEF Commit
<1>4. /\ op' \in OpSet /\ op'.step = "LoadOpen" /\ op'.call = NoCall /\ op'.found = 0
      /\ op'.calm = op.calm
  <2>1. TRUE \in BOOLEAN
    OBVIOUS
  <2>. QED
    BY <1>1, <2>1, Blanks DEF OpSet
<1>5. ~op.calm
  <2>1. OpenRows(rows) # {}
    BY <1>2 DEF Result
  <2>. QED
    BY <1>1, <2>1 DEF CalmInv, Recovery, OpenRows
<1>6. CalmInv'
  BY <1>4, <1>5 DEF CalmInv
<1>. QED
  BY <1>2, <1>3, <1>4, <1>6, ReadKeeps

LEMMA AnsweredKeeps ==
    ASSUME TelemetryIInv, Answered
    PROVE  TelemetryIInv'
<1> DEFINE r == Result(op.call)
<1>1. /\ op.call # NoCall /\ ~Blocked(op.call) /\ Commit(op.call) /\ Proceed(r)
      /\ UNCHANGED <<now, late, client>>
  BY DEF Answered
<1>2. /\ TypeInv /\ StepInv /\ TrackInv /\ CrashInv /\ op \in OpSet /\ tracked \in TrackedSet
      /\ op.found \in Nat /\ op.call.session \in Nat
      /\ server \in {"Running", "Stopping", "Down"} /\ op # NoOp
  BY <1>1, Blanks DEF TelemetryIInv, TypeInv, OpSet, CallSet
<1>3. tracked.connected => op.step = "End"
  BY <1>2 DEF TrackInv
<1>4. ASSUME NEW g \in Int, Leased(g)
      PROVE  /\ op' = NoOp /\ conns' \in [Conns -> ConnSet]
             /\ \A i \in Conns : conns'[i].report = conns[i].report \/ conns'[i].report = NoCall
             /\ \A i \in Conns : conns'[i].at = "Reporting" => conns'[i].report # NoCall
  BY <1>2, <1>4, LeasedConns DEF Leased
<1>5. ASSUME Leased(0), UNCHANGED <<ids, server, tracked>>, op.step # "End"
      PROVE  TelemetryIInv'
  <2>1. /\ op' = NoOp /\ conns' \in [Conns -> ConnSet]
        /\ \A i \in Conns : conns'[i].report = conns[i].report \/ conns'[i].report = NoCall
        /\ \A i \in Conns : conns'[i].at = "Reporting" => conns'[i].report # NoCall
    BY <1>4, <1>5
  <2>2. ~tracked'.connected
    BY <1>3, <1>5
  <2>. QED
    BY <1>1, <1>2, <1>5, <2>1, <2>2, AnswerEnds
<1>6. CASE Reattached(r)
  <2>1. op.step = "Reattach" /\ UNCHANGED <<ids, server>>
    BY <1>6 DEF Reattached
  <2>2. /\ op.call.kind = "Reconnected" /\ op.call.session = tracked.session
        /\ tracked.session # 0
    BY <1>2, <2>1 DEF StepInv
  <2>3. CASE Accepts(op.call, r)
    <3>1. r = "Ok"
      BY <2>2, <2>3 DEF Accepts
    <3>2. PICK g : /\ g = tracked.next - 1
                   /\ tracked' = [tracked EXCEPT !.active = g, !.connected = TRUE] /\ Leased(g)
      BY <1>6, <2>3 DEF Reattached
    <3>3. g \in Int
      BY <1>2, <3>2 DEF TrackedSet
    <3>4. /\ op' = NoOp /\ conns' \in [Conns -> ConnSet]
          /\ \A i \in Conns : conns'[i].report = conns[i].report \/ conns'[i].report = NoCall
          /\ \A i \in Conns : conns'[i].at = "Reporting" => conns'[i].report # NoCall
      BY <1>4, <3>2, <3>3
    <3>5. /\ tracked' \in TrackedSet /\ tracked'.session = tracked.session
          /\ tracked'.origin = tracked.origin
      <4>1. TRUE \in BOOLEAN
        OBVIOUS
      <4>. QED
        BY <1>2, <3>2, <3>3, <4>1 DEF TrackedSet
    <3>6. \/ tracked'.origin = op.call.session
          \/ \E q \in rows : q.id = tracked'.origin /\ q.end # 0
      BY <1>2, <2>2, <3>5 DEF TrackInv
    <3>. QED
      BY <1>1, <1>2, <2>1, <2>2, <3>1, <3>4, <3>5, <3>6, AnswerEnds
  <2>4. CASE ~Accepts(op.call, r)
    BY <1>5, <1>6, <2>1, <2>4 DEF Reattached
  <2>. QED
    BY <2>3, <2>4
<1>7. ASSUME NEW s \in Nat, NEW o \in Nat, Track(s, o), UNCHANGED <<ids, server>>, r = "Ok",
             op.call.kind \in {"Begin", "Reconnected"}, s = op.call.session, s # 0,
             o = s \/ \E q \in rows : q.id = o /\ q.end # 0
      PROVE  TelemetryIInv'
  <2>1. /\ tracked' = [session |-> s, origin |-> o, active |-> 1, next |-> 2, connected |-> TRUE]
        /\ Leased(1)
    BY <1>7 DEF Track
  <2>2. tracked' \in TrackedSet /\ tracked'.session = s /\ tracked'.origin = o
    BY <1>7, <2>1 DEF TrackedSet
  <2>3. /\ op' = NoOp /\ conns' \in [Conns -> ConnSet]
        /\ \A i \in Conns : conns'[i].report = conns[i].report \/ conns'[i].report = NoCall
        /\ \A i \in Conns : conns'[i].at = "Reporting" => conns'[i].report # NoCall
    BY <1>4, <2>1
  <2>4. \/ tracked'.origin = op.call.session
        \/ \E q \in rows : q.id = tracked'.origin /\ q.end # 0
    BY <1>7, <2>2
  <2>. QED
    BY <1>1, <1>2, <1>7, <2>2, <2>3, <2>4, AnswerEnds
<1>8. CASE Reopened(r)
  <2>1. op.step = "Reopen" /\ UNCHANGED <<ids, server>>
    BY <1>8 DEF Reopened
  <2>2. op.call.kind = "Reconnected" /\ op.call.session = op.found /\ op.found # 0
    BY <1>2, <2>1 DEF StepInv
  <2>3. CASE Accepts(op.call, r)
    <3>1. r = "Ok" /\ Track(op.found, op.found)
      BY <1>8, <2>2, <2>3 DEF Accepts, Reopened
    <3>. QED
      BY <1>2, <1>7, <2>1, <2>2, <3>1
  <2>4. CASE ~Accepts(op.call, r)
    BY <1>5, <1>8, <2>1, <2>4 DEF Reopened
  <2>. QED
    BY <2>3, <2>4
<1>9. CASE Closed(r)
  <2>1. op.step = "Close" /\ UNCHANGED <<tracked, server>>
    BY <1>9 DEF Closed
  <2>2. CASE Accepts(op.call, r)
    BY <1>1, <1>9, <2>1, <2>2, ClosedKeeps DEF Closed
  <2>3. CASE ~Accepts(op.call, r)
    BY <1>5, <1>9, <2>1, <2>3 DEF Closed
  <2>. QED
    BY <2>2, <2>3
<1>10. CASE Started(r)
  <2>1. op.step = "Start" /\ UNCHANGED <<ids, server>>
    BY <1>10 DEF Started
  <2>2. /\ op.call.kind = "Begin"
        /\ op.found # 0 => \E q \in rows : q.id = op.found /\ q.end # 0
    BY <1>2, <2>1 DEF StepInv
  <2>3. op.call.session # 0
    <3>1. GoodWrite(op.call)
      BY <1>1 DEF TelemetryIInv, CallInv
    <3>. QED
      BY <2>2, <3>1 DEF GoodWrite
  <2>4. CASE Accepts(op.call, r)
    <3>1. /\ r = "Ok"
          /\ Track(op.call.session, IF op.found # 0 THEN op.found ELSE op.call.session)
      BY <1>10, <2>2, <2>4 DEF Accepts, Started
    <3>2. CASE op.found # 0
      BY <1>2, <1>7, <2>1, <2>2, <2>3, <3>1, <3>2
    <3>3. CASE op.found = 0
      BY <1>2, <1>7, <2>1, <2>2, <2>3, <3>1, <3>3
    <3>. QED
      BY <3>2, <3>3
  <2>5. CASE ~Accepts(op.call, r) /\ r = "OpenSessionConflict" /\ op.found = 0
    <3>1. /\ op' = [op EXCEPT !.step = "LoadOpen", !.again = TRUE, !.call = NoCall]
          /\ UNCHANGED <<conns, tracked>>
      BY <1>10, <2>5 DEF Started
    <3>. QED
      BY <1>1, <2>1, <2>5, <3>1, ConflictKeeps
  <2>6. CASE ~Accepts(op.call, r) /\ ~(r = "OpenSessionConflict" /\ op.found = 0)
    BY <1>5, <1>10, <2>1, <2>6 DEF Started
  <2>. QED
    BY <2>4, <2>5, <2>6
<1>11. CASE Detached(r) \/ Ended(r)
  <2>1. /\ op' = NoOp /\ conns' = [conns EXCEPT ![op.conn] = Gone] /\ UNCHANGED <<ids, server>>
        /\ \/ tracked' = tracked /\ op.step # "End"
           \/ tracked' = Untracked
           \/ tracked' = [tracked EXCEPT !.connected = FALSE]
    BY <1>11 DEF Detached, Ended, Retired
  <2>2. /\ conns' \in [Conns -> ConnSet]
        /\ \A i \in Conns : conns'[i].report = conns[i].report \/ conns'[i].report = NoCall
        /\ \A i \in Conns : conns'[i].at = "Reporting" => conns'[i].report # NoCall
    BY <1>2, <2>1, RetiredConns
  <2>3. /\ tracked' \in TrackedSet /\ ~tracked'.connected
        /\ \/ tracked'.session = 0
           \/ tracked'.session = tracked.session /\ tracked'.origin = tracked.origin
    <3>1. CASE tracked' = tracked /\ op.step # "End"
      BY <1>2, <1>3, <3>1
    <3>2. CASE tracked' = Untracked
      BY <3>2, Blanks
    <3>3. CASE tracked' = [tracked EXCEPT !.connected = FALSE]
      BY <1>2, <3>3 DEF TrackedSet
    <3>. QED
      BY <2>1, <3>1, <3>2, <3>3
  <2>. QED
    BY <1>1, <1>2, <2>1, <2>2, <2>3, AnswerEnds
<1>12. CASE ShutDown(r)
  <2>1. op' = NoOp /\ server' = "Down" /\ UNCHANGED <<tracked, ids, conns>> /\ op.step # "End"
    BY <1>12 DEF ShutDown
  <2>2. ~tracked'.connected /\ conns' \in [Conns -> ConnSet]
    BY <1>2, <1>3, <2>1 DEF TypeInv
  <2>3. \A i \in Conns : conns'[i].at = "Reporting" => conns'[i].report # NoCall
    BY <1>2, <2>1 DEF CrashInv
  <2>. QED
    BY <1>1, <1>2, <2>1, <2>2, <2>3, AnswerEnds
<1>. QED
  BY <1>1, <1>6, <1>8, <1>9, <1>10, <1>11, <1>12 DEF Proceed

-----------------------------------------------------------------------------
(* The invariant holds *)

LEMMA InitTelemetry == TelemetryInit => TelemetryIInv
<1>. SUFFICES ASSUME TelemetryInit
              PROVE  TelemetryIInv
  OBVIOUS
<1>1. /\ now = 1 /\ ids = 0 /\ rows = {} /\ crashes = {} /\ late = {}
      /\ server = "Running" /\ tracked = Untracked /\ op = NoOp
      /\ conns = [c \in Conns |-> NoConn]
      /\ client = [up |-> TRUE, link |-> 0, marker |-> NoMarker, sent |-> FALSE, ahead |-> {}]
  BY DEF TelemetryInit
<1>2. client \in ClientSet /\ client.marker = NoMarker
  BY <1>1, Blanks DEF ClientSet
<1>3. TypeInv
  BY <1>1, <1>2, Blanks, TelemetryAssumption DEF TypeInv
<1>4. RowInv /\ LateInv
  BY <1>1 DEF RowInv, LateInv
<1>5. CallInv /\ StepInv /\ TrackInv /\ LeaseInv /\ CalmInv
  BY <1>1, Blanks DEF CallInv, StepInv, TrackInv, LeaseInv, CalmInv, Waiting, Recovery
<1>6. Reports = {}
  BY <1>1, Blanks DEF Reports
<1>7. CrashInv
  BY <1>1, <1>2, <1>6, Blanks DEF CrashInv
<1>. QED
  BY <1>3, <1>4, <1>5, <1>7 DEF TelemetryIInv

LEMMA StepKeepsTelemetry ==
    ASSUME TelemetryIInv, [TelemetryNext]_telemetryVars
    PROVE  TelemetryIInv'
<1>1. ASSUME NEW c \in late, SettleLate(c)
      PROVE  TelemetryIInv'
  BY <1>1, SettleLateKeeps
<1>2. CASE Answered
  BY <1>2, AnsweredKeeps
<1>3. CASE TriedAgain
  BY <1>3, TriedAgainKeeps
<1>4. CASE GivenUp
  BY <1>4, GivenUpKeeps
<1>5. CASE LoadOpen
  BY <1>5, LoadOpenKeeps
<1>6. CASE LoadHead
  BY <1>6, LoadHeadKeeps
<1>7. CASE LoadFails
  BY <1>7, LoadFailsKeeps
<1>8. CASE FinishShutdown
  BY <1>8, FinishShutdownKeeps
<1>9. CASE ServerCrash
  BY <1>9, ServerCrashKeeps
<1>10. CASE BeginShutdown \/ Restart \/ UNCHANGED telemetryVars
  BY <1>10, ProcessKeeps
<1>11. CASE LoseLink \/ CleanExit \/ Launch \/ Tick \/ (\E time \in 1 .. MaxTime : ClientCrash(time))
  BY <1>11, ClientKeeps
<1>12. ASSUME NEW c \in Conns,
              \/ BeginAttach(c) \/ AttachTimesOut(c) \/ Retire(c)
              \/ Dial(c) \/ Serve(c) \/ Leave(c)
              \/ Report(c) \/ ReportAnswered(c) \/ ReportTimesOut(c)
       PROVE  TelemetryIInv'
  BY <1>12, BeginAttachKeeps, AttachTimesOutKeeps, RetireKeeps, DialKeeps, ServeKeeps,
     LeaveKeeps, ReportKeeps, ReportAnsweredKeeps, ReportTimesOutKeeps
<1>. QED
  BY <1>1, <1>2, <1>3, <1>4, <1>5, <1>6, <1>7, <1>8, <1>9, <1>10, <1>11, <1>12
  DEF TelemetryNext

\* The coordinator, its transactions and the late commits of the database keep
\* the invariant, whatever calls fail, are given up or outlive their process.
THEOREM TelemetryIsInductive == TelemetrySpec => []TelemetryIInv
<1>. QED
  BY InitTelemetry, StepKeepsTelemetry, PTL DEF TelemetrySpec

\* attach_tracked and recover_open: a lease is given only for a session that is
\* stored open and connected, and the account has one open session at most.
THEOREM SessionsAreLeased == TelemetrySpec => []TelemetryInv
<1>1. TelemetryIInv => TelemetryInv
  <2>. SUFFICES ASSUME TelemetryIInv PROVE TelemetryInv
    OBVIOUS
  <2>1. TypeInv /\ RowInv /\ LeaseInv
    BY DEF TelemetryIInv
  <2>2. \A r \in rows : r.head \in Heads /\ r.end \in 0 .. MaxTime /\ r.start \in 1 .. MaxTime
    <3>. SUFFICES ASSUME NEW r \in rows
                  PROVE  r.head \in Heads /\ r.end \in 0 .. MaxTime /\ r.start \in 1 .. MaxTime
      OBVIOUS
    <3>1. r.head \in Heads /\ r.end \in Nat /\ r.start \in Nat /\ r.at \in Nat
      BY <2>1 DEF TypeInv, RowSet
    <3>2. now \in 1 .. MaxTime
      BY <2>1 DEF TypeInv
    <3>3. 1 <= r.start /\ r.start <= r.at /\ r.at <= now /\ (r.end = 0 \/ r.end = r.at)
      BY <2>1 DEF RowInv
    <3>. QED
      BY <3>1, <3>2, <3>3, TelemetryAssumption
  <2>3. Cardinality(OpenRows(rows)) <= 1
    <3>1. \A r, q \in OpenRows(rows) : r = q
      BY <2>1 DEF RowInv, OpenRows
    <3>2. CASE OpenRows(rows) = {}
      BY <3>2, FS_EmptySet
    <3>3. ASSUME NEW r \in OpenRows(rows)
          PROVE  Cardinality(OpenRows(rows)) <= 1
      <4>1. OpenRows(rows) = {r}
        BY <3>1, <3>3
      <4>. QED
        BY <4>1, FS_Singleton
    <3>. QED
      BY <3>2, <3>3
  <2>4. /\ server \in {"Running", "Stopping", "Down"}
        /\ \A c \in Conns : conns[c].at \in Stages
        /\ tracked.connected \in BOOLEAN
    BY <2>1 DEF TypeInv, ConnSet, TrackedSet
  <2>5. LeaseIsConnected
    BY <2>1 DEF LeaseInv, LeaseIsConnected, OpenRows
  <2>. QED
    BY <2>2, <2>3, <2>4, <2>5 DEF TelemetryInv, TelemetryTypeOK, Heads
<1>. QED
  BY <1>1, TelemetryIsInductive, PTL

\* insert_client_crash: a crash is stored with the session it happened in, also
\* when its report outlives the connection, the session and the process; of one
\* whose time the server's clock had not reached when it was reported, only that
\* it is not from before its session.
THEOREM CrashesPlaced == TelemetrySpec => []CrashesInTheirSession
<1>1. TelemetryIInv => CrashesInTheirSession
  <2>. SUFFICES ASSUME TelemetryIInv, NEW k \in crashes, NEW r \in rows
                PROVE  IF r.id = k.session
                       THEN k.time >= r.start /\ (Timely(k) /\ r.end # 0 => k.time <= r.end)
                       ELSE Timely(k) => k.time <= r.start \/ (r.end # 0 /\ k.time >= r.end)
    BY DEF CrashesInTheirSession
  <2>1. TypeInv /\ RowInv /\ CrashInv
    BY DEF TelemetryIInv
  <2>2. k \in Reports
    BY DEF Reports
  <2>3. PICK q \in rows : q.id = k.session
    BY <2>1, <2>2 DEF CrashInv, HasRow
  <2>4. \A s \in rows : s.id = k.session =>
            s.start <= k.time /\ (Timely(k) => Within(s, k.time))
    BY <2>1 DEF CrashInv
  <2>5. k.time \in Nat /\ \A s \in rows : s.start \in Nat /\ s.end \in Nat
    BY <2>1 DEF TypeInv, CallSet, RowSet
  <2>6. r # q => \/ r.end # 0 /\ r.end <= q.start
                 \/ q.end # 0 /\ q.end <= r.start
    BY <2>1 DEF RowInv
  <2>. QED
    BY <2>3, <2>4, <2>5, <2>6 DEF Within
<1>. QED
  BY <1>1, TelemetryIsInductive, PTL

-----------------------------------------------------------------------------
(* Recovery *)

\* A call that is lost is counted, so a step that keeps the count lost none.
LossesCounted == losses \in Nat

LEMMA LossesAreCounted == TelemetrySpec => []LossesCounted
<1>1. TelemetryInit => LossesCounted
  BY DEF TelemetryInit, LossesCounted
<1>2. LossesCounted /\ [TelemetryNext]_telemetryVars => LossesCounted'
  <2>. SUFFICES ASSUME losses \in Nat, [TelemetryNext]_telemetryVars
                PROVE  losses' \in Nat
    BY DEF LossesCounted
  <2>1. losses' = losses \/ losses' = losses + 1
    BY DEF TelemetryNext, telemetryVars, SettleLate, Answered, TriedAgain, GivenUp, LoadOpen,
       LoadHead, LoadFails, BeginShutdown, FinishShutdown, ServerCrash, Restart, LoseLink,
       ClientCrash, CleanExit, Launch, Tick, BeginAttach, AttachTimesOut, Retire, Dial, Serve,
       Leave, Report, ReportAnswered, ReportTimesOut, Lose
  <2>. QED
    BY <2>1
<1>. QED
  BY <1>1, <1>2, PTL DEF TelemetrySpec

\* An undisturbed write of a recovery is accepted by the database.
LEMMA CalmCallIsAccepted ==
    ASSUME TelemetryIInv, op.calm, op.step \in {"Reopen", "Close", "Start"}
    PROVE  Result(op.call) = "Ok"
<1>1. TypeInv /\ RowInv /\ CallInv /\ StepInv /\ CalmInv
  BY DEF TelemetryIInv
<1>2. op.call # NoCall
  BY <1>1 DEF StepInv, Waiting
<1>3. /\ op.attempt = 1 /\ \A r \in rows : op.call.id \notin r.seen
  BY <1>1, <1>2 DEF CalmInv, CallInv, Recovery
<1>4. CASE op.step = "Start"
  <2>1. op.call.kind = "Begin" /\ \A r \in rows : r.end # 0
    BY <1>1, <1>4 DEF StepInv, CalmInv, Recovery
  <2>2. OpenRows(rows) = {}
    BY <2>1 DEF OpenRows
  <2>. QED
    BY <2>1, <2>2 DEF Result
<1>5. CASE op.step \in {"Reopen", "Close"}
  <2>1. PICK r \in rows : r.id = op.found /\ r.end = 0
    BY <1>1, <1>5 DEF CalmInv, Recovery
  <2>2. RowOf(rows, op.found) = r
    BY <1>1, <2>1, RowOfId
  <2>3. op.call.session = op.found /\ op.call.kind \in {"Reconnected", "Ended"}
    BY <1>1, <1>5 DEF StepInv
  <2>4. r.at <= op.call.time /\ (op.call.kind = "Reconnected" => r.head = "Disconnected")
    BY <1>1, <1>5, <2>1 DEF CalmInv, Recovery, StepInv
  <2>5. r.at \in Nat /\ op.call.time \in Nat
    BY <1>1, <2>1 DEF TypeInv, RowSet, OpSet, CallSet
  <2>6. Permitted(r, op.call)
    BY <2>3, <2>4, <2>5 DEF Permitted
  <2>. QED
    BY <1>3, <2>1, <2>2, <2>3, <2>6 DEF Result
<1>. QED
  BY <1>4, <1>5

\* Where a recovery that was not disturbed ends, the account is tracked.
LEMMA CalmRecoveryTracks ==
    ASSUME TelemetryIInv, losses \in Nat, TelemetryNext,
           op.step \in Recovery, op.calm,
           op' = NoOp, losses' = losses, server' = "Running"
    PROVE  tracked'.connected
<1>1. StepInv /\ RowInv /\ CalmInv
  BY DEF TelemetryIInv
<1>2. op # NoOp
  BY <1>1, Blanks DEF StepInv, Recovery
<1>3. ~Lose
  BY DEF Lose
<1>4. CASE LoadOpen
  <2>1. ~op.again
    BY <1>1 DEF CalmInv
  <2>2. op'.step \in {"Start", "LoadHead"}
    BY <1>4, <2>1 DEF LoadOpen, Call, TelemetryIInv, TypeInv, OpSet
  <2>. QED
    BY <2>2, Blanks
<1>5. CASE LoadHead
  <2>1. op.step = "LoadHead"
    BY <1>5 DEF LoadHead
  <2>2. PICK r \in rows : r.id = op.found /\ r.end = 0
    BY <1>1, <2>1 DEF CalmInv
  <2>3. RowOf(rows, op.found) = r /\ r.head # "Ended"
    BY <1>1, <2>2, RowOfId DEF RowInv
  <2>4. op'.step \in {"Reopen", "Close"}
    BY <1>5, <2>3 DEF LoadHead, Call, TelemetryIInv, TypeInv, OpSet
  <2>. QED
    BY <2>4, Blanks
<1>6. CASE Answered
  <2>1. op.call # NoCall /\ Proceed(Result(op.call))
    BY <1>6 DEF Answered
  <2>2. op.step \in {"Reopen", "Close", "Start"}
    BY <1>1, <2>1 DEF StepInv, Waiting, Recovery
  <2>3. Accepts(op.call, Result(op.call))
    BY <2>2, CalmCallIsAccepted DEF Accepts
  <2>4. CASE op.step = "Close"
    <3>1. op'.step = "Start"
      BY <2>1, <2>3, <2>4 DEF Proceed, Reattached, Reopened, Closed, Started, Detached, Ended,
         ShutDown, Call, TelemetryIInv, TypeInv, OpSet
    <3>. QED
      BY <3>1, Blanks
  <2>5. CASE op.step \in {"Reopen", "Start"}
    BY <2>1, <2>3, <2>5 DEF Proceed, Reattached, Reopened, Closed, Started, Detached, Ended,
       ShutDown, Track
  <2>. QED
    BY <2>2, <2>4, <2>5
<1>7. CASE ServerCrash
  BY <1>7 DEF ServerCrash
<1>8. CASE FinishShutdown \/ \E c \in Conns : BeginAttach(c) \/ Retire(c)
  <2>1. CASE FinishShutdown
    BY <1>2, <2>1 DEF FinishShutdown
  <2>2. ASSUME NEW c \in Conns, BeginAttach(c) PROVE FALSE
    BY <1>2, <2>2 DEF BeginAttach
  <2>3. ASSUME NEW c \in Conns, Retire(c) PROVE op' = op \/ op = NoOp
    <3>1. CASE conns[c].lease = 0
      BY <2>3, <3>1 DEF Retire, Holds
    <3>2. CASE op = NoOp
      BY <3>2
    <3>. QED
      BY <2>3, <3>1, <3>2 DEF Retire
  <2>. QED
    BY <1>2, <1>8, <2>1, <2>2, <2>3
<1>9. CASE op' = op
  BY <1>2, <1>9
<1>10. \/ LoadOpen \/ LoadHead \/ Answered \/ ServerCrash
       \/ FinishShutdown \/ (\E c \in Conns : BeginAttach(c) \/ Retire(c))
       \/ op' = op
  BY <1>3 DEF TelemetryNext, SettleLate, TriedAgain, GivenUp, LoadFails, BeginShutdown, Restart,
     LoseLink, ClientCrash, CleanExit, Launch, Tick, AttachTimesOut, Dial, Serve, Leave, Report,
     ReportAnswered, ReportTimesOut
<1>. QED
  BY <1>4, <1>5, <1>6, <1>7, <1>8, <1>9, <1>10

\* begin_or_recover: what a predecessor left of the account's session, a process
\* that is not disturbed by failing or late calls ends with a session for it.
THEOREM RecoveryGoesThrough == TelemetrySpec => RecoversUndisturbed
<1>. DEFINE P == (op.step \in {"LoadOpen", "LoadHead", "Reopen", "Close", "Start"} /\ op.calm
                     /\ op' = NoOp /\ losses' = losses /\ server' = "Running")
                 => tracked'.connected
<1>1. TelemetryIInv /\ LossesCounted /\ [TelemetryNext]_telemetryVars => [P]_telemetryVars
  BY CalmRecoveryTracks DEF LossesCounted, Recovery, telemetryVars
<1>. QED
  BY <1>1, TelemetryIsInductive, LossesAreCounted, PTL DEF TelemetrySpec, RecoversUndisturbed

=============================================================================
