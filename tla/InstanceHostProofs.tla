------------------------- MODULE InstanceHostProofs -------------------------
(* The combat host, for any owners, transports, requests, instances, seats    *)
(* and deadlines: a tick fails on nothing but a repeated press, a connected   *)
(* character has one voice, a lost link is recalled on the tick of its        *)
(* deadline.  The argument is that                                            *)
(* an arena that has not formed counts its members by its next session id     *)
(* (SeatInv), that the players of an arena stand as their sessions do         *)
(* (RosterInv), that a session is bound to a transport of its owner, the one  *)
(* the owner is routed to as long as it is connected (VoiceInv), that the end *)
(* of a session is recorded with it (OutcomeInv), and that a session repeats  *)
(* a press its combat has taken only if it changed transports (PressInv).     *)
EXTENDS InstanceHost, FiniteSetTheorems, WellFoundedInduction, TLAPS

\* While an arena has not formed nobody leaves it: its next session id counts
\* its members.  An id is given once.
SeatInv ==
    \A i \in Ids :
        /\ clock[i] = 0 => /\ IsFiniteSet(Members(i))
                           /\ Cardinality(Members(i)) + 1 = next_session_id[i]
        /\ \A o \in Members(i) : sessions[i][o].id < next_session_id[i]
        /\ \A o, q \in Members(i) : sessions[i][o].id = sessions[i][q].id => o = q

\* An id that is not in the map has no state, and ids are given out in order.
FreeInv ==
    \A i \in Ids :
        /\ iphase[i] = "Free" => clock[i] = 0 /\ Members(i) = {}
        /\ i >= next_instance_id => iphase[i] = "Free"

\* What the arena knows of a session in `phase`
Standing(phase) ==
    CASE phase \in {"Connected", "LinkLost"} -> "Alive"
      [] phase = "Recalled" -> "Recalled"
      [] phase = "Dead" -> "Dead"
      [] OTHER -> "Closed"

\* The arena that steps next has a player for every session, as alive as the
\* session is, and no living player without a session.
RosterInv ==
    server = "Serving" => \A i \in Ids :
        /\ \A o \in Members(i) : Roster(i)[sessions[i][o].id] = Standing(sessions[i][o].phase)
        /\ \A p \in Alive(i) : \E o \in Members(i) : sessions[i][o].id = p

\* Who may speak for a session
VoiceInv ==
    \A i \in Ids : \A o \in Members(i) :
        /\ sessions[i][o].transport # NoTransport => OwnerOf[sessions[i][o].transport] = o
        /\ sessions[i][o].phase = "Connected" =>
              /\ sessions[i][o].transport # NoTransport
              /\ routes[o] = sessions[i][o].transport
        /\ sessions[i][o].phase = "LinkLost" =>
              /\ sessions[i][o].transport = NoTransport
              /\ routes[o] = NoTransport
              /\ ~sessions[i][o].held

\* The end of a session that is still there is the one recorded.
OutcomeInv ==
    \A i \in Ids : \A o \in Members(i) :
        sessions[i][o].phase \in {"Recalled", "Dead"} => outcome[o] = sessions[i][o].phase

HostIInv ==
    /\ HostTypeOK /\ SeatInv /\ FreeInv /\ OwnerIndexAgrees
    /\ RosterInv /\ VoiceInv /\ RoutesAreServed
    /\ DeadlineKept /\ OutcomeInv /\ HostNeverFails

-----------------------------------------------------------------------------
(* What the state says of an owner and of a session                          *)

LEMMA MemberIsSession ==
    ASSUME HostTypeOK, NEW i \in Ids, NEW o \in Members(i)
    PROVE  o \in Owners /\ sessions[i][o] \in Session
  BY DEF HostTypeOK, Members

LEMMA SessionFields ==
    ASSUME NEW s \in Session
    PROVE  /\ s = [id |-> s.id, transport |-> s.transport, sequence |-> s.sequence,
                   phase |-> s.phase, recall |-> s.recall, held |-> s.held]
           /\ s.id \in SessionIds /\ s.transport \in Transports \cup {NoTransport}
           /\ s.sequence \in Nat /\ s.recall \in Nat /\ s.held \in BOOLEAN
           /\ s.phase \in {"Connected", "LinkLost", "Recalled", "Dead", "Closed"}
           /\ s # NoSession
  BY DEF Session, NoSession

LEMMA RebindFields ==
    ASSUME NEW s \in Session, NEW t \in Transports, NEW r, r.sequence \in Nat
    PROVE  /\ Rebind(s, t, r) \in Session
           /\ Rebind(s, t, r).id = s.id /\ Rebind(s, t, r).transport = t
           /\ Rebind(s, t, r).phase = IF s.phase = "LinkLost" THEN "Connected" ELSE s.phase
  BY DEF Session, Rebind

LEMMA LinkLostFields ==
    ASSUME NEW s \in Session, NEW i, clock[i] + LinkLostTicks \in Nat
    PROVE  /\ LinkLost(s, i) \in Session
           /\ LinkLost(s, i).id = s.id /\ LinkLost(s, i).transport = NoTransport
           /\ LinkLost(s, i).phase = "LinkLost" /\ ~LinkLost(s, i).held
           /\ LinkLost(s, i).recall = clock[i] + LinkLostTicks
  BY DEF Session, LinkLost, ServerTick

LEMMA Numbers ==
    /\ Ids \subseteq Nat \ {0} /\ SessionIds \subseteq Nat \ {0} /\ NoInstance \notin Ids
    /\ Capacity \in Nat /\ LinkLostTicks \in Nat /\ LinkLostTicks # 0 /\ FormationTicks \in Nat
  BY HostAssumption DEF Ids, SessionIds, NoInstance

LEMMA OwnerIsMember ==
    ASSUME HostIInv, NEW o \in Owners, owner_index[o] # NoInstance
    PROVE  /\ owner_index[o] \in Ids
           /\ o \in Members(owner_index[o])
           /\ SessionOf(o) = sessions[owner_index[o]][o]
           /\ SessionOf(o) \in Session
<1>1. owner_index[o] \in Ids
  BY DEF HostIInv, HostTypeOK
<1>2. o \in Members(owner_index[o])
  BY <1>1 DEF HostIInv, OwnerIndexAgrees
<1>. QED
  BY <1>1, <1>2, MemberIsSession DEF SessionOf, HostIInv

\* A session that is bound to a transport is there.
LEMMA BoundIsKnown ==
    ASSUME HostIInv, NEW o \in Owners, NEW t \in Transports, Bound(SessionOf(o), t)
    PROVE  owner_index[o] # NoInstance
  BY HostAssumption DEF Bound, SessionOf, NoSession

-----------------------------------------------------------------------------
(* Steps that leave the instances alone                                      *)

\* The part of the invariant that is about the instances and their sessions
InstancePart ==
    SeatInv /\ FreeInv /\ OwnerIndexAgrees /\ RosterInv /\ DeadlineKept /\ OutcomeInv
        /\ HostNeverFails

LEMMA SessionsAlone ==
    ASSUME HostIInv, UNCHANGED <<instanceVars, schedulerVars, sessions, fault, outcome>>,
           server' \in {server, "Closed"}
    PROVE  InstancePart'
<1>1. /\ UNCHANGED <<iphase, clock, forming, players, next_session_id, sessions, owner_index>>
      /\ UNCHANGED <<next_instance_id, fault, outcome>>
  BY DEF instanceVars, schedulerVars
<1>2. \A i \in Ids : Members(i)' = Members(i)
  BY <1>1 DEF Members
<1>3. \A i \in Ids : Roster(i)' = Roster(i) /\ Alive(i)' = Alive(i)
  BY <1>1, <1>2 DEF Roster, Alive
<1>4. SeatInv' /\ FreeInv' /\ OwnerIndexAgrees'
  BY <1>1, <1>2 DEF HostIInv, SeatInv, FreeInv, OwnerIndexAgrees
<1>5. RosterInv'
  BY <1>1, <1>2, <1>3 DEF HostIInv, RosterInv
<1>6. DeadlineKept' /\ OutcomeInv' /\ HostNeverFails'
  BY <1>1, <1>2 DEF HostIInv, DeadlineKept, OutcomeInv, HostNeverFails
<1>. QED
  BY <1>4, <1>5, <1>6 DEF InstancePart

\* A connection or its task changes, nothing under the lock.
LEMMA TasksAlone ==
    ASSUME HostIInv, UNCHANGED <<instanceVars, schedulerVars, sessions, fault, outcome, runtimeVars>>,
           server' \in {server, "Closed"},
           conn' \in [Transports -> {"None", "Open", "Late", "Closed", "Done"}],
           closes' \in [Transports -> Transports \cup {NoTransport}],
           \A t \in Transports : conn[t] \in {"Open", "Late", "Closed"} =>
                                 conn'[t] \in {"Open", "Late", "Closed"}
    PROVE  HostIInv'
<1>1. InstancePart'
  BY SessionsAlone
<1>2. UNCHANGED <<iphase, clock, forming, players, next_session_id, sessions, owner_index>>
      /\ UNCHANGED <<next_instance_id, scheduler_tick, fault, outcome, routes, connections>>
  BY DEF instanceVars, schedulerVars, runtimeVars
<1>3. HostTypeOK'
  BY <1>2 DEF HostIInv, HostTypeOK
<1>4. VoiceInv'
  BY <1>2 DEF HostIInv, VoiceInv, Members
<1>5. RoutesAreServed'
  BY <1>2 DEF HostIInv, RoutesAreServed, HostTypeOK
<1>. QED
  BY <1>1, <1>3, <1>4, <1>5 DEF HostIInv, InstancePart

LEMMA QuietSteps ==
    ASSUME HostIInv, NEW t \in Transports,
           \/ \E r \in Requests : Refuse(t, r) \/ Reject(t, r) \/ DropInput(t, r)
           \/ Connect(t) \/ Drop(t) \/ CloseReplaced(t) \/ AnswerFails(t)
    PROVE  HostIInv'
<1>1. /\ UNCHANGED <<instanceVars, schedulerVars, sessions, fault, outcome, runtimeVars>>
      /\ server' = server
  BY DEF Refuse, Reject, DropInput, Connect, Drop, CloseReplaced, AnswerFails
<1>. DEFINE Served == {"Open", "Late", "Closed"}
<1>2. /\ conn \in [Transports -> {"None", "Open", "Late", "Closed", "Done"}]
      /\ closes \in [Transports -> Transports \cup {NoTransport}]
  BY DEF HostIInv, HostTypeOK
<1>3. closes' \in [Transports -> Transports \cup {NoTransport}]
  BY <1>2 DEF Refuse, Reject, DropInput, Connect, Drop, CloseReplaced, AnswerFails, taskVars
<1>4. \E u \in Transports : \E v \in Served :
          conn' = [conn EXCEPT ![u] = v] \/ conn' = conn
  <2>1. CASE \E r \in Requests : Refuse(t, r)
    BY <2>1 DEF Refuse
  <2>2. CASE \E r \in Requests : Reject(t, r) \/ DropInput(t, r)
    <3>1. conn[t] \in {"Open", "Late"} /\ LoopsOn(t)
      BY <2>2 DEF Reject, DropInput, Controls, Handles
    <3>2. conn' = [conn EXCEPT ![t] = IF conn[t] = "Late" THEN "Closed" ELSE conn[t]]
      BY <3>1, <1>2 DEF LoopsOn
    <3>. QED
      BY <3>1, <3>2
  <2>3. CASE Connect(t) \/ Drop(t) \/ AnswerFails(t)
    BY <2>3 DEF Connect, Drop, AnswerFails
  <2>4. CASE CloseReplaced(t)
    <3>1. closes[t] \in Transports
      BY <2>4, <1>2 DEF CloseReplaced
    <3>. DEFINE old == closes[t]
                v == IF old = t THEN "Closed" ELSE IF conn[old] = "Open" THEN "Late" ELSE conn[old]
    <3>2. conn' = [conn EXCEPT ![old] = v]
      BY <2>4, <1>2, <3>1 DEF CloseReplaced
    <3>3. v \in Served \/ v = conn[old]
      OBVIOUS
    <3>4. CASE v = conn[old]
      BY <3>2, <3>4, <1>2
    <3>. QED
      BY <3>1, <3>2, <3>3, <3>4
  <2>. QED
    BY <2>1, <2>2, <2>3, <2>4
<1>5. /\ conn' \in [Transports -> {"None", "Open", "Late", "Closed", "Done"}]
      /\ \A u \in Transports : conn[u] \in Served => conn'[u] \in Served
  BY <1>2, <1>4
<1>. QED
  BY <1>1, <1>3, <1>5, TasksAlone

LEMMA EndpointCloses ==
    ASSUME HostIInv, CloseEndpoint PROVE HostIInv'
<1>1. /\ UNCHANGED <<instanceVars, schedulerVars, sessions, fault, outcome, runtimeVars, closes>>
      /\ server' = "Closed"
      /\ conn' = [t \in Transports |-> IF conn[t] = "Open" THEN "Late" ELSE conn[t]]
  BY DEF CloseEndpoint
<1>2. /\ conn' \in [Transports -> {"None", "Open", "Late", "Closed", "Done"}]
      /\ \A t \in Transports : conn[t] \in {"Open", "Late", "Closed"} =>
                               conn'[t] \in {"Open", "Late", "Closed"}
      /\ closes' \in [Transports -> Transports \cup {NoTransport}]
  BY <1>1 DEF HostIInv, HostTypeOK
<1>. QED
  BY <1>1, <1>2, TasksAlone

-----------------------------------------------------------------------------
(* Steps that change one session                                             *)

\* The session of one owner changes, not its id nor what the arena knows of it.
LEMMA OneSession ==
    ASSUME HostIInv, NEW o \in Owners, owner_index[o] # NoInstance, NEW n \in Session,
           n.id = SessionOf(o).id, Standing(n.phase) = Standing(SessionOf(o).phase),
           n.phase = "LinkLost" => /\ clock[owner_index[o]] < n.recall
                                   /\ n.recall <= clock[owner_index[o]] + LinkLostTicks,
           sessions' = [sessions EXCEPT ![owner_index[o]][o] = n],
           UNCHANGED <<instanceVars, schedulerVars, server, fault, outcome>>
    PROVE  /\ InstancePart'
           /\ sessions' \in [Ids -> [Owners -> Session \cup {NoSession}]]
           /\ sessions'[owner_index[o]][o] = n
           /\ \A j \in Ids : Members(j)' = Members(j)
           /\ \A j \in Ids, q \in Owners :
                 j # owner_index[o] \/ q # o => sessions'[j][q] = sessions[j][q]
<1>. DEFINE i == owner_index[o]
            Cells == [Owners -> Session \cup {NoSession}]
            old == sessions[i][o]
<1>1. i \in Ids /\ o \in Members(i) /\ SessionOf(o) = old /\ old \in Session
  BY OwnerIsMember
<1>2. sessions \in [Ids -> Cells]
  BY DEF HostIInv, HostTypeOK
<1>3. sessions' = [sessions EXCEPT ![i] = [sessions[i] EXCEPT ![o] = n]]
  BY <1>1, <1>2
<1>4. [sessions[i] EXCEPT ![o] = n] \in Cells
  BY <1>1, <1>2
<1>5. sessions' \in [Ids -> Cells]
  BY <1>1, <1>2, <1>3, <1>4
<1>6. sessions'[i][o] = n
  BY <1>1, <1>2, <1>3
<1>7. \A j \in Ids, q \in Owners : j # i \/ q # o => sessions'[j][q] = sessions[j][q]
  BY <1>1, <1>2, <1>3
<1>8. /\ UNCHANGED <<iphase, clock, forming, players, next_session_id, owner_index>>
      /\ UNCHANGED <<next_instance_id, server, fault, outcome>>
  BY DEF instanceVars, schedulerVars
<1>9. n # NoSession /\ old # NoSession /\ n.id = old.id /\ Standing(n.phase) = Standing(old.phase)
  BY <1>1, SessionFields
<1>. HIDE DEF i, old
<1>10. \A j \in Ids : Members(j)' = Members(j)
  BY <1>6, <1>7, <1>9 DEF Members, old
<1>11. \A j \in Ids : \A q \in Members(j) :
          /\ q \in Owners
          /\ sessions'[j][q].id = sessions[j][q].id
          /\ Standing(sessions'[j][q].phase) = Standing(sessions[j][q].phase)
  <2>1. \A j \in Ids : \A q \in Members(j) : q \in Owners
    BY DEF Members
  <2>. QED
    BY <2>1, <1>6, <1>7, <1>9 DEF old
<1>12. SeatInv'
  BY <1>8, <1>10, <1>11 DEF HostIInv, SeatInv
<1>13. FreeInv' /\ OwnerIndexAgrees' /\ HostNeverFails'
  BY <1>8, <1>10 DEF HostIInv, FreeInv, OwnerIndexAgrees, HostNeverFails
<1>14. \A j \in Ids : Roster(j)' = Roster(j)
  <2>. TAKE j \in Ids
  <2>1. \A p : (\E q \in Members(j) : sessions[j][q].id = p)
                  <=> (\E q \in Members(j)' : sessions'[j][q].id = p)
    BY <1>10, <1>11
  <2>. DEFINE A(p) == \E q \in Members(j) : sessions[j][q].id = p
              B(p) == \E q \in Members(j)' : sessions'[j][q].id = p
  <2>2. Roster(j) = IF clock[j] > 0 THEN players[j]
                    ELSE [p \in SessionIds |-> IF A(p) THEN "Alive" ELSE "Absent"]
    BY DEF Roster
  <2>3. Roster(j)' = IF clock'[j] > 0 THEN players'[j]
                     ELSE [p \in SessionIds |-> IF B(p) THEN "Alive" ELSE "Absent"]
    BY DEF Roster
  <2>4. \A p : A(p) <=> B(p)
    BY <2>1
  <2>. HIDE DEF A, B
  <2>. QED
    BY <1>8, <2>2, <2>3, <2>4
<1>15. \A j \in Ids : Alive(j)' = Alive(j)
  BY <1>14 DEF Alive
<1>16. RosterInv'
  BY <1>8, <1>10, <1>11, <1>14, <1>15 DEF HostIInv, RosterInv
<1>17. DeadlineKept'
  <2>. SUFFICES ASSUME NEW j \in Ids, NEW q \in Members(j), sessions'[j][q].phase = "LinkLost"
                PROVE  /\ clock[j] < sessions'[j][q].recall
                       /\ sessions'[j][q].recall <= clock[j] + LinkLostTicks
    BY <1>8, <1>10 DEF DeadlineKept
  <2>1. CASE j = i /\ q = o
    BY <2>1, <1>6 DEF i
  <2>2. CASE ~(j = i /\ q = o)
    BY <2>2, <1>7, <1>11 DEF HostIInv, DeadlineKept
  <2>. QED
    BY <2>1, <2>2
<1>18. OutcomeInv'
  <2>. SUFFICES ASSUME NEW j \in Ids, NEW q \in Members(j),
                       sessions'[j][q].phase \in {"Recalled", "Dead"}
                PROVE  outcome[q] = sessions'[j][q].phase
    BY <1>8, <1>10 DEF OutcomeInv
  <2>1. CASE j = i /\ q = o
    <3>1. sessions'[j][q].phase = old.phase
      <4>1. /\ Standing(sessions'[j][q].phase) = Standing(old.phase)
            /\ old.phase \in {"Connected", "LinkLost", "Recalled", "Dead", "Closed"}
        BY <2>1, <1>1, <1>6, <1>9, SessionFields
      <4>. QED
        BY <4>1 DEF Standing
    <3>. QED
      BY <2>1, <3>1 DEF HostIInv, OutcomeInv, old
  <2>2. CASE ~(j = i /\ q = o)
    BY <2>2, <1>7, <1>11 DEF HostIInv, OutcomeInv
  <2>. QED
    BY <2>1, <2>2
<1>. QED
  BY <1>5, <1>6, <1>7, <1>10, <1>12, <1>13, <1>16, <1>17, <1>18 DEF InstancePart, i

\* The rest of the invariant after such a step
LEMMA Voices ==
    ASSUME HostIInv, NEW o \in Owners, owner_index[o] # NoInstance, NEW n,
           sessions'[owner_index[o]][o] = n,
           \A j \in Ids : Members(j)' = Members(j),
           \A j \in Ids, q \in Owners :
               j # owner_index[o] \/ q # o => sessions'[j][q] = sessions[j][q],
           \A q \in Owners : q # o => routes'[q] = routes[q],
           n.transport # NoTransport => OwnerOf[n.transport] = o,
           n.phase = "Connected" => n.transport # NoTransport /\ routes'[o] = n.transport,
           n.phase = "LinkLost" =>
               n.transport = NoTransport /\ routes'[o] = NoTransport /\ ~n.held
    PROVE  VoiceInv'
<1>. DEFINE i == owner_index[o]
<1>. SUFFICES ASSUME NEW j \in Ids, NEW q \in Members(j)
              PROVE  /\ sessions'[j][q].transport # NoTransport =>
                           OwnerOf[sessions'[j][q].transport] = q
                     /\ sessions'[j][q].phase = "Connected" =>
                           /\ sessions'[j][q].transport # NoTransport
                           /\ routes'[q] = sessions'[j][q].transport
                     /\ sessions'[j][q].phase = "LinkLost" =>
                           /\ sessions'[j][q].transport = NoTransport
                           /\ routes'[q] = NoTransport
                           /\ ~sessions'[j][q].held
  BY DEF VoiceInv
<1>1. i \in Ids /\ o \in Members(i)
  BY OwnerIsMember
<1>2. q \in Owners
  BY DEF Members
<1>3. owner_index[q] = j
  BY <1>2 DEF HostIInv, OwnerIndexAgrees
<1>4. CASE q = o
  BY <1>3, <1>4
<1>5. CASE q # o
  <2>1. sessions'[j][q] = sessions[j][q] /\ routes'[q] = routes[q]
    BY <1>2, <1>5
  <2>. QED
    BY <2>1 DEF HostIInv, VoiceInv
<1>. QED
  BY <1>4, <1>5

\* The task that handles a request goes on and stays one that may detach.
LEMMA LoopServes ==
    ASSUME HostIInv, NEW t \in Transports, NEW r, Handles(t, r), LoopsOn(t)
    PROVE  /\ conn' \in [Transports -> {"None", "Open", "Late", "Closed", "Done"}]
           /\ conn'[t] \in {"Open", "Late", "Closed"}
           /\ \A u \in Transports : u # t => conn'[u] = conn[u]
<1>1. conn \in [Transports -> {"None", "Open", "Late", "Closed", "Done"}]
      /\ conn[t] \in {"Open", "Late"}
  BY DEF HostIInv, HostTypeOK, Handles
<1>2. conn' = [conn EXCEPT ![t] = IF conn[t] = "Late" THEN "Closed" ELSE conn[t]]
  BY <1>1 DEF LoopsOn
<1>. QED
  BY <1>1, <1>2

LEMMA PlayKeeps ==
    ASSUME HostIInv, NEW t \in Transports, NEW r \in Requests, Play(t, r) PROVE HostIInv'
<1>. DEFINE o == OwnerOf[t]
            old == SessionOf(o)
            h == IF r.kind = "Gameplay" THEN old.held ELSE r.kind # "Release"
            n == [old EXCEPT !.held = h]
<1>1. /\ Handles(t, r) /\ LoopsOn(t) /\ Bound(old, t) /\ old.phase = "Connected"
      /\ sessions' = [sessions EXCEPT ![owner_index[o]][o] = n]
      /\ UNCHANGED <<instanceVars, schedulerVars, server, fault, outcome>>
      /\ UNCHANGED <<routes, connections, closes>>
  BY DEF Play, SetSession, runtimeVars
<1>2. o \in Owners
  BY HostAssumption
<1>3. owner_index[o] # NoInstance
  BY <1>1, <1>2, BoundIsKnown
<1>4. old \in Session /\ old = sessions[owner_index[o]][o] /\ owner_index[o] \in Ids
      /\ o \in Members(owner_index[o])
  BY <1>2, <1>3, OwnerIsMember
<1>5. n = [id |-> old.id, transport |-> old.transport, sequence |-> old.sequence,
           phase |-> old.phase, recall |-> old.recall, held |-> h]
  BY <1>4, SessionFields
<1>6. n \in Session
  BY <1>4, <1>5, SessionFields DEF Session
<1>7. n.id = old.id /\ n.phase = "Connected" /\ n.transport = old.transport
  BY <1>1, <1>5
<1>. HIDE DEF n, old
<1>8. /\ InstancePart'
      /\ sessions' \in [Ids -> [Owners -> Session \cup {NoSession}]]
      /\ sessions'[owner_index[o]][o] = n
      /\ \A j \in Ids : Members(j)' = Members(j)
      /\ \A j \in Ids, q \in Owners :
            j # owner_index[o] \/ q # o => sessions'[j][q] = sessions[j][q]
  BY <1>1, <1>2, <1>3, <1>6, <1>7, OneSession DEF old
<1>9. /\ conn' \in [Transports -> {"None", "Open", "Late", "Closed", "Done"}]
      /\ conn'[t] \in {"Open", "Late", "Closed"}
      /\ \A u \in Transports : u # t => conn'[u] = conn[u]
  BY <1>1, LoopServes
<1>10. VoiceInv'
  <2>1. /\ n.transport # NoTransport => OwnerOf[n.transport] = o
        /\ n.transport # NoTransport /\ routes'[o] = n.transport
    BY <1>1, <1>4, <1>7 DEF HostIInv, VoiceInv
  <2>. QED
    BY <2>1, <1>1, <1>2, <1>3, <1>7, <1>8, Voices
<1>11. RoutesAreServed'
  BY <1>1, <1>9 DEF HostIInv, RoutesAreServed, HostTypeOK
<1>12. HostTypeOK'
  BY <1>1, <1>8, <1>9 DEF HostIInv, HostTypeOK, instanceVars, schedulerVars
<1>. QED
  BY <1>8, <1>10, <1>11, <1>12 DEF HostIInv, InstancePart

LEMMA ReattachKeeps ==
    ASSUME HostIInv, NEW t \in Transports, NEW r \in Requests, Reattach(t, r) PROVE HostIInv'
<1>. DEFINE o == OwnerOf[t]
            s == SessionOf(o)
            old == Invalidated(s, t)
            n == Rebind(s, t, r)
<1>1. /\ Handles(t, r) /\ LoopsOn(t) /\ owner_index[o] # NoInstance
      /\ sessions' = [sessions EXCEPT ![owner_index[o]][o] = n]
      /\ connections' = (connections \ {old}) \cup {t}
      /\ routes' = [routes EXCEPT ![o] = t]
      /\ closes' = [closes EXCEPT ![t] = IF old \in connections THEN old ELSE NoTransport]
      /\ UNCHANGED <<instanceVars, schedulerVars, server, fault, outcome>>
  BY DEF Reattach, Controls, SetSession
<1>2. o \in Owners /\ NoTransport \notin Transports /\ r.sequence \in Nat
  BY HostAssumption DEF Request
<1>3. s \in Session /\ s = sessions[owner_index[o]][o] /\ owner_index[o] \in Ids
      /\ o \in Members(owner_index[o])
  BY <1>1, <1>2, OwnerIsMember
<1>4. /\ n \in Session /\ n.id = s.id /\ n.transport = t
      /\ n.phase = IF s.phase = "LinkLost" THEN "Connected" ELSE s.phase
  BY <1>2, <1>3, RebindFields
<1>5. n \in Session
  BY <1>4
<1>6. /\ n.id = s.id /\ n.transport = t /\ n.phase # "LinkLost"
      /\ Standing(n.phase) = Standing(s.phase)
  BY <1>4 DEF Standing
<1>7. s.transport # NoTransport => OwnerOf[s.transport] = o
  BY <1>3 DEF HostIInv, VoiceInv
<1>8. old = IF s.transport = t THEN NoTransport ELSE s.transport
  BY DEF Invalidated
<1>. HIDE DEF n, s, old
<1>9. /\ InstancePart'
      /\ sessions' \in [Ids -> [Owners -> Session \cup {NoSession}]]
      /\ sessions'[owner_index[o]][o] = n
      /\ \A j \in Ids : Members(j)' = Members(j)
      /\ \A j \in Ids, q \in Owners :
            j # owner_index[o] \/ q # o => sessions'[j][q] = sessions[j][q]
  <2>1. n.id = SessionOf(o).id /\ Standing(n.phase) = Standing(SessionOf(o).phase)
    BY <1>6 DEF s
  <2>2. n.phase = "LinkLost" => /\ clock[owner_index[o]] < n.recall
                                /\ n.recall <= clock[owner_index[o]] + LinkLostTicks
    BY <1>6
  <2>3. /\ owner_index[o] # NoInstance
        /\ sessions' = [sessions EXCEPT ![owner_index[o]][o] = n]
        /\ UNCHANGED <<instanceVars, schedulerVars, server, fault, outcome>>
    BY <1>1
  <2>. HIDE DEF o
  <2>. QED
    BY <1>2, <1>5, <2>1, <2>2, <2>3, OneSession
<1>10. /\ conn' \in [Transports -> {"None", "Open", "Late", "Closed", "Done"}]
       /\ conn'[t] \in {"Open", "Late", "Closed"}
       /\ \A u \in Transports : u # t => conn'[u] = conn[u]
  BY <1>1, LoopServes
<1>11. /\ routes \in [Owners -> Transports \cup {NoTransport}]
       /\ connections \subseteq Transports
       /\ closes \in [Transports -> Transports \cup {NoTransport}]
  BY DEF HostIInv, HostTypeOK
<1>12. /\ routes' \in [Owners -> Transports \cup {NoTransport}]
       /\ routes'[o] = t /\ \A q \in Owners : q # o => routes'[q] = routes[q]
  BY <1>1, <1>2, <1>11
<1>13. connections' \subseteq Transports
  BY <1>1, <1>11
<1>14. closes' \in [Transports -> Transports \cup {NoTransport}]
  BY <1>1, <1>11
<1>15. VoiceInv'
  BY <1>1, <1>2, <1>6, <1>9, <1>12, Voices
<1>16. RoutesAreServed'
  <2>. SUFFICES ASSUME NEW q \in Owners, routes'[q] # NoTransport
                PROVE  /\ routes'[q] \in connections'
                       /\ OwnerOf[routes'[q]] = q
                       /\ conn'[routes'[q]] \in {"Open", "Late", "Closed"}
    BY DEF RoutesAreServed
  <2>1. CASE q = o
    BY <2>1, <1>1, <1>10, <1>12
  <2>2. CASE q # o
    <3>1. /\ routes'[q] = routes[q] /\ routes[q] \in connections /\ OwnerOf[routes[q]] = q
          /\ conn[routes[q]] \in {"Open", "Late", "Closed"}
      BY <2>2, <1>12 DEF HostIInv, RoutesAreServed
    <3>2. routes[q] # old /\ routes[q] # t
      BY <2>2, <3>1, <1>7, <1>8
    <3>. QED
      BY <3>1, <3>2, <1>1, <1>10, <1>11
  <2>. QED
    BY <2>1, <2>2
<1>17. HostTypeOK'
  BY <1>1, <1>9, <1>10, <1>12, <1>13, <1>14 DEF HostIInv, HostTypeOK, instanceVars, schedulerVars
<1>. QED
  BY <1>9, <1>15, <1>16, <1>17 DEF HostIInv, InstancePart

\* A session whose link is lost
LEMMA LinkLostSession ==
    ASSUME HostIInv, NEW o \in Owners, owner_index[o] # NoInstance,
           SessionOf(o).phase = "Connected"
    PROVE  LET i == owner_index[o]
               n == LinkLost(SessionOf(o), i)
           IN  /\ n \in Session /\ n.id = SessionOf(o).id
               /\ Standing(n.phase) = Standing(SessionOf(o).phase)
               /\ n.phase = "LinkLost" /\ n.transport = NoTransport /\ ~n.held
               /\ clock[i] < n.recall /\ n.recall <= clock[i] + LinkLostTicks
<1>. DEFINE i == owner_index[o]
            s == SessionOf(o)
            n == LinkLost(s, i)
<1>1. s \in Session /\ i \in Ids
  BY OwnerIsMember
<1>2. clock[i] \in Nat
  BY <1>1 DEF HostIInv, HostTypeOK
<1>3. clock[i] + LinkLostTicks \in Nat
  BY <1>2, Numbers
<1>4. /\ n \in Session /\ n.id = s.id /\ n.transport = NoTransport
      /\ n.phase = "LinkLost" /\ ~n.held /\ n.recall = clock[i] + LinkLostTicks
  BY <1>1, <1>3, LinkLostFields
<1>5. Standing(n.phase) = Standing(s.phase)
  BY <1>4 DEF Standing
<1>6. clock[i] < clock[i] + LinkLostTicks /\ clock[i] + LinkLostTicks <= clock[i] + LinkLostTicks
  BY <1>2, Numbers
<1>. HIDE DEF n
<1>7. clock[i] < n.recall /\ n.recall <= clock[i] + LinkLostTicks
  BY <1>4, <1>6
<1>. QED
  BY <1>4, <1>5, <1>7 DEF n

\* The owner's route is taken away with the session's transport.
LEMMA LinkIsLost ==
    ASSUME HostIInv, NEW t \in Transports, owner_index[OwnerOf[t]] # NoInstance,
           SessionOf(OwnerOf[t]).phase = "Connected",
           sessions' = [sessions EXCEPT ![owner_index[OwnerOf[t]]][OwnerOf[t]] =
                           LinkLost(SessionOf(OwnerOf[t]), owner_index[OwnerOf[t]])],
           connections' = connections \ {t},
           routes' = [routes EXCEPT ![OwnerOf[t]] = NoTransport],
           UNCHANGED <<instanceVars, schedulerVars, server, fault, outcome>>,
           conn' \in [Transports -> {"None", "Open", "Late", "Closed", "Done"}],
           closes' \in [Transports -> Transports \cup {NoTransport}],
           \A u \in Transports : u # t => conn'[u] = conn[u]
    PROVE  HostIInv'
<1>. DEFINE o == OwnerOf[t]
            n == LinkLost(SessionOf(o), owner_index[o])
<1>1. o \in Owners
  BY HostAssumption
<1>2. /\ n \in Session /\ n.id = SessionOf(o).id
      /\ Standing(n.phase) = Standing(SessionOf(o).phase)
      /\ n.phase = "LinkLost" /\ n.transport = NoTransport /\ ~n.held
      /\ clock[owner_index[o]] < n.recall
      /\ n.recall <= clock[owner_index[o]] + LinkLostTicks
  BY <1>1, LinkLostSession
<1>3. sessions' = [sessions EXCEPT ![owner_index[o]][o] = n]
  OBVIOUS
<1>. HIDE DEF n
<1>4. /\ InstancePart'
      /\ sessions' \in [Ids -> [Owners -> Session \cup {NoSession}]]
      /\ sessions'[owner_index[o]][o] = n
      /\ \A j \in Ids : Members(j)' = Members(j)
      /\ \A j \in Ids, q \in Owners :
            j # owner_index[o] \/ q # o => sessions'[j][q] = sessions[j][q]
  BY <1>1, <1>2, <1>3, OneSession
<1>5. /\ routes' \in [Owners -> Transports \cup {NoTransport}]
      /\ routes'[o] = NoTransport /\ \A q \in Owners : q # o => routes'[q] = routes[q]
  BY <1>1 DEF HostIInv, HostTypeOK
<1>6. VoiceInv'
  BY <1>1, <1>2, <1>4, <1>5, Voices
<1>7. RoutesAreServed'
  <2>. SUFFICES ASSUME NEW q \in Owners, routes'[q] # NoTransport
                PROVE  /\ routes'[q] \in connections'
                       /\ OwnerOf[routes'[q]] = q
                       /\ conn'[routes'[q]] \in {"Open", "Late", "Closed"}
    BY DEF RoutesAreServed
  <2>1. q # o /\ routes'[q] = routes[q]
    BY <1>5
  <2>2. /\ routes[q] \in connections /\ OwnerOf[routes[q]] = q
        /\ conn[routes[q]] \in {"Open", "Late", "Closed"}
    BY <2>1 DEF HostIInv, RoutesAreServed
  <2>3. routes[q] # t /\ routes[q] \in Transports
    BY <2>1, <2>2 DEF HostIInv, HostTypeOK
  <2>. QED
    BY <2>1, <2>2, <2>3
<1>8. HostTypeOK'
  BY <1>4, <1>5 DEF HostIInv, HostTypeOK, instanceVars, schedulerVars
<1>. QED
  BY <1>4, <1>6, <1>7, <1>8 DEF HostIInv, InstancePart

LEMMA LeaveKeeps ==
    ASSUME HostIInv, NEW t \in Transports, NEW r \in Requests, Leave(t, r) PROVE HostIInv'
<1>. DEFINE o == OwnerOf[t]
            s == SessionOf(o)
<1>1. /\ Handles(t, r) /\ LoopsOn(t) /\ owner_index[o] # NoInstance
      /\ r.kind = "Leave" /\ RejectionCode(t, r) = "None"
      /\ sessions' = [sessions EXCEPT ![owner_index[o]][o] = LinkLost(s, owner_index[o])]
      /\ connections' = connections \ {t}
      /\ routes' = IF t \in connections /\ routes[o] = t
                   THEN [routes EXCEPT ![o] = NoTransport] ELSE routes
      /\ closes' = [closes EXCEPT ![t] = IF t \in connections THEN t ELSE NoTransport]
      /\ UNCHANGED <<instanceVars, schedulerVars, server, fault, outcome>>
  BY DEF Leave, Controls, SetSession
<1>2. o \in Owners /\ NoTransport \notin Transports
  BY HostAssumption
<1>3. Bound(s, t) /\ s.phase = "Connected"
  BY <1>1 DEF RejectionCode
<1>4. s = sessions[owner_index[o]][o] /\ owner_index[o] \in Ids /\ o \in Members(owner_index[o])
  BY <1>1, <1>2, OwnerIsMember
<1>5. routes[o] = t
  BY <1>3, <1>4 DEF HostIInv, VoiceInv, Bound
<1>6. t \in connections
  BY <1>2, <1>5 DEF HostIInv, RoutesAreServed
<1>7. routes' = [routes EXCEPT ![o] = NoTransport]
  BY <1>1, <1>5, <1>6
<1>8. closes' \in [Transports -> Transports \cup {NoTransport}]
  BY <1>1 DEF HostIInv, HostTypeOK
<1>9. /\ conn' \in [Transports -> {"None", "Open", "Late", "Closed", "Done"}]
      /\ \A u \in Transports : u # t => conn'[u] = conn[u]
  BY <1>1, LoopServes
<1>. QED
  BY <1>1, <1>3, <1>7, <1>8, <1>9, LinkIsLost

LEMMA DetachKeeps ==
    ASSUME HostIInv, NEW t \in Transports, Detach(t) PROVE HostIInv'
<1>. DEFINE o == OwnerOf[t]
            s == SessionOf(o)
            lost == DetachLoses(t) /\ Bound(s, t) /\ s.phase = "Connected"
<1>1. /\ conn' = [conn EXCEPT ![t] = "Done"] /\ closes' = closes
      /\ connections' = connections \ {t}
      /\ routes' = IF DetachLoses(t) THEN [routes EXCEPT ![o] = NoTransport] ELSE routes
      /\ UNCHANGED <<instanceVars, schedulerVars, server, fault, outcome>>
      /\ lost => sessions' = [sessions EXCEPT ![owner_index[o]][o] =
                                 LinkLost(sessions[owner_index[o]][o], owner_index[o])]
      /\ ~lost => sessions' = sessions
  <2>1. sessions' = IF lost THEN [sessions EXCEPT ![owner_index[o]][o] =
                                     LinkLost(@, owner_index[o])]
                            ELSE sessions
    BY DEF Detach
  <2>2. lost => owner_index[o] \in Ids /\ o \in Owners
    BY BoundIsKnown, OwnerIsMember, HostAssumption
  <2>3. sessions \in [Ids -> [Owners -> Session \cup {NoSession}]]
    BY DEF HostIInv, HostTypeOK
  <2>. HIDE DEF lost
  <2>4. lost => sessions' = [sessions EXCEPT ![owner_index[o]][o] =
                                LinkLost(sessions[owner_index[o]][o], owner_index[o])]
    BY <2>1, <2>2, <2>3
  <2>. QED
    BY <2>1, <2>4 DEF Detach
<1>2. o \in Owners /\ NoTransport \notin Transports
  BY HostAssumption
<1>3. /\ conn' \in [Transports -> {"None", "Open", "Late", "Closed", "Done"}]
      /\ \A u \in Transports : u # t => conn'[u] = conn[u]
      /\ closes' \in [Transports -> Transports \cup {NoTransport}]
  BY <1>1 DEF HostIInv, HostTypeOK
<1>4. CASE lost
  <2>1. owner_index[o] # NoInstance
    BY <1>2, <1>4, BoundIsKnown
  <2>2. s = sessions[owner_index[o]][o]
    BY <2>1, <1>2, OwnerIsMember
  <2>. QED
    BY <1>1, <1>3, <1>4, <2>1, <2>2, LinkIsLost
<1>5. CASE ~lost
  <2>1. /\ routes' \in [Owners -> Transports \cup {NoTransport}]
        /\ \A q \in Owners : q # o => routes'[q] = routes[q]
        /\ routes'[o] = IF routes[o] = t THEN NoTransport ELSE routes[o]
        /\ connections' \subseteq Transports
    BY <1>1, <1>2 DEF HostIInv, HostTypeOK, DetachLoses
  <2>2. InstancePart'
    BY <1>1, <1>5, SessionsAlone
  <2>3. VoiceInv'
    <3>. SUFFICES ASSUME NEW j \in Ids, NEW q \in Members(j)
                  PROVE  /\ sessions[j][q].phase = "Connected" => routes'[q] = routes[q]
                         /\ sessions[j][q].phase = "LinkLost" => routes'[q] = routes[q]
      BY <1>1, <1>5 DEF HostIInv, VoiceInv, Members
    <3>1. q \in Owners
      BY DEF Members
    <3>2. CASE q # o
      BY <3>1, <3>2, <2>1
    <3>3. CASE q = o
      <4>1. owner_index[o] = j
        BY <3>1, <3>3 DEF HostIInv, OwnerIndexAgrees
      <4>2. s = sessions[j][o] /\ owner_index[o] # NoInstance
        BY <4>1, Numbers DEF SessionOf
      <4>3. s.phase = "Connected" => routes[o] = s.transport
        BY <3>3, <4>2 DEF HostIInv, VoiceInv
      <4>4. s.phase = "LinkLost" => routes[o] = NoTransport
        BY <3>3, <4>2 DEF HostIInv, VoiceInv
      <4>. QED
        BY <3>3, <4>2, <4>3, <4>4, <2>1, <1>2, <1>5 DEF DetachLoses, Bound
    <3>. QED
      BY <3>2, <3>3
  <2>4. RoutesAreServed'
    <3>. SUFFICES ASSUME NEW q \in Owners, routes'[q] # NoTransport
                  PROVE  /\ routes'[q] \in connections'
                         /\ OwnerOf[routes'[q]] = q
                         /\ conn'[routes'[q]] \in {"Open", "Late", "Closed"}
      BY DEF RoutesAreServed
    <3>1. routes'[q] = routes[q]
      BY <2>1
    <3>2. /\ routes[q] \in connections /\ OwnerOf[routes[q]] = q
          /\ conn[routes[q]] \in {"Open", "Late", "Closed"}
      BY <3>1 DEF HostIInv, RoutesAreServed
    <3>3. routes[q] # t /\ routes[q] \in Transports
      BY <2>1, <3>1, <3>2 DEF HostIInv, HostTypeOK
    <3>. QED
      BY <3>1, <3>2, <3>3, <1>1, <1>3
  <2>5. HostTypeOK'
    BY <1>1, <1>3, <1>5, <2>1 DEF HostIInv, HostTypeOK, instanceVars, schedulerVars
  <2>. QED
    BY <2>2, <2>3, <2>4, <2>5 DEF HostIInv, InstancePart
<1>. QED
  BY <1>4, <1>5

-----------------------------------------------------------------------------
(* Admission                                                                 *)

LEMMA LeastNumber ==
    ASSUME NEW S \in SUBSET Nat, S # {}
    PROVE  \E m \in S : \A k \in S : m <= k
<1>. DEFINE R == OpToRel(<, Nat)
<1>1. IsWellFoundedOn(R, Nat)
  BY NatLessThanWellFounded
<1>2. \A m, k \in Nat : <<k, m>> \in R <=> k < m
  BY DEF OpToRel
<1>. HIDE DEF R
<1>3. PICK m \in S : \A k \in S : <<k, m>> \notin R
  BY <1>1, WFMin
<1>4. \A k \in S : k \in Nat /\ m \in Nat /\ ~(k < m)
  <2>. TAKE k \in S
  <2>1. k \in Nat /\ m \in Nat
    OBVIOUS
  <2>2. <<k, m>> \notin R
    BY <1>3
  <2>. QED
    BY <1>2, <2>1, <2>2
<1>. QED
  BY <1>4

\* The instance a new owner is admitted to has not formed and has a seat.
LEMMA AdmittingHasSeat ==
    ASSUME HostIInv, Admitting \in Ids
    PROVE  LET i == Admitting
           IN  /\ clock[i] = 0 /\ IsFiniteSet(Members(i))
               /\ Cardinality(Members(i)) \in Nat /\ Cardinality(Members(i)) < Capacity
               /\ next_session_id[i] = Cardinality(Members(i)) + 1
               /\ i # next_instance_id => iphase[i] = "Active"
<1>. DEFINE i == Admitting
<1>1. CASE \E j \in Ids : HasCapacity(j)
  <2>. DEFINE S == {j \in Ids : HasCapacity(j)}
  <2>1. \E j \in S : \A k \in S : j <= k
    BY <1>1, LeastNumber, Numbers
  <2>2. HasCapacity(i)
    BY <1>1, <2>1 DEF Admitting
  <2>3. /\ clock[i] = 0 /\ Cardinality(Members(i)) < Capacity /\ iphase[i] = "Active"
    BY <2>2 DEF HasCapacity
  <2>. HIDE DEF i
  <2>4. /\ IsFiniteSet(Members(i)) /\ Cardinality(Members(i)) + 1 = next_session_id[i]
    BY <2>3 DEF HostIInv, SeatInv, i
  <2>5. Cardinality(Members(i)) \in Nat
    BY <2>4, FS_CardinalityType
  <2>. QED
    BY <2>3, <2>4, <2>5 DEF i
<1>2. CASE ~\E j \in Ids : HasCapacity(j)
  <2>1. i = next_instance_id
    BY <1>2 DEF Admitting
  <2>. HIDE DEF i
  <2>2. i \in Ids /\ i >= next_instance_id
    BY <2>1, Numbers DEF i
  <2>3. clock[i] = 0 /\ Members(i) = {}
    BY <2>2 DEF HostIInv, FreeInv
  <2>4. IsFiniteSet({}) /\ Cardinality({}) = 0
    BY FS_EmptySet
  <2>5. Cardinality(Members(i)) + 1 = next_session_id[i]
    BY <2>2, <2>3 DEF HostIInv, SeatInv
  <2>6. 0 < Capacity
    BY HostAssumption
  <2>7. /\ IsFiniteSet(Members(i)) /\ Cardinality(Members(i)) = 0
    BY <2>3, <2>4
  <2>8. next_session_id[i] = Cardinality(Members(i)) + 1
    BY <2>5
  <2>. QED
    BY <2>1, <2>3, <2>6, <2>7, <2>8 DEF i
<1>. QED
  BY <1>1, <1>2

LEMMA JoinKeeps ==
    ASSUME HostIInv, NEW t \in Transports, NEW r \in Requests, Join(t, r) PROVE HostIInv'
<1>0. PICK i \in Ids : i = Admitting
  BY DEF Join
<1>. DEFINE o == OwnerOf[t]
            n == [id |-> next_session_id[i], transport |-> t, sequence |-> r.sequence,
                  phase |-> "Connected", recall |-> 0, held |-> FALSE]
            Cells == [Owners -> Session \cup {NoSession}]
<1>1. /\ Handles(t, r) /\ LoopsOn(t) /\ server = "Serving"
      /\ owner_index[o] = NoInstance /\ i \in Ids
      /\ iphase' = [iphase EXCEPT ![i] = "Active"]
      /\ sessions' = [sessions EXCEPT ![i][o] = n]
      /\ next_session_id' = [next_session_id EXCEPT ![i] = next_session_id[i] + 1]
      /\ owner_index' = [owner_index EXCEPT ![o] = i]
      /\ next_instance_id' = IF i = next_instance_id THEN i + 1 ELSE next_instance_id
      /\ connections' = connections \cup {t}
      /\ routes' = [routes EXCEPT ![o] = t]
      /\ outcome' = [outcome EXCEPT ![o] = "None"]
      /\ UNCHANGED <<clock, forming, players, scheduler_tick, server, fault, closes>>
  <2>1. next_session_id \in [Ids -> 1 .. Capacity + 1]
    BY DEF HostIInv, HostTypeOK
  <2>. QED
    BY <1>0, <2>1 DEF Join, SetSession
<1>2. o \in Owners /\ NoTransport \notin Transports /\ r.sequence \in Nat
  BY HostAssumption DEF Request
<1>3. /\ clock[i] = 0 /\ IsFiniteSet(Members(i))
      /\ Cardinality(Members(i)) \in Nat /\ Cardinality(Members(i)) < Capacity
      /\ next_session_id[i] = Cardinality(Members(i)) + 1
      /\ i # next_instance_id => iphase[i] = "Active"
  BY <1>0, AdmittingHasSeat
<1>4. next_session_id[i] \in SessionIds
  BY <1>3, HostAssumption DEF SessionIds
<1>5. /\ n \in Session /\ n.id = next_session_id[i] /\ n.transport = t
      /\ n.phase = "Connected"
  BY <1>2, <1>4 DEF Session
<1>6. n # NoSession
  BY <1>5, SessionFields
<1>. HIDE DEF n
<1>7. \A j \in Ids : o \notin Members(j)
  BY <1>1, <1>2, Numbers DEF HostIInv, OwnerIndexAgrees
<1>8. /\ sessions' \in [Ids -> Cells] /\ sessions'[i][o] = n
      /\ \A j \in Ids, q \in Owners : j # i \/ q # o => sessions'[j][q] = sessions[j][q]
  <2>1. sessions \in [Ids -> Cells]
    BY DEF HostIInv, HostTypeOK
  <2>2. sessions' = [sessions EXCEPT ![i] = [sessions[i] EXCEPT ![o] = n]]
    BY <1>1, <1>2, <2>1
  <2>3. [sessions[i] EXCEPT ![o] = n] \in Cells
    BY <1>1, <1>2, <1>5, <2>1
  <2>. QED
    BY <1>1, <1>2, <2>1, <2>2, <2>3
<1>9. /\ Members(i)' = Members(i) \cup {o}
      /\ \A j \in Ids : j # i => Members(j)' = Members(j)
  BY <1>1, <1>2, <1>6, <1>8 DEF Members
<1>10. /\ next_session_id'[i] = next_session_id[i] + 1
       /\ \A j \in Ids : j # i => next_session_id'[j] = next_session_id[j]
       /\ next_session_id' \in [Ids -> 1 .. Capacity + 1]
  <2>1. next_session_id \in [Ids -> 1 .. Capacity + 1]
    BY DEF HostIInv, HostTypeOK
  <2>2. next_session_id[i] + 1 \in 1 .. Capacity + 1
    BY <1>4, HostAssumption DEF SessionIds
  <2>. QED
    BY <1>1, <2>1, <2>2
<1>11. /\ iphase' \in [Ids -> {"Free", "Active", "Draining"}] /\ iphase'[i] = "Active"
       /\ \A j \in Ids : j # i => iphase'[j] = iphase[j]
       /\ owner_index' \in [Owners -> Ids \cup {NoInstance}] /\ owner_index'[o] = i
       /\ \A q \in Owners : q # o => owner_index'[q] = owner_index[q]
  BY <1>1, <1>2 DEF HostIInv, HostTypeOK
<1>12. /\ routes' \in [Owners -> Transports \cup {NoTransport}] /\ routes'[o] = t
       /\ \A q \in Owners : q # o => routes'[q] = routes[q]
       /\ outcome' \in [Owners -> {"None", "Recalled", "Dead"}]
       /\ \A q \in Owners : q # o => outcome'[q] = outcome[q]
       /\ connections' \subseteq Transports
  BY <1>1, <1>2 DEF HostIInv, HostTypeOK
<1>13. next_instance_id' \in 1 .. MaxInstances + 1 /\ next_instance_id \in Nat
       /\ next_instance_id' >= next_instance_id /\ i < next_instance_id'
  <2>1. next_instance_id \in 1 .. MaxInstances + 1 /\ i \in 1 .. MaxInstances
    BY <1>1 DEF HostIInv, HostTypeOK, Ids
  <2>2. i # next_instance_id => ~(i >= next_instance_id)
    BY <1>1, <1>3 DEF HostIInv, FreeInv
  <2>. QED
    BY <1>1, <2>1, <2>2, HostAssumption
<1>14. /\ conn' \in [Transports -> {"None", "Open", "Late", "Closed", "Done"}]
       /\ conn'[t] \in {"Open", "Late", "Closed"}
       /\ \A u \in Transports : u # t => conn'[u] = conn[u]
  BY <1>1, LoopServes
<1>15. HostTypeOK'
  BY <1>1, <1>8, <1>10, <1>11, <1>12, <1>13, <1>14 DEF HostIInv, HostTypeOK
<1>16. SeatInv'
  <2>1. ASSUME NEW j \in Ids, j # i
        PROVE  /\ clock'[j] = 0 => /\ IsFiniteSet(Members(j)')
                                   /\ Cardinality(Members(j)') + 1 = next_session_id'[j]
               /\ \A p \in Members(j)' : sessions'[j][p].id < next_session_id'[j]
               /\ \A p, q \in Members(j)' : sessions'[j][p].id = sessions'[j][q].id => p = q
    <3>1. \A p \in Members(j) : sessions'[j][p] = sessions[j][p]
      BY <2>1, <1>8 DEF Members
    <3>. QED
      BY <2>1, <3>1, <1>1, <1>9, <1>10 DEF HostIInv, SeatInv
  <2>2. IsFiniteSet(Members(i)') /\ Cardinality(Members(i)') + 1 = next_session_id'[i]
    <3>1. o \notin Members(i)
      BY <1>1, <1>7
    <3>2. /\ IsFiniteSet(Members(i) \cup {o})
          /\ Cardinality(Members(i) \cup {o}) = Cardinality(Members(i)) + 1
      BY <3>1, <1>3, FS_AddElement
    <3>. QED
      BY <3>2, <1>3, <1>9, <1>10
  <2>3. ASSUME NEW p \in Members(i)
        PROVE  /\ sessions'[i][p].id = sessions[i][p].id /\ p # o
               /\ sessions[i][p].id < next_session_id[i]
               /\ sessions[i][p].id \in Nat
    <3>1. p \in Owners /\ sessions[i][p].id \in SessionIds
      BY <1>1, MemberIsSession, SessionFields DEF HostIInv
    <3>. QED
      BY <3>1, <1>1, <1>7, <1>8, Numbers DEF HostIInv, SeatInv
  <2>4. next_session_id[i] \in Nat /\ sessions'[i][o].id = next_session_id[i]
    BY <1>4, <1>5, <1>8, Numbers
  <2>5. \A p \in Members(i)' : sessions'[i][p].id < next_session_id'[i]
    BY <2>3, <2>4, <1>9, <1>10
  <2>6. \A p, q \in Members(i)' : sessions'[i][p].id = sessions'[i][q].id => p = q
    <3>. TAKE p, q \in Members(i)'
    <3>1. CASE p \in Members(i) /\ q \in Members(i)
      BY <3>1, <2>3, <1>1 DEF HostIInv, SeatInv
    <3>2. CASE p = o \/ q = o
      BY <3>2, <2>3, <2>4, <1>9
    <3>. QED
      BY <3>1, <3>2, <1>9
  <2>. QED
    BY <2>1, <2>2, <2>5, <2>6 DEF SeatInv
<1>17. FreeInv'
  <2>. SUFFICES ASSUME NEW j \in Ids
                PROVE  /\ iphase'[j] = "Free" => clock'[j] = 0 /\ Members(j)' = {}
                       /\ j >= next_instance_id' => iphase'[j] = "Free"
    BY DEF FreeInv
  <2>1. CASE j = i
    BY <2>1, <1>11, <1>13, Numbers, HostAssumption
  <2>2. CASE j # i
    <3>1. j >= next_instance_id' => j >= next_instance_id
      BY <1>13, Numbers, HostAssumption
    <3>. QED
      BY <2>2, <3>1, <1>1, <1>9, <1>11 DEF HostIInv, FreeInv
  <2>. QED
    BY <2>1, <2>2
<1>18. OwnerIndexAgrees'
  <2>. SUFFICES ASSUME NEW q \in Owners, NEW j \in Ids
                PROVE  owner_index'[q] = j <=> q \in Members(j)'
    BY DEF OwnerIndexAgrees
  <2>1. CASE q = o
    BY <2>1, <1>7, <1>9, <1>11
  <2>2. CASE q # o
    BY <2>2, <1>9, <1>11 DEF HostIInv, OwnerIndexAgrees
  <2>. QED
    BY <2>1, <2>2
<1>19. RosterInv'
  <2>1. ASSUME NEW j \in Ids, j # i
        PROVE  /\ \A q \in Members(j)' :
                     Roster(j)'[sessions'[j][q].id] = Standing(sessions'[j][q].phase)
               /\ \A p \in Alive(j)' : \E q \in Members(j)' : sessions'[j][q].id = p
    <3>1. Members(j)' = Members(j) /\ \A q \in Members(j) : sessions'[j][q] = sessions[j][q]
      BY <2>1, <1>8, <1>9 DEF Members
    <3>2. Roster(j)' = Roster(j)
      BY <3>1, <1>1 DEF Roster
    <3>3. Alive(j)' = Alive(j)
      BY <3>2 DEF Alive
    <3>. QED
      BY <2>1, <3>1, <3>2, <3>3, <1>1 DEF HostIInv, RosterInv
  <2>2. ~(clock[i] > 0) /\ ~(clock'[i] > 0)
    BY <1>1, <1>3
  <2>3. /\ \A p \in SessionIds : Roster(i)'[p] =
               IF \E q \in Members(i)' : sessions'[i][q].id = p THEN "Alive" ELSE "Absent"
        /\ \A p \in SessionIds : Roster(i)[p] =
               IF \E q \in Members(i) : sessions[i][q].id = p THEN "Alive" ELSE "Absent"
    BY <2>2 DEF Roster
  <2>4. ASSUME NEW q \in Members(i)'
        PROVE  Roster(i)'[sessions'[i][q].id] = Standing(sessions'[i][q].phase)
    <3>1. sessions'[i][q].id \in SessionIds
      <4>1. HostTypeOK' /\ i \in Ids
        BY <1>1, <1>15
      <4>2. sessions'[i][q] \in Session
        BY <4>1 DEF HostTypeOK, Members
      <4>. QED
        BY <4>2, SessionFields
    <3>2. Roster(i)'[sessions'[i][q].id] = "Alive"
      BY <2>3, <3>1
    <3>3. CASE q = o
      BY <3>2, <3>3, <1>5, <1>8 DEF Standing
    <3>4. CASE q # o
      <4>1. q \in Members(i) /\ sessions'[i][q] = sessions[i][q]
        BY <3>4, <1>1, <1>8, <1>9 DEF Members
      <4>2. Roster(i)[sessions[i][q].id] = "Alive"
        BY <4>1, <3>1, <2>3
      <4>3. Roster(i)[sessions[i][q].id] = Standing(sessions[i][q].phase)
        BY <4>1, <1>1 DEF HostIInv, RosterInv
      <4>. QED
        BY <3>2, <4>1, <4>2, <4>3
    <3>. QED
      BY <3>3, <3>4
  <2>5. \A p \in Alive(i)' : \E q \in Members(i)' : sessions'[i][q].id = p
    <3>. TAKE p \in Alive(i)'
    <3>1. p \in SessionIds /\ Roster(i)'[p] = "Alive"
      BY DEF Alive
    <3>. QED
      BY <3>1, <2>3
  <2>. QED
    BY <2>1, <2>4, <2>5 DEF RosterInv
<1>20. VoiceInv'
  <2>. SUFFICES ASSUME NEW j \in Ids, NEW q \in Members(j)'
                PROVE  /\ sessions'[j][q].transport # NoTransport =>
                             OwnerOf[sessions'[j][q].transport] = q
                       /\ sessions'[j][q].phase = "Connected" =>
                             /\ sessions'[j][q].transport # NoTransport
                             /\ routes'[q] = sessions'[j][q].transport
                       /\ sessions'[j][q].phase = "LinkLost" =>
                             /\ sessions'[j][q].transport = NoTransport
                             /\ routes'[q] = NoTransport
                             /\ ~sessions'[j][q].held
    BY DEF VoiceInv
  <2>1. CASE q = o
    <3>1. j = i
      BY <2>1, <1>7, <1>9
    <3>. QED
      BY <2>1, <3>1, <1>2, <1>5, <1>8, <1>12
  <2>2. CASE q # o
    <3>1. q \in Owners /\ q \in Members(j)
      BY <2>2, <1>9 DEF Members
    <3>2. sessions'[j][q] = sessions[j][q] /\ routes'[q] = routes[q]
      BY <2>2, <3>1, <1>8, <1>12
    <3>. QED
      BY <3>1, <3>2 DEF HostIInv, VoiceInv
  <2>. QED
    BY <2>1, <2>2
<1>21. RoutesAreServed'
  <2>. SUFFICES ASSUME NEW q \in Owners, routes'[q] # NoTransport
                PROVE  /\ routes'[q] \in connections'
                       /\ OwnerOf[routes'[q]] = q
                       /\ conn'[routes'[q]] \in {"Open", "Late", "Closed"}
    BY DEF RoutesAreServed
  <2>1. CASE q = o
    BY <2>1, <1>1, <1>12, <1>14
  <2>2. CASE q # o
    <3>1. /\ routes'[q] = routes[q] /\ routes[q] \in connections /\ OwnerOf[routes[q]] = q
          /\ conn[routes[q]] \in {"Open", "Late", "Closed"}
      BY <2>2, <1>12 DEF HostIInv, RoutesAreServed
    <3>2. routes[q] \in Transports
      BY <3>1 DEF HostIInv, HostTypeOK
    <3>. QED
      BY <3>1, <3>2, <1>1, <1>14
  <2>. QED
    BY <2>1, <2>2
<1>22. DeadlineKept' /\ OutcomeInv'
  <2>1. ASSUME NEW j \in Ids, NEW q \in Members(j)'
        PROVE  \/ sessions'[j][q].phase = "Connected"
               \/ /\ q \in Members(j) /\ sessions'[j][q] = sessions[j][q] /\ outcome'[q] = outcome[q]
    <3>1. CASE q = o
      BY <3>1, <1>5, <1>7, <1>8, <1>9
    <3>2. CASE q # o
      <4>1. q \in Owners /\ q \in Members(j)
        BY <3>2, <1>9 DEF Members
      <4>. QED
        BY <3>2, <4>1, <1>8, <1>12
    <3>. QED
      BY <3>1, <3>2
  <2>2. clock' = clock
    BY <1>1
  <2>3. DeadlineKept'
    BY <2>1, <2>2 DEF HostIInv, DeadlineKept
  <2>4. OutcomeInv'
    BY <2>1 DEF HostIInv, OutcomeInv
  <2>. QED
    BY <2>3, <2>4
<1>23. HostNeverFails'
  BY <1>1 DEF HostIInv, HostNeverFails
<1>. QED
  BY <1>15, <1>16, <1>17, <1>18, <1>19, <1>20, <1>21, <1>22, <1>23 DEF HostIInv

-----------------------------------------------------------------------------
(* The tick                                                                  *)

LEMMA RosterType ==
    ASSUME HostIInv, NEW i \in Ids
    PROVE  Roster(i) \in [SessionIds -> {"Absent", "Alive", "Dead", "Recalled"}]
<1>1. players[i] \in [SessionIds -> {"Absent", "Alive", "Dead", "Recalled"}]
  BY DEF HostIInv, HostTypeOK
<1>. QED
  BY <1>1 DEF Roster

\* A session of a server that serves stands as its player does.
LEMMA SessionStands ==
    ASSUME HostIInv, server = "Serving", NEW i \in Ids, NEW o \in Members(i)
    PROVE  /\ sessions[i][o] \in Session /\ o \in Owners
           /\ sessions[i][o].id \in SessionIds
           /\ sessions[i][o].phase \in {"Connected", "LinkLost", "Recalled", "Dead"}
           /\ SimulationActive(sessions[i][o]) <=> Roster(i)[sessions[i][o].id] = "Alive"
           /\ sessions[i][o].phase = "Dead" <=> Roster(i)[sessions[i][o].id] = "Dead"
           /\ sessions[i][o].phase = "Recalled" <=> Roster(i)[sessions[i][o].id] = "Recalled"
           /\ Roster(i)[sessions[i][o].id] # "Absent"
<1>. DEFINE s == sessions[i][o]
<1>1. s \in Session /\ o \in Owners
  BY MemberIsSession DEF HostIInv
<1>2. /\ s.id \in SessionIds
      /\ s.phase \in {"Connected", "LinkLost", "Recalled", "Dead", "Closed"}
  BY <1>1, SessionFields
<1>3. Roster(i)[s.id] \in {"Absent", "Alive", "Dead", "Recalled"}
  BY <1>2, RosterType
<1>4. Roster(i)[s.id] = Standing(s.phase)
  BY DEF HostIInv, RosterInv
<1>5. /\ s.phase \in {"Connected", "LinkLost"} => Standing(s.phase) = "Alive"
      /\ s.phase = "Recalled" => Standing(s.phase) = "Recalled"
      /\ s.phase = "Dead" => Standing(s.phase) = "Dead"
      /\ s.phase = "Closed" => Standing(s.phase) = "Closed"
  BY DEF Standing
<1>. HIDE DEF s
<1>6. s.phase # "Closed"
  BY <1>3, <1>4, <1>5
<1>7. /\ SimulationActive(s) <=> Roster(i)[s.id] = "Alive"
      /\ s.phase = "Dead" <=> Roster(i)[s.id] = "Dead"
      /\ s.phase = "Recalled" <=> Roster(i)[s.id] = "Recalled"
      /\ Roster(i)[s.id] # "Absent"
  BY <1>2, <1>4, <1>5, <1>6 DEF SimulationActive
<1>. QED
  BY <1>1, <1>2, <1>6, <1>7 DEF s

LEMMA EndedFields ==
    ASSUME NEW s \in Session, NEW phase \in {"Recalled", "Dead", "Closed"}
    PROVE  /\ Ended(s, phase) \in Session /\ Ended(s, phase).id = s.id
           /\ Ended(s, phase).phase = phase /\ Ended(s, phase).transport = NoTransport
  BY DEF Session, Ended

\* What may die in a tick
Mortal(i) == IF Steps(i) THEN Alive(i) ELSE {}

\* What a tick makes of a session: nothing, a recall at the deadline, or a death.
LEMMA TickedIs ==
    ASSUME HostIInv, server = "Serving", NEW i \in Ids, NEW o \in Members(i),
           NEW d \in SUBSET Mortal(i)
    PROVE  /\ Ticked(i, o, d) \in Session
           /\ Ticked(i, o, d).id = sessions[i][o].id
           /\ Ticked(i, o, d).phase # "Closed"
           /\ \/ /\ Ticked(i, o, d) = sessions[i][o]
                 /\ Steps(i) => /\ Fallen(i, d)[sessions[i][o].id] # "Dead"
                                /\ ~Recalls(sessions[i][o], i, d)
              \/ /\ Steps(i) /\ Fallen(i, d)[sessions[i][o].id] = "Dead"
                 /\ Ticked(i, o, d).phase = "Dead" /\ Ticked(i, o, d).transport = NoTransport
              \/ /\ Steps(i) /\ Recalls(sessions[i][o], i, d)
                 /\ Ticked(i, o, d).phase = "Recalled" /\ Ticked(i, o, d).transport = NoTransport
<1>. DEFINE s == sessions[i][o]
            dead == Fallen(i, d)[s.id] = "Dead"
<1>1. s \in Session /\ s.phase # "Closed"
  BY SessionStands
<1>2. Recalls(s, i, d) => ~dead
  BY DEF Recalls
<1>3. CASE ~Steps(i)
  BY <1>1, <1>3 DEF Ticked
<1>4. CASE Steps(i) /\ Recalls(s, i, d)
  <2>1. Ticked(i, o, d) = Ended(s, "Recalled")
    BY <1>4 DEF Ticked, Resolved
  <2>. QED
    BY <1>1, <1>4, <2>1, EndedFields
<1>5. CASE Steps(i) /\ dead
  <2>1. Ticked(i, o, d) = Ended(s, "Dead")
    BY <1>2, <1>5 DEF Ticked, Resolved
  <2>. QED
    BY <1>1, <1>5, <2>1, EndedFields
<1>6. CASE Steps(i) /\ ~dead /\ ~Recalls(s, i, d)
  <2>1. Ticked(i, o, d) = s
    BY <1>6 DEF Ticked, Resolved
  <2>. QED
    BY <1>1, <1>6, <2>1
<1>. QED
  BY <1>3, <1>4, <1>5, <1>6

\* What the step does to the players
LEMMA FallenIs ==
    ASSUME HostIInv, NEW i \in Ids, NEW d \in SUBSET Mortal(i), Steps(i), NEW p \in SessionIds
    PROVE  /\ p \in d => Roster(i)[p] = "Alive" /\ Fallen(i, d)[p] = "Dead"
           /\ p \notin d => Fallen(i, d)[p] = Roster(i)[p]
  BY DEF Mortal, Alive, Fallen

\* None of the errors that are the host's own is met.
LEMMA TickIsSafe ==
    ASSUME HostIInv, server = "Serving", NEW i \in Ids, NEW d \in SUBSET Mortal(i)
    PROVE  ~HostFails(i, d)
<1>1. ASSUME Steps(i) PROVE InputsComplete(i)
  <2>1. ASSUME NEW o \in Members(i), SimulationActive(sessions[i][o])
        PROVE  sessions[i][o].id \in Alive(i)
    BY <2>1, SessionStands DEF Alive
  <2>2. ASSUME NEW p \in Alive(i)
        PROVE  \E o \in Members(i) : SimulationActive(sessions[i][o]) /\ sessions[i][o].id = p
    <3>1. PICK o \in Members(i) : sessions[i][o].id = p
      BY DEF HostIInv, RosterInv
    <3>. QED
      BY <3>1, SessionStands DEF Alive
  <2>. QED
    BY <2>1, <2>2 DEF InputsComplete
<1>2. \A o \in Members(i) : Roster(i)[sessions[i][o].id] # "Absent"
  BY SessionStands
<1>3. ASSUME Steps(i), NEW o \in Members(i), Recalls(sessions[i][o], i, d)
      PROVE  Fallen(i, d)[sessions[i][o].id] = "Alive"
  <2>1. sessions[i][o].phase = "LinkLost" /\ Fallen(i, d)[sessions[i][o].id] # "Dead"
    BY <1>3 DEF Recalls
  <2>2. Roster(i)[sessions[i][o].id] = "Alive" /\ sessions[i][o].id \in SessionIds
    BY <2>1, SessionStands DEF SimulationActive
  <2>. QED
    BY <1>3, <2>1, <2>2, FallenIs
<1>4. ASSUME NEW o \in Members(i) PROVE owner_index[o] = i
  BY DEF HostIInv, OwnerIndexAgrees, Members
<1>. QED
  BY <1>1, <1>2, <1>3, <1>4 DEF HostFails

LEMMA WaitsUnformed ==
    ASSUME HostIInv, NEW i \in Ids
    PROVE  /\ clock[i] \in Nat
           /\ ~Steps(i) /\ clock[i] # 0 => iphase[i] # "Active"
  BY DEF HostIInv, HostTypeOK, Steps, Waits

\* Nobody is over in an arena that has not formed.
LEMMA UnformedAreActive ==
    ASSUME HostIInv, server = "Serving", NEW i \in Ids, clock[i] = 0, NEW o \in Members(i)
    PROVE  SimulationActive(sessions[i][o])
<1>1. sessions[i][o].id \in SessionIds
  BY SessionStands
<1>2. Roster(i)[sessions[i][o].id] = "Alive"
  BY <1>1 DEF Roster
<1>. QED
  BY <1>2, SessionStands

\* The state after a tick in which those of `deaths` die, instance by instance
TickEffect(deaths) ==
    \A i \in Ids :
        /\ deaths[i] \in SUBSET Mortal(i)
        /\ sessions'[i] = [o \in Owners |->
              IF Retires(i, o, deaths[i]) \/ Closes(i, deaths[i]) THEN NoSession
              ELSE Ticked(i, o, deaths[i])]
        /\ forming'[i] = IF iphase[i] = "Active" /\ Waits(i) /\ Members(i) # {}
                         THEN forming[i] - 1
                         ELSE IF Closes(i, deaths[i]) THEN FormationTicks ELSE forming[i]
        /\ clock'[i] = IF Closes(i, deaths[i]) THEN 0
                       ELSE IF Steps(i) THEN clock[i] + 1 ELSE clock[i]
        /\ next_session_id'[i] = IF Closes(i, deaths[i]) THEN 1 ELSE next_session_id[i]
        /\ iphase'[i] = IF Closes(i, deaths[i]) THEN "Free" ELSE iphase[i]
        /\ players'[i] = IF Closes(i, deaths[i]) THEN [p \in SessionIds |-> "Absent"]
              ELSE IF ~Steps(i) THEN players[i]
              ELSE [p \in SessionIds |->
                     IF \E o \in Members(i) : /\ sessions[i][o].id = p
                                              /\ Recalls(sessions[i][o], i, deaths[i])
                     THEN "Recalled" ELSE Fallen(i, deaths[i])[p]]

LEMMA TickHasEffect ==
    ASSUME HostIInv, Tick
    PROVE  \E deaths \in [Ids -> SUBSET SessionIds] :
              /\ TickEffect(deaths)
              /\ server = "Serving" /\ server' = server
              /\ UNCHANGED <<next_instance_id, routes, connections, conn, closes>>
              /\ scheduler_tick' = scheduler_tick + 1 /\ scheduler_tick < MaxTicks
              /\ fault' = TickFault(deaths)
              /\ \A f \in {sessions', forming', clock', next_session_id', iphase', players'} :
                    f = [i \in Ids |-> f[i]]
              /\ owner_index' = [o \in Owners |->
                    IF \E i \in Ids : Retires(i, o, deaths[i]) THEN NoInstance
                                                               ELSE owner_index[o]]
              /\ outcome' = [o \in Owners |->
                    IF /\ owner_index[o] # NoInstance
                       /\ IsResolved(Ticked(owner_index[o], o, deaths[owner_index[o]]))
                    THEN Ticked(owner_index[o], o, deaths[owner_index[o]]).phase
                    ELSE outcome[o]]
<1>1. PICK deaths \in [Ids -> SUBSET SessionIds] :
         /\ \A i \in Ids : deaths[i] \subseteq (IF Steps(i) THEN Alive(i) ELSE {})
         /\ fault' = TickFault(deaths)
         /\ forming' = [i \in Ids |->
              IF iphase[i] = "Active" /\ Waits(i) /\ Members(i) # {}
              THEN forming[i] - 1
              ELSE IF Closes(i, deaths[i]) THEN FormationTicks ELSE forming[i]]
         /\ clock' = [i \in Ids |->
              IF Closes(i, deaths[i]) THEN 0
              ELSE IF Steps(i) THEN clock[i] + 1 ELSE clock[i]]
         /\ next_session_id' = [i \in Ids |->
              IF Closes(i, deaths[i]) THEN 1 ELSE next_session_id[i]]
         /\ players' = [i \in Ids |->
              IF Closes(i, deaths[i]) THEN [p \in SessionIds |-> "Absent"]
              ELSE IF ~Steps(i) THEN players[i]
              ELSE [p \in SessionIds |->
                     IF \E o \in Members(i) : /\ sessions[i][o].id = p
                                              /\ Recalls(sessions[i][o], i, deaths[i])
                     THEN "Recalled" ELSE Fallen(i, deaths[i])[p]]]
         /\ sessions' = [i \in Ids |-> [o \in Owners |->
              IF Retires(i, o, deaths[i]) \/ Closes(i, deaths[i]) THEN NoSession
              ELSE Ticked(i, o, deaths[i])]]
         /\ owner_index' = [o \in Owners |->
              IF \E i \in Ids : Retires(i, o, deaths[i]) THEN NoInstance
                                                         ELSE owner_index[o]]
         /\ iphase' = [i \in Ids |-> IF Closes(i, deaths[i]) THEN "Free" ELSE iphase[i]]
         /\ outcome' = [o \in Owners |->
              IF /\ owner_index[o] # NoInstance
                 /\ IsResolved(Ticked(owner_index[o], o, deaths[owner_index[o]]))
              THEN Ticked(owner_index[o], o, deaths[owner_index[o]]).phase ELSE outcome[o]]
  BY DEF Tick
<1>2. TickEffect(deaths)
  BY <1>1 DEF TickEffect, Mortal
<1>3. \A f \in {sessions', forming', clock', next_session_id', iphase', players'} :
         f = [i \in Ids |-> f[i]]
  BY <1>1
<1>4. /\ server = "Serving" /\ server' = server
      /\ UNCHANGED <<next_instance_id, routes, connections, conn, closes>>
      /\ scheduler_tick' = scheduler_tick + 1 /\ scheduler_tick < MaxTicks
  BY DEF Tick, runtimeVars, taskVars
<1>. QED
  BY <1>1, <1>2, <1>3, <1>4

\* Who is left of an instance
LEMMA TickMembers ==
    ASSUME HostIInv, server = "Serving", NEW deaths, TickEffect(deaths), NEW i \in Ids
    PROVE  /\ Members(i)' = {o \in Members(i) : ~Retires(i, o, deaths[i])}
           /\ \A o \in Members(i)' : sessions'[i][o] = Ticked(i, o, deaths[i])
           /\ Members(i)' # {} => ~Closes(i, deaths[i])
           /\ Closes(i, deaths[i]) => Members(i)' = {}
           /\ sessions'[i] \in [Owners -> Session \cup {NoSession}]
           /\ clock[i] = 0 /\ ~Closes(i, deaths[i]) /\ ~Steps(i) => Members(i)' = Members(i)
<1>. DEFINE d == deaths[i]
<1>1. /\ d \in SUBSET Mortal(i)
      /\ sessions'[i] = [o \in Owners |->
            IF Retires(i, o, d) \/ Closes(i, d) THEN NoSession ELSE Ticked(i, o, d)]
  BY DEF TickEffect
<1>2. \A o \in Members(i) : o \in Owners /\ (Closes(i, d) => Retires(i, o, d))
  BY DEF Closes, Members
<1>3. \A o \in Owners : o \notin Members(i) => Ticked(i, o, d) = NoSession
  BY DEF Ticked, Members
<1>4. \A o \in Members(i) : Ticked(i, o, d) \in Session /\ Ticked(i, o, d) # NoSession
  BY <1>1, TickedIs, SessionFields
<1>. HIDE DEF d
<1>5. \A o \in Owners : sessions'[i][o] =
         IF o \in Members(i) /\ ~Retires(i, o, d) THEN Ticked(i, o, d) ELSE NoSession
  BY <1>1, <1>2, <1>3
<1>6. Members(i)' = {o \in Members(i) : ~Retires(i, o, d)}
  BY <1>2, <1>4, <1>5 DEF Members
<1>7. \A o \in Members(i)' : sessions'[i][o] = Ticked(i, o, d)
  BY <1>2, <1>5, <1>6
<1>8. sessions'[i] \in [Owners -> Session \cup {NoSession}]
  <2>1. \A o \in Owners : sessions'[i][o] \in Session \cup {NoSession}
    BY <1>4, <1>5
  <2>2. sessions'[i] = [o \in Owners |-> sessions'[i][o]]
    BY <1>1
  <2>. QED
    BY <2>1, <2>2
<1>9. ASSUME clock[i] = 0, ~Steps(i), NEW o \in Members(i) PROVE ~Retires(i, o, d)
  <2>1. Ticked(i, o, d) = sessions[i][o]
    BY <1>9 DEF Ticked
  <2>2. SimulationActive(sessions[i][o])
    BY <1>9, UnformedAreActive
  <2>. QED
    BY <2>1, <2>2 DEF Retires, IsResolved, SimulationActive
<1>. QED
  BY <1>2, <1>6, <1>7, <1>8, <1>9 DEF d

LEMMA TickSeats ==
    ASSUME HostIInv, server = "Serving", NEW deaths, TickEffect(deaths)
    PROVE  SeatInv'
<1>. SUFFICES ASSUME NEW i \in Ids
              PROVE  /\ clock'[i] = 0 => /\ IsFiniteSet(Members(i)')
                                         /\ Cardinality(Members(i)') + 1 = next_session_id'[i]
                     /\ \A o \in Members(i)' : sessions'[i][o].id < next_session_id'[i]
                     /\ \A o, q \in Members(i)' :
                           sessions'[i][o].id = sessions'[i][q].id => o = q
  BY DEF SeatInv
<1>. DEFINE d == deaths[i]
<1>1. /\ clock'[i] = IF Closes(i, d) THEN 0 ELSE IF Steps(i) THEN clock[i] + 1 ELSE clock[i]
      /\ next_session_id'[i] = IF Closes(i, d) THEN 1 ELSE next_session_id[i]
      /\ d \in SUBSET Mortal(i)
  BY DEF TickEffect
<1>2. /\ Members(i)' = {o \in Members(i) : ~Retires(i, o, d)}
      /\ \A o \in Members(i)' : sessions'[i][o] = Ticked(i, o, d)
      /\ Closes(i, d) => Members(i)' = {}
      /\ clock[i] = 0 /\ ~Closes(i, d) /\ ~Steps(i) => Members(i)' = Members(i)
  BY TickMembers
<1>3. \A o \in Members(i) : Ticked(i, o, d).id = sessions[i][o].id
  BY <1>1, TickedIs
<1>. HIDE DEF d
<1>4. \A o \in Members(i)' : o \in Members(i) /\ sessions'[i][o].id = sessions[i][o].id
  BY <1>2, <1>3
<1>5. CASE Closes(i, d)
  <2>1. Members(i)' = {} /\ next_session_id'[i] = 1
    BY <1>1, <1>2, <1>5
  <2>2. IsFiniteSet({}) /\ Cardinality({}) = 0
    BY FS_EmptySet
  <2>3. IsFiniteSet(Members(i)') /\ Cardinality(Members(i)') = 0
    BY <2>1, <2>2
  <2>. QED
    BY <2>1, <2>3
<1>6. CASE ~Closes(i, d)
  <2>1. clock[i] \in Nat /\ next_session_id'[i] = next_session_id[i]
    BY <1>1, <1>6, WaitsUnformed
  <2>2. clock'[i] = 0 => clock[i] = 0 /\ Members(i)' = Members(i)
    BY <1>1, <1>2, <1>6, <2>1
  <2>. QED
    BY <1>4, <2>1, <2>2 DEF HostIInv, SeatInv
<1>. QED
  BY <1>5, <1>6

\* The players of an arena after its step
LEMMA TickPlayers ==
    ASSUME HostIInv, server = "Serving", NEW deaths, TickEffect(deaths), NEW i \in Ids,
           Steps(i), ~Closes(i, deaths[i])
    PROVE  /\ \A o \in Members(i)' :
                 players'[i][sessions'[i][o].id] = Standing(sessions'[i][o].phase)
           /\ \A p \in SessionIds : players'[i][p] = "Alive" =>
                 \E o \in Members(i)' : sessions'[i][o].id = p
<1>. DEFINE d == deaths[i]
            R(p) == \E o \in Members(i) : /\ sessions[i][o].id = p
                                          /\ Recalls(sessions[i][o], i, d)
<1>1. d \in SUBSET Mortal(i)
  BY DEF TickEffect
<1>2. \A p \in SessionIds : players'[i][p] = IF R(p) THEN "Recalled" ELSE Fallen(i, d)[p]
  BY DEF TickEffect
<1>3. /\ Members(i)' = {o \in Members(i) : ~Retires(i, o, d)}
      /\ \A o \in Members(i)' : sessions'[i][o] = Ticked(i, o, d)
  BY TickMembers
<1>4. ASSUME NEW o \in Members(i)
      PROVE  R(sessions[i][o].id) <=> Recalls(sessions[i][o], i, d)
  BY DEF HostIInv, SeatInv
<1>5. \A o \in Members(i) :
         /\ sessions[i][o].id \in SessionIds
         /\ Ticked(i, o, d).id = sessions[i][o].id
         /\ \/ /\ Ticked(i, o, d) = sessions[i][o]
               /\ Fallen(i, d)[sessions[i][o].id] # "Dead"
               /\ ~Recalls(sessions[i][o], i, d)
            \/ /\ Fallen(i, d)[sessions[i][o].id] = "Dead" /\ Ticked(i, o, d).phase = "Dead"
            \/ /\ Recalls(sessions[i][o], i, d) /\ Ticked(i, o, d).phase = "Recalled"
  BY <1>1, TickedIs, SessionStands
<1>6. ASSUME NEW p \in SessionIds
      PROVE  /\ p \in d => Roster(i)[p] = "Alive" /\ Fallen(i, d)[p] = "Dead"
             /\ p \notin d => Fallen(i, d)[p] = Roster(i)[p]
  BY <1>1, FallenIs
<1>7. \A o \in Members(i) : Roster(i)[sessions[i][o].id] = Standing(sessions[i][o].phase)
  BY DEF HostIInv, RosterInv
<1>. HIDE DEF d, R
<1>8. ASSUME NEW o \in Members(i)
      PROVE  players'[i][sessions[i][o].id] = Standing(Ticked(i, o, d).phase)
  <2>1. CASE Recalls(sessions[i][o], i, d)
    <3>1. Ticked(i, o, d).phase = "Recalled"
      BY <2>1, <1>5 DEF Recalls
    <3>2. players'[i][sessions[i][o].id] = "Recalled"
      BY <2>1, <1>2, <1>4, <1>5
    <3>. QED
      BY <3>1, <3>2 DEF Standing
  <2>2. CASE Fallen(i, d)[sessions[i][o].id] = "Dead"
    <3>1. ~Recalls(sessions[i][o], i, d)
      BY <2>2 DEF Recalls
    <3>2. Ticked(i, o, d).phase = "Dead"
      BY <2>2, <3>1, <1>5
    <3>3. players'[i][sessions[i][o].id] = "Dead"
      BY <2>2, <3>1, <1>2, <1>4, <1>5
    <3>. QED
      BY <3>2, <3>3 DEF Standing
  <2>3. CASE ~Recalls(sessions[i][o], i, d) /\ Fallen(i, d)[sessions[i][o].id] # "Dead"
    <3>1. Ticked(i, o, d) = sessions[i][o]
      BY <2>3, <1>5
    <3>2. players'[i][sessions[i][o].id] = Roster(i)[sessions[i][o].id]
      BY <2>3, <1>2, <1>4, <1>5, <1>6
    <3>. QED
      BY <3>1, <3>2, <1>7
  <2>. QED
    BY <2>1, <2>2, <2>3
<1>9. ASSUME NEW p \in SessionIds, players'[i][p] = "Alive"
      PROVE  \E o \in Members(i)' : sessions'[i][o].id = p
  <2>1. ~R(p) /\ Fallen(i, d)[p] = "Alive"
    BY <1>2, <1>9
  <2>2. Roster(i)[p] = "Alive"
    BY <2>1, <1>6
  <2>3. PICK o \in Members(i) : sessions[i][o].id = p
    BY <2>2 DEF HostIInv, RosterInv, Alive
  <2>4. Ticked(i, o, d) = sessions[i][o]
    BY <2>1, <2>3, <1>4, <1>5
  <2>5. SimulationActive(sessions[i][o])
    BY <2>2, <2>3, SessionStands
  <2>6. ~Retires(i, o, d)
    BY <2>4, <2>5 DEF Retires, IsResolved, SimulationActive
  <2>. QED
    BY <2>3, <2>4, <2>6, <1>3
<1>. QED
  BY <1>3, <1>5, <1>8, <1>9

LEMMA TickRoster ==
    ASSUME HostIInv, server = "Serving", NEW deaths, TickEffect(deaths)
    PROVE  RosterInv'
<1>. SUFFICES ASSUME NEW i \in Ids
              PROVE  /\ \A o \in Members(i)' :
                           Roster(i)'[sessions'[i][o].id] = Standing(sessions'[i][o].phase)
                     /\ \A p \in Alive(i)' : \E o \in Members(i)' : sessions'[i][o].id = p
  BY DEF RosterInv
<1>. DEFINE d == deaths[i]
<1>1. /\ clock'[i] = IF Closes(i, d) THEN 0 ELSE IF Steps(i) THEN clock[i] + 1 ELSE clock[i]
      /\ ~Closes(i, d) /\ ~Steps(i) => players'[i] = players[i]
      /\ d \in SUBSET Mortal(i)
  BY DEF TickEffect
<1>2. /\ Members(i)' = {o \in Members(i) : ~Retires(i, o, d)}
      /\ \A o \in Members(i)' : sessions'[i][o] = Ticked(i, o, d)
      /\ Closes(i, d) => Members(i)' = {}
      /\ clock[i] = 0 /\ ~Closes(i, d) /\ ~Steps(i) => Members(i)' = Members(i)
  BY TickMembers
<1>3. clock[i] \in Nat
  BY WaitsUnformed
<1>4. CASE Closes(i, d)
  <2>1. ~(clock'[i] > 0) /\ Members(i)' = {}
    BY <1>1, <1>2, <1>4
  <2>2. \A p \in SessionIds : Roster(i)'[p] = "Absent"
    BY <2>1 DEF Roster
  <2>. QED
    BY <2>1, <2>2 DEF Alive
<1>5. CASE ~Closes(i, d) /\ Steps(i)
  <2>1. clock'[i] > 0
    BY <1>1, <1>3, <1>5
  <2>2. Roster(i)' = players'[i]
    BY <2>1 DEF Roster
  <2>3. \A p \in Alive(i)' : p \in SessionIds /\ players'[i][p] = "Alive"
    BY <2>2 DEF Alive
  <2>. QED
    BY <2>2, <2>3, <1>5, TickPlayers
<1>6. CASE ~Closes(i, d) /\ ~Steps(i)
  <2>1. \A o \in Members(i)' : o \in Members(i) /\ sessions'[i][o] = sessions[i][o]
    BY <1>2, <1>6 DEF Ticked
  <2>2. clock'[i] = clock[i] /\ players'[i] = players[i]
    BY <1>1, <1>6
  <2>3. Roster(i)' = Roster(i)
    <3>1. CASE clock[i] > 0
      BY <2>2, <3>1 DEF Roster
    <3>2. CASE ~(clock[i] > 0)
      <4>1. Members(i)' = Members(i) /\ \A o \in Members(i) : sessions'[i][o] = sessions[i][o]
        BY <1>2, <1>3, <1>6, <2>1, <3>2
      <4>. QED
        BY <2>2, <3>2, <4>1 DEF Roster
    <3>. QED
      BY <3>1, <3>2
  <2>4. ASSUME NEW p \in Alive(i)' PROVE \E o \in Members(i)' : sessions'[i][o].id = p
    <3>1. p \in Alive(i) /\ Roster(i)[p] = "Alive"
      BY <2>3 DEF Alive
    <3>2. PICK o \in Members(i) : sessions[i][o].id = p
      BY <3>1 DEF HostIInv, RosterInv
    <3>3. SimulationActive(sessions[i][o])
      BY <3>1, <3>2, SessionStands
    <3>4. Ticked(i, o, d) = sessions[i][o]
      BY <1>6 DEF Ticked
    <3>5. ~Retires(i, o, d)
      BY <3>3, <3>4 DEF Retires, IsResolved, SimulationActive
    <3>. QED
      BY <3>2, <3>5, <1>2, <2>1
  <2>. QED
    BY <2>1, <2>3, <2>4 DEF HostIInv, RosterInv
<1>. QED
  BY <1>4, <1>5, <1>6

LEMMA TickKeeps ==
    ASSUME HostIInv, Tick PROVE HostIInv'
<1>1. PICK deaths \in [Ids -> SUBSET SessionIds] :
         /\ TickEffect(deaths)
         /\ server = "Serving" /\ server' = server
         /\ UNCHANGED <<next_instance_id, routes, connections, conn, closes>>
         /\ scheduler_tick' = scheduler_tick + 1 /\ scheduler_tick < MaxTicks
         /\ fault' = TickFault(deaths)
         /\ \A f \in {sessions', forming', clock', next_session_id', iphase', players'} :
               f = [i \in Ids |-> f[i]]
         /\ owner_index' = [o \in Owners |->
               IF \E i \in Ids : Retires(i, o, deaths[i]) THEN NoInstance ELSE owner_index[o]]
         /\ outcome' = [o \in Owners |->
               IF /\ owner_index[o] # NoInstance
                  /\ IsResolved(Ticked(owner_index[o], o, deaths[owner_index[o]]))
               THEN Ticked(owner_index[o], o, deaths[owner_index[o]]).phase
               ELSE outcome[o]]
  BY TickHasEffect
<1>2. \A i \in Ids :
         /\ deaths[i] \in SUBSET Mortal(i)
         /\ Members(i)' = {o \in Members(i) : ~Retires(i, o, deaths[i])}
         /\ \A o \in Members(i)' : sessions'[i][o] = Ticked(i, o, deaths[i])
         /\ Members(i)' # {} => ~Closes(i, deaths[i])
         /\ Closes(i, deaths[i]) => Members(i)' = {}
         /\ sessions'[i] \in [Owners -> Session \cup {NoSession}]
  BY <1>1, TickMembers DEF TickEffect
<1>3. \A i \in Ids : \A o \in Members(i) : o \in Owners /\ owner_index[o] = i
  BY DEF HostIInv, OwnerIndexAgrees, Members
<1>4. HostNeverFails'
  BY <1>1, <1>2, TickIsSafe DEF HostNeverFails, TickFault
<1>5. SeatInv' /\ RosterInv'
  BY <1>1, TickSeats, TickRoster
<1>6. FreeInv'
  <2>. SUFFICES ASSUME NEW i \in Ids
                PROVE  /\ iphase'[i] = "Free" => clock'[i] = 0 /\ Members(i)' = {}
                       /\ i >= next_instance_id => iphase'[i] = "Free"
    BY <1>1 DEF FreeInv
  <2>1. /\ clock'[i] = IF Closes(i, deaths[i]) THEN 0
                       ELSE IF Steps(i) THEN clock[i] + 1 ELSE clock[i]
        /\ iphase'[i] = IF Closes(i, deaths[i]) THEN "Free" ELSE iphase[i]
    BY <1>1 DEF TickEffect
  <2>2. CASE Closes(i, deaths[i])
    BY <2>1, <2>2, <1>2
  <2>3. CASE ~Closes(i, deaths[i])
    <3>1. iphase[i] = "Free" => ~Steps(i)
      BY DEF Steps
    <3>2. iphase[i] = "Free" => clock[i] = 0 /\ Members(i) = {}
      BY DEF HostIInv, FreeInv
    <3>3. i >= next_instance_id => iphase[i] = "Free"
      BY DEF HostIInv, FreeInv
    <3>. QED
      BY <2>1, <2>3, <3>1, <3>2, <3>3, <1>2
  <2>. QED
    BY <2>2, <2>3
<1>7. OwnerIndexAgrees'
  <2>. SUFFICES ASSUME NEW o \in Owners, NEW i \in Ids
                PROVE  owner_index'[o] = i <=> o \in Members(i)'
    BY DEF OwnerIndexAgrees
  <2>1. owner_index'[o] = IF \E j \in Ids : Retires(j, o, deaths[j]) THEN NoInstance
                                                                     ELSE owner_index[o]
    BY <1>1
  <2>2. \A j \in Ids : Retires(j, o, deaths[j]) => o \in Members(j)
    BY DEF Retires
  <2>3. owner_index[o] = i <=> o \in Members(i)
    BY DEF HostIInv, OwnerIndexAgrees
  <2>4. i # NoInstance
    BY Numbers
  <2>. QED
    BY <2>1, <2>2, <2>3, <2>4, <1>2, <1>3
<1>8. ASSUME NEW i \in Ids, NEW o \in Members(i)'
      PROVE  /\ o \in Members(i) /\ o \in Owners /\ owner_index[o] = i
             /\ sessions'[i][o] = Ticked(i, o, deaths[i])
             /\ ~Closes(i, deaths[i])
             /\ \/ /\ sessions'[i][o] = sessions[i][o]
                   /\ Steps(i) => /\ Fallen(i, deaths[i])[sessions[i][o].id] # "Dead"
                                  /\ ~Recalls(sessions[i][o], i, deaths[i])
                \/ /\ sessions'[i][o].phase \in {"Dead", "Recalled"}
                   /\ sessions'[i][o].transport = NoTransport
  <2>1. o \in Members(i) /\ sessions'[i][o] = Ticked(i, o, deaths[i])
    BY <1>2
  <2>. QED
    BY <2>1, <1>1, <1>2, <1>3, TickedIs
<1>9. VoiceInv'
  <2>. SUFFICES ASSUME NEW i \in Ids, NEW o \in Members(i)'
                PROVE  /\ sessions'[i][o].transport # NoTransport =>
                             OwnerOf[sessions'[i][o].transport] = o
                       /\ sessions'[i][o].phase = "Connected" =>
                             /\ sessions'[i][o].transport # NoTransport
                             /\ routes'[o] = sessions'[i][o].transport
                       /\ sessions'[i][o].phase = "LinkLost" =>
                             /\ sessions'[i][o].transport = NoTransport
                             /\ routes'[o] = NoTransport
                             /\ ~sessions'[i][o].held
    BY DEF VoiceInv
  <2>1. CASE sessions'[i][o] = sessions[i][o]
    BY <2>1, <1>1, <1>8 DEF HostIInv, VoiceInv
  <2>2. CASE /\ sessions'[i][o].phase \in {"Dead", "Recalled"}
             /\ sessions'[i][o].transport = NoTransport
    BY <2>2
  <2>. QED
    BY <2>1, <2>2, <1>8
<1>10. DeadlineKept'
  <2>. SUFFICES ASSUME NEW i \in Ids, NEW o \in Members(i)', sessions'[i][o].phase = "LinkLost"
                PROVE  /\ clock'[i] < sessions'[i][o].recall
                       /\ sessions'[i][o].recall <= clock'[i] + LinkLostTicks
    BY DEF DeadlineKept
  <2>1. /\ sessions'[i][o] = sessions[i][o] /\ o \in Members(i) /\ ~Closes(i, deaths[i])
        /\ Steps(i) => /\ Fallen(i, deaths[i])[sessions[i][o].id] # "Dead"
                       /\ ~Recalls(sessions[i][o], i, deaths[i])
    BY <1>8
  <2>2. clock'[i] = IF Steps(i) THEN clock[i] + 1 ELSE clock[i]
    BY <2>1, <1>1 DEF TickEffect
  <2>3. /\ clock[i] < sessions[i][o].recall /\ clock[i] \in Nat
        /\ sessions[i][o].recall <= clock[i] + LinkLostTicks
        /\ sessions[i][o].recall \in Nat
    BY <2>1, MemberIsSession, SessionFields, WaitsUnformed DEF HostIInv, DeadlineKept
  <2>4. Steps(i) => ~(clock[i] + 1 >= sessions[i][o].recall)
    BY <2>1 DEF Recalls
  <2>. QED
    BY <2>1, <2>2, <2>3, <2>4, Numbers
<1>11. OutcomeInv'
  <2>. SUFFICES ASSUME NEW i \in Ids, NEW o \in Members(i)',
                       sessions'[i][o].phase \in {"Recalled", "Dead"}
                PROVE  outcome'[o] = sessions'[i][o].phase
    BY DEF OutcomeInv
  <2>1. /\ owner_index[o] = i /\ i # NoInstance /\ o \in Owners
        /\ sessions'[i][o] = Ticked(i, o, deaths[i])
    BY <1>8, Numbers
  <2>2. IsResolved(Ticked(i, o, deaths[i]))
    BY <2>1 DEF IsResolved
  <2>. QED
    BY <2>1, <2>2, <1>1
<1>12. RoutesAreServed'
  BY <1>1 DEF HostIInv, RoutesAreServed
<1>13. HostTypeOK'
  <2>1. \A i \in Ids :
           /\ clock'[i] \in Nat
           /\ forming'[i] \in 0 .. FormationTicks
           /\ next_session_id'[i] \in 1 .. Capacity + 1
           /\ iphase'[i] \in {"Free", "Active", "Draining"}
    <3>. TAKE i \in Ids
    <3>1. /\ forming'[i] = IF iphase[i] = "Active" /\ Waits(i) /\ Members(i) # {}
                           THEN forming[i] - 1
                           ELSE IF Closes(i, deaths[i]) THEN FormationTicks ELSE forming[i]
          /\ clock'[i] = IF Closes(i, deaths[i]) THEN 0
                         ELSE IF Steps(i) THEN clock[i] + 1 ELSE clock[i]
          /\ next_session_id'[i] = IF Closes(i, deaths[i]) THEN 1 ELSE next_session_id[i]
          /\ iphase'[i] = IF Closes(i, deaths[i]) THEN "Free" ELSE iphase[i]
      BY <1>1 DEF TickEffect
    <3>2. /\ clock[i] \in Nat /\ forming[i] \in 0 .. FormationTicks
          /\ next_session_id[i] \in 1 .. Capacity + 1
          /\ iphase[i] \in {"Free", "Active", "Draining"}
      BY DEF HostIInv, HostTypeOK
    <3>3. Waits(i) /\ Members(i) # {} => forming[i] > 0
      BY DEF Waits
    <3>. QED
      BY <3>1, <3>2, <3>3, Numbers
  <2>2. \A i \in Ids :
           players'[i] \in [SessionIds -> {"Absent", "Alive", "Dead", "Recalled"}]
    <3>. TAKE i \in Ids
    <3>. DEFINE R(p) == \E o \in Members(i) : /\ sessions[i][o].id = p
                                             /\ Recalls(sessions[i][o], i, deaths[i])
                V == {"Absent", "Alive", "Dead", "Recalled"}
    <3>1. players'[i] = IF Closes(i, deaths[i]) THEN [p \in SessionIds |-> "Absent"]
              ELSE IF ~Steps(i) THEN players[i]
              ELSE [p \in SessionIds |-> IF R(p) THEN "Recalled" ELSE Fallen(i, deaths[i])[p]]
      BY <1>1 DEF TickEffect
    <3>2. players[i] \in [SessionIds -> V] /\ Roster(i) \in [SessionIds -> V]
      BY RosterType DEF HostIInv, HostTypeOK
    <3>3. \A p \in SessionIds : Fallen(i, deaths[i])[p] \in V
      BY <3>2 DEF Fallen
    <3>. HIDE DEF R
    <3>4. [p \in SessionIds |-> IF R(p) THEN "Recalled" ELSE Fallen(i, deaths[i])[p]]
             \in [SessionIds -> V]
      BY <3>3
    <3>5. [p \in SessionIds |-> "Absent"] \in [SessionIds -> V]
      OBVIOUS
    <3>. QED
      BY <3>1, <3>2, <3>4, <3>5
  <2>3. owner_index' \in [Owners -> Ids \cup {NoInstance}]
    BY <1>1 DEF HostIInv, HostTypeOK
  <2>4. outcome' \in [Owners -> {"None", "Recalled", "Dead"}]
    <3>. SUFFICES ASSUME NEW o \in Owners, owner_index[o] # NoInstance,
                         IsResolved(Ticked(owner_index[o], o, deaths[owner_index[o]]))
                  PROVE  Ticked(owner_index[o], o, deaths[owner_index[o]]).phase
                            \in {"Recalled", "Dead"}
      BY <1>1 DEF HostIInv, HostTypeOK
    <3>1. owner_index[o] \in Ids /\ o \in Members(owner_index[o])
      BY OwnerIsMember
    <3>2. Ticked(owner_index[o], o, deaths[owner_index[o]]).phase # "Closed"
      BY <3>1, <1>1, <1>2, TickedIs
    <3>. QED
      BY <3>2 DEF IsResolved
  <2>5. scheduler_tick' \in 0 .. MaxTicks
    BY <1>1, HostAssumption DEF HostIInv, HostTypeOK
  <2>6. sessions' \in [Ids -> [Owners -> Session \cup {NoSession}]]
    <3>1. sessions' = [i \in Ids |-> sessions'[i]]
      BY <1>1
    <3>. QED
      BY <3>1, <1>2
  <2>7. /\ clock' = [i \in Ids |-> clock'[i]] /\ forming' = [i \in Ids |-> forming'[i]]
        /\ next_session_id' = [i \in Ids |-> next_session_id'[i]]
        /\ iphase' = [i \in Ids |-> iphase'[i]] /\ players' = [i \in Ids |-> players'[i]]
    BY <1>1
  <2>8. /\ clock' \in [Ids -> Nat] /\ forming' \in [Ids -> 0 .. FormationTicks]
        /\ next_session_id' \in [Ids -> 1 .. Capacity + 1]
        /\ iphase' \in [Ids -> {"Free", "Active", "Draining"}]
        /\ players' \in [Ids -> [SessionIds -> {"Absent", "Alive", "Dead", "Recalled"}]]
    BY <2>1, <2>2, <2>7
  <2>9. fault' \in {"None", "HostState", "MissingPress"}
    BY <1>1 DEF TickFault
  <2>. QED
    BY <2>3, <2>4, <2>5, <2>6, <2>8, <2>9, <1>1 DEF HostIInv, HostTypeOK
<1>. QED
  BY <1>4, <1>5, <1>6, <1>7, <1>9, <1>10, <1>11, <1>12, <1>13 DEF HostIInv

\* A recall is at the tick of its deadline.
LEMMA TickRecalls ==
    ASSUME HostIInv, Tick, NEW o \in Owners,
           outcome'[o] = "Recalled", outcome[o] # "Recalled"
    PROVE  /\ SessionOf(o).phase = "LinkLost"
           /\ clock[owner_index[o]] + 1 = SessionOf(o).recall
<1>1. PICK deaths \in [Ids -> SUBSET SessionIds] :
         /\ TickEffect(deaths) /\ server = "Serving"
         /\ outcome' = [q \in Owners |->
               IF /\ owner_index[q] # NoInstance
                  /\ IsResolved(Ticked(owner_index[q], q, deaths[owner_index[q]]))
               THEN Ticked(owner_index[q], q, deaths[owner_index[q]]).phase
               ELSE outcome[q]]
  BY TickHasEffect
<1>. DEFINE i == owner_index[o]
            s == sessions[i][o]
            d == deaths[i]
<1>2. i # NoInstance /\ Ticked(i, o, d).phase = "Recalled"
  BY <1>1
<1>3. i \in Ids /\ o \in Members(i) /\ SessionOf(o) = s /\ s \in Session
  BY <1>2, OwnerIsMember
<1>4. d \in SUBSET Mortal(i)
  BY <1>1, <1>3 DEF TickEffect
<1>5. s.phase # "Recalled"
  BY <1>3 DEF HostIInv, OutcomeInv
<1>6. Steps(i) /\ Recalls(s, i, d)
  BY <1>1, <1>2, <1>3, <1>4, <1>5, TickedIs
<1>7. s.phase = "LinkLost" /\ clock[i] + 1 >= s.recall
  BY <1>6 DEF Recalls
<1>8. clock[i] < s.recall /\ clock[i] \in Nat /\ s.recall \in Nat
  BY <1>3, <1>7, SessionFields, WaitsUnformed DEF HostIInv, DeadlineKept
<1>. HIDE DEF s, i
<1>9. clock[i] + 1 = s.recall
  BY <1>7, <1>8
<1>. QED
  BY <1>3, <1>7, <1>9 DEF i

-----------------------------------------------------------------------------
(* The beginning and the end of the server                                   *)

LEMMA EmptyHost ==
    ASSUME HostAssumption,
           clock = [i \in Ids |-> 0], iphase = [i \in Ids |-> "Free"],
           next_session_id = [i \in Ids |-> 1],
           sessions = [i \in Ids |-> [o \in Owners |-> NoSession]],
           owner_index = [o \in Owners |-> NoInstance],
           routes = [o \in Owners |-> NoTransport], fault = "None"
    PROVE  /\ SeatInv /\ FreeInv /\ OwnerIndexAgrees /\ RosterInv /\ VoiceInv
           /\ RoutesAreServed /\ DeadlineKept /\ OutcomeInv /\ HostNeverFails
<1>1. \A i \in Ids : Members(i) = {}
  BY DEF Members
<1>2. IsFiniteSet({}) /\ Cardinality({}) = 0
  BY FS_EmptySet
<1>3. SeatInv
  <2>1. \A i \in Ids : IsFiniteSet(Members(i)) /\ Cardinality(Members(i)) = 0
    BY <1>1, <1>2
  <2>. QED
    BY <1>1, <2>1 DEF SeatInv
<1>4. FreeInv /\ OwnerIndexAgrees
  BY <1>1, Numbers DEF FreeInv, OwnerIndexAgrees
<1>5. RosterInv
  <2>1. \A i \in Ids : \A p \in SessionIds : Roster(i)[p] = "Absent"
    BY <1>1 DEF Roster
  <2>. QED
    BY <1>1, <2>1 DEF RosterInv, Alive
<1>6. VoiceInv /\ DeadlineKept /\ OutcomeInv
  BY <1>1 DEF VoiceInv, DeadlineKept, OutcomeInv
<1>7. RoutesAreServed /\ HostNeverFails
  BY DEF RoutesAreServed, HostNeverFails
<1>. QED
  BY <1>3, <1>4, <1>5, <1>6, <1>7

LEMMA InitHost == HostInit => HostIInv
<1>. SUFFICES ASSUME HostInit PROVE HostIInv
  OBVIOUS
<1>1. HostTypeOK
  <2>1. /\ 1 \in 1 .. Capacity + 1 /\ 1 \in 1 .. MaxInstances + 1
        /\ 0 \in 0 .. MaxTicks /\ FormationTicks \in 0 .. FormationTicks
    BY HostAssumption
  <2>2. /\ iphase \in [Ids -> {"Free", "Active", "Draining"}] /\ clock \in [Ids -> Nat]
        /\ forming \in [Ids -> 0 .. FormationTicks]
        /\ next_session_id \in [Ids -> 1 .. Capacity + 1]
        /\ players \in [Ids -> [SessionIds -> {"Absent", "Alive", "Dead", "Recalled"}]]
        /\ sessions \in [Ids -> [Owners -> Session \cup {NoSession}]]
        /\ owner_index \in [Owners -> Ids \cup {NoInstance}]
    BY <2>1 DEF HostInit
  <2>3. /\ next_instance_id \in 1 .. MaxInstances + 1 /\ scheduler_tick \in 0 .. MaxTicks
        /\ server \in {"Serving", "Draining", "Closed", "Finished"} /\ fault = "None"
    BY <2>1 DEF HostInit
  <2>4. /\ routes \in [Owners -> Transports \cup {NoTransport}] /\ connections \subseteq Transports
        /\ conn \in [Transports -> {"None", "Open", "Late", "Closed", "Done"}]
        /\ closes \in [Transports -> Transports \cup {NoTransport}]
        /\ outcome \in [Owners -> {"None", "Recalled", "Dead"}]
    BY DEF HostInit
  <2>. QED
    BY <2>2, <2>3, <2>4 DEF HostTypeOK
<1>2. /\ SeatInv /\ FreeInv /\ OwnerIndexAgrees /\ RosterInv /\ VoiceInv
      /\ RoutesAreServed /\ DeadlineKept /\ OutcomeInv /\ HostNeverFails
  BY HostAssumption, EmptyHost DEF HostInit
<1>. QED
  BY <1>1, <1>2 DEF HostIInv

LEMMA FinishKeeps ==
    ASSUME HostIInv, FinishShutdown PROVE HostIInv'
<1>1. /\ clock' = [i \in Ids |-> 0] /\ iphase' = [i \in Ids |-> "Free"]
      /\ next_session_id' = [i \in Ids |-> 1]
      /\ sessions' = [i \in Ids |-> [o \in Owners |-> NoSession]]
      /\ owner_index' = [o \in Owners |-> NoInstance]
      /\ routes' = [o \in Owners |-> NoTransport]
      /\ forming' = [i \in Ids |-> FormationTicks]
      /\ players' = [i \in Ids |-> [p \in SessionIds |-> "Absent"]]
      /\ connections' = {} /\ server' = "Finished"
      /\ UNCHANGED <<next_instance_id, scheduler_tick, fault, conn, closes, outcome>>
  BY DEF FinishShutdown, taskVars
<1>2. HostTypeOK'
  BY <1>1, HostAssumption DEF HostIInv, HostTypeOK
<1>3. \A i \in Ids : Members(i)' = {}
  BY <1>1 DEF Members
<1>4. SeatInv'
  <2>1. IsFiniteSet({}) /\ Cardinality({}) = 0
    BY FS_EmptySet
  <2>2. \A i \in Ids : IsFiniteSet(Members(i)') /\ Cardinality(Members(i)') = 0
    BY <1>3, <2>1
  <2>. QED
    BY <1>1, <1>3, <2>2 DEF SeatInv
<1>5. FreeInv' /\ OwnerIndexAgrees'
  BY <1>1, <1>3, Numbers DEF FreeInv, OwnerIndexAgrees
<1>6. RosterInv'
  BY <1>1 DEF RosterInv
<1>7. VoiceInv' /\ DeadlineKept' /\ OutcomeInv'
  BY <1>3 DEF VoiceInv, DeadlineKept, OutcomeInv
<1>8. RoutesAreServed' /\ HostNeverFails'
  BY <1>1 DEF HostIInv, RoutesAreServed, HostNeverFails
<1>. QED
  BY <1>2, <1>4, <1>5, <1>6, <1>7, <1>8 DEF HostIInv

LEMMA BeginShutdownKeeps ==
    ASSUME HostIInv, BeginShutdown PROVE HostIInv'
<1>. DEFINE n(i, o) == [Ended(sessions[i][o], "Closed") EXCEPT !.held = FALSE]
<1>1. /\ server' = "Draining"
      /\ iphase' = [i \in Ids |-> IF iphase[i] = "Active" THEN "Draining" ELSE iphase[i]]
      /\ sessions' = [i \in Ids |-> [o \in Owners |->
            IF o \in Members(i) THEN n(i, o) ELSE NoSession]]
      /\ UNCHANGED <<clock, forming, players, next_session_id, owner_index>>
      /\ UNCHANGED <<next_instance_id, scheduler_tick, fault, routes, connections>>
      /\ UNCHANGED <<conn, closes, outcome>>
  BY DEF BeginShutdown, schedulerVars, runtimeVars, taskVars
<1>2. ASSUME NEW i \in Ids, NEW o \in Members(i)
      PROVE  /\ n(i, o) \in Session /\ n(i, o).id = sessions[i][o].id
             /\ n(i, o).phase = "Closed" /\ n(i, o).transport = NoTransport
  <2>1. sessions[i][o] \in Session
    BY MemberIsSession DEF HostIInv
  <2>2. /\ Ended(sessions[i][o], "Closed") \in Session
        /\ Ended(sessions[i][o], "Closed").id = sessions[i][o].id
        /\ Ended(sessions[i][o], "Closed").phase = "Closed"
        /\ Ended(sessions[i][o], "Closed").transport = NoTransport
    BY <2>1, EndedFields
  <2>. QED
    BY <2>2 DEF Session
<1>. HIDE DEF n
<1>3. \A i \in Ids, o \in Owners :
         sessions'[i][o] = IF o \in Members(i) THEN n(i, o) ELSE NoSession
  BY <1>1
<1>4. \A i \in Ids : Members(i)' = Members(i)
  BY <1>2, <1>3, SessionFields DEF Members
<1>5. \A i \in Ids : \A o \in Members(i) :
         /\ sessions'[i][o].id = sessions[i][o].id
         /\ sessions'[i][o].phase = "Closed" /\ sessions'[i][o].transport = NoTransport
  BY <1>2, <1>3 DEF Members
<1>6. HostTypeOK'
  <2>1. sessions' \in [Ids -> [Owners -> Session \cup {NoSession}]]
    BY <1>1, <1>2
  <2>2. iphase' \in [Ids -> {"Free", "Active", "Draining"}]
    BY <1>1 DEF HostIInv, HostTypeOK
  <2>. QED
    BY <1>1, <2>1, <2>2 DEF HostIInv, HostTypeOK
<1>7. SeatInv'
  <2>1. clock' = clock /\ next_session_id' = next_session_id
    BY <1>1
  <2>2. ASSUME NEW i \in Ids
        PROVE  /\ Members(i)' = Members(i)
               /\ \A o \in Members(i) : sessions'[i][o].id = sessions[i][o].id
    BY <1>4, <1>5
  <2>3. ASSUME NEW i \in Ids
        PROVE  /\ clock'[i] = 0 => /\ IsFiniteSet(Members(i)')
                                   /\ Cardinality(Members(i)') + 1 = next_session_id'[i]
               /\ \A o \in Members(i)' : sessions'[i][o].id < next_session_id'[i]
               /\ \A o, q \in Members(i)' : sessions'[i][o].id = sessions'[i][q].id => o = q
    <3>1. clock[i] = 0 => /\ IsFiniteSet(Members(i))
                          /\ Cardinality(Members(i)) + 1 = next_session_id[i]
      BY DEF HostIInv, SeatInv
    <3>2. /\ \A o \in Members(i) : sessions[i][o].id < next_session_id[i]
          /\ \A o, q \in Members(i) : sessions[i][o].id = sessions[i][q].id => o = q
      BY DEF HostIInv, SeatInv
    <3>. QED
      BY <2>1, <2>2, <3>1, <3>2
  <2>. QED
    BY <2>3 DEF SeatInv
<1>8. FreeInv' /\ OwnerIndexAgrees'
  BY <1>1, <1>4 DEF HostIInv, FreeInv, OwnerIndexAgrees
<1>9. RosterInv'
  BY <1>1 DEF RosterInv
<1>10. VoiceInv' /\ DeadlineKept' /\ OutcomeInv'
  BY <1>4, <1>5 DEF VoiceInv, DeadlineKept, OutcomeInv
<1>11. RoutesAreServed' /\ HostNeverFails'
  BY <1>1 DEF HostIInv, RoutesAreServed, HostNeverFails
<1>. QED
  BY <1>6, <1>7, <1>8, <1>9, <1>10, <1>11 DEF HostIInv

LEMMA StepKeepsHost == HostIInv /\ [HostNext]_hostVars => HostIInv'
<1>. SUFFICES ASSUME HostIInv, [HostNext]_hostVars PROVE HostIInv'
  OBVIOUS
<1>1. ASSUME NEW t \in Transports, NEW r \in Requests,
             \/ Refuse(t, r) \/ Reject(t, r) \/ Reattach(t, r) \/ Leave(t, r)
             \/ Join(t, r) \/ Play(t, r) \/ DropInput(t, r)
      PROVE  HostIInv'
  BY <1>1, QuietSteps, ReattachKeeps, LeaveKeeps, JoinKeeps, PlayKeeps
<1>2. ASSUME NEW t \in Transports, Connect(t) \/ Drop(t) \/ TaskStep(t)
      PROVE  HostIInv'
  BY <1>2, QuietSteps, DetachKeeps DEF TaskStep
<1>3. CASE Tick
  BY <1>3, TickKeeps
<1>4. CASE BeginShutdown \/ CloseEndpoint \/ FinishShutdown
  BY <1>4, BeginShutdownKeeps, EndpointCloses, FinishKeeps
<1>5. CASE UNCHANGED hostVars
  <2>1. /\ UNCHANGED <<instanceVars, schedulerVars, sessions, fault, outcome, runtimeVars>>
        /\ UNCHANGED <<server, conn, closes>>
    BY <1>5 DEF hostVars, instanceVars, schedulerVars, runtimeVars
  <2>. QED
    BY <2>1, TasksAlone DEF HostIInv, HostTypeOK
<1>. QED
  BY <1>1, <1>2, <1>3, <1>4, <1>5 DEF HostNext, Finished

-----------------------------------------------------------------------------
(* Presses: what the input of a session and its combat know of each other    *)

\* A session that would repeat a press has come to another transport since.
PressInv ==
    /\ PressTypeOK
    /\ \A i \in Ids : \A o \in Members(i) :
          RepeatsPress(sessions[i][o], o) => presses[o].relinked
    /\ TickFailsOnlyOnRepeat

\* Members whose attack is held only as before, and whose presses stay
LEMMA PressesStay ==
    ASSUME HostIInv, PressInv, HostIInv', UNCHANGED <<presses, fault>>,
           \A i \in Ids : \A o \in Members(i)' :
              sessions'[i][o].held => o \in Members(i) /\ sessions[i][o].held
    PROVE  PressInv'
<1>1. PressTypeOK'
  BY DEF PressInv, PressTypeOK
<1>2. TickFailsOnlyOnRepeat'
  BY DEF PressInv, TickFailsOnlyOnRepeat, HostIInv
<1>3. ASSUME NEW i \in Ids, NEW o \in Members(i)', RepeatsPress(sessions[i][o], o)'
      PROVE  presses'[o].relinked
  BY <1>3 DEF PressInv, RepeatsPress
<1>. QED
  BY <1>1, <1>2, <1>3 DEF PressInv

\* The presses of one owner change, and the session with them; what repeats
\* afterwards came to another transport.
LEMMA OnePress ==
    ASSUME HostIInv, PressInv, HostIInv', NEW i \in Ids, NEW o \in Owners, NEW n, NEW v,
           owner_index'[o] = i,
           sessions' = [sessions EXCEPT ![i][o] = n], presses' = [presses EXCEPT ![o] = v],
           fault = "None", fault' = "None",
           v \in [number : {"None", "New", "Taken"}, fired : BOOLEAN, relinked : BOOLEAN],
           n.held /\ ~v.fired /\ v.number = "Taken" => v.relinked
    PROVE  PressInv'
<1>1. presses \in [Owners -> [number : {"None", "New", "Taken"}, fired : BOOLEAN, relinked : BOOLEAN]]
  BY DEF PressInv, PressTypeOK
<1>2. PressTypeOK'
  BY <1>1 DEF PressTypeOK
<1>3. TickFailsOnlyOnRepeat'
  BY DEF TickFailsOnlyOnRepeat, HostIInv
<1>4. ASSUME NEW j \in Ids, NEW q \in Members(j)', RepeatsPress(sessions[j][q], q)'
      PROVE  presses'[q].relinked
  <2>1. q \in Owners /\ sessions'[j][q] # NoSession
    BY <1>4 DEF Members
  <2>2. sessions'[j][q] = IF j = i /\ q = o THEN n ELSE sessions[j][q]
    <3>1. sessions \in [Ids -> [Owners -> Session \cup {NoSession}]]
      BY DEF HostIInv, HostTypeOK
    <3>2. sessions' = [sessions EXCEPT ![i] = [sessions[i] EXCEPT ![o] = n]]
      BY <3>1
    <3>. QED
      BY <2>1, <3>1, <3>2
  <2>3. owner_index'[q] = j
    BY <1>4, <2>1 DEF HostIInv, OwnerIndexAgrees
  <2>4. CASE q = o
    <3>1. presses'[q] = v /\ sessions'[j][q] = n
      BY <2>2, <2>3, <2>4, <1>1
    <3>. QED
      BY <1>4, <3>1 DEF RepeatsPress
  <2>5. CASE q # o
    <3>1. presses'[q] = presses[q] /\ sessions'[j][q] = sessions[j][q] /\ q \in Members(j)
      BY <2>1, <2>2, <2>5, <1>1 DEF Members
    <3>. QED
      BY <1>4, <3>1 DEF RepeatsPress, PressInv
  <2>. QED
    BY <2>4, <2>5
<1>. QED
  BY <1>2, <1>3, <1>4 DEF PressInv

LEMMA PlayPress ==
    ASSUME HostIInv, PressInv, HostIInv', NEW t \in Transports, NEW r \in Requests, Play(t, r)
    PROVE  PressInv'
<1>. DEFINE o == OwnerOf[t]
            s == SessionOf(o)
            n == [s EXCEPT !.held = IF r.kind = "Gameplay" THEN @ ELSE r.kind # "Release"]
            v == IF r.kind # "Press" THEN presses[o]
                 ELSE [presses[o] EXCEPT !.number = "New", !.relinked = FALSE]
<1>1. /\ o \in Owners /\ Bound(s, t) /\ fault = "None" /\ fault' = fault
      /\ owner_index' = owner_index
      /\ sessions' = [sessions EXCEPT ![owner_index[o]][o] = n]
      /\ r.kind = "Hold" => presses[o].number # "None" /\ (s.held \/ presses[o].relinked)
      /\ presses' = IF r.kind # "Press" THEN presses
                    ELSE [presses EXCEPT ![o].number = "New", ![o].relinked = FALSE]
      /\ r.kind \in {"Gameplay", "Press", "Hold", "Release"}
  BY HostAssumption DEF Play, SetSession, Handles, schedulerVars, Inputs
<1>2. presses \in [Owners -> [number : {"None", "New", "Taken"}, fired : BOOLEAN, relinked : BOOLEAN]]
  BY DEF PressInv, PressTypeOK
<1>3. presses' = [presses EXCEPT ![o] = v]
  BY <1>1, <1>2
<1>4. /\ owner_index[o] \in Ids /\ s \in Session
      /\ s = sessions[owner_index[o]][o] /\ o \in Members(owner_index[o])
  BY <1>1, BoundIsKnown, OwnerIsMember
<1>5. v \in [number : {"None", "New", "Taken"}, fired : BOOLEAN, relinked : BOOLEAN]
  BY <1>1, <1>2
<1>6. n.held = IF r.kind = "Gameplay" THEN s.held ELSE r.kind # "Release"
  BY <1>4, SessionFields DEF Session
<1>7. s.held /\ ~presses[o].fired /\ presses[o].number = "Taken" => presses[o].relinked
  BY <1>4 DEF PressInv, RepeatsPress
<1>8. ASSUME n.held, ~v.fired, v.number = "Taken" PROVE v.relinked
  <2>1. CASE r.kind = "Press"
    BY <1>8, <1>1, <1>2, <2>1
  <2>2. CASE r.kind # "Press"
    BY <1>8, <1>1, <1>6, <1>7, <2>2
  <2>. QED
    BY <2>1, <2>2
<1>. HIDE DEF n, v, s, o
<1>. QED
  BY <1>1, <1>3, <1>4, <1>5, <1>8, OnePress

LEMMA ReattachPress ==
    ASSUME HostIInv, PressInv, HostIInv', NEW t \in Transports, NEW r \in Requests, Reattach(t, r)
    PROVE  PressInv'
<1>. DEFINE o == OwnerOf[t]
            s == SessionOf(o)
            x == presses[o].relinked \/ Invalidated(s, t) # NoTransport \/ s.phase = "LinkLost"
            n == Rebind(s, t, r)
            v == [presses[o] EXCEPT !.relinked = x]
<1>1. /\ o \in Owners /\ owner_index[o] # NoInstance /\ fault = "None" /\ fault' = fault
      /\ owner_index' = owner_index
      /\ sessions' = [sessions EXCEPT ![owner_index[o]][o] = n]
      /\ presses' = [presses EXCEPT ![o].relinked = x]
  BY HostAssumption DEF Reattach, SetSession, Controls, Handles, schedulerVars
<1>2. presses \in [Owners -> [number : {"None", "New", "Taken"}, fired : BOOLEAN, relinked : BOOLEAN]]
  BY DEF PressInv, PressTypeOK
<1>3. x \in BOOLEAN
  BY <1>1, <1>2
<1>4. presses' = [presses EXCEPT ![o] = v]
  BY <1>1, <1>2
<1>5. /\ owner_index[o] \in Ids /\ s \in Session
      /\ s = sessions[owner_index[o]][o] /\ o \in Members(owner_index[o])
  BY <1>1, OwnerIsMember
<1>6. n.held = s.held
  BY <1>5 DEF Rebind, Session
<1>7. s.held /\ ~presses[o].fired /\ presses[o].number = "Taken" => presses[o].relinked
  BY <1>5 DEF PressInv, RepeatsPress
<1>8. presses[o] \in [number : {"None", "New", "Taken"}, fired : BOOLEAN, relinked : BOOLEAN]
  BY <1>1, <1>2
<1>9. /\ v \in [number : {"None", "New", "Taken"}, fired : BOOLEAN, relinked : BOOLEAN]
      /\ v.fired = presses[o].fired /\ v.number = presses[o].number
      /\ presses[o].relinked => v.relinked
  BY <1>3, <1>8
<1>. HIDE DEF n, v, s, o
<1>. QED
  BY <1>1, <1>4, <1>5, <1>6, <1>7, <1>9, OnePress

LEMMA JoinPress ==
    ASSUME HostIInv, PressInv, HostIInv', NEW t \in Transports, NEW r \in Requests, Join(t, r)
    PROVE  PressInv'
<1>. DEFINE o == OwnerOf[t]
            i == Admitting
            n == [id |-> next_session_id[i], transport |-> t, sequence |-> r.sequence,
                  phase |-> "Connected", recall |-> 0, held |-> FALSE]
<1>1. /\ o \in Owners /\ i \in Ids /\ fault = "None" /\ fault' = fault
      /\ owner_index' = [owner_index EXCEPT ![o] = i]
      /\ sessions' = [sessions EXCEPT ![i][o] = n]
      /\ presses' = [presses EXCEPT ![o] = NoPress]
  BY HostAssumption DEF Join, SetSession, Handles
<1>2. owner_index'[o] = i
  BY <1>1 DEF HostIInv, HostTypeOK
<1>3. NoPress \in [number : {"None", "New", "Taken"}, fired : BOOLEAN, relinked : BOOLEAN]
  BY DEF NoPress
<1>4. NoPress.number # "Taken"
  BY DEF NoPress
<1>. HIDE DEF n, i, o
<1>. QED
  BY <1>1, <1>2, <1>3, <1>4, OnePress

LEMMA TickPress ==
    ASSUME HostIInv, PressInv, HostIInv', Tick
    PROVE  PressInv'
<1>1. PICK deaths \in [Ids -> SUBSET SessionIds] :
         /\ TickEffect(deaths) /\ server = "Serving" /\ fault' = TickFault(deaths)
  BY TickHasEffect
<1>2. presses' = [o \in Owners |->
         IF ~Takes(o) THEN presses[o]
         ELSE [presses[o] EXCEPT !.number = IF @ = "New" THEN "Taken" ELSE @,
                                 !.fired = SessionOf(o).held]]
  BY DEF Tick
<1>3. presses \in [Owners -> [number : {"None", "New", "Taken"}, fired : BOOLEAN, relinked : BOOLEAN]]
  BY DEF PressInv, PressTypeOK
<1>4. ASSUME NEW i \in Ids, NEW o \in Members(i)
      PROVE  /\ o \in Owners /\ owner_index[o] = i /\ i # NoInstance
             /\ SessionOf(o) = sessions[i][o] /\ SessionOf(o).held \in BOOLEAN
  <2>1. o \in Owners /\ owner_index[o] = i
    BY <1>4 DEF HostIInv, OwnerIndexAgrees, Members
  <2>. QED
    BY <2>1, <1>4, Numbers, OwnerIsMember, SessionFields
<1>5. ASSUME NEW o \in Owners, Takes(o) PROVE SessionOf(o).held \in BOOLEAN
  BY <1>5, OwnerIsMember, SessionFields DEF Takes
<1>6. PressTypeOK'
  <2>1. ASSUME NEW o \in Owners
        PROVE  presses'[o] \in [number : {"None", "New", "Taken"}, fired : BOOLEAN, relinked : BOOLEAN]
    BY <1>2, <1>3, <1>5
  <2>. QED
    BY <1>2, <2>1 DEF PressTypeOK
<1>7. ASSUME NEW i \in Ids, NEW o \in Members(i)', RepeatsPress(sessions[i][o], o)'
      PROVE  presses'[o].relinked
  <2>1. o \in Members(i) /\ sessions'[i][o] = Ticked(i, o, deaths[i])
    BY <1>1, <1>7, TickMembers
  <2>2. sessions'[i][o].held = sessions[i][o].held
    <3>1. sessions[i][o] \in Session
      BY <2>1, MemberIsSession DEF HostIInv
    <3>2. \A phase : Ended(sessions[i][o], phase).held = sessions[i][o].held
      BY <3>1 DEF Ended, Session
    <3>. QED
      BY <2>1, <3>1, <3>2 DEF Ticked, Resolved
  <2>3. CASE Takes(o)
    <3>1. presses'[o].fired = SessionOf(o).held
      <4>1. o \in Owners /\ presses[o] \in [number : {"None", "New", "Taken"}, fired : BOOLEAN,
                                             relinked : BOOLEAN]
        BY <1>3, <1>4, <2>1
      <4>2. presses'[o] = [presses[o] EXCEPT !.number = IF @ = "New" THEN "Taken" ELSE @,
                                             !.fired = SessionOf(o).held]
        BY <1>2, <2>3, <4>1
      <4>. QED
        BY <4>1, <4>2
    <3>. QED
      BY <1>4, <1>7, <2>1, <2>2, <3>1 DEF RepeatsPress
  <2>4. CASE ~Takes(o)
    <3>1. presses'[o] = presses[o]
      BY <1>2, <1>4, <2>1, <2>4
    <3>. QED
      BY <1>7, <2>1, <2>2, <3>1 DEF RepeatsPress, PressInv
  <2>. QED
    BY <2>3, <2>4
<1>8. ASSUME fault' = "MissingPress"
      PROVE  \E o \in Owners : /\ presses'[o].number = "Taken" /\ ~presses'[o].fired
                               /\ presses'[o].relinked
  <2>1. PICK i \in Ids : CombatFails(i)
    BY <1>1, <1>8 DEF TickFault
  <2>2. PICK o \in Members(i) : RepeatsPress(sessions[i][o], o)
    BY <2>1 DEF CombatFails
  <2>3. o \in Owners /\ SessionOf(o) = sessions[i][o] /\ presses[o].relinked
    BY <1>4, <2>2 DEF PressInv
  <2>4. presses'[o] = presses[o]
    BY <1>2, <2>2, <2>3 DEF Takes
  <2>. QED
    BY <2>2, <2>3, <2>4 DEF RepeatsPress
<1>9. TickFailsOnlyOnRepeat'
  BY <1>8 DEF TickFailsOnlyOnRepeat, HostIInv
<1>. QED
  BY <1>6, <1>7, <1>9 DEF PressInv

\* A link is lost or the server closes: nothing is held that was not.
LEMMA LostPress ==
    ASSUME HostIInv, PressInv, HostIInv',
           \/ \E t \in Transports : Detach(t) \/ \E r \in Requests : Leave(t, r)
           \/ BeginShutdown \/ FinishShutdown
    PROVE  PressInv'
<1>1. UNCHANGED <<presses, fault>>
  BY DEF Detach, Leave, BeginShutdown, FinishShutdown
<1>2. ASSUME NEW o \in Owners, NEW i \in Ids, NEW n, ~n.held,
             sessions' = [sessions EXCEPT ![i][o] = n]
      PROVE  PressInv'
  <2>1. \A j \in Ids, q \in Owners :
           sessions'[j][q] = IF j = i /\ q = o THEN n ELSE sessions[j][q]
    <3>1. sessions \in [Ids -> [Owners -> Session \cup {NoSession}]]
      BY DEF HostIInv, HostTypeOK
    <3>2. sessions' = [sessions EXCEPT ![i] = [sessions[i] EXCEPT ![o] = n]]
      BY <1>2, <3>1
    <3>. QED
      BY <3>1, <3>2
  <2>2. ASSUME NEW j \in Ids, NEW q \in Members(j)', sessions'[j][q].held
        PROVE  q \in Members(j) /\ sessions[j][q].held
    BY <1>2, <2>1, <2>2 DEF Members
  <2>. QED
    BY <1>1, <2>2, PressesStay
<1>3. ASSUME NEW t \in Transports, NEW r \in Requests, Leave(t, r) PROVE PressInv'
  <2>. DEFINE o == OwnerOf[t]
  <2>1. /\ o \in Owners /\ owner_index[o] # NoInstance
        /\ sessions' = [sessions EXCEPT ![owner_index[o]][o] = LinkLost(SessionOf(o), owner_index[o])]
    BY <1>3, HostAssumption DEF Leave, Controls, SetSession
  <2>2. owner_index[o] \in Ids /\ SessionOf(o) \in Session
    BY <2>1, OwnerIsMember
  <2>3. ~LinkLost(SessionOf(o), owner_index[o]).held
    BY <2>2 DEF LinkLost, Session
  <2>. QED
    BY <2>1, <2>2, <2>3, <1>2
<1>4. ASSUME NEW t \in Transports, Detach(t) PROVE PressInv'
  <2>. DEFINE o == OwnerOf[t]
              i == owner_index[o]
  <2>1. CASE sessions' = sessions
    <3>1. \A j \in Ids : Members(j)' = Members(j)
      BY <2>1 DEF Members
    <3>. QED
      BY <1>1, <2>1, <3>1, PressesStay
  <2>2. CASE sessions' # sessions
    <3>1. Bound(SessionOf(o), t) /\ sessions' = [sessions EXCEPT ![i][o] = LinkLost(@, i)]
      BY <1>4, <2>2 DEF Detach
    <3>2. o \in Owners
      BY HostAssumption
    <3>3. i \in Ids /\ sessions[i][o] \in Session
      BY <3>1, <3>2, BoundIsKnown, OwnerIsMember
    <3>4. sessions' = [sessions EXCEPT ![i][o] = LinkLost(sessions[i][o], i)]
      BY <3>1, <3>2, <3>3 DEF HostIInv, HostTypeOK
    <3>5. ~LinkLost(sessions[i][o], i).held
      BY <3>3 DEF LinkLost, Session
    <3>. QED
      BY <3>2, <3>3, <3>4, <3>5, <1>2
  <2>. QED
    BY <2>1, <2>2
<1>5. CASE BeginShutdown \/ FinishShutdown
  <2>1. ASSUME NEW i \in Ids, NEW o \in Members(i)' PROVE ~sessions'[i][o].held
    <3>1. o \in Owners /\ sessions'[i][o] # NoSession
      BY <2>1 DEF Members
    <3>2. CASE BeginShutdown
      <4>1. o \in Members(i) /\ sessions'[i][o] = [Ended(sessions[i][o], "Closed") EXCEPT !.held = FALSE]
        BY <3>1, <3>2 DEF BeginShutdown
      <4>2. sessions[i][o] \in Session
        BY <4>1, MemberIsSession DEF HostIInv
      <4>. QED
        BY <4>1, <4>2 DEF Ended, Session
    <3>3. CASE FinishShutdown
      BY <3>1, <3>3 DEF FinishShutdown
    <3>. QED
      BY <1>5, <3>2, <3>3
  <2>. QED
    BY <1>1, <2>1, PressesStay
<1>. QED
  BY <1>3, <1>4, <1>5

LEMMA StepKeepsPress ==
    HostIInv /\ PressInv /\ [HostNext]_hostVars /\ HostIInv' => PressInv'
<1>. SUFFICES ASSUME HostIInv, PressInv, HostIInv', [HostNext]_hostVars PROVE PressInv'
  OBVIOUS
<1>1. CASE UNCHANGED <<sessions, presses, fault>>
  <2>1. \A j \in Ids : Members(j)' = Members(j)
    BY <1>1 DEF Members
  <2>. QED
    BY <1>1, <2>1, PressesStay
<1>2. CASE \E t \in Transports, r \in Requests :
              Reattach(t, r) \/ Leave(t, r) \/ Join(t, r) \/ Play(t, r)
  BY <1>2, ReattachPress, LostPress, JoinPress, PlayPress
<1>3. CASE \E t \in Transports : Detach(t)
  BY <1>3, LostPress
<1>4. CASE Tick \/ BeginShutdown \/ FinishShutdown
  BY <1>4, TickPress, LostPress
<1>5. \/ UNCHANGED <<sessions, presses, fault>>
      \/ \E t \in Transports, r \in Requests :
            Reattach(t, r) \/ Leave(t, r) \/ Join(t, r) \/ Play(t, r)
      \/ \E t \in Transports : Detach(t)
      \/ Tick \/ BeginShutdown \/ FinishShutdown
  BY DEF HostNext, Refuse, Reject, DropInput, Connect, Drop, TaskStep, CloseReplaced,
     AnswerFails, CloseEndpoint, Finished, hostVars
<1>. QED
  BY <1>1, <1>2, <1>3, <1>4, <1>5

LEMMA InitPress == HostInit => PressInv
<1>. SUFFICES ASSUME HostInit PROVE PressInv
  OBVIOUS
<1>1. presses = [o \in Owners |-> NoPress] /\ fault = "None"
  BY DEF HostInit
<1>2. \A i \in Ids : Members(i) = {}
  BY DEF HostInit, Members
<1>. QED
  BY <1>1, <1>2 DEF PressInv, PressTypeOK, NoPress, TickFailsOnlyOnRepeat, HostNeverFails

-----------------------------------------------------------------------------
(* Theorems                                                                  *)

\* The invariant of the host, for any owners, transports, instances and seats
THEOREM HostIsInductive == HostSpec => []HostIInv
<1>. QED
  BY InitHost, StepKeepsHost, PTL DEF HostSpec

\* A press that combat has taken is repeated only over a change of transport.
THEOREM PressIsInductive == HostSpec => []PressInv
<1>. QED
  BY InitPress, StepKeepsPress, HostIsInductive, PTL DEF HostSpec

\* What every handler under the runtime lock finds: owner index and directories
\* agree, a route has a task, a lost link is counted on its arena's clock.
THEOREM HostInvHolds == HostSpec => []HostInv
<1>1. HostIInv /\ PressInv => HostInv
  BY DEF HostIInv, PressInv, HostInv
<1>. QED
  BY <1>1, HostIsInductive, PressIsInductive, PTL

\* tick_and_dispatch: a tick fails only on a press number repeated in a session
\* that came to another transport, never on the host's own state and never on
\* what a player on one connection sends.
THEOREM OneCauseOfFault == HostSpec => []TickFailsOnlyOnRepeat
<1>1. PressInv => TickFailsOnlyOnRepeat
  BY DEF PressInv
<1>. QED
  BY <1>1, PressIsInductive, PTL

\* A connected character is steered by the transport its owner is routed to; one
\* whose link is lost by nobody, and nothing is held for it.
THEOREM OneVoice == HostSpec => []OneVoicePerCharacter
<1>1. HostIInv => OneVoicePerCharacter
  <2>. SUFFICES ASSUME HostIInv, NEW o \in Owners, owner_index[o] # NoInstance
                PROVE  /\ SessionOf(o).phase = "Connected" =>
                             /\ SessionOf(o).transport # NoTransport
                             /\ routes[o] = SessionOf(o).transport
                             /\ SessionOf(o).transport \in connections
                       /\ SessionOf(o).phase = "LinkLost" =>
                             /\ SessionOf(o).transport = NoTransport
                             /\ routes[o] = NoTransport
                             /\ ~SessionOf(o).held
    BY DEF OneVoicePerCharacter
  <2>1. /\ owner_index[o] \in Ids /\ o \in Members(owner_index[o])
        /\ SessionOf(o) = sessions[owner_index[o]][o]
    BY OwnerIsMember
  <2>2. routes[o] # NoTransport => routes[o] \in connections
    BY DEF HostIInv, RoutesAreServed
  <2>. QED
    BY <2>1, <2>2 DEF HostIInv, VoiceInv
<1>. QED
  BY <1>1, HostIsInductive, PTL

\* resolve_shared_post_simulation: a character is recalled on the very tick of
\* its deadline, while its link is lost.
THEOREM RecalledOnDeadline == HostSpec => RecallOnDeadline
<1>. DEFINE P == \A o \in Owners :
                    outcome'[o] = "Recalled" /\ outcome[o] # "Recalled" =>
                       /\ SessionOf(o).phase = "LinkLost"
                       /\ clock[owner_index[o]] + 1 = SessionOf(o).recall
<1>1. HostIInv /\ [HostNext]_hostVars => [P]_hostVars
  <2>. SUFFICES ASSUME HostIInv, HostNext PROVE P
    BY DEF hostVars
  <2>1. CASE Tick
    BY <2>1, TickRecalls
  <2>2. ASSUME NEW t \in Transports, NEW r \in Requests, Join(t, r) PROVE P
    <3>1. outcome' = [outcome EXCEPT ![OwnerOf[t]] = "None"]
      BY <2>2 DEF Join
    <3>. QED
      BY <3>1 DEF HostIInv, HostTypeOK
  <2>3. CASE outcome' = outcome
    BY <2>3
  <2>4. \/ Tick \/ outcome' = outcome
        \/ \E t \in Transports, r \in Requests : Join(t, r)
    BY DEF HostNext, Refuse, Reject, Reattach, Leave, Play, DropInput, Connect, Drop, TaskStep,
       CloseReplaced, AnswerFails, Detach, BeginShutdown, CloseEndpoint, FinishShutdown,
       Finished, hostVars
  <2>. QED
    BY <2>1, <2>2, <2>3, <2>4
<1>. QED
  BY <1>1, HostIsInductive, PTL DEF HostSpec, RecallOnDeadline
=============================================================================
