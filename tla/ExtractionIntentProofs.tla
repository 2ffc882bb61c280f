----------------------- MODULE ExtractionIntentProofs -----------------------
(* The extraction intent, for any frames, bounds and reserve of at least two. *)
(* The lock: whoever loads or accepts finds the actor without an intent, and  *)
(* the owner asks only while nobody does (LockInv).  So at most one frame     *)
(* passes the barrier between the taking of the lock and the acceptance, and  *)
(* what is accepted lies ahead of every frame that will ask, unless frames    *)
(* passed between the reading of the tick and the lock (AheadInv).            *)
(* Delivery: one delivery per transport generation, and generations do not    *)
(* come back (DeliveryInv).                                                   *)
EXTENDS ExtractionIntent, FiniteSetTheorems, TLAPS

OwnerStages == {"Idle", "Asking", "Planning", "Judging", "Executing", "Publishing", "Delivering",
                "Waiting", "Retiring", "Done", "Stopped"}
OwnerType ==
    [stage : OwnerStages, tick : Nat, other : BOOLEAN, seen : Nat,
     cause : {None, "Planner", "Refused", "InvalidAuthority"}]
StoredType == [frame : Frames \cup {None}, tick : Nat]
IntentType == [frame : Frames \cup {None}, tick : Nat, prepared : BOOLEAN]
BusyType ==
    [step : {None, "Taken", "Loading", "Accepting", "Preparing"}, frame : Frames \cup {None},
     transport : Nat, tick : Nat, read : Nat]
RequestType == [transport : Transports, frame : Frames, answer : {None, "Pending", "Rejected"}]
Command == [frame : Frames, transport : 1 .. generations]
DeliveryType == [transport : Nat, state : {None, "InFlight", "Succeeded"}]
HallType == [projection : Nat, consumed : BOOLEAN, refreshed : BOOLEAN]
SendingType == [transport : Transports, write : {None, "Written", "Failed"}]

BarrierType ==
    /\ acked \in 1 .. MaxTick /\ owner \in OwnerType /\ ended \in {None, "Other", "Extraction"}

ActorType ==
    /\ stored \in StoredType /\ intent \in IntentType /\ unheard \in BOOLEAN
    /\ overtaken \in BOOLEAN
    /\ busy \in BusyType /\ registered \in BOOLEAN

LinkType ==
    /\ generations \in Transports /\ transport \in 0 .. generations
    /\ committed \in BOOLEAN /\ delivery \in DeliveryType /\ sending \subseteq SendingType
    /\ results \in [Transports -> Nat]
    /\ hall \in HallType

\* Where the owner stands, and what it has done by then
OwnerInv ==
    /\ owner.stage = "Idle" => owner = Idle
    /\ owner.stage \notin {"Idle", "Done"} => owner.tick = acked + 1 /\ acked < MaxTick
    /\ owner.stage = "Done" => owner.tick = acked
    /\ registered <=> owner.stage # "Done"
    /\ owner.stage \in {"Idle", "Asking", "Planning", "Judging", "Executing", "Stopped"}
          => ended = None
    /\ owner.stage \in {"Publishing", "Delivering", "Waiting"} => ended = "Extraction"
    /\ committed => ended = "Extraction"

\* The lock: nobody changes the intent while another may.
LockInv ==
    /\ busy.step = None => busy = NotBusy
    /\ busy.step \in {"Loading", "Accepting"} => intent = NoIntent
    /\ busy.step = "Preparing" => intent # NoIntent
    /\ owner.stage = "Planning" => busy.step \in {None, "Taken"} /\ intent # NoIntent /\ owner.seen = intent.tick
    /\ owner.stage = "Judging" /\ owner.seen # 0 => intent.tick = owner.seen /\ intent.prepared
    /\ owner.stage = "Executing" /\ ~owner.other => intent.tick = owner.tick /\ intent.prepared

\* Ticks were pinned at most the reserve ahead.
PinnedInv ==
    /\ stored # NoAcceptance => stored.tick >= 1
    /\ busy # NotBusy => busy.tick >= 1 /\ busy.frame \in Frames
    /\ stored.tick <= acked + TickReserve
    /\ busy.tick <= acked + TickReserve
    /\ busy.step = "Taken" => busy.tick = busy.read + TickReserve
    /\ intent # NoIntent => intent.tick >= 1

\* What is accepted, or about to be, is ahead of the frames that have not asked.
AheadInv ==
    ~unheard /\ ~overtaken =>
        /\ stored # NoAcceptance => intent # NoIntent
        /\ busy.step \in {"Loading", "Accepting"} =>
              acked < busy.tick /\ (owner.stage = "Judging" => owner.tick < busy.tick)
        /\ intent # NoIntent /\ owner.stage \in {"Idle", "Asking", "Planning"} => acked < intent.tick
        /\ intent # NoIntent /\ owner.stage = "Judging" /\ owner.seen = 0 => owner.tick < intent.tick
        /\ owner.stage = "Judging" /\ owner.seen # 0 => owner.tick <= owner.seen

IntentIInv ==
    /\ BarrierType /\ ActorType /\ committed \in BOOLEAN
    /\ OwnerInv /\ LockInv /\ PinnedInv /\ AheadInv
    /\ AcceptedTickAhead /\ IntentIsStored

\* A transport has one command in the queue or with the actor, and its
\* connection waits for the answer.
QueueInv ==
    /\ queue \in Seq(Command)
    /\ requests \subseteq RequestType
    /\ \A i, j \in 1 .. Len(queue) : queue[i].transport = queue[j].transport => i = j
    /\ \A i \in 1 .. Len(queue) :
          /\ busy # NotBusy => queue[i].transport # busy.transport
          /\ \E r \in requests : r.transport = queue[i].transport /\ r.answer = None
    /\ busy # NotBusy => \E r \in requests : r.transport = busy.transport /\ r.answer = None

ToldInv == told \in [Transports -> SUBSET {"Stored", "Pending", "Rejected"}] /\ StoredIsTrue

\* One delivery per transport at a time, and none after one that was written.
DeliveryInv ==
    /\ \A s, u \in sending : s.transport = u.transport => s = u
    /\ \A s \in sending : /\ s.transport <= generations
                          /\ results[s.transport] = IF s.write = "Written" THEN 1 ELSE 0
    /\ \A t \in Transports : generations < t => results[t] = 0
    /\ transport # 0 /\ delivery.transport # transport =>
          results[transport] = 0 /\ \A s \in sending : s.transport # transport
    /\ delivery.state = "Succeeded" =>
          delivery.transport \in Transports /\ results[delivery.transport] = 1
    /\ DeliveredOnce

ExtractionIInv ==
    /\ IntentIInv /\ LinkType /\ QueueInv /\ ToldInv /\ DeliveryInv

intentVars == <<acked, owner, ended, stored, intent, unheard, overtaken, busy, registered, committed>>

-----------------------------------------------------------------------------
LEMMA IntentStutters ==
    ASSUME IntentIInv, UNCHANGED intentVars PROVE IntentIInv'
  BY DEF IntentIInv, intentVars, BarrierType, ActorType, OwnerInv, LockInv, PinnedInv, AheadInv,
         AcceptedTickAhead, IntentIsStored

\* The actor receives a command and reads the tick.
LEMMA TakeKeepsIntent ==
    ASSUME IntentIInv, QueueInv, LinkType, Take PROVE IntentIInv'
<1>. USE ExtractionAssumption
<1>. DEFINE c == Head(queue)
<1>1. c \in Command /\ c.frame \in Frames /\ c.transport \in Nat
  <2>1. queue # <<>> /\ queue \in Seq(Command)
    BY DEF QueueInv, Take
  <2>2. c \in Command
    BY <2>1
  <2>. QED
    BY <2>2 DEF Command, LinkType, Transports
<1>2. /\ UNCHANGED <<acked, owner, ended, stored, intent, unheard, overtaken, registered, committed>>
      /\ busy' = [step |-> "Taken", frame |-> c.frame, transport |-> c.transport,
                  tick |-> acked + TickReserve, read |-> acked]
  BY DEF Take, PinnedTick, barrier, links
<1>. HIDE DEF c
<1>3. BarrierType /\ ActorType /\ OwnerInv /\ LockInv /\ PinnedInv /\ AheadInv /\ IntentIsStored
  BY DEF IntentIInv
<1>4. acked \in Nat /\ acked >= 1 /\ TickReserve \in Nat
  BY <1>3 DEF BarrierType
<1>5. /\ busy'.step = "Taken" /\ busy'.tick = acked + TickReserve /\ busy'.read = acked
      /\ busy' \in BusyType /\ busy'.frame \in Frames
  BY <1>1, <1>2, <1>4 DEF BusyType
<1>6. BarrierType' /\ ActorType' /\ OwnerInv' /\ IntentIsStored' /\ AcceptedTickAhead'
  BY <1>2, <1>3, <1>5
     DEF IntentIInv, BarrierType, ActorType, OwnerInv, IntentIsStored, AcceptedTickAhead
<1>7. LockInv' /\ PinnedInv'
  BY <1>2, <1>3, <1>4, <1>5 DEF LockInv, PinnedInv, None
<1>8. AheadInv'
  BY <1>2, <1>3, <1>5 DEF AheadInv
<1>. QED
  BY <1>2, <1>6, <1>7, <1>8, <1>3 DEF IntentIInv

\* The command ends, whatever has become of it.
LEMMA ReleaseKeepsIntent ==
    ASSUME IntentIInv, busy' = NotBusy,
           UNCHANGED <<acked, owner, ended, stored, intent, unheard, overtaken, registered, committed>>
    PROVE  IntentIInv'
<1>. USE ExtractionAssumption
<1>1. NotBusy \in BusyType /\ NotBusy.step = None /\ NotBusy.tick = 0
  BY DEF NotBusy, BusyType
<1>2. acked \in Nat /\ TickReserve \in Nat
  BY DEF IntentIInv, BarrierType
<1>3. LockInv' /\ PinnedInv'
  BY <1>1, <1>2 DEF IntentIInv, LockInv, PinnedInv, None
<1>. QED
  BY <1>1, <1>3
     DEF IntentIInv, BarrierType, ActorType, OwnerInv, AheadInv, AcceptedTickAhead, IntentIsStored,
         None

\* The actor has the lock: without an intent, and unless frames have passed, the tick
\* that was read is still ahead of the frame that asks next.
LEMMA ServeKeepsIntent ==
    ASSUME IntentIInv, Serve PROVE IntentIInv'
<1>. USE ExtractionAssumption
<1>1. BarrierType /\ ActorType /\ OwnerInv /\ LockInv /\ PinnedInv /\ AheadInv /\ IntentIsStored
      /\ AcceptedTickAhead /\ committed \in BOOLEAN
  BY DEF IntentIInv
<1>2. /\ UNCHANGED <<acked, owner, ended, stored, intent, unheard, registered, committed>>
      /\ busy.step = "Taken" /\ owner.stage # "Planning" /\ busy # NotBusy
  BY DEF Serve, barrier, links, Unlocked, NotBusy, None
<1>3. /\ busy \in BusyType /\ busy.frame \in Frames /\ busy.tick = busy.read + TickReserve
      /\ busy.tick \in Nat /\ busy.read \in Nat /\ busy.tick >= 1 /\ busy.tick <= acked + TickReserve
      /\ acked \in Nat /\ acked >= 1 /\ TickReserve \in Nat /\ TickReserve >= 2
  BY <1>1, <1>2 DEF ActorType, PinnedInv, BusyType, BarrierType
<1>4. CASE intent = NoIntent
  <2>1. busy' = [busy EXCEPT !.step = "Loading"] /\ overtaken' = (overtaken \/ Overtakes)
    <3>1. intent.frame # busy.frame
      BY <1>3, <1>4 DEF NoIntent
    <3>. QED
      BY <1>4, <3>1 DEF Serve
  <2>2. /\ busy'.step = "Loading" /\ busy'.tick = busy.tick /\ busy'.frame \in Frames
        /\ busy' \in BusyType
    BY <1>3, <2>1 DEF BusyType
  <2>3. overtaken' \in BOOLEAN /\ (~overtaken' => ~overtaken /\ acked + 2 <= busy.tick)
    <3>1. Overtakes \in BOOLEAN /\ (~Overtakes => acked + 2 <= busy.tick)
      BY <1>3 DEF Overtakes
    <3>2. overtaken \in BOOLEAN
      BY <1>1 DEF ActorType
    <3>. QED
      BY <2>1, <3>1, <3>2
  <2>4. BarrierType' /\ ActorType' /\ OwnerInv' /\ IntentIsStored'
    BY <1>1, <1>2, <2>2, <2>3 DEF BarrierType, ActorType, OwnerInv, IntentIsStored
  <2>5. AcceptedTickAhead'
    BY <1>1, <1>2, <2>3 DEF AcceptedTickAhead
  <2>6. LockInv' /\ PinnedInv'
    BY <1>1, <1>2, <1>3, <1>4, <2>2 DEF LockInv, PinnedInv, None
  <2>7. AheadInv'
    BY <1>1, <1>2, <1>3, <1>4, <2>2, <2>3 DEF AheadInv, OwnerInv
  <2>. QED
    BY <1>1, <1>2, <2>4, <2>5, <2>6, <2>7 DEF IntentIInv
<1>5. CASE intent # NoIntent /\ intent.frame = busy.frame /\ ~intent.prepared
  <2>1. busy' = [busy EXCEPT !.step = "Preparing", !.tick = intent.tick] /\ overtaken' = overtaken
    BY <1>5 DEF Serve
  <2>2. intent.tick \in Nat /\ intent.tick >= 1 /\ intent.tick <= acked + TickReserve
    <3>1. intent.tick = stored.tick
      BY <1>1, <1>5 DEF IntentIsStored
    <3>. QED
      BY <1>1, <1>5, <3>1 DEF ActorType, IntentType, PinnedInv
  <2>3. /\ busy'.step = "Preparing" /\ busy'.tick = intent.tick /\ busy'.frame \in Frames
        /\ busy' \in BusyType
    BY <1>3, <2>1, <2>2 DEF BusyType
  <2>4. BarrierType' /\ ActorType' /\ OwnerInv' /\ IntentIsStored' /\ AcceptedTickAhead'
    BY <1>1, <1>2, <2>1, <2>3 DEF BarrierType, ActorType, OwnerInv, IntentIsStored, AcceptedTickAhead
  <2>5. LockInv' /\ PinnedInv'
    BY <1>1, <1>2, <1>5, <2>2, <2>3 DEF LockInv, PinnedInv, None
  <2>6. AheadInv'
    BY <1>1, <1>2, <1>5, <2>1, <2>3 DEF AheadInv
  <2>. QED
    BY <1>1, <1>2, <2>4, <2>5, <2>6 DEF IntentIInv
<1>6. CASE intent # NoIntent /\ ~(intent.frame = busy.frame /\ ~intent.prepared)
  <2>1. busy' = NotBusy /\ overtaken' = overtaken
    BY <1>6 DEF Serve
  <2>. QED
    BY <1>2, <2>1, ReleaseKeepsIntent
<1>. QED
  BY <1>4, <1>5, <1>6

\* An intent is taken up by the command that found none.
LEMMA TakenKeepsIntent ==
    ASSUME IntentIInv, busy.step \in {"Loading", "Accepting"},
           NEW f \in Frames \cup {None}, NEW n \in Nat, n >= 1, n <= acked + TickReserve,
           stored' = [frame |-> f, tick |-> n],
           intent' = [frame |-> f, tick |-> n, prepared |-> FALSE],
           busy' = [busy EXCEPT !.step = "Preparing", !.tick = n],
           ~unheard /\ ~overtaken => n = busy.tick,
           UNCHANGED <<acked, owner, ended, unheard, overtaken, registered, committed>>
    PROVE  IntentIInv'
<1>. USE ExtractionAssumption
<1>1. BarrierType /\ ActorType /\ OwnerInv /\ LockInv /\ PinnedInv /\ AheadInv /\ AcceptedTickAhead
  BY DEF IntentIInv
<1>2. /\ busy' \in BusyType /\ busy'.step = "Preparing" /\ busy'.tick = n
      /\ busy'.frame = busy.frame /\ busy # NotBusy
      /\ intent' \in IntentType /\ intent'.tick = n /\ intent'.frame = f /\ intent' # NoIntent
      /\ stored' \in StoredType /\ stored'.tick = n /\ stored'.frame = f
      /\ intent = NoIntent /\ intent.tick = 0
  <2>1. intent = NoIntent /\ intent.tick = 0 /\ busy \in BusyType
    BY <1>1 DEF ActorType, NoIntent, LockInv
  <2>2. /\ busy' \in BusyType /\ busy'.step = "Preparing" /\ busy'.tick = n
        /\ busy'.frame = busy.frame /\ busy # NotBusy
    <3>1. busy.step # NotBusy.step
      BY DEF NotBusy, None
    <3>2. busy' \in BusyType /\ busy'.step = "Preparing" /\ busy'.tick = n /\ busy'.frame = busy.frame
      BY <2>1 DEF BusyType
    <3>. QED
      BY <3>1, <3>2
  <2>3. intent' \in IntentType /\ intent'.tick = n /\ intent'.frame = f /\ intent' # NoIntent
    BY DEF IntentType, NoIntent
  <2>. QED
    BY <2>1, <2>2, <2>3 DEF StoredType
<1>3. /\ owner.stage # "Planning"
      /\ ~(owner.stage = "Judging" /\ owner.seen # 0)
      /\ ~(owner.stage = "Executing" /\ ~owner.other)
  <2>1. owner.stage = "Planning" => FALSE
    BY <1>1, <1>2 DEF LockInv
  <2>2. owner.stage = "Judging" /\ owner.seen # 0 => FALSE
    BY <1>1, <1>2 DEF LockInv
  <2>3. owner.stage = "Executing" /\ ~owner.other => FALSE
    BY <1>1, <1>2 DEF LockInv, OwnerInv, BarrierType
  <2>. QED
    BY <2>1, <2>2, <2>3
<1>4. BarrierType' /\ ActorType' /\ OwnerInv'
  BY <1>1, <1>2 DEF BarrierType, ActorType, OwnerInv
<1>5. LockInv'
  BY <1>1, <1>2, <1>3 DEF LockInv, None
<1>6. PinnedInv'
  BY <1>1, <1>2 DEF PinnedInv, BarrierType
<1>7. AheadInv'
  BY <1>1, <1>2, <1>3 DEF AheadInv
<1>8. AcceptedTickAhead' /\ IntentIsStored'
  <2>1. ended # "Extraction"
    BY <1>1, <1>2 DEF IntentIInv, IntentIsStored, OwnerInv, BarrierType, None
  <2>. QED
    BY <1>1, <1>2, <2>1 DEF AcceptedTickAhead, IntentIsStored, None
<1>. QED
  BY <1>4, <1>5, <1>6, <1>7, <1>8 DEF IntentIInv

LEMMA LoadKeepsIntent ==
    ASSUME IntentIInv, Load PROVE IntentIInv'
<1>. USE ExtractionAssumption
<1>1. ActorType /\ PinnedInv /\ AheadInv /\ LockInv /\ BarrierType /\ OwnerInv /\ IntentIsStored
  BY DEF IntentIInv
<1>2. /\ UNCHANGED <<acked, owner, ended, stored, unheard, overtaken, registered, committed>>
      /\ busy.step = "Loading" /\ intent = NoIntent /\ busy \in BusyType
      /\ busy # NotBusy /\ busy.frame \in Frames
  <2>1. UNCHANGED <<acked, owner, ended, stored, unheard, overtaken, registered, committed>>
    BY DEF Load, barrier, links
  <2>2. busy.step = "Loading"
    BY DEF Load
  <2>. QED
    BY <1>1, <2>1, <2>2 DEF ActorType, LockInv, PinnedInv, NotBusy, None
<1>3. \/ busy' = [busy EXCEPT !.step = "Accepting"] /\ UNCHANGED intent
      \/ /\ stored # NoAcceptance /\ stored.frame = busy.frame
         /\ busy' = [busy EXCEPT !.step = "Preparing", !.tick = stored.tick]
         /\ intent' = [frame |-> busy.frame, tick |-> stored.tick, prepared |-> FALSE]
      \/ busy' = NotBusy /\ UNCHANGED intent
  <2>1. CASE stored = NoAcceptance /\ stored.frame # busy.frame
    BY <2>1 DEF Load
  <2>2. CASE stored = NoAcceptance /\ stored.frame = busy.frame
    BY <1>2, <2>2 DEF NoAcceptance
  <2>3. CASE stored # NoAcceptance /\ stored.frame = busy.frame
    BY <2>3 DEF Load
  <2>4. CASE stored # NoAcceptance /\ stored.frame # busy.frame
    BY <2>4 DEF Load
  <2>. QED
    BY <2>1, <2>2, <2>3, <2>4
<1>4. CASE busy' = [busy EXCEPT !.step = "Accepting"] /\ UNCHANGED intent
  <2>1. /\ busy'.step = "Accepting" /\ busy'.tick = busy.tick /\ busy' \in BusyType
        /\ busy' # NotBusy /\ busy'.frame = busy.frame
    BY <1>2, <1>4 DEF BusyType, NotBusy, None
  <2>2. BarrierType' /\ ActorType' /\ OwnerInv' /\ IntentIsStored' /\ AcceptedTickAhead'
    BY <1>1, <1>2, <1>4, <2>1
       DEF IntentIInv, BarrierType, ActorType, OwnerInv, IntentIsStored, AcceptedTickAhead
  <2>3. LockInv' /\ PinnedInv'
    BY <1>1, <1>2, <1>4, <2>1 DEF LockInv, PinnedInv, None
  <2>4. AheadInv'
    BY <1>1, <1>2, <1>4, <2>1 DEF AheadInv
  <2>. QED
    BY <1>2, <2>2, <2>3, <2>4 DEF IntentIInv
<1>5. CASE /\ stored # NoAcceptance /\ stored.frame = busy.frame
           /\ busy' = [busy EXCEPT !.step = "Preparing", !.tick = stored.tick]
           /\ intent' = [frame |-> busy.frame, tick |-> stored.tick, prepared |-> FALSE]
  <2>1. unheard \/ overtaken
    BY <1>1, <1>2, <1>5 DEF AheadInv, ActorType
  <2>2. /\ stored.tick \in Nat /\ stored.tick >= 1 /\ stored.tick <= acked + TickReserve
        /\ stored' = [frame |-> busy.frame, tick |-> stored.tick]
        /\ busy.frame \in Frames \cup {None}
    BY <1>1, <1>2, <1>5 DEF ActorType, StoredType, PinnedInv
  <2>. QED
    BY <1>2, <1>5, <2>1, <2>2, TakenKeepsIntent
<1>6. CASE busy' = NotBusy /\ UNCHANGED intent
  BY <1>2, <1>6, ReleaseKeepsIntent
<1>. QED
  BY <1>3, <1>4, <1>5, <1>6

LEMMA AcceptKeepsIntent ==
    ASSUME IntentIInv, Accept \/ LoseAnswer PROVE IntentIInv'
<1>. USE ExtractionAssumption
<1>1. ActorType /\ PinnedInv /\ AheadInv /\ LockInv /\ BarrierType /\ OwnerInv /\ IntentIsStored
  BY DEF IntentIInv
<1>2. /\ UNCHANGED <<acked, owner, ended, registered, committed>> /\ ended = None
      /\ busy.step = "Accepting" /\ stored' = [frame |-> busy.frame, tick |-> busy.tick]
  BY DEF Accept, LoseAnswer, barrier, links
<1>3. /\ busy \in BusyType /\ busy.tick \in Nat /\ busy.frame \in Frames \cup {None}
      /\ intent = NoIntent /\ busy # NotBusy /\ busy.tick >= 1 /\ busy.tick <= acked + TickReserve
  BY <1>1, <1>2 DEF ActorType, BusyType, LockInv, PinnedInv, NotBusy, None
<1>4. CASE Accept
  <2>1. /\ busy' = [busy EXCEPT !.step = "Preparing", !.tick = busy.tick]
        /\ intent' = [frame |-> busy.frame, tick |-> busy.tick, prepared |-> FALSE]
        /\ UNCHANGED <<unheard, overtaken>>
    BY <1>3, <1>4 DEF Accept, BusyType
  <2>. QED
    BY <1>2, <1>3, <2>1, TakenKeepsIntent
<1>5. CASE LoseAnswer
  <2>1. busy' = NotBusy /\ unheard' = TRUE /\ overtaken' = overtaken /\ intent' = NoIntent
    BY <1>3, <1>5 DEF LoseAnswer
  <2>2. /\ NotBusy \in BusyType /\ NotBusy.step = None /\ NotBusy.tick = 0
        /\ stored' \in StoredType /\ stored'.tick = busy.tick
    BY <1>2, <1>3 DEF NotBusy, BusyType, StoredType
  <2>3. BarrierType' /\ ActorType' /\ OwnerInv' /\ AheadInv' /\ AcceptedTickAhead'
    BY <1>1, <1>2, <1>3, <2>1, <2>2
       DEF BarrierType, ActorType, OwnerInv, AheadInv, AcceptedTickAhead
  <2>4. LockInv'
    BY <1>1, <1>2, <1>3, <2>1, <2>2 DEF LockInv, None
  <2>5. PinnedInv'
    BY <1>1, <1>2, <1>3, <2>1, <2>2 DEF PinnedInv, BarrierType, None
  <2>6. IntentIsStored'
    BY <1>2, <2>1 DEF IntentIsStored, None
  <2>. QED
    BY <1>2, <2>3, <2>4, <2>5, <2>6 DEF IntentIInv
<1>. QED
  BY <1>4, <1>5

\* The plan is made, by the actor or by the owner.
LEMMA PrepareKeepsIntent ==
    ASSUME IntentIInv, Prepare PROVE IntentIInv'
<1>. USE ExtractionAssumption
<1>1. ActorType /\ PinnedInv /\ AheadInv /\ LockInv /\ BarrierType /\ OwnerInv /\ IntentIsStored
  BY DEF IntentIInv
<1>2. /\ UNCHANGED <<acked, owner, ended, stored, unheard, overtaken, registered, committed>>
      /\ busy.step = "Preparing" /\ busy' = NotBusy /\ intent # NoIntent
      /\ intent' = [intent EXCEPT !.prepared = TRUE]
  BY <1>1 DEF Prepare, barrier, links, LockInv
<1>3. /\ intent' \in IntentType /\ intent'.tick = intent.tick /\ intent'.frame = intent.frame
      /\ intent'.prepared /\ intent' # NoIntent
      /\ NotBusy \in BusyType /\ NotBusy.step = None /\ NotBusy.tick = 0
      /\ intent.tick \in Nat
  BY <1>1, <1>2 DEF ActorType, IntentType, NoIntent, NotBusy, BusyType
<1>4. BarrierType' /\ ActorType' /\ OwnerInv'
  BY <1>1, <1>2, <1>3 DEF BarrierType, ActorType, OwnerInv
<1>5. LockInv'
  BY <1>1, <1>2, <1>3 DEF LockInv, None, NotBusy
<1>6. PinnedInv'
  BY <1>1, <1>2, <1>3 DEF PinnedInv, BarrierType, None
<1>7. AheadInv'
  BY <1>1, <1>2, <1>3 DEF AheadInv, None
<1>8. AcceptedTickAhead' /\ IntentIsStored'
  BY <1>1, <1>2, <1>3 DEF IntentIInv, AcceptedTickAhead, IntentIsStored
<1>. QED
  BY <1>2, <1>4, <1>5, <1>6, <1>7, <1>8 DEF IntentIInv

\* The owner moves on without touching the actor: what has to be shown of its new
\* stage.
LEMMA OwnerKeepsIntent ==
    ASSUME IntentIInv, UNCHANGED <<stored, intent, unheard, overtaken, busy, registered>>,
           acked' \in 1 .. MaxTick, acked <= acked',
           owner' \in OwnerType, ended' \in {None, "Other", "Extraction"}, committed' \in BOOLEAN,
           OwnerInv', LockInv', AheadInv', AcceptedTickAhead',
           ended' = "Extraction" => intent.prepared /\ intent.tick = owner'.tick
    PROVE  IntentIInv'
<1>. USE ExtractionAssumption
<1>1. BarrierType' /\ ActorType'
  BY DEF IntentIInv, BarrierType, ActorType
<1>2. PinnedInv'
  <2>1. /\ acked \in Nat /\ acked' \in Nat /\ TickReserve \in Nat
        /\ stored.tick \in Nat /\ busy.tick \in Nat
    BY DEF IntentIInv, BarrierType, ActorType, StoredType, BusyType
  <2>. QED
    BY <2>1 DEF IntentIInv, PinnedInv
<1>3. IntentIsStored'
  BY DEF IntentIInv, IntentIsStored
<1>. QED
  BY <1>1, <1>2, <1>3 DEF IntentIInv

LEMMA DeliverKeepsIntent ==
    ASSUME IntentIInv, NEW other \in BOOLEAN, Deliver(other) PROVE IntentIInv'
<1>. USE ExtractionAssumption
<1>1. BarrierType /\ ActorType /\ OwnerInv /\ LockInv /\ AheadInv /\ AcceptedTickAhead /\ IntentIsStored
  BY DEF IntentIInv
<1>2. /\ UNCHANGED <<acked, ended, stored, intent, unheard, overtaken, busy, registered, committed>>
      /\ acked < MaxTick /\ owner.stage = "Idle" /\ owner = Idle /\ ended = None
      /\ owner' = [owner EXCEPT !.stage = "Asking", !.tick = acked + 1, !.other = other]
  BY <1>1 DEF Deliver, actor, links, OwnerInv
<1>3. /\ owner' \in OwnerType /\ owner'.stage = "Asking" /\ owner'.tick = acked + 1
      /\ owner'.cause = owner.cause /\ acked \in 1 .. MaxTick
  <2>1. owner \in OwnerType /\ acked \in 1 .. MaxTick
    BY <1>1 DEF BarrierType
  <2>2. acked + 1 \in Nat /\ "Asking" \in OwnerStages
    BY <2>1 DEF OwnerStages
  <2>. QED
    BY <1>2, <2>1, <2>2 DEF OwnerType
<1>4. OwnerInv'
  BY <1>1, <1>2, <1>3 DEF OwnerInv
<1>5. LockInv' /\ AheadInv' /\ AcceptedTickAhead'
  BY <1>1, <1>2, <1>3 DEF LockInv, AheadInv, AcceptedTickAhead
<1>. QED
  BY <1>1, <1>2, <1>3, <1>4, <1>5, OwnerKeepsIntent DEF BarrierType, IntentIInv, None

\* The owner sees the intent with the lock: it is ahead of the frame, or at it.
LEMMA AskKeepsIntent ==
    ASSUME IntentIInv, Ask PROVE IntentIInv'
<1>. USE ExtractionAssumption
<1>1. BarrierType /\ ActorType /\ OwnerInv /\ LockInv /\ AheadInv /\ AcceptedTickAhead /\ PinnedInv
  BY DEF IntentIInv
<1>. DEFINE stage == IF intent # NoIntent /\ ~intent.prepared THEN "Planning" ELSE "Judging"
<1>2. /\ UNCHANGED <<acked, ended, stored, intent, unheard, overtaken, busy, registered, committed>>
      /\ owner.stage = "Asking" /\ busy.step \in {None, "Taken"}
      /\ owner' = [owner EXCEPT !.seen = intent.tick, !.stage = stage]
  BY DEF Ask, actor, links, Unlocked
<1>3. /\ owner' \in OwnerType /\ owner'.stage = stage /\ owner'.tick = owner.tick
      /\ owner'.cause = owner.cause /\ owner'.seen = intent.tick
      /\ acked \in 1 .. MaxTick /\ intent.tick \in Nat /\ intent.prepared \in BOOLEAN
      /\ stage \in {"Planning", "Judging"}
  BY <1>1, <1>2 DEF BarrierType, ActorType, OwnerType, OwnerStages, IntentType
<1>4. OwnerInv'
  BY <1>1, <1>2, <1>3 DEF OwnerInv
<1>5. intent = NoIntent => intent.tick = 0
  BY DEF NoIntent
<1>6. LockInv'
  BY <1>1, <1>2, <1>3, <1>5 DEF LockInv
<1>7. AheadInv'
  BY <1>1, <1>2, <1>3, <1>5 DEF AheadInv, OwnerInv, PinnedInv, NotBusy, None
<1>8. AcceptedTickAhead'
  BY <1>1, <1>2, <1>3 DEF AcceptedTickAhead
<1>9. ended' = None
  BY <1>1, <1>2 DEF OwnerInv
<1>. QED
  BY <1>1, <1>2, <1>3, <1>4, <1>6, <1>7, <1>8, <1>9, OwnerKeepsIntent
     DEF BarrierType, IntentIInv, None

LEMMA PlanKeepsIntent ==
    ASSUME IntentIInv, Plan PROVE IntentIInv'
<1>. USE ExtractionAssumption
<1>1. ActorType /\ PinnedInv /\ AheadInv /\ LockInv /\ BarrierType /\ OwnerInv /\ IntentIsStored
      /\ AcceptedTickAhead
  BY DEF IntentIInv
<1>2. /\ UNCHANGED <<acked, ended, stored, unheard, overtaken, busy, registered, committed>>
      /\ owner.stage = "Planning" /\ owner' = [owner EXCEPT !.stage = "Judging"]
      /\ intent' = [intent EXCEPT !.prepared = TRUE]
      /\ busy.step \in {None, "Taken"} /\ intent # NoIntent /\ owner.seen = intent.tick
  BY <1>1 DEF Plan, links, LockInv
<1>3. /\ intent' \in IntentType /\ intent'.tick = intent.tick /\ intent'.frame = intent.frame
      /\ intent'.prepared /\ intent' # NoIntent /\ intent.tick \in Nat
  BY <1>1, <1>2 DEF ActorType, IntentType, NoIntent
<1>4. /\ owner' \in OwnerType /\ owner'.stage = "Judging" /\ owner'.tick = owner.tick
      /\ owner'.cause = owner.cause /\ owner'.seen = owner.seen
      /\ owner.tick = acked + 1 /\ acked \in Nat
  BY <1>1, <1>2 DEF BarrierType, OwnerType, OwnerStages, OwnerInv
<1>5. BarrierType' /\ ActorType' /\ OwnerInv' /\ ended = None
  BY <1>1, <1>2, <1>3, <1>4 DEF BarrierType, ActorType, OwnerInv
<1>6. LockInv'
  BY <1>1, <1>2, <1>3, <1>4 DEF LockInv, None, NotBusy
<1>7. PinnedInv'
  BY <1>1, <1>2, <1>3 DEF PinnedInv
<1>8. AheadInv'
  BY <1>1, <1>2, <1>3, <1>4 DEF AheadInv, PinnedInv, NotBusy, None
<1>9. AcceptedTickAhead' /\ IntentIsStored'
  BY <1>1, <1>2, <1>3, <1>4, <1>5 DEF AcceptedTickAhead, IntentIsStored, None
<1>. QED
  BY <1>2, <1>5, <1>6, <1>7, <1>8, <1>9 DEF IntentIInv

\* The frame is judged: only an intent that was recovered can be of an earlier tick.
LEMMA JudgeKeepsIntent ==
    ASSUME IntentIInv, Judge PROVE IntentIInv'
<1>. USE ExtractionAssumption
<1>1. BarrierType /\ ActorType /\ OwnerInv /\ LockInv /\ AheadInv /\ AcceptedTickAhead /\ PinnedInv
  BY DEF IntentIInv
<1>2. /\ UNCHANGED <<ended, stored, intent, unheard, overtaken, busy, registered, committed>>
      /\ owner.stage = "Judging"
  BY DEF Judge, actor, links
<1>3. /\ acked \in Nat /\ owner \in OwnerType /\ owner.tick = acked + 1 /\ acked < MaxTick
      /\ ended = None /\ owner.seen \in Nat /\ MaxTick \in Nat /\ acked >= 1
      /\ committed \in BOOLEAN /\ owner.other \in BOOLEAN
  BY <1>1, <1>2 DEF BarrierType, OwnerType, OwnerInv, IntentIInv
<1>4. \/ /\ owner.seen # 0 /\ owner.seen < owner.tick /\ acked' = acked
         /\ owner' = [owner EXCEPT !.stage = "Stopped", !.cause = "InvalidAuthority"]
      \/ /\ owner.other \/ owner.seen = owner.tick
         /\ owner' = [owner EXCEPT !.stage = "Executing"] /\ acked' = acked
      \/ /\ owner.seen = 0 \/ owner.tick < owner.seen
         /\ owner' = Idle /\ acked' = owner.tick
  <2>1. CASE owner.seen # 0 /\ owner.seen < owner.tick /\ ~(owner.other \/ owner.seen = owner.tick)
    BY <2>1 DEF Judge, Stop
  <2>2. CASE owner.seen # 0 /\ owner.seen < owner.tick /\ (owner.other \/ owner.seen = owner.tick)
    BY <2>2 DEF Judge, Stop
  <2>3. CASE ~(owner.seen # 0 /\ owner.seen < owner.tick) /\ (owner.other \/ owner.seen = owner.tick)
    BY <2>3 DEF Judge
  <2>4. CASE ~(owner.seen # 0 /\ owner.seen < owner.tick) /\ ~(owner.other \/ owner.seen = owner.tick)
    BY <1>3, <2>4 DEF Judge
  <2>. QED
    BY <2>1, <2>2, <2>3, <2>4
<1>5. CASE /\ owner.seen # 0 /\ owner.seen < owner.tick /\ acked' = acked
           /\ owner' = [owner EXCEPT !.stage = "Stopped", !.cause = "InvalidAuthority"]
  <2>1. unheard \/ overtaken
    BY <1>1, <1>2, <1>3, <1>5 DEF AheadInv, ActorType
  <2>2. /\ owner' \in OwnerType /\ owner'.stage = "Stopped" /\ owner'.tick = owner.tick
    BY <1>3, <1>5 DEF OwnerType, OwnerStages
  <2>3. OwnerInv' /\ LockInv' /\ AheadInv' /\ AcceptedTickAhead'
    BY <1>1, <1>2, <1>3, <1>5, <2>1, <2>2 DEF OwnerInv, LockInv, AheadInv, AcceptedTickAhead
  <2>. QED
    BY <1>1, <1>2, <1>3, <1>5, <2>2, <2>3, OwnerKeepsIntent DEF BarrierType, None
<1>6. CASE /\ owner.other \/ owner.seen = owner.tick
           /\ owner' = [owner EXCEPT !.stage = "Executing"] /\ acked' = acked
  <2>1. /\ owner' \in OwnerType /\ owner'.stage = "Executing" /\ owner'.tick = owner.tick
        /\ owner'.other = owner.other /\ owner'.cause = owner.cause
    BY <1>3, <1>6 DEF OwnerType, OwnerStages
  <2>2. OwnerInv' /\ AheadInv' /\ AcceptedTickAhead'
    BY <1>1, <1>2, <1>3, <1>6, <2>1 DEF OwnerInv, AheadInv, AcceptedTickAhead
  <2>3. LockInv'
    BY <1>1, <1>2, <1>3, <1>6, <2>1 DEF LockInv
  <2>. QED
    BY <1>1, <1>2, <1>3, <1>6, <2>1, <2>2, <2>3, OwnerKeepsIntent DEF BarrierType, None
<1>7. CASE /\ owner.seen = 0 \/ owner.tick < owner.seen
           /\ owner' = Idle /\ acked' = owner.tick
  <2>1. /\ owner' \in OwnerType /\ owner'.stage = "Idle" /\ owner'.cause = None
    BY <1>7 DEF OwnerType, OwnerStages, Idle
  <2>2. OwnerInv' /\ AcceptedTickAhead'
    BY <1>1, <1>2, <1>3, <1>7, <2>1 DEF OwnerInv, AcceptedTickAhead, None
  <2>3. LockInv'
    BY <1>1, <1>2, <1>3, <1>7, <2>1 DEF LockInv
  <2>4. AheadInv'
    <3>. SUFFICES ASSUME ~unheard, ~overtaken PROVE AheadInv'
      BY <1>2 DEF AheadInv
    <3>1. busy.step \in {"Loading", "Accepting"} => owner.tick < busy.tick
      BY <1>1, <1>2 DEF AheadInv
    <3>2. intent # NoIntent => owner.tick < intent.tick
      BY <1>1, <1>2, <1>3, <1>7 DEF AheadInv, LockInv
    <3>. QED
      BY <1>1, <1>2, <1>3, <1>7, <2>1, <3>1, <3>2 DEF AheadInv
  <2>5. acked' \in 1 .. MaxTick /\ acked <= acked'
    BY <1>3, <1>7
  <2>. QED
    BY <1>1, <1>2, <1>3, <1>7, <2>1, <2>2, <2>3, <2>4, <2>5, OwnerKeepsIntent DEF BarrierType, None
<1>. QED
  BY <1>4, <1>5, <1>6, <1>7

\* After the judgement the owner only moves from stage to stage.
LEMMA StageKeepsIntent ==
    ASSUME IntentIInv, NEW st \in {"Publishing", "Delivering", "Waiting", "Retiring"},
           owner.stage \in {"Executing", "Publishing", "Delivering", "Waiting"},
           owner' = [owner EXCEPT !.stage = st],
           UNCHANGED <<acked, stored, intent, unheard, overtaken, busy, registered>>,
           ended' \in {"Other", "Extraction"}, committed' \in BOOLEAN,
           ended = "Extraction" => ended' = "Extraction",
           st # "Retiring" \/ committed' => ended' = "Extraction",
           ended' = "Extraction" => intent.prepared /\ intent.tick = owner.tick
    PROVE  IntentIInv'
<1>. USE ExtractionAssumption
<1>1. BarrierType /\ ActorType /\ OwnerInv /\ LockInv /\ AheadInv /\ AcceptedTickAhead
  BY DEF IntentIInv
<1>2. /\ owner' \in OwnerType /\ owner'.stage = st /\ owner'.tick = owner.tick
      /\ owner'.cause = owner.cause /\ acked \in 1 .. MaxTick
  BY <1>1 DEF BarrierType, OwnerType, OwnerStages
<1>3. OwnerInv'
  BY <1>1, <1>2 DEF OwnerInv
<1>4. LockInv' /\ AheadInv' /\ AcceptedTickAhead'
  BY <1>1, <1>2 DEF LockInv, AheadInv, AcceptedTickAhead
<1>. QED
  BY <1>1, <1>2, <1>3, <1>4, OwnerKeepsIntent

LEMMA ExecuteKeepsIntent ==
    ASSUME IntentIInv, Execute PROVE IntentIInv'
<1>1. BarrierType /\ OwnerInv /\ LockInv /\ committed \in BOOLEAN
  BY DEF IntentIInv
<1>2. /\ UNCHANGED <<acked, stored, intent, unheard, overtaken, busy, registered, committed>>
      /\ owner.stage = "Executing" /\ ended = None /\ owner.other \in BOOLEAN
  BY <1>1 DEF Execute, actor, links, OwnerInv, BarrierType, OwnerType
<1>3. CASE owner.other
  <2>1. ended' = "Other" /\ owner' = [owner EXCEPT !.stage = "Retiring"] /\ ~committed
    BY <1>1, <1>2, <1>3 DEF Execute, OwnerInv, None
  <2>. QED
    BY <1>1, <1>2, <2>1, StageKeepsIntent DEF None
<1>4. CASE ~owner.other
  <2>1. ended' = "Extraction" /\ owner' = [owner EXCEPT !.stage = "Publishing"]
        /\ intent.prepared /\ intent.tick = owner.tick
    BY <1>1, <1>2, <1>4 DEF Execute, LockInv
  <2>. QED
    BY <1>1, <1>2, <2>1, StageKeepsIntent
<1>. QED
  BY <1>3, <1>4

LEMMA PublishKeepsIntent ==
    ASSUME IntentIInv, Publish \/ OwnerDelivers \/ OwnerWaited PROVE IntentIInv'
<1>1. OwnerInv /\ IntentIsStored /\ committed \in BOOLEAN
  BY DEF IntentIInv
<1>2. /\ UNCHANGED <<acked, ended, stored, intent, unheard, overtaken, busy, registered>>
      /\ owner.stage \in {"Publishing", "Delivering", "Waiting"} /\ committed' \in BOOLEAN
  BY <1>1 DEF Publish, OwnerDelivers, OwnerWaited, actor, links
<1>3. PICK st \in {"Delivering", "Waiting", "Retiring"} : owner' = [owner EXCEPT !.stage = st]
  BY DEF Publish, OwnerDelivers, OwnerWaited
<1>4. ended = "Extraction" /\ intent.prepared /\ intent.tick = owner.tick
  BY <1>1, <1>2 DEF OwnerInv, IntentIsStored
<1>. QED
  BY <1>2, <1>3, <1>4, StageKeepsIntent

LEMMA StopKeepsIntent ==
    ASSUME IntentIInv, PlanFails \/ ExecuteRefused PROVE IntentIInv'
<1>. USE ExtractionAssumption
<1>1. BarrierType /\ OwnerInv /\ LockInv /\ AheadInv /\ AcceptedTickAhead /\ committed \in BOOLEAN
  BY DEF IntentIInv
<1>2. /\ UNCHANGED <<acked, ended, stored, intent, unheard, overtaken, busy, registered, committed>>
      /\ owner.stage \in {"Planning", "Executing"} /\ ended = None
  BY <1>1 DEF PlanFails, ExecuteRefused, actor, links, OwnerInv
<1>3. PICK cause \in {"Planner", "Refused"} :
         owner' = [owner EXCEPT !.stage = "Stopped", !.cause = cause]
  BY DEF PlanFails, ExecuteRefused, Stop
<1>4. /\ owner' \in OwnerType /\ owner'.stage = "Stopped" /\ owner'.tick = owner.tick
      /\ owner'.cause \in {"Planner", "Refused"} /\ acked \in 1 .. MaxTick
  BY <1>1, <1>3 DEF BarrierType, OwnerType, OwnerStages
<1>5. OwnerInv' /\ LockInv' /\ AheadInv' /\ AcceptedTickAhead'
  BY <1>1, <1>2, <1>4 DEF OwnerInv, LockInv, AheadInv, AcceptedTickAhead
<1>. QED
  BY <1>1, <1>2, <1>4, <1>5, OwnerKeepsIntent DEF None

\* The actor is retired wherever it stands.
LEMMA RetireKeepsIntent ==
    ASSUME IntentIInv, Retire PROVE IntentIInv'
<1>. USE ExtractionAssumption
<1>1. BarrierType /\ ActorType /\ OwnerInv /\ LockInv /\ AheadInv /\ AcceptedTickAhead /\ PinnedInv
      /\ IntentIsStored /\ committed \in BOOLEAN
  BY DEF IntentIInv
<1>2. /\ UNCHANGED <<ended, stored, intent, unheard, overtaken, committed>>
      /\ owner.stage = "Retiring" /\ owner' = [owner EXCEPT !.stage = "Done"]
      /\ acked' = owner.tick /\ registered' = FALSE /\ busy' = NotBusy
  BY DEF Retire
<1>3. /\ owner' \in OwnerType /\ owner'.stage = "Done" /\ owner'.tick = owner.tick
      /\ owner'.cause = owner.cause /\ acked \in 1 .. MaxTick
      /\ owner.tick = acked + 1 /\ acked < MaxTick
  BY <1>1, <1>2 DEF BarrierType, OwnerType, OwnerStages, OwnerInv
<1>4. NotBusy \in BusyType /\ NotBusy.step = None /\ NotBusy.tick = 0
  BY DEF NotBusy, BusyType
<1>5. BarrierType' /\ ActorType'
  <2>1. acked' \in 1 .. MaxTick
    BY <1>2, <1>3
  <2>. QED
    BY <1>1, <1>2, <1>3, <1>4, <2>1 DEF BarrierType, ActorType
<1>6. OwnerInv' /\ LockInv' /\ AheadInv' /\ AcceptedTickAhead'
  BY <1>1, <1>2, <1>3, <1>4 DEF OwnerInv, LockInv, AheadInv, AcceptedTickAhead, None
<1>7. PinnedInv'
  <2>1. stored.tick \in Nat /\ TickReserve \in Nat /\ acked \in Nat
    BY <1>1, <1>3 DEF ActorType, StoredType
  <2>. QED
    BY <1>1, <1>2, <1>3, <1>4, <2>1 DEF PinnedInv, None
<1>8. IntentIsStored'
  BY <1>1, <1>2, <1>3 DEF IntentIsStored
<1>. QED
  BY <1>1, <1>2, <1>5, <1>6, <1>7, <1>8 DEF IntentIInv

\* Every step keeps the intent, the lock and the ticks.
LEMMA IntentKept ==
    ASSUME IntentIInv, QueueInv, LinkType, Next PROVE IntentIInv'
<1>1. CASE (\E f \in Frames : Request(f)) \/ (\E r \in requests : Answer(r))
  BY <1>1, IntentStutters DEF Request, Answer, intentVars, barrier, actor, links
<1>2. CASE (\E s \in sending : Write(s, TRUE) \/ Write(s, FALSE) \/ Complete(s)) \/ AttachDelivers
  BY <1>2, IntentStutters DEF Write, Complete, AttachDelivers, intentVars, barrier, actor
<1>3. CASE Attach \/ Detach \/ PrepareHall
  BY <1>3, IntentStutters DEF Attach, Detach, PrepareHall, intentVars, barrier, actor
<1>4. CASE \E refreshed \in BOOLEAN : InstallHall(refreshed)
  <2>1. UNCHANGED <<acked, owner, ended, stored, intent, unheard, overtaken, busy, registered>>
        /\ (committed' = FALSE \/ committed' = committed)
    BY <1>4 DEF InstallHall, barrier, actor
  <2>2. OwnerInv'
    BY <2>1 DEF IntentIInv, OwnerInv
  <2>3. LockInv' /\ PinnedInv' /\ AheadInv'
    BY <2>1 DEF IntentIInv, LockInv, PinnedInv, AheadInv
  <2>. QED
    BY <2>1, <2>2, <2>3
       DEF IntentIInv, BarrierType, ActorType, AcceptedTickAhead, IntentIsStored
<1>5. CASE CallFails
  BY <1>5, ReleaseKeepsIntent DEF CallFails, barrier, links
<1>6. CASE Actor \/ LoseAnswer
  BY <1>6, TakeKeepsIntent, ServeKeepsIntent, LoadKeepsIntent, AcceptKeepsIntent, PrepareKeepsIntent DEF Actor
<1>7. CASE Owner \/ PlanFails \/ ExecuteRefused
  BY <1>7, AskKeepsIntent, PlanKeepsIntent, JudgeKeepsIntent, ExecuteKeepsIntent,
     PublishKeepsIntent, RetireKeepsIntent, StopKeepsIntent DEF Owner
<1>8. CASE \E other \in BOOLEAN : Deliver(other)
  BY <1>8, DeliverKeepsIntent
<1>. QED
  BY <1>1, <1>2, <1>3, <1>4, <1>5, <1>6, <1>7, <1>8 DEF Next, Deliveries, Faults

-----------------------------------------------------------------------------
(* The queue and the answers                                                 *)

\* The command of the actor is answered: the other waiting requests stay.
LEMMA AnsweredKeepsRequests ==
    ASSUME requests \subseteq RequestType, NEW t, NEW a \in {"Pending", "Rejected"}, Answered(t, a)
    PROVE  /\ requests' \subseteq RequestType
           /\ \A r \in requests : r.transport # t => r \in requests'
<1>1. requests' \subseteq RequestType
  <2>1. \A r \in RequestType : [r EXCEPT !.answer = a] \in RequestType
    BY DEF RequestType
  <2>. QED
    BY <2>1 DEF Answered
<1>. QED
  BY <1>1 DEF Answered

LEMMA ReleaseKeepsQueue ==
    ASSUME QueueInv, busy # NotBusy, NEW a \in {"Pending", "Rejected"}, Answered(busy.transport, a),
           busy' = NotBusy, UNCHANGED <<queue, generations>>
    PROVE  QueueInv'
<1>1. requests' \subseteq RequestType /\ \A r \in requests : r.transport # busy.transport => r \in requests'
  BY AnsweredKeepsRequests DEF QueueInv
<1>. QED
  BY <1>1 DEF QueueInv, Command

LEMMA RequestKeepsQueue ==
    ASSUME QueueInv, LinkType, NEW f \in Frames, Request(f) PROVE QueueInv'
<1>. USE ExtractionAssumption
<1>1. UNCHANGED <<busy, generations>> /\ transport \in 1 .. generations /\ ~Waiting(transport)
      /\ transport \in Transports
  BY DEF Request, links, LinkType, Transports
<1>2. CASE UNCHANGED <<queue, requests>>
  BY <1>1, <1>2 DEF QueueInv, Command
<1>3. CASE /\ queue' = Append(queue, [frame |-> f, transport |-> transport])
           /\ requests' = requests \cup {[transport |-> transport, frame |-> f, answer |-> None]}
  <2>. DEFINE c == [frame |-> f, transport |-> transport]
              r == [transport |-> transport, frame |-> f, answer |-> None]
  <2>1. c \in Command /\ c.transport = transport
    BY <1>1 DEF Command
  <2>2. r \in RequestType /\ r.transport = transport /\ r.answer = None
    BY <1>1 DEF RequestType
  <2>3. queue \in Seq(Command) /\ Len(queue) \in Nat /\ Command' = Command
    BY <1>1 DEF QueueInv, Command
  <2>4. queue' = Append(queue, c) /\ requests' = requests \cup {r}
    BY <1>3
  <2>. HIDE DEF c, r
  <2>5. /\ queue' \in Seq(Command) /\ Len(queue') = Len(queue) + 1
        /\ queue'[Len(queue) + 1] = c
        /\ \A i \in 1 .. Len(queue) : queue'[i] = queue[i]
    BY <2>1, <2>3, <2>4
  <2>6. \A i \in 1 .. Len(queue) : queue[i].transport # transport
    BY <1>1 DEF QueueInv, Waiting
  <2>7. busy # NotBusy => transport # busy.transport
    BY <1>1 DEF QueueInv, Waiting
  <2>8. \A i, j \in 1 .. Len(queue') : queue'[i].transport = queue'[j].transport => i = j
    BY <2>1, <2>3, <2>5, <2>6 DEF QueueInv
  <2>9. \A i \in 1 .. Len(queue') :
           /\ busy # NotBusy => queue'[i].transport # busy.transport
           /\ \E q \in requests' : q.transport = queue'[i].transport /\ q.answer = None
    BY <2>1, <2>2, <2>3, <2>4, <2>5, <2>7 DEF QueueInv
  <2>. QED
    BY <1>1, <2>2, <2>3, <2>4, <2>5, <2>8, <2>9 DEF QueueInv
<1>. QED
  BY <1>2, <1>3 DEF Request

\* The first command goes to the actor.
LEMMA TakeKeepsQueue ==
    ASSUME QueueInv, Take PROVE QueueInv'
<1>. USE ExtractionAssumption
<1>. DEFINE c == Head(queue)
<1>1. UNCHANGED <<requests, generations>> /\ queue # <<>> /\ queue' = Tail(queue)
  BY DEF Take, links, clients
<1>2. busy' # NotBusy /\ busy'.transport = c.transport
  BY DEF Take, NotBusy, None
<1>3. queue \in Seq(Command) /\ Len(queue) \in Nat /\ Len(queue) >= 1 /\ Command' = Command
  BY <1>1 DEF QueueInv, Command
<1>4. /\ queue' \in Seq(Command) /\ Len(queue') = Len(queue) - 1 /\ c = queue[1]
      /\ \A i \in 1 .. Len(queue') : queue'[i] = queue[i + 1]
  <2>1. queue' \in Seq(Command) /\ Len(queue') = Len(queue) - 1
    BY <1>1, <1>3
  <2>2. \A i \in 1 .. Len(queue') : queue'[i] = queue[i + 1]
    BY <1>1, <1>3, <2>1
  <2>. QED
    BY <1>3, <2>1, <2>2
<1>. HIDE DEF c
<1>5. \A i, j \in 1 .. Len(queue') : queue'[i].transport = queue'[j].transport => i = j
  BY <1>3, <1>4 DEF QueueInv
<1>6. \A i \in 1 .. Len(queue') :
         /\ queue'[i].transport # c.transport
         /\ \E q \in requests : q.transport = queue'[i].transport /\ q.answer = None
  <2>1. \A i \in 1 .. Len(queue') : i + 1 \in 1 .. Len(queue) /\ i + 1 # 1
    BY <1>3, <1>4
  <2>2. 1 \in 1 .. Len(queue)
    BY <1>3
  <2>. SUFFICES ASSUME NEW i \in 1 .. Len(queue')
                PROVE  /\ queue[i + 1].transport # queue[1].transport
                       /\ \E q \in requests : q.transport = queue[i + 1].transport /\ q.answer = None
    BY <1>4
  <2>3. i + 1 \in 1 .. Len(queue) /\ i + 1 # 1
    BY <2>1
  <2>. QED
    BY <2>2, <2>3 DEF QueueInv
<1>7. \E q \in requests : q.transport = c.transport /\ q.answer = None
  BY <1>3, <1>4 DEF QueueInv
<1>. QED
  BY <1>1, <1>2, <1>3, <1>4, <1>5, <1>6, <1>7 DEF QueueInv

LEMMA CommandKeepsQueue ==
    ASSUME QueueInv, LockInv, ActorType, Serve \/ Load \/ Accept \/ Prepare \/ LoseAnswer \/ CallFails
    PROVE  QueueInv'
<1>1. UNCHANGED <<queue, generations>> /\ busy # NotBusy
  <2>1. UNCHANGED <<queue, generations>>
    BY DEF Serve, Load, Accept, Prepare, LoseAnswer, CallFails, links
  <2>2. busy # NotBusy
    BY DEF Serve, Load, Accept, Prepare, LoseAnswer, CallFails, NotBusy, None
  <2>. QED
    BY <2>1, <2>2
<1>2. \/ /\ requests' = requests /\ busy' # NotBusy /\ busy'.transport = busy.transport
      \/ busy' = NotBusy /\ \E a \in {"Pending", "Rejected"} : Answered(busy.transport, a)
  <2>1. CASE Prepare \/ LoseAnswer \/ CallFails
    BY <2>1 DEF Prepare, LoseAnswer, CallFails
  <2>2. CASE Accept
    <3>1. requests' = requests /\ busy' = [busy EXCEPT !.step = "Preparing"] /\ busy \in BusyType
      BY <2>2 DEF Accept, clients, ActorType
    <3>. QED
      BY <3>1 DEF BusyType, NotBusy, None
  <2>3. CASE Load
    <3>1. \/ requests' = requests /\ busy' = [busy EXCEPT !.step = "Accepting"]
          \/ requests' = requests /\ busy' = [busy EXCEPT !.step = "Preparing", !.tick = stored.tick]
          \/ busy' = NotBusy /\ Answered(busy.transport, "Rejected")
      <4>1. CASE stored = NoAcceptance \/ stored.frame = busy.frame
        BY <2>3, <4>1 DEF Load
      <4>2. CASE stored # NoAcceptance /\ stored.frame # busy.frame
        BY <2>3, <4>2 DEF Load
      <4>. QED
        BY <4>1, <4>2
    <3>2. busy \in BusyType
      BY DEF ActorType
    <3>3. CASE requests' = requests /\ busy' = [busy EXCEPT !.step = "Accepting"]
      BY <3>2, <3>3 DEF BusyType, NotBusy, None
    <3>4. CASE requests' = requests /\ busy' = [busy EXCEPT !.step = "Preparing", !.tick = stored.tick]
      BY <3>2, <3>4 DEF BusyType, NotBusy, None
    <3>. QED
      BY <3>1, <3>3, <3>4
  <2>4. CASE Serve
    <3>1. busy \in BusyType
      BY DEF ActorType
    <3>2. CASE intent = NoIntent \/ (intent.frame = busy.frame /\ ~intent.prepared)
      <4>1. requests' = requests /\ busy'.step \in {"Loading", "Preparing"}
            /\ busy'.transport = busy.transport
        BY <2>4, <3>1, <3>2 DEF Serve, BusyType
      <4>. QED
        BY <4>1 DEF NotBusy, None
    <3>3. CASE intent # NoIntent /\ ~(intent.frame = busy.frame /\ ~intent.prepared)
      BY <2>4, <3>3 DEF Serve
    <3>. QED
      BY <3>2, <3>3
  <2>. QED
    BY <2>1, <2>2, <2>3, <2>4
<1>3. CASE requests' = requests /\ busy' # NotBusy /\ busy'.transport = busy.transport
  BY <1>1, <1>3 DEF QueueInv, Command
<1>4. CASE busy' = NotBusy /\ \E a \in {"Pending", "Rejected"} : Answered(busy.transport, a)
  BY <1>1, <1>4, ReleaseKeepsQueue
<1>. QED
  BY <1>2, <1>3, <1>4

LEMMA QueueKept ==
    ASSUME IntentIInv, QueueInv, LinkType, Next PROVE QueueInv'
<1>. USE ExtractionAssumption
<1>1. CASE \E f \in Frames : Request(f)
  BY <1>1, RequestKeepsQueue
<1>2. CASE \E r \in requests : Answer(r)
  <2>1. PICK r \in requests : r.answer # None /\ requests' = requests \ {r}
    BY <1>2 DEF Answer
  <2>2. UNCHANGED <<queue, busy, generations>>
    BY <1>2 DEF Answer, actor, links
  <2>. QED
    BY <2>1, <2>2 DEF QueueInv, Command
<1>3. CASE Actor \/ LoseAnswer \/ CallFails
  BY <1>3, TakeKeepsQueue, CommandKeepsQueue DEF Actor, IntentIInv
<1>4. CASE Retire
  <2>1. queue' = <<>> /\ busy' = NotBusy
        /\ requests' = {IF r.answer = None THEN [r EXCEPT !.answer = "Rejected"] ELSE r : r \in requests}
    BY <1>4 DEF Retire
  <2>2. \A r \in RequestType : [r EXCEPT !.answer = "Rejected"] \in RequestType
    BY DEF RequestType
  <2>3. requests' \subseteq RequestType
    BY <2>1, <2>2 DEF QueueInv
  <2>. QED
    BY <2>1, <2>3 DEF QueueInv
<1>5. CASE Attach
  <2>1. UNCHANGED <<queue, requests, busy>> /\ generations' = generations + 1 /\ generations \in Nat
    BY <1>5 DEF Attach, actor, clients, LinkType, Transports
  <2>2. queue \in Seq(Command) /\ Command \subseteq Command'
    BY <2>1 DEF QueueInv, Command
  <2>3. queue \in Seq(Command')
    BY <2>2
  <2>. QED
    BY <2>1, <2>3 DEF QueueInv
<1>6. CASE UNCHANGED <<queue, requests, busy, generations>>
  BY <1>6 DEF QueueInv, Command
<1>7. CASE Ask \/ Plan \/ Judge \/ Execute \/ Publish \/ OwnerDelivers \/ OwnerWaited \/ PlanFails
           \/ ExecuteRefused
  BY <1>6, <1>7
     DEF Ask, Plan, Judge, Execute, Publish, OwnerDelivers, OwnerWaited, PlanFails, ExecuteRefused, Stop, actor, clients,
         links
<1>8. CASE \/ \E s \in sending : Write(s, TRUE) \/ Write(s, FALSE) \/ Complete(s)
           \/ AttachDelivers \/ Detach \/ PrepareHall
           \/ \E refreshed \in BOOLEAN : InstallHall(refreshed)
  BY <1>6, <1>8
     DEF Write, Complete, AttachDelivers, Detach, PrepareHall, InstallHall, actor, clients, links
<1>9. CASE \E other \in BOOLEAN : Deliver(other)
  BY <1>6, <1>9 DEF Deliver, actor, clients, links
<1>. QED
  BY <1>1, <1>2, <1>3, <1>4, <1>5, <1>7, <1>8, <1>9 DEF Next, Owner, Deliveries, Faults

LEMMA ToldKept ==
    ASSUME IntentIInv, QueueInv, LinkType, ToldInv, Next PROVE ToldInv'
<1>. USE ExtractionAssumption
<1>. DEFINE Words == {"Stored", "Pending", "Rejected"}
<1>1. ended = "Extraction" => ended' = "Extraction"
  <2>1. CASE Execute
    BY <2>1 DEF Execute, IntentIInv, OwnerInv, None
  <2>2. CASE ended' = ended
    BY <2>2
  <2>3. CASE (\E f \in Frames : Request(f)) \/ (\E r \in requests : Answer(r)) \/ Actor \/ LoseAnswer
             \/ CallFails
    BY <2>2, <2>3 DEF Request, Answer, Actor, Take, Serve, Load, Accept, Prepare, LoseAnswer, CallFails, barrier
  <2>4. CASE \/ Ask \/ Plan \/ Judge \/ Publish \/ OwnerDelivers \/ OwnerWaited \/ Retire \/ PlanFails
             \/ ExecuteRefused \/ \E other \in BOOLEAN : Deliver(other)
    BY <2>2, <2>4
       DEF Ask, Plan, Judge, Publish, OwnerDelivers, OwnerWaited, Retire, PlanFails, ExecuteRefused, Deliver
  <2>5. CASE \/ \E s \in sending : Write(s, TRUE) \/ Write(s, FALSE) \/ Complete(s)
             \/ AttachDelivers \/ Attach \/ Detach \/ PrepareHall
           \/ \E refreshed \in BOOLEAN : InstallHall(refreshed)
    BY <2>2, <2>5
       DEF Write, Complete, AttachDelivers, Attach, Detach, PrepareHall, InstallHall, barrier
  <2>. QED
    BY <2>1, <2>3, <2>4, <2>5 DEF Next, Owner, Deliveries, Faults
<1>2. ASSUME NEW t \in Transports, NEW w \in Words, told' = [told EXCEPT ![t] = told[t] \cup {w}],
             w = "Stored" => ended = "Extraction"
      PROVE  ToldInv'
  <2>1. told' \in [Transports -> SUBSET Words]
    BY <1>2 DEF ToldInv
  <2>2. \A u \in Transports : told'[u] \subseteq told[u] \cup {w}
    BY <1>2 DEF ToldInv
  <2>. QED
    BY <1>1, <1>2, <2>1, <2>2 DEF ToldInv, StoredIsTrue
<1>3. CASE told' = told
  BY <1>1, <1>3 DEF ToldInv, StoredIsTrue
<1>4. committed => ended = "Extraction"
  BY DEF IntentIInv, OwnerInv
<1>5. CASE \E f \in Frames : Request(f)
  <2>1. PICK f \in Frames : Request(f)
    BY <1>5
  <2>2. transport \in Transports
    BY <2>1 DEF Request, LinkType, Transports
  <2>. DEFINE w == IF committed /\ intent.frame = f THEN "Stored" ELSE "Rejected"
  <2>3. told' = told \/ told' = [told EXCEPT ![transport] = told[transport] \cup {w}]
    BY <2>1 DEF Request
  <2>4. w \in Words /\ (w = "Stored" => committed)
    OBVIOUS
  <2>. HIDE DEF w, Words
  <2>. QED
    BY <1>2, <1>3, <1>4, <2>2, <2>3, <2>4
<1>6. CASE \E r \in requests : Answer(r)
  <2>1. PICK r \in requests :
           r.answer # None /\ told' = [told EXCEPT ![r.transport] = told[r.transport] \cup {FinalAnswer(r)}]
    BY <1>6 DEF Answer
  <2>2. r.transport \in Transports /\ r.answer \in {"Pending", "Rejected"}
    BY <2>1 DEF QueueInv, RequestType
  <2>3. FinalAnswer(r) \in Words /\ (FinalAnswer(r) = "Stored" => committed)
    BY <2>2 DEF FinalAnswer
  <2>. HIDE DEF Words
  <2>. QED
    BY <1>2, <1>4, <2>1, <2>2, <2>3
<1>7. CASE Actor \/ LoseAnswer \/ CallFails
  BY <1>3, <1>7 DEF Actor, Take, Serve, Load, Accept, Prepare, LoseAnswer, CallFails, clients
<1>8. CASE \/ Ask \/ Plan \/ Judge \/ Execute \/ Publish \/ OwnerDelivers \/ OwnerWaited \/ Retire
           \/ PlanFails \/ ExecuteRefused \/ \E other \in BOOLEAN : Deliver(other)
  BY <1>3, <1>8
     DEF Ask, Plan, Judge, Execute, Publish, OwnerDelivers, OwnerWaited, Retire, PlanFails, ExecuteRefused, Deliver,
         clients
<1>9. CASE \/ \E s \in sending : Write(s, TRUE) \/ Write(s, FALSE) \/ Complete(s)
           \/ AttachDelivers \/ Attach \/ Detach \/ PrepareHall
           \/ \E refreshed \in BOOLEAN : InstallHall(refreshed)
  BY <1>3, <1>9
     DEF Write, Complete, AttachDelivers, Attach, Detach, PrepareHall, InstallHall, clients
<1>. QED
  BY <1>5, <1>6, <1>7, <1>8, <1>9 DEF Next, Owner, Deliveries, Faults

-----------------------------------------------------------------------------
(* The deliveries                                                            *)

deliveryVars == <<transport, generations, delivery, sending, results, hall>>

LinkIInv == LinkType /\ DeliveryInv

\* A delivery begins for a transport that has had none.
LEMMA BeginKeepsLinks ==
    ASSUME LinkIInv, Begin \/ UNCHANGED <<delivery, sending>>, committed' \in BOOLEAN,
           UNCHANGED <<transport, generations, results, hall>>
    PROVE  LinkIInv'
<1>. USE ExtractionAssumption
<1>1. LinkType /\ DeliveryInv
  BY DEF LinkIInv
<1>2. CASE UNCHANGED <<delivery, sending>>
  BY <1>1, <1>2 DEF LinkIInv, LinkType, DeliveryInv, DeliveredOnce
<1>3. CASE Begin
  <2>. DEFINE s == [transport |-> transport, write |-> None]
  <2>1. /\ transport \in Transports /\ transport <= generations /\ delivery.transport # transport
        /\ transport # 0 /\ transport \in Nat
    BY <1>1, <1>3 DEF Begin, Deliverable, LinkType, Transports
  <2>2. s \in SendingType /\ s.transport = transport /\ s.write # "Written"
    BY <2>1 DEF SendingType, None
  <2>3. /\ sending' = sending \cup {s}
        /\ delivery' = [transport |-> transport, state |-> "InFlight"]
    BY <1>3 DEF Begin
  <2>4. /\ delivery' \in DeliveryType /\ delivery'.transport = transport
        /\ delivery'.state # "Succeeded"
    BY <2>1, <2>3 DEF DeliveryType
  <2>. HIDE DEF s
  <2>5. LinkType'
    BY <1>1, <2>2, <2>3, <2>4 DEF LinkType
  <2>6. results[transport] = 0 /\ \A u \in sending : u.transport # transport
    BY <1>1, <2>1 DEF DeliveryInv
  <2>7. DeliveryInv'
    BY <1>1, <2>1, <2>2, <2>3, <2>4, <2>6 DEF DeliveryInv, DeliveredOnce
  <2>. QED
    BY <2>5, <2>7 DEF LinkIInv
<1>. QED
  BY <1>2, <1>3

LEMMA WriteKeepsLinks ==
    ASSUME LinkIInv, NEW s \in sending, NEW ok \in BOOLEAN, Write(s, ok) PROVE LinkIInv'
<1>. USE ExtractionAssumption
<1>. DEFINE u == [s EXCEPT !.write = IF ok THEN "Written" ELSE "Failed"]
<1>1. LinkType /\ DeliveryInv /\ s \in SendingType
  BY DEF LinkIInv, LinkType
<1>2. /\ UNCHANGED <<transport, generations, committed, delivery, hall>> /\ s.write = None
      /\ sending' = (sending \ {s}) \cup {u}
      /\ results' = IF ok THEN [results EXCEPT ![s.transport] = results[s.transport] + 1] ELSE results
  BY DEF Write
<1>3. /\ u \in SendingType /\ u.transport = s.transport /\ s.transport \in Transports
      /\ u.write = IF ok THEN "Written" ELSE "Failed"
  BY <1>1 DEF SendingType
<1>. HIDE DEF u
<1>4. results[s.transport] = 0
  BY <1>1, <1>2 DEF DeliveryInv, None
<1>5. /\ results' \in [Transports -> Nat]
      /\ results'[s.transport] = IF ok THEN 1 ELSE 0
      /\ \A t \in Transports \ {s.transport} : results'[t] = results[t]
  BY <1>1, <1>2, <1>3, <1>4 DEF LinkType
<1>6. LinkType'
  BY <1>1, <1>2, <1>3, <1>5 DEF LinkType
<1>7. \A r \in sending \ {s} : r.transport # s.transport /\ r.transport \in Transports
  BY <1>1 DEF DeliveryInv, LinkType, SendingType
<1>8. \A r, q \in sending' : r.transport = q.transport => r = q
  BY <1>1, <1>2, <1>3, <1>7 DEF DeliveryInv
<1>9. \A r \in sending' : /\ r.transport <= generations
                          /\ results'[r.transport] = IF r.write = "Written" THEN 1 ELSE 0
  BY <1>1, <1>2, <1>3, <1>5, <1>7 DEF DeliveryInv
<1>10. \A t \in Transports : generations < t => results'[t] = 0
  <2>1. s.transport <= generations /\ generations \in Nat /\ Transports \subseteq Nat
    BY <1>1 DEF DeliveryInv, LinkType, Transports
  <2>. QED
    BY <1>1, <1>3, <1>5, <2>1 DEF DeliveryInv
<1>11. transport # 0 /\ delivery.transport # transport =>
          results'[transport] = 0 /\ \A r \in sending' : r.transport # transport
  <2>. SUFFICES ASSUME transport # 0, delivery.transport # transport
                PROVE  results'[transport] = 0 /\ \A r \in sending' : r.transport # transport
    OBVIOUS
  <2>1. results[transport] = 0 /\ \A r \in sending : r.transport # transport
    BY <1>1 DEF DeliveryInv
  <2>2. transport \in Transports \ {s.transport}
    BY <1>1, <2>1 DEF LinkType, Transports
  <2>. QED
    BY <1>2, <1>3, <1>5, <2>1, <2>2
<1>12. delivery.state = "Succeeded" =>
          delivery.transport \in Transports /\ results'[delivery.transport] = 1
  BY <1>1, <1>4, <1>5 DEF DeliveryInv
<1>13. DeliveredOnce'
  BY <1>1, <1>5 DEF DeliveryInv, DeliveredOnce
<1>. QED
  BY <1>2, <1>6, <1>8, <1>9, <1>10, <1>11, <1>12, <1>13 DEF LinkIInv, DeliveryInv

LEMMA CompleteKeepsLinks ==
    ASSUME LinkIInv, NEW s \in sending, Complete(s) PROVE LinkIInv'
<1>. USE ExtractionAssumption
<1>1. LinkType /\ DeliveryInv /\ s \in SendingType
  BY DEF LinkIInv, LinkType
<1>2. /\ UNCHANGED <<transport, generations, committed, results, hall>> /\ s.write # None
      /\ sending' = sending \ {s} /\ delivery' = Completed(s)
  BY DEF Complete
<1>3. \/ delivery' = delivery
      \/ /\ delivery.transport = transport /\ transport = s.transport /\ s.write = "Written"
         /\ delivery' = [delivery EXCEPT !.state = "Succeeded"]
      \/ /\ transport = s.transport /\ s.write # "Written"
         /\ delivery' = NoDelivery
  BY <1>2 DEF Completed
<1>4. NoDelivery \in DeliveryType /\ NoDelivery.transport = 0 /\ NoDelivery.state # "Succeeded"
  BY DEF NoDelivery, DeliveryType, None
<1>5. \A r \in sending \ {s} : r.transport # s.transport
  BY <1>1 DEF DeliveryInv
<1>6. CASE delivery' = delivery
  BY <1>1, <1>2, <1>6 DEF LinkIInv, LinkType, DeliveryInv, DeliveredOnce
<1>7. CASE /\ delivery.transport = transport /\ transport = s.transport /\ s.write = "Written"
           /\ delivery' = [delivery EXCEPT !.state = "Succeeded"]
  <2>1. delivery' \in DeliveryType /\ delivery'.transport = transport
    BY <1>1, <1>7 DEF LinkType, DeliveryType
  <2>2. s.transport \in Transports /\ results[s.transport] = 1
    BY <1>1, <1>7 DEF SendingType, DeliveryInv
  <2>. QED
    BY <1>1, <1>2, <1>7, <2>1, <2>2 DEF LinkIInv, LinkType, DeliveryInv, DeliveredOnce
<1>8. CASE transport = s.transport /\ s.write # "Written" /\ delivery' = NoDelivery
  <2>1. results[s.transport] = 0
    BY <1>1, <1>8 DEF DeliveryInv
  <2>. QED
    BY <1>1, <1>2, <1>4, <1>5, <1>8, <2>1 DEF LinkIInv, LinkType, DeliveryInv, DeliveredOnce
<1>. QED
  BY <1>3, <1>6, <1>7, <1>8

\* A transport goes, and what was under way to it stays accounted for.
LEMMA CloseKeepsLinks ==
    ASSUME LinkIInv, committed' \in BOOLEAN, hall' \in HallType,
           UNCHANGED <<generations, sending, results>>,
           \/ transport' = 0 /\ delivery' = NoDelivery
           \/ UNCHANGED <<transport, delivery>>
    PROVE  LinkIInv'
<1>. USE ExtractionAssumption
<1>1. NoDelivery \in DeliveryType /\ NoDelivery.transport = 0 /\ NoDelivery.state # "Succeeded"
  BY DEF NoDelivery, DeliveryType, None
<1>2. CASE transport' = 0 /\ delivery' = NoDelivery
  <2>1. 0 \in 0 .. generations
    BY DEF LinkIInv, LinkType, Transports
  <2>. QED
    BY <1>1, <1>2, <2>1 DEF LinkIInv, LinkType, DeliveryInv, DeliveredOnce
<1>3. CASE UNCHANGED <<transport, delivery>>
  BY <1>3 DEF LinkIInv, LinkType, DeliveryInv, DeliveredOnce
<1>. QED
  BY <1>2, <1>3

LEMMA AttachKeepsLinks ==
    ASSUME LinkIInv, Attach PROVE LinkIInv'
<1>. USE ExtractionAssumption
<1>1. LinkType /\ DeliveryInv
  BY DEF LinkIInv
<1>2. /\ generations' = generations + 1 /\ transport' = generations + 1 /\ delivery' = NoDelivery
      /\ UNCHANGED <<committed, sending, results, hall>>
      /\ generations \in Nat /\ generations >= 1 /\ generations < MaxTransports /\ MaxTransports \in Nat
  BY <1>1 DEF Attach, LinkType, Transports
<1>3. NoDelivery \in DeliveryType /\ NoDelivery.transport = 0 /\ NoDelivery.state # "Succeeded"
  BY DEF NoDelivery, DeliveryType, None
<1>4. generations + 1 \in Transports /\ generations + 1 \in 0 .. (generations + 1)
  BY <1>2 DEF Transports
<1>5. LinkType'
  BY <1>1, <1>2, <1>3, <1>4 DEF LinkType
<1>6. results[generations + 1] = 0
  BY <1>1, <1>2, <1>4 DEF DeliveryInv
<1>7. \A s \in sending : s.transport \in Nat /\ s.transport <= generations
  BY <1>1 DEF DeliveryInv, LinkType, SendingType, Transports
<1>8. \A t \in Transports : t \in Nat
  BY DEF Transports
<1>9. \A s \in sending : s.transport # generations + 1 /\ s.transport <= generations + 1
  BY <1>2, <1>7
<1>10. \A t \in Transports : generations + 1 < t => generations < t
  BY <1>2, <1>8
<1>11. DeliveryInv'
  BY <1>1, <1>2, <1>3, <1>6, <1>9, <1>10 DEF DeliveryInv, DeliveredOnce
<1>. QED
  BY <1>5, <1>11 DEF LinkIInv

LEMMA LinksKept ==
    ASSUME IntentIInv, LinkIInv, Next PROVE LinkIInv'
<1>0. IntentIInv /\ LinkType /\ committed \in BOOLEAN /\ hall \in HallType
  BY DEF LinkIInv, LinkType
<1>1. CASE UNCHANGED deliveryVars /\ committed' \in BOOLEAN
  BY <1>1 DEF deliveryVars, LinkIInv, LinkType, DeliveryInv, DeliveredOnce
<1>2. CASE (\E f \in Frames : Request(f)) \/ (\E r \in requests : Answer(r)) \/ Actor \/ LoseAnswer
           \/ CallFails
  BY <1>0, <1>1, <1>2
     DEF Request, Answer, Actor, Take, Serve, Load, Accept, Prepare, LoseAnswer, CallFails, links,
         deliveryVars
<1>3. CASE Ask \/ Plan \/ Judge \/ Execute \/ Publish \/ OwnerWaited \/ PlanFails
           \/ ExecuteRefused
           \/ \E other \in BOOLEAN : Deliver(other)
  BY <1>0, <1>1, <1>3
     DEF Ask, Plan, Judge, Execute, Publish, OwnerWaited, PlanFails, ExecuteRefused, Deliver, links, deliveryVars
<1>4. CASE OwnerDelivers \/ AttachDelivers
  BY <1>0, <1>4, BeginKeepsLinks DEF OwnerDelivers, AttachDelivers
<1>5. CASE \E s \in sending : Write(s, TRUE) \/ Write(s, FALSE) \/ Complete(s)
  BY <1>5, WriteKeepsLinks, CompleteKeepsLinks
<1>6. CASE Retire \/ Detach
  BY <1>0, <1>6, CloseKeepsLinks DEF Retire, Detach
<1>7. CASE PrepareHall
  <2>1. hall' \in HallType
    <3>1. transport \in Nat /\ hall' = [hall EXCEPT !.projection = transport]
      BY <1>0, <1>7 DEF PrepareHall, LinkType, Transports
    <3>. QED
      BY <1>0, <3>1 DEF HallType
  <2>. QED
    BY <1>0, <1>7, <2>1, CloseKeepsLinks DEF PrepareHall
<1>8. CASE \E refreshed \in BOOLEAN : InstallHall(refreshed)
  <2>1. hall' \in HallType
    <3>1. \/ \E refreshed \in BOOLEAN :
                hall' = [projection |-> 0, consumed |-> TRUE, refreshed |-> refreshed]
          \/ hall' = [hall EXCEPT !.projection = 0]
      BY <1>8 DEF InstallHall
    <3>2. [hall EXCEPT !.projection = 0] \in HallType
      BY <1>0 DEF HallType
    <3>3. \A refreshed \in BOOLEAN :
             [projection |-> 0, consumed |-> TRUE, refreshed |-> refreshed] \in HallType
      BY DEF HallType
    <3>. QED
      BY <3>1, <3>2, <3>3
  <2>2. committed' \in BOOLEAN /\ UNCHANGED <<generations, sending, results>>
    BY <1>0, <1>8 DEF InstallHall
  <2>3. (transport' = 0 /\ delivery' = NoDelivery) \/ UNCHANGED <<transport, delivery>>
    BY <1>8 DEF InstallHall
  <2>. QED
    BY <2>1, <2>2, <2>3, CloseKeepsLinks
<1>9. CASE Attach
  BY <1>9, AttachKeepsLinks
<1>. QED
  BY <1>2, <1>3, <1>4, <1>5, <1>6, <1>7, <1>8, <1>9 DEF Next, Owner, Deliveries, Faults

-----------------------------------------------------------------------------
LEMMA ExtractionInitially == Init => ExtractionIInv
<1>. SUFFICES ASSUME Init PROVE ExtractionIInv
  OBVIOUS
<1>. USE ExtractionAssumption DEF Init
<1>1. BarrierType /\ OwnerInv
  BY DEF BarrierType, OwnerInv, OwnerType, OwnerStages, Idle
<1>2. ActorType
  BY DEF ActorType, StoredType, NoAcceptance, IntentType, NoIntent, BusyType, NotBusy
<1>3. LockInv /\ PinnedInv /\ AheadInv
  BY DEF LockInv, PinnedInv, AheadInv, NotBusy, NoIntent, NoAcceptance, Idle, None
<1>4. AcceptedTickAhead /\ IntentIsStored /\ ToldInv
  BY DEF AcceptedTickAhead, IntentIsStored, ToldInv, StoredIsTrue, Idle, None
<1>5. LinkType /\ DeliveryInv
  <2>1. generations \in Transports /\ transport \in 0 .. generations
    BY DEF Transports
  <2>2. delivery \in DeliveryType /\ delivery.state # "Succeeded"
    BY DEF DeliveryType, NoDelivery, None
  <2>3. DeliveryInv
    BY <2>1, <2>2 DEF DeliveryInv, DeliveredOnce
  <2>. QED
    BY <2>1, <2>2, <2>3 DEF LinkType, HallType
<1>6. QueueInv
  BY DEF QueueInv
<1>. QED
  BY <1>1, <1>2, <1>3, <1>4, <1>5, <1>6 DEF ExtractionIInv, IntentIInv

\* The inductive invariant: the actor's lock, the pinned ticks, the queue and the
\* deliveries, under every interleaving of actor, owner, connections and deliveries.
THEOREM ExtractionIsInductive == Spec => []ExtractionIInv
<1>1. ASSUME ExtractionIInv, [Next]_vars PROVE ExtractionIInv'
  <2>1. CASE Next
    <3>1. IntentIInv' /\ QueueInv' /\ ToldInv'
      BY <1>1, <2>1, IntentKept, QueueKept, ToldKept DEF ExtractionIInv
    <3>2. LinkType' /\ DeliveryInv'
      BY <1>1, <2>1, LinksKept DEF ExtractionIInv, LinkIInv
    <3>. QED
      BY <3>1, <3>2 DEF ExtractionIInv
  <2>2. CASE UNCHANGED vars
    <3>1. UNCHANGED intentVars /\ UNCHANGED deliveryVars /\ UNCHANGED <<queue, requests, told>>
      BY <2>2 DEF vars, barrier, actor, clients, links, intentVars, deliveryVars
    <3>2. IntentIInv'
      BY <1>1, <3>1, IntentStutters DEF ExtractionIInv
    <3>3. QueueInv' /\ ToldInv'
      BY <1>1, <3>1
         DEF ExtractionIInv, QueueInv, Command, ToldInv, StoredIsTrue, intentVars, deliveryVars
    <3>4. LinkType' /\ DeliveryInv'
      BY <1>1, <3>1
         DEF ExtractionIInv, LinkType, DeliveryInv, DeliveredOnce, intentVars, deliveryVars
    <3>. QED
      BY <3>2, <3>3, <3>4 DEF ExtractionIInv
  <2>. QED
    BY <1>1, <2>1, <2>2
<1>. QED
  BY <1>1, ExtractionInitially, PTL DEF Spec

\* As many commands wait as there were transports, at most.
LEMMA QueueIsBounded == QueueInv /\ LinkType => Len(queue) <= generations
<1>. SUFFICES ASSUME QueueInv, LinkType, Len(queue) > generations PROVE FALSE
  BY DEF QueueInv, LinkType, Transports
<1>1. generations \in Nat /\ Len(queue) \in Nat /\ queue \in Seq(Command)
  BY DEF QueueInv, LinkType, Transports
<1>. DEFINE S == 1 .. Len(queue)
            T == 1 .. generations
            f == [i \in S |-> queue[i].transport]
<1>2. f \in [S -> T]
  <2>1. \A i \in S : queue[i] \in Command
    BY <1>1
  <2>. QED
    BY <2>1 DEF Command
<1>3. /\ IsFiniteSet(S) /\ IsFiniteSet(T)
      /\ Cardinality(S) = Len(queue) /\ Cardinality(T) = generations
  <2>1. \A n \in Nat : IsFiniteSet(1 .. n) /\ Cardinality(1 .. n) = n
    <3>. TAKE n \in Nat
    <3>1. IsFiniteSet(1 .. n) /\ Cardinality(1 .. n) = IF 1 > n THEN 0 ELSE n - 1 + 1
      BY FS_Interval
    <3>. QED
      BY <3>1
  <2>. QED
    BY <1>1, <2>1
<1>4. Cardinality(T) < Cardinality(S)
  BY <1>1, <1>3
<1>5. \E x, y \in S : x # y /\ f[x] = f[y]
  <2>. HIDE DEF S, T, f
  <2>. QED
    BY <1>2, <1>3, <1>4, FS_PigeonHole
<1>. QED
  BY <1>5 DEF QueueInv

\* No frame finds an intent whose tick is past, unless an acceptance whose answer
\* was lost was recovered, or frames were acknowledged between the reading of a
\* command's tick and its lock: the reserve covers all that happens under the lock.
THEOREM TickIsAhead == Spec => []AcceptedTickAhead
<1>1. ExtractionIInv => AcceptedTickAhead
  BY DEF ExtractionIInv, IntentIInv
<1>. QED
  BY <1>1, ExtractionIsInductive, PTL

\* What the actor holds is what the database accepted, what is committed was
\* planned at its own tick, and nobody is told of a result that is not there.
THEOREM IntentInvHolds == Spec => []IntentInv
<1>1. ExtractionIInv => IntentInv
  <2>. SUFFICES ASSUME ExtractionIInv PROVE IntentInv
    OBVIOUS
  <2>. USE ExtractionAssumption
  <2>1. acked \in 1 .. MaxTick /\ acked \in Nat /\ owner.tick <= acked + 1
    BY DEF ExtractionIInv, IntentIInv, BarrierType, OwnerInv, Idle
  <2>2. intent.frame \in Frames \cup {None}
    BY DEF ExtractionIInv, IntentIInv, ActorType, IntentType
  <2>3. intent.tick <= acked + TickReserve
    BY <2>1 DEF ExtractionIInv, IntentIInv, IntentIsStored, PinnedInv, NoIntent
  <2>4. transport \in 0 .. generations /\ delivery.state \in {None, "InFlight", "Succeeded"}
    BY DEF ExtractionIInv, LinkType, DeliveryType
  <2>5. Len(queue) <= generations
    BY QueueIsBounded DEF ExtractionIInv
  <2>6. IntentIsStored /\ StoredIsTrue
    BY DEF ExtractionIInv, IntentIInv, ToldInv
  <2>. QED
    BY <2>1, <2>2, <2>3, <2>4, <2>5, <2>6 DEF IntentInv, ExtractionTypeOK
<1>. QED
  BY <1>1, ExtractionIsInductive, PTL

\* The result is written at most once to a transport.
THEOREM ResultDeliveredOnce == Spec => []DeliveredOnce
<1>1. ExtractionIInv => DeliveredOnce
  BY DEF ExtractionIInv, DeliveryInv
<1>. QED
  BY <1>1, ExtractionIsInductive, PTL

\* A result is consumed only for the transport it was written to, and only once the
\* owner has retired the actor, whether or not the refresh behind it succeeds.
THEOREM InstallsWhatWasDelivered == Spec => InstalledIsCurrent
<1>. DEFINE Installed == hall'.consumed /\ ~hall.consumed =>
                           results[hall.projection] = 1 /\ owner.stage = "Done"
<1>1. ASSUME ExtractionIInv, [Next]_vars PROVE [Installed]_vars
  <2>1. CASE \E refreshed \in BOOLEAN : InstallHall(refreshed)
    <3>. SUFFICES ASSUME hall'.consumed, ~hall.consumed
                  PROVE  results[hall.projection] = 1 /\ owner.stage = "Done"
      OBVIOUS
    <3>1. hall \in HallType
      BY <1>1 DEF ExtractionIInv, LinkType
    <3>2. HallAccepted
      BY <2>1, <3>1 DEF InstallHall, HallType
    <3>3. ~registered /\ transport = hall.projection /\ delivery.state = "Succeeded"
          /\ delivery.transport = transport
      BY <3>2 DEF HallAccepted
    <3>. QED
      BY <1>1, <3>3 DEF ExtractionIInv, DeliveryInv, IntentIInv, OwnerInv
  <2>2. CASE hall' = hall
    BY <2>2
  <2>3. CASE PrepareHall
    BY <1>1, <2>3 DEF PrepareHall, ExtractionIInv, LinkType, HallType
  <2>4. CASE (\E f \in Frames : Request(f)) \/ (\E r \in requests : Answer(r)) \/ Actor \/ LoseAnswer
             \/ CallFails
    BY <2>2, <2>4
       DEF Request, Answer, Actor, Take, Serve, Load, Accept, Prepare, LoseAnswer, CallFails, links
  <2>5. CASE Owner \/ PlanFails \/ ExecuteRefused \/ \E other \in BOOLEAN : Deliver(other)
    BY <2>2, <2>5
       DEF Owner, Ask, Plan, Judge, Execute, Publish, OwnerDelivers, OwnerWaited, Retire, PlanFails,
           ExecuteRefused, Deliver, links
  <2>6. CASE \/ \E s \in sending : Write(s, TRUE) \/ Write(s, FALSE) \/ Complete(s)
             \/ AttachDelivers \/ Attach \/ Detach
    BY <2>2, <2>6 DEF Write, Complete, AttachDelivers, Attach, Detach
  <2>7. CASE UNCHANGED vars
    BY <2>7
  <2>. HIDE DEF Installed
  <2>. QED
    BY <1>1, <2>1, <2>3, <2>4, <2>5, <2>6, <2>7 DEF Next, Deliveries, Faults
<1>. QED
  BY <1>1, ExtractionIsInductive, PTL DEF Spec, InstalledIsCurrent
=============================================================================
