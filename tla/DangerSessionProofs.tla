------------------------ MODULE DangerSessionProofs ------------------------
(* Proofs about DangerSession: for any length of the channel and of the      *)
(* countdown, any mailbox and any number of connections, no completion is    *)
(* missed and no two fall on one tick, a committed recall was due, a player  *)
(* who is away is counted down from the moment of leaving, and the session   *)
(* and its directories agree on one writer.                                  *)
(* The argument rests on two clocks that stay close: what a waiting command  *)
(* or a session operation has read of the tick is at most MaxQueueTicks old  *)
(* (CommandInv, LockInv), so a channel or a countdown that starts with it    *)
(* ends in a frame that is still to come (CountInv).                         *)
EXTENDS DangerSession, SequenceTheorems, TLAPS

Recalls == {"EmergencyRecall", "DisconnectRecovery"}

Command == [intent : {"Start", "Cancel"}, request : Requests \cup {None},
            since : Nat, tick : Nat]

\* The frame that is evaluated next or was evaluated last, and the tick up to
\* which completions have been looked for.
Horizon == IF frame # NoFrame THEN frame.tick ELSE acked
Looked == IF owner.stage = "Evaluated" THEN frame.tick ELSE acked

BarrierType ==
    /\ acked \in Nat /\ acked >= 1 /\ acked <= MaxTick
    /\ frame \in [tick : Nat, other : Others \cup {None}]
    /\ owner \in [stage : {"Idle", "Pinned", "Preparing", "Evaluated", "Executing",
                           "Publishing", "Retiring", "Done", "Stopped"},
                  recall : Recalls \cup {None},
                  cause : {None, "Store", "InvalidTerminalWinner"}]
    /\ ended \in [kind : Kinds \cup {None}, tick : Nat, request : Requests \cup {None}]
    /\ ended # NotEnded <=> ended.kind # None

ActorType ==
    /\ channel \in [state : {"Inactive", "Channeling", "Prepared"},
                    request : Requests \cup {None}, started : Nat]
    /\ channel.started <= acked
    /\ channel.state = "Inactive" => channel = Inactive
    /\ lost \in Nat /\ lost <= acked
    /\ pinned \in Nat /\ pinned <= acked + 1

WriterType ==
    /\ life \in [next : Nat, active : Nat, pending : BOOLEAN]
    /\ recallDir \in [generation : Nat, writer : Connections \cup {0}]
    /\ exDir \in [actor : {None, "Registered", "Committed", "Retired", "Aborted"},
                  writer : Connections \cup {0}]
    /\ session \in [active : Connections \cup {0}, recallLease : Nat, exBound : BOOLEAN,
                    bound : BOOLEAN, ticks : BOOLEAN]
    /\ op \in [step : {None, "Recall", "Extraction", "Restore", "Undo", "Publish", "Detach"},
               writer : Connections \cup {0}, lease : Nat, tick : Nat]
    /\ dialed \in Connections /\ handlers \subseteq 1 .. dialed
    /\ available \subseteq Connections

\* A frame is the successor of the acknowledged tick, and the owner has one
\* from its pin to its acknowledgement.
FrameInv ==
    /\ frame = NoFrame \/ (frame.tick = acked + 1 /\ acked < MaxTick)
    /\ owner.stage \in {"Pinned", "Preparing", "Evaluated", "Executing",
                        "Publishing", "Retiring"} => frame # NoFrame

\* The pin: a tick with a candidate is pinned and no other is, until the end.
PinInv ==
    /\ owner.stage = "Idle" => pinned = 0
    /\ owner.stage = "Pinned" => pinned = IF frame.other # None THEN frame.tick ELSE 0
    /\ owner.stage \in {"Idle", "Pinned", "Preparing"} => owner.recall = None
    /\ owner.stage = "Preparing" =>
          pinned = frame.tick /\ (ExplicitDue \/ LinkLostDue)
    /\ owner.stage = "Evaluated" => (pinned # 0 <=> Candidates # {})
    /\ owner.stage = "Executing" => pinned # 0 /\ Candidates # {}
    /\ owner.stage \in {"Publishing", "Retiring", "Done"} => pinned # 0 /\ ended # NotEnded
    /\ owner.stage = "Stopped" => pinned # 0
    /\ ended # NotEnded => pinned # 0
    /\ pinned = 0 => channel.state # "Prepared"

\* The candidate the owner holds is due in its frame.
DueInv ==
    owner.stage \in {"Evaluated", "Executing"} =>
        /\ owner.recall = "EmergencyRecall" => ExplicitDue
        /\ owner.recall = "DisconnectRecovery" => LinkLostDue

\* The player was last told of the channel that is open.
ToldInv == channel.state # "Inactive" => told = PendingAnswer(channel)

\* Lifecycle and directory agree; a countdown runs only while nobody is attached.
LifeInv ==
    /\ life.pending <=> lost # 0
    /\ life.active = recallDir.generation /\ life.active < life.next
    /\ lost # 0 /\ pinned = 0 => recallDir.generation = 0

\* As long as the tick is not pinned for good, a completion is still to come,
\* and that of the channel comes before that of the countdown.
CountInv ==
    pinned = 0 \/ owner.stage = "Pinned" =>
        /\ channel.state # "Inactive" => Looked < CompletionTick
        /\ lost # 0 => Looked < DeadlineTick
        /\ channel.state # "Inactive" /\ lost # 0 => channel.started <= lost + MaxQueueTicks

\* How old the tick of a waiting command may be
Recent(command) ==
    /\ command.since >= 1 /\ command.since <= acked
    /\ Horizon <= command.since + MaxQueueTicks
    /\ op.tick # 0 => command.since <= op.tick
    /\ lost # 0 /\ pinned = 0 => command.since <= lost

CommandInv ==
    /\ mailbox \in Seq(Command) /\ Len(mailbox) <= MailboxCapacity
    /\ \A i \in 1 .. Len(mailbox) : Recent(mailbox[i])
    /\ serving # NoCommand =>
          /\ serving \in Command /\ Recent(serving)
          /\ serving.since <= serving.tick /\ serving.tick <= acked
          /\ serving.intent = "Start" => serving.request # None
    /\ \A i \in 1 .. Len(mailbox) : mailbox[i].intent = "Start" => mailbox[i].request # None

\* The tick an operation has read, and what the lock of the session protects
LockInv ==
    /\ op.step = None => op = NoOp
    /\ op.tick # 0 => /\ op.step \in {"Recall", "Restore", "Undo", "Detach"}
                      /\ op.tick <= acked /\ Horizon <= op.tick + MaxQueueTicks
    /\ op.step # None => op.writer # 0 /\ op.writer <= dialed

\* The extraction directory has a writer only for a session that knows it, and
\* loses its actor only with the danger.
ExtractionInv ==
    /\ ~session.exBound => exDir.writer = 0
    /\ session.exBound => exDir.actor \in {"Registered", "Committed", "Retired"}
    /\ exDir.actor = "Retired" => ended # NotEnded
    /\ ~session.ticks => ~session.bound
    /\ ~session.bound => ended # NotEnded

\* Who holds the recall directory at each step of an operation
HandoffInv ==
    /\ op.step \in {None, "Recall"} /\ session.active \in handlers =>
          /\ recallDir = [generation |-> session.recallLease, writer |-> session.active]
          /\ session.recallLease # 0
    /\ op.step # "Publish" /\ session.active \in handlers => exDir.writer \in {0, session.active}
    /\ op.step \in {"Extraction", "Restore", "Undo", "Publish"} =>
          recallDir = [generation |-> op.lease, writer |-> op.writer]
    /\ op.step = "Extraction" => session.exBound
    /\ op.step = "Publish" => exDir.writer \in {0, op.writer}
    /\ op.step \in {"Extraction", "Restore", "Undo", "Publish", "Detach"} =>
          recallDir.generation = op.lease /\ op.lease # 0
    /\ op.step \in {"Restore", "Undo"} => ended # NotEnded
    /\ op.step = "Detach" => session.active \notin handlers

\* A player who is away is counted down from the moment of leaving.
AwayInv ==
    op.step \in {None, "Recall"} /\ pinned = 0 =>
        /\ session.active \notin handlers => lost # 0
        /\ session.active = 0 => lost = left

\* The inductive invariant
DangerIInv ==
    /\ BarrierType /\ ActorType /\ WriterType /\ FrameInv /\ PinInv /\ DueInv
    /\ ToldInv /\ LifeInv /\ CountInv /\ CommandInv /\ LockInv
    /\ ExtractionInv /\ HandoffInv /\ AwayInv
    /\ RecallIsDue /\ ServedUntilEnded

-----------------------------------------------------------------------------
(* What the steps leave alone.                                               *)

LEMMA Constants ==
    /\ ExplicitTicks \in Nat /\ LinkLostTicks \in Nat /\ MaxQueueTicks \in Nat
    /\ MaxTick \in Nat /\ MaxConnections \in Nat /\ MailboxCapacity \in Nat
    /\ ExplicitTicks >= 1 /\ LinkLostTicks >= 1 /\ MaxQueueTicks >= 1 /\ MaxTick >= 1
    /\ MaxConnections >= 1 /\ MaxQueueTicks < ExplicitTicks
    /\ ExplicitTicks + MaxQueueTicks < LinkLostTicks
    /\ None \notin Requests
    /\ Others \subseteq {"LethalDeath", "SuccessfulExtraction", "FaultRestoration"}
  BY TickAssumption

\* A session operation that does not reach the lifecycle leaves what the owner
\* and the actor rely on.
LEMMA ActorStays ==
    ASSUME DangerIInv, UNCHANGED <<barrier, actor, told, life, recallDir>>
    PROVE  /\ BarrierType' /\ ActorType' /\ FrameInv' /\ PinInv' /\ DueInv' /\ ToldInv'
           /\ LifeInv' /\ CountInv' /\ RecallIsDue'
<1>1. /\ UNCHANGED <<acked, frame, owner, ended>> /\ UNCHANGED <<channel, lost, pinned>>
      /\ UNCHANGED <<told, life, recallDir>>
  BY DEF barrier, actor
<1>2. BarrierType' /\ ActorType' /\ FrameInv'
  BY <1>1 DEF DangerIInv, BarrierType, ActorType, FrameInv
<1>3. PinInv' /\ DueInv'
  BY <1>1 DEF DangerIInv, PinInv, DueInv, ExplicitDue, LinkLostDue, CompletionTick,
              DeadlineTick, Candidates
<1>4. ToldInv' /\ LifeInv' /\ RecallIsDue'
  BY <1>1 DEF DangerIInv, ToldInv, LifeInv, RecallIsDue, PendingAnswer, DeadlineTick
<1>5. CountInv'
  BY <1>1 DEF DangerIInv, CountInv, Looked, CompletionTick, DeadlineTick
<1>. QED
  BY <1>2, <1>3, <1>4, <1>5

\* A step of the owner or of the mailbox leaves what the session relies on.
LEMMA SessionStays ==
    ASSUME DangerIInv, UNCHANGED <<life, recallDir, session, op, links>>,
           UNCHANGED <<exDir, lost>>,
           ended # NotEnded => ended' # NotEnded, pinned # 0 => pinned' # 0
    PROVE  /\ WriterType' /\ LifeInv' /\ ExtractionInv' /\ HandoffInv' /\ AwayInv'
           /\ ServedUntilEnded'
<1>1. /\ UNCHANGED <<life, recallDir, session, op, exDir, lost>>
      /\ UNCHANGED <<dialed, handlers, open, available, left, refused>>
  BY DEF links
<1>2. WriterType' /\ LifeInv'
  BY <1>1 DEF DangerIInv, WriterType, LifeInv
<1>3. ExtractionInv' /\ HandoffInv'
  BY <1>1 DEF DangerIInv, ExtractionInv, HandoffInv
<1>4. AwayInv' /\ ServedUntilEnded'
  BY <1>1 DEF DangerIInv, AwayInv, ServedUntilEnded
<1>. QED
  BY <1>2, <1>3, <1>4

\* What waits in the mailbox stays recent when the frame and the countdown do.
LEMMA CommandsStay ==
    ASSUME DangerIInv, UNCHANGED <<mailbox, serving>>, Horizon' = Horizon, acked' = acked,
           op'.tick # 0 => op'.tick = op.tick \/ op'.tick = acked,
           lost' # 0 /\ pinned' = 0 => \/ lost' = lost /\ pinned = 0
                                      \/ lost' = op.tick
    PROVE  CommandInv'
<1>1. ASSUME NEW c, Recent(c) PROVE Recent(c)'
  BY <1>1 DEF DangerIInv, Recent
<1>. QED
  BY <1>1 DEF DangerIInv, CommandInv

\* The tick an operation has read stays recent while no frame comes.
LEMMA LockStays ==
    ASSUME DangerIInv, Horizon' = Horizon, acked' = acked, UNCHANGED <<op, dialed>>
    PROVE  LockInv'
  BY DEF DangerIInv, LockInv

-----------------------------------------------------------------------------
(* The extraction actor, the successor, and the connections.                 *)

LEMMA RegisterKeeps ==
    ASSUME DangerIInv, RegisterExtraction PROVE DangerIInv'
<1>1. /\ exDir.actor = None /\ exDir' = [exDir EXCEPT !.actor = "Registered"]
      /\ UNCHANGED <<barrier, actor, commands, life, recallDir, session, op, links>>
  BY DEF RegisterExtraction
<1>2. /\ UNCHANGED <<acked, frame, owner, ended, lost, pinned, mailbox, serving, told>>
      /\ UNCHANGED <<life, recallDir, session, op>>
      /\ UNCHANGED <<dialed, handlers, open, available, left, refused>>
  BY <1>1 DEF barrier, actor, commands, links
<1>3. /\ exDir' \in [actor : {None, "Registered", "Committed", "Retired", "Aborted"},
                     writer : Connections \cup {0}]
      /\ exDir'.actor = "Registered" /\ exDir'.writer = exDir.writer
  BY <1>1 DEF DangerIInv, WriterType
<1>4. /\ BarrierType' /\ ActorType' /\ FrameInv' /\ PinInv' /\ DueInv' /\ ToldInv'
      /\ LifeInv' /\ CountInv' /\ RecallIsDue'
  BY <1>1, ActorStays DEF commands
<1>5. CommandInv' /\ LockInv'
  BY <1>2, CommandsStay, LockStays DEF Horizon
<1>6. WriterType' /\ ExtractionInv' /\ HandoffInv' /\ AwayInv' /\ ServedUntilEnded'
  BY <1>2, <1>3
  DEF DangerIInv, WriterType, ExtractionInv, HandoffInv, AwayInv, ServedUntilEnded
<1>. QED
  BY <1>4, <1>5, <1>6 DEF DangerIInv

LEMMA BindKeeps ==
    ASSUME DangerIInv, BindExtraction PROVE DangerIInv'
<1>1. /\ op = NoOp /\ ~session.exBound /\ exDir.actor = "Registered"
      /\ IF session.active \in available \cup {0}
         THEN /\ session' = [session EXCEPT !.exBound = TRUE]
              /\ exDir' = [exDir EXCEPT !.writer = session.active]
         ELSE exDir' = [exDir EXCEPT !.actor = "Aborted"] /\ UNCHANGED session
      /\ UNCHANGED <<barrier, actor, commands, life, recallDir, op, links>>
  BY DEF BindExtraction
<1>2. /\ UNCHANGED <<acked, frame, owner, ended, lost, pinned, mailbox, serving, told>>
      /\ UNCHANGED <<life, recallDir, op>>
      /\ UNCHANGED <<dialed, handlers, open, available, left, refused>>
  BY <1>1 DEF barrier, actor, commands, links
<1>3. /\ exDir' \in [actor : {None, "Registered", "Committed", "Retired", "Aborted"},
                     writer : Connections \cup {0}]
      /\ session' \in [active : Connections \cup {0}, recallLease : Nat, exBound : BOOLEAN,
                       bound : BOOLEAN, ticks : BOOLEAN]
      /\ session'.active = session.active /\ session'.recallLease = session.recallLease
      /\ session'.bound = session.bound /\ session'.ticks = session.ticks
      /\ \/ session'.exBound /\ exDir'.actor = "Registered" /\ exDir'.writer = session.active
         \/ ~session'.exBound /\ exDir'.actor = "Aborted" /\ exDir'.writer = exDir.writer
  BY <1>1 DEF DangerIInv, WriterType
<1>4. /\ BarrierType' /\ ActorType' /\ FrameInv' /\ PinInv' /\ DueInv' /\ ToldInv'
      /\ LifeInv' /\ CountInv' /\ RecallIsDue'
  BY <1>1, ActorStays DEF commands
<1>5. CommandInv' /\ LockInv'
  BY <1>2, CommandsStay, LockStays DEF Horizon
<1>6. op.step = "None"
  BY <1>1 DEF NoOp, None
<1>7. /\ WriterType' /\ ExtractionInv' /\ AwayInv' /\ ServedUntilEnded'
  <2>1. WriterType'
    BY <1>2, <1>3 DEF DangerIInv, WriterType
  <2>2. ExtractionInv'
    BY <1>1, <1>2, <1>3 DEF DangerIInv, ExtractionInv
  <2>3. AwayInv' /\ ServedUntilEnded'
    BY <1>2, <1>3 DEF DangerIInv, AwayInv, ServedUntilEnded
  <2>. QED
    BY <2>1, <2>2, <2>3
<1>8. HandoffInv'
  BY <1>2, <1>3, <1>6 DEF DangerIInv, HandoffInv, None
<1>. QED
  BY <1>4, <1>5, <1>7, <1>8 DEF DangerIInv

\* StoreSuccessor and UnbindTicks take the danger out of a session whose danger
\* has ended.
LEMMA SuccessorKeeps ==
    ASSUME DangerIInv, StoreSuccessor \/ UnbindTicks \/ EnterNextDanger PROVE DangerIInv'
<1>1. UNCHANGED <<barrier, actor, commands, life, recallDir, exDir, op>>
  BY DEF StoreSuccessor, UnbindTicks, EnterNextDanger, writers
<1>2. UNCHANGED <<dialed, handlers, open, available, left>>
  BY DEF StoreSuccessor, UnbindTicks, EnterNextDanger, links
<1>3. /\ UNCHANGED <<acked, frame, owner, ended, lost, pinned, mailbox, serving, told>>
      /\ UNCHANGED <<life, recallDir, op, exDir>>
  BY <1>1 DEF barrier, actor, commands
<1>4. /\ session' \in [active : Connections \cup {0}, recallLease : Nat, exBound : BOOLEAN,
                       bound : BOOLEAN, ticks : BOOLEAN]
      /\ session'.active = session.active /\ session'.recallLease = session.recallLease
      /\ session'.exBound = session.exBound
      /\ session'.bound # session.bound => ended # NotEnded /\ ~session'.bound
      /\ session'.ticks # session.ticks => ~session'.bound
      /\ refused' # refused => ended # NotEnded
      /\ ~session'.bound => ended # NotEnded
      /\ ~session'.ticks => ~session'.bound
  <2>1. CASE StoreSuccessor
    BY <2>1 DEF StoreSuccessor, DangerIInv, WriterType, BarrierType, links, ExtractionInv, NotEnded, None
  <2>2. CASE UnbindTicks
    BY <2>2 DEF UnbindTicks, DangerIInv, WriterType, links, ExtractionInv
  <2>3. CASE EnterNextDanger
    BY <2>3 DEF EnterNextDanger, DangerIInv, WriterType, ExtractionInv, writers
  <2>. QED
    BY <2>1, <2>2, <2>3
<1>5. /\ BarrierType' /\ ActorType' /\ FrameInv' /\ PinInv' /\ DueInv' /\ ToldInv'
      /\ LifeInv' /\ CountInv' /\ RecallIsDue'
  BY <1>1, ActorStays DEF commands
<1>6. CommandInv' /\ LockInv'
  BY <1>2, <1>3, CommandsStay, LockStays DEF Horizon
<1>7. WriterType' /\ ExtractionInv' /\ HandoffInv' /\ AwayInv' /\ ServedUntilEnded'
  BY <1>2, <1>3, <1>4
  DEF DangerIInv, WriterType, ExtractionInv, HandoffInv, AwayInv, ServedUntilEnded
<1>. QED
  BY <1>5, <1>6, <1>7 DEF DangerIInv

\* A lost connection, a failed writer, or a task that never reaches its loop
LEMMA LinkFails ==
    ASSUME DangerIInv, NEW n \in Connections,
           Drop(n) \/ WriterFails(n) \/ FirstPublicationFails(n)
    PROVE  DangerIInv'
<1>1. /\ UNCHANGED <<barrier, actor, commands, writers, dialed, handlers, left, refused>>
      /\ available' \subseteq available
  BY DEF Drop, WriterFails, FirstPublicationFails, Retired
<1>2. /\ UNCHANGED <<acked, frame, owner, ended, lost, pinned, mailbox, serving, told>>
      /\ UNCHANGED <<life, recallDir, op, exDir, session>>
      /\ UNCHANGED <<dialed, handlers, left, refused>>
  BY <1>1 DEF barrier, actor, commands, writers
<1>3. /\ BarrierType' /\ ActorType' /\ FrameInv' /\ PinInv' /\ DueInv' /\ ToldInv'
      /\ LifeInv' /\ CountInv' /\ RecallIsDue'
  BY <1>1, ActorStays DEF commands, writers
<1>4. CommandInv' /\ LockInv'
  BY <1>2, CommandsStay, LockStays DEF Horizon
<1>5. WriterType' /\ ExtractionInv' /\ HandoffInv' /\ AwayInv' /\ ServedUntilEnded'
  BY <1>1, <1>2
  DEF DangerIInv, WriterType, ExtractionInv, HandoffInv, AwayInv, ServedUntilEnded
<1>. QED
  BY <1>3, <1>4, <1>5 DEF DangerIInv

-----------------------------------------------------------------------------
(* Session operations that do not reach the lifecycle of the actor.          *)

\* Fields of the operation that holds no lock
LEMMA NoOpFields ==
    /\ NoOp.step = "None" /\ NoOp.writer = 0 /\ NoOp.lease = 0 /\ NoOp.tick = 0
    /\ NoOp \in [step : {None, "Recall", "Extraction", "Restore", "Undo", "Publish", "Detach"},
                 writer : Connections \cup {0}, lease : Nat, tick : Nat]
  BY DEF NoOp, None

LEMMA AttachBeginKeeps ==
    ASSUME DangerIInv, AttachBegin PROVE DangerIInv'
<1>1. /\ op = NoOp /\ dialed < MaxConnections /\ dialed' = dialed + 1
      /\ IF ExtractionAnswers
         THEN /\ op' = [NoOp EXCEPT !.step = "Recall", !.writer = dialed']
              /\ available' = available \cup {dialed'}
              /\ UNCHANGED refused
         ELSE refused' = "Attach" /\ UNCHANGED <<op, available, open>>
      /\ UNCHANGED <<barrier, actor, commands, life, recallDir, exDir, session, handlers, left>>
  BY DEF AttachBegin
<1>2. /\ UNCHANGED <<acked, frame, owner, ended, lost, pinned, mailbox, serving, told>>
      /\ UNCHANGED <<life, recallDir, exDir, session, handlers, left>>
  BY <1>1 DEF barrier, actor, commands
<1>3. dialed' \in Connections /\ handlers' \subseteq 1 .. dialed'
  BY <1>1, <1>2, Constants DEF DangerIInv, WriterType, Connections
<1>4. /\ op' \in [step : {None, "Recall", "Extraction", "Restore", "Undo", "Publish", "Detach"},
                  writer : Connections \cup {0}, lease : Nat, tick : Nat]
      /\ op'.tick = 0
      /\ \/ op' = NoOp /\ op'.step = "None"
         \/ op'.step = "Recall" /\ op'.writer # 0 /\ op'.writer <= dialed'
  <2>1. CASE ~ExtractionAnswers
    BY <1>1, <2>1, NoOpFields
  <2>2. CASE ExtractionAnswers
    <3>1. dialed' # 0 /\ dialed' <= dialed'
      BY <1>1, Constants DEF DangerIInv, WriterType, Connections
    <3>. QED
      BY <1>1, <2>2, <1>3, <3>1, NoOpFields DEF NoOp
  <2>. QED
    BY <2>1, <2>2
<1>5. available' \subseteq Connections
  BY <1>1, <1>3 DEF DangerIInv, WriterType
<1>6. /\ BarrierType' /\ ActorType' /\ FrameInv' /\ PinInv' /\ DueInv' /\ ToldInv'
      /\ LifeInv' /\ CountInv' /\ RecallIsDue'
  BY <1>1, ActorStays DEF commands
<1>7. CommandInv'
  BY <1>2, <1>4, CommandsStay DEF Horizon
<1>8. LockInv'
  BY <1>4 DEF LockInv, None
<1>9. WriterType'
  BY <1>2, <1>3, <1>4, <1>5 DEF DangerIInv, WriterType
<1>10. op.step = "None"
  BY <1>1, NoOpFields
<1>11. ExtractionInv' /\ AwayInv' /\ HandoffInv'
  BY <1>2, <1>4, <1>10 DEF DangerIInv, ExtractionInv, AwayInv, HandoffInv, None
<1>12. ServedUntilEnded'
  BY <1>1, <1>2 DEF DangerIInv, ServedUntilEnded, ExtractionAnswers, ExtractionInv
<1>. QED
  BY <1>6, <1>7, <1>8, <1>9, <1>11, <1>12 DEF DangerIInv

LEMMA ReadTickKeeps ==
    ASSUME DangerIInv, ReadTick PROVE DangerIInv'
<1>1. /\ op.step \in {"Recall", "Restore", "Undo", "Detach"} /\ op.tick = 0
      /\ op' = [op EXCEPT !.tick = acked]
      /\ UNCHANGED <<barrier, actor, commands, life, recallDir, exDir, session, links>>
  BY DEF ReadTick
<1>2. /\ UNCHANGED <<acked, frame, owner, ended, lost, pinned, mailbox, serving, told>>
      /\ UNCHANGED <<life, recallDir, exDir, session>>
      /\ UNCHANGED <<dialed, handlers, open, available, left, refused>>
  BY <1>1 DEF barrier, actor, commands, links
<1>3. /\ op' \in [step : {None, "Recall", "Extraction", "Restore", "Undo", "Publish", "Detach"},
                  writer : Connections \cup {0}, lease : Nat, tick : Nat]
      /\ op'.tick = acked /\ op'.step = op.step /\ op'.writer = op.writer
      /\ op'.lease = op.lease
  BY <1>1 DEF DangerIInv, WriterType, BarrierType
<1>4. /\ BarrierType' /\ ActorType' /\ FrameInv' /\ PinInv' /\ DueInv' /\ ToldInv'
      /\ LifeInv' /\ CountInv' /\ RecallIsDue'
  BY <1>1, ActorStays DEF commands
<1>5. Horizon <= acked + 1 /\ Horizon \in Nat
  BY DEF DangerIInv, BarrierType, FrameInv, Horizon
<1>6. CommandInv'
  BY <1>2, <1>3, CommandsStay DEF Horizon
<1>7. LockInv'
  <2>1. Horizon' = Horizon
    BY <1>2 DEF Horizon
  <2>2. op.step # None /\ op.writer # 0 /\ op.writer <= dialed
    BY <1>1 DEF DangerIInv, LockInv, None
  <2>. QED
    BY <1>1, <1>2, <1>3, <1>5, <2>1, <2>2, Constants DEF LockInv, DangerIInv, BarrierType
<1>8. WriterType'
  BY <1>2, <1>3 DEF DangerIInv, WriterType
<1>9. ExtractionInv' /\ AwayInv' /\ HandoffInv' /\ ServedUntilEnded'
  BY <1>2, <1>3 DEF DangerIInv, ExtractionInv, AwayInv, HandoffInv, ServedUntilEnded
<1>. QED
  BY <1>4, <1>6, <1>7, <1>8, <1>9 DEF DangerIInv

\* AttachUnticked and DetachUnticked: the danger is out of the session.
LEMMA UntickedKeeps ==
    ASSUME DangerIInv, AttachUnticked \/ DetachUnticked PROVE DangerIInv'
<1>1. /\ op.step \in {"Recall", "Detach"} /\ ~session.ticks /\ op' = NoOp
      /\ UNCHANGED <<barrier, actor, commands, life, recallDir, exDir, session>>
      /\ UNCHANGED <<dialed, handlers, left>> /\ available' \subseteq available
  BY DEF AttachUnticked, DetachUnticked, Retired, links
<1>2. /\ UNCHANGED <<acked, frame, owner, ended, lost, pinned, mailbox, serving, told>>
      /\ UNCHANGED <<life, recallDir, exDir, session, dialed, handlers, left>>
  BY <1>1 DEF barrier, actor, commands
<1>3. ended # NotEnded /\ pinned # 0
  BY <1>1 DEF DangerIInv, ExtractionInv, PinInv
<1>4. /\ BarrierType' /\ ActorType' /\ FrameInv' /\ PinInv' /\ DueInv' /\ ToldInv'
      /\ LifeInv' /\ CountInv' /\ RecallIsDue'
  BY <1>1, ActorStays DEF commands
<1>5. CommandInv'
  BY <1>1, <1>2, CommandsStay, NoOpFields DEF Horizon
<1>6. LockInv'
  BY <1>1, NoOpFields DEF LockInv, None
<1>7. WriterType'
  BY <1>1, <1>2, NoOpFields DEF DangerIInv, WriterType
<1>8. ExtractionInv' /\ AwayInv' /\ ServedUntilEnded'
  BY <1>2, <1>3 DEF DangerIInv, ExtractionInv, AwayInv, ServedUntilEnded
<1>9. HandoffInv'
  BY <1>1, <1>2, <1>3, NoOpFields DEF DangerIInv, HandoffInv, None
<1>. QED
  BY <1>4, <1>5, <1>6, <1>7, <1>8, <1>9 DEF DangerIInv

\* The steps of an attachment that follow the recall directory's answer
LEMMA AttachExtractionKeeps ==
    ASSUME DangerIInv, AttachExtraction PROVE DangerIInv'
<1>1. /\ op.step = "Extraction" /\ ExtractionAnswers
      /\ exDir' = [exDir EXCEPT !.writer = op.writer]
      /\ op' = [op EXCEPT !.step = "Publish"]
      /\ UNCHANGED <<barrier, actor, commands, life, recallDir, session, links>>
  BY DEF AttachExtraction
<1>2. /\ UNCHANGED <<acked, frame, owner, ended, lost, pinned, mailbox, serving, told>>
      /\ UNCHANGED <<life, recallDir, session>>
      /\ UNCHANGED <<dialed, handlers, open, available, left, refused>>
  BY <1>1 DEF barrier, actor, commands, links
<1>3. /\ op' \in [step : {None, "Recall", "Extraction", "Restore", "Undo", "Publish", "Detach"},
                  writer : Connections \cup {0}, lease : Nat, tick : Nat]
      /\ op'.tick = op.tick /\ op'.step = "Publish" /\ op'.writer = op.writer
      /\ op'.lease = op.lease
      /\ exDir' \in [actor : {None, "Registered", "Committed", "Retired", "Aborted"},
                     writer : Connections \cup {0}]
      /\ exDir'.writer = op.writer /\ exDir'.actor = exDir.actor
  BY <1>1 DEF DangerIInv, WriterType
<1>4. /\ BarrierType' /\ ActorType' /\ FrameInv' /\ PinInv' /\ DueInv' /\ ToldInv'
      /\ LifeInv' /\ CountInv' /\ RecallIsDue'
  BY <1>1, ActorStays DEF commands
<1>5. CommandInv'
  BY <1>2, <1>3, CommandsStay DEF Horizon
<1>6. op.tick = 0 /\ op.writer # 0 /\ op.writer <= dialed
  BY <1>1 DEF DangerIInv, LockInv, None
<1>7. LockInv'
  BY <1>2, <1>3, <1>6 DEF LockInv, None
<1>8. WriterType'
  BY <1>2, <1>3 DEF DangerIInv, WriterType
<1>9. session.exBound
  BY <1>1 DEF DangerIInv, HandoffInv
<1>10. ExtractionInv'
  BY <1>2, <1>3, <1>9 DEF DangerIInv, ExtractionInv
<1>11. AwayInv' /\ ServedUntilEnded'
  BY <1>2, <1>3 DEF DangerIInv, AwayInv, ServedUntilEnded, None
<1>12. HandoffInv'
  BY <1>1, <1>2, <1>3 DEF DangerIInv, HandoffInv, None
<1>. QED
  BY <1>4, <1>5, <1>7, <1>8, <1>10, <1>11, <1>12 DEF DangerIInv

\* A handoff fails only after the danger has ended.
LEMMA FailKeeps ==
    ASSUME DangerIInv, FailExtraction \/ FailRestore PROVE DangerIInv'
<1>1. /\ op.step \in {"Extraction", "Restore"} /\ op.tick = 0
      /\ \/ op' = [op EXCEPT !.step = "Restore"]
         \/ op' = [op EXCEPT !.step = "Undo"]
      /\ UNCHANGED <<barrier, actor, commands, life, recallDir, exDir, session, links>>
      /\ op.step = "Extraction" => ~ExtractionAnswers
  BY DEF FailExtraction, FailRestore, DangerIInv, LockInv
<1>2. /\ UNCHANGED <<acked, frame, owner, ended, lost, pinned, mailbox, serving, told>>
      /\ UNCHANGED <<life, recallDir, session, exDir>>
      /\ UNCHANGED <<dialed, handlers, open, available, left, refused>>
  BY <1>1 DEF barrier, actor, commands, links
<1>3. /\ op' \in [step : {None, "Recall", "Extraction", "Restore", "Undo", "Publish", "Detach"},
                  writer : Connections \cup {0}, lease : Nat, tick : Nat]
      /\ op'.tick = 0 /\ op'.step \in {"Restore", "Undo"} /\ op'.writer = op.writer
      /\ op'.lease = op.lease
  BY <1>1 DEF DangerIInv, WriterType
<1>4. ended # NotEnded
  BY <1>1 DEF DangerIInv, HandoffInv, ExtractionAnswers, ExtractionInv
<1>5. /\ BarrierType' /\ ActorType' /\ FrameInv' /\ PinInv' /\ DueInv' /\ ToldInv'
      /\ LifeInv' /\ CountInv' /\ RecallIsDue'
  BY <1>1, ActorStays DEF commands
<1>6. CommandInv'
  BY <1>2, <1>3, CommandsStay DEF Horizon
<1>7. LockInv'
  BY <1>1, <1>2, <1>3 DEF DangerIInv, LockInv, None
<1>8. WriterType'
  BY <1>2, <1>3 DEF DangerIInv, WriterType
<1>9. ExtractionInv' /\ AwayInv' /\ ServedUntilEnded'
  BY <1>2, <1>3 DEF DangerIInv, ExtractionInv, AwayInv, ServedUntilEnded, None
<1>10. HandoffInv'
  BY <1>1, <1>2, <1>3, <1>4 DEF DangerIInv, HandoffInv, None
<1>. QED
  BY <1>5, <1>6, <1>7, <1>8, <1>9, <1>10 DEF DangerIInv

LEMMA PublishKeeps ==
    ASSUME DangerIInv, Publish PROVE DangerIInv'
<1>1. /\ op.step = "Publish"
      /\ session' = [session EXCEPT !.active = op.writer, !.recallLease = op.lease]
      /\ available' \subseteq available
      /\ handlers' = handlers \cup {op.writer} /\ op' = NoOp
      /\ UNCHANGED <<barrier, actor, commands, life, recallDir, exDir, dialed, left, refused>>
  BY DEF Publish, Retired
<1>2. /\ UNCHANGED <<acked, frame, owner, ended, lost, pinned, mailbox, serving, told>>
      /\ UNCHANGED <<life, recallDir, exDir, dialed, left, refused>>
  BY <1>1 DEF barrier, actor, commands
<1>3. /\ session' \in [active : Connections \cup {0}, recallLease : Nat, exBound : BOOLEAN,
                       bound : BOOLEAN, ticks : BOOLEAN]
      /\ session'.active = op.writer /\ session'.recallLease = op.lease
      /\ session'.exBound = session.exBound /\ session'.bound = session.bound
      /\ session'.ticks = session.ticks
  BY <1>1 DEF DangerIInv, WriterType
<1>4. /\ op.writer # 0 /\ op.lease # 0 /\ op.writer \in 1 .. dialed
      /\ recallDir = [generation |-> op.lease, writer |-> op.writer]
      /\ exDir.writer \in {0, op.writer}
  BY <1>1 DEF DangerIInv, LockInv, HandoffInv, WriterType, Connections, None
<1>5. /\ BarrierType' /\ ActorType' /\ FrameInv' /\ PinInv' /\ DueInv' /\ ToldInv'
      /\ LifeInv' /\ CountInv' /\ RecallIsDue'
  BY <1>1, ActorStays DEF commands
<1>6. CommandInv'
  BY <1>1, <1>2, CommandsStay, NoOpFields DEF Horizon
<1>7. LockInv'
  BY <1>1, NoOpFields DEF LockInv, None
<1>8. WriterType'
  BY <1>1, <1>2, <1>3, <1>4, NoOpFields DEF DangerIInv, WriterType
<1>9. ExtractionInv' /\ ServedUntilEnded'
  BY <1>2, <1>3 DEF DangerIInv, ExtractionInv, ServedUntilEnded
<1>10. AwayInv'
  BY <1>1, <1>3, <1>4 DEF AwayInv
<1>11. HandoffInv'
  BY <1>1, <1>2, <1>3, <1>4, NoOpFields DEF HandoffInv, None
<1>. QED
  BY <1>5, <1>6, <1>7, <1>8, <1>9, <1>10, <1>11 DEF DangerIInv

LEMMA DetachBeginKeeps ==
    ASSUME DangerIInv, NEW n \in Connections, DetachBegin(n) PROVE DangerIInv'
<1>1. /\ op = NoOp /\ n \in handlers /\ handlers' = handlers \ {n}
      /\ UNCHANGED <<barrier, actor, commands, life, recallDir, dialed, open, refused>>
  BY DEF DetachBegin
<1>2. /\ UNCHANGED <<acked, frame, owner, ended, lost, pinned, mailbox, serving, told>>
      /\ UNCHANGED <<life, recallDir, dialed, refused>>
  BY <1>1 DEF barrier, actor, commands
<1>3. op.step = "None" /\ op.tick = 0
  BY <1>1, NoOpFields
<1>4. CASE session.active # n
  <2>1. UNCHANGED <<session, exDir, op, available, left>>
    BY <1>4 DEF DetachBegin
  <2>2. /\ BarrierType' /\ ActorType' /\ FrameInv' /\ PinInv' /\ DueInv' /\ ToldInv'
        /\ LifeInv' /\ CountInv' /\ RecallIsDue'
    BY <1>1, ActorStays DEF commands
  <2>3. CommandInv' /\ LockInv'
    BY <1>2, <2>1, CommandsStay, LockStays DEF Horizon
  <2>4. WriterType' /\ ExtractionInv' /\ ServedUntilEnded'
    BY <1>1, <1>2, <2>1 DEF DangerIInv, WriterType, ExtractionInv, ServedUntilEnded
  <2>5. HandoffInv' /\ AwayInv'
    BY <1>1, <1>2, <1>3, <1>4, <2>1 DEF DangerIInv, HandoffInv, AwayInv, None
  <2>. QED
    BY <2>2, <2>3, <2>4, <2>5 DEF DangerIInv
<1>5. CASE session.active = n
  <2>1. /\ recallDir = [generation |-> session.recallLease, writer |-> n]
        /\ session.recallLease # 0
    BY <1>1, <1>3, <1>5 DEF DangerIInv, HandoffInv, None
  <2>2. /\ exDir' = [exDir EXCEPT !.writer = 0]
        /\ op' = [step |-> "Detach", writer |-> n, lease |-> session.recallLease, tick |-> 0]
        /\ session' = [session EXCEPT !.recallLease = 0]
        /\ UNCHANGED <<available, left>>
    BY <1>5, <2>1 DEF DetachBegin
  <2>3. /\ session' \in [active : Connections \cup {0}, recallLease : Nat, exBound : BOOLEAN,
                         bound : BOOLEAN, ticks : BOOLEAN]
        /\ session'.active = n /\ session'.exBound = session.exBound
        /\ session'.bound = session.bound /\ session'.ticks = session.ticks
        /\ exDir' \in [actor : {None, "Registered", "Committed", "Retired", "Aborted"},
                       writer : Connections \cup {0}]
        /\ exDir'.actor = exDir.actor /\ exDir'.writer = 0
    BY <1>5, <2>2 DEF DangerIInv, WriterType
  <2>4. /\ op' \in [step : {None, "Recall", "Extraction", "Restore", "Undo", "Publish", "Detach"},
                    writer : Connections \cup {0}, lease : Nat, tick : Nat]
        /\ op'.step = "Detach" /\ op'.writer = n /\ op'.tick = 0
        /\ op'.lease = session.recallLease /\ n # 0 /\ n <= dialed
    BY <1>1, <2>2 DEF DangerIInv, WriterType, Connections
  <2>5. /\ BarrierType' /\ ActorType' /\ FrameInv' /\ PinInv' /\ DueInv' /\ ToldInv'
        /\ LifeInv' /\ CountInv' /\ RecallIsDue'
    BY <1>1, ActorStays DEF commands
  <2>6. CommandInv'
    BY <1>2, <2>4, CommandsStay DEF Horizon
  <2>7. LockInv'
    BY <1>2, <2>4 DEF LockInv, None
  <2>8. WriterType'
    BY <1>1, <1>2, <2>2, <2>3, <2>4 DEF DangerIInv, WriterType
  <2>9. ExtractionInv' /\ ServedUntilEnded'
    BY <1>2, <2>3 DEF DangerIInv, ExtractionInv, ServedUntilEnded
  <2>10. AwayInv'
    BY <2>4 DEF AwayInv, None
  <2>11. HandoffInv'
    BY <1>1, <1>2, <2>1, <2>3, <2>4 DEF HandoffInv, None
  <2>. QED
    BY <2>5, <2>6, <2>7, <2>8, <2>9, <2>10, <2>11 DEF DangerIInv
<1>. QED
  BY <1>4, <1>5

-----------------------------------------------------------------------------
(* Session operations that reach the lifecycle: the countdown starts or ends. *)

\* What the owner and the actor rely on, when the countdown is ended or starts
\* at the tick the operation has read: nothing of it was due before.
LEMMA CountdownMoves ==
    ASSUME DangerIInv, UNCHANGED <<barrier, channel, pinned, told>>, op.tick # 0,
           lost' \in {0, lost, op.tick}, pinned # 0 => lost' = lost,
           life'.pending <=> lost' # 0
    PROVE  /\ BarrierType' /\ ActorType' /\ FrameInv' /\ PinInv' /\ DueInv' /\ ToldInv'
           /\ CountInv' /\ RecallIsDue'
<1>1. UNCHANGED <<acked, frame, owner, ended, channel, pinned, told>>
  BY DEF barrier
<1>2. op.tick \in Nat /\ op.tick <= acked /\ Horizon <= op.tick + MaxQueueTicks
  BY DEF DangerIInv, LockInv, WriterType
<1>3. BarrierType' /\ ActorType' /\ FrameInv'
  BY <1>1, <1>2 DEF DangerIInv, BarrierType, ActorType, FrameInv
<1>4. DueInv'
  <2>1. SUFFICES ASSUME owner.stage \in {"Evaluated", "Executing"},
                        owner.recall = "DisconnectRecovery"
                 PROVE  lost' = lost
    BY <1>1 DEF DangerIInv, DueInv, ExplicitDue, LinkLostDue, CompletionTick, DeadlineTick
  <2>2. Candidates # {}
    BY <2>1 DEF Candidates, None
  <2>. QED
    BY <2>1, <2>2 DEF DangerIInv, PinInv
<1>5. PinInv'
  <2>1. owner.stage = "Preparing" => lost' = lost
    BY DEF DangerIInv, PinInv, FrameInv, BarrierType
  <2>2. Candidates' = Candidates
    BY <1>1 DEF Candidates
  <2>3. owner.stage = "Preparing" => (ExplicitDue' <=> ExplicitDue) /\ (LinkLostDue' <=> LinkLostDue)
    BY <1>1, <2>1 DEF ExplicitDue, LinkLostDue, CompletionTick, DeadlineTick
  <2>. QED
    BY <1>1, <2>2, <2>3 DEF DangerIInv, PinInv
<1>6. ToldInv'
  BY <1>1 DEF DangerIInv, ToldInv, PendingAnswer
<1>7. CountInv'
  <2>1. SUFFICES ASSUME pinned = 0 \/ owner.stage = "Pinned"
                 PROVE  /\ channel.state # "Inactive" => Looked < CompletionTick
                        /\ lost' # 0 => Looked < lost' + LinkLostTicks
                        /\ channel.state # "Inactive" /\ lost' # 0 =>
                              channel.started <= lost' + MaxQueueTicks
    BY <1>1 DEF CountInv, Looked, CompletionTick, DeadlineTick
  <2>2. /\ Looked <= Horizon /\ acked <= Horizon /\ Looked \in Nat /\ Horizon \in Nat
    BY DEF DangerIInv, BarrierType, FrameInv, Looked, Horizon
  <2>3. CASE lost' = op.tick
    BY <1>2, <2>1, <2>2, <2>3, Constants DEF DangerIInv, CountInv, ActorType, BarrierType
  <2>4. CASE lost' \in {0, lost}
    BY <2>1, <2>4 DEF DangerIInv, CountInv, DeadlineTick
  <2>. QED
    BY <2>3, <2>4
<1>8. RecallIsDue'
  BY <1>1 DEF DangerIInv, RecallIsDue, BarrierType, PinInv, LifeInv, DeadlineTick, None
<1>. QED
  BY <1>3, <1>4, <1>5, <1>6, <1>7, <1>8

\* attach_transport: whoever comes back before the pin ends the countdown, since
\* the tick that was read lies before its deadline.
LEMMA AttachedIs ==
    ASSUME DangerIInv, op.tick # 0, Attached(op.tick)
    PROVE  /\ life' \in [next : Nat, active : Nat, pending : BOOLEAN]
           /\ life'.active = life.next /\ life'.active < life'.next /\ life.next # 0
           /\ lost' = IF pinned = 0 THEN 0 ELSE lost
           /\ life'.pending <=> lost' # 0
<1>. DEFINE inTime == ~(life.active # 0) /\ life.pending /\ op.tick < DeadlineTick /\ pinned = 0
<1>1. /\ life' = [next |-> life.next + 1, active |-> life.next, pending |-> life.pending /\ ~inTime]
      /\ lost' = IF inTime THEN 0 ELSE lost
  BY DEF Attached
<1>2. ASSUME pinned = 0, lost # 0 PROVE inTime
  <2>1. life.pending /\ life.active = 0
    BY <1>2 DEF DangerIInv, LifeInv
  <2>2. op.tick <= acked /\ op.tick \in Nat /\ Looked < DeadlineTick
    BY <1>2 DEF DangerIInv, LockInv, CountInv, WriterType
  <2>3. acked <= Looked /\ acked \in Nat /\ Looked \in Nat
    BY DEF DangerIInv, BarrierType, FrameInv, Looked
  <2>4. DeadlineTick \in Nat
    BY Constants DEF DangerIInv, ActorType, DeadlineTick
  <2>. QED
    BY <1>2, <2>1, <2>2, <2>3, <2>4
<1>3. /\ life.next \in Nat /\ life.active < life.next /\ life.active \in Nat
      /\ life.pending \in BOOLEAN /\ (life.pending <=> lost # 0)
  BY DEF DangerIInv, WriterType, LifeInv
<1>4. inTime => pinned = 0
  OBVIOUS
<1>5. lost' = IF pinned = 0 THEN 0 ELSE lost
  BY <1>1, <1>2, <1>4
<1>6. life'.pending <=> lost' # 0
  BY <1>1, <1>2, <1>3
<1>. HIDE DEF inTime
<1>7. /\ life' \in [next : Nat, active : Nat, pending : BOOLEAN]
      /\ life'.active = life.next /\ life'.active < life'.next /\ life.next # 0
  BY <1>1, <1>3
<1>. QED
  BY <1>5, <1>6, <1>7

\* detach_transport of the lease the directory holds: the countdown starts at
\* the tick that was read, unless a terminal is pinned.
LEMMA DetachedIs ==
    ASSUME DangerIInv, op.tick # 0, recallDir.generation = op.lease, op.lease # 0,
           Detached(op.lease, op.tick)
    PROVE  /\ life' \in [next : Nat, active : Nat, pending : BOOLEAN]
           /\ recallDir' \in [generation : Nat, writer : Connections \cup {0}]
           /\ life'.active = recallDir'.generation /\ life'.active < life'.next
           /\ lost' = IF pinned = 0 THEN op.tick ELSE lost
           /\ life'.pending <=> lost' # 0
           /\ pinned = 0 => recallDir'.generation = 0
           /\ pinned = 0 => ~DetachRefused
<1>1. /\ life.next \in Nat /\ life.active < life.next /\ life.active \in Nat
      /\ life.pending \in BOOLEAN /\ (life.pending <=> lost # 0)
      /\ life \in [next : Nat, active : Nat, pending : BOOLEAN]
      /\ recallDir \in [generation : Nat, writer : Connections \cup {0}]
      /\ life.active = recallDir.generation
  BY DEF DangerIInv, WriterType, LifeInv
<1>2. CASE DetachRefused
  <2>1. UNCHANGED <<life, lost, recallDir>> /\ pinned # 0
    BY <1>2 DEF Detached, DetachRefused
  <2>. QED
    BY <1>1, <2>1
<1>3. CASE ~DetachRefused
  <2>1. /\ life' = [life EXCEPT !.active = 0, !.pending = TRUE]
        /\ lost' = IF life.pending THEN lost ELSE op.tick
        /\ recallDir' = NoLease
    BY <1>3 DEF Detached
  <2>2. /\ life' \in [next : Nat, active : Nat, pending : BOOLEAN]
        /\ life'.active = 0 /\ life'.next = life.next /\ life'.pending
        /\ recallDir' \in [generation : Nat, writer : Connections \cup {0}]
        /\ recallDir'.generation = 0
    BY <1>1, <2>1 DEF NoLease
  <2>3. pinned = 0 => ~life.pending
    BY <1>1 DEF DangerIInv, LifeInv
  <2>4. pinned # 0 => life.pending
    BY <1>1, <1>3 DEF DetachRefused
  <2>5. lost' = IF pinned = 0 THEN op.tick ELSE lost
    BY <2>1, <2>3, <2>4
  <2>6. lost' # 0
    BY <1>1, <2>1
  <2>. QED
    BY <1>1, <1>3, <2>2, <2>5, <2>6
<1>. QED
  BY <1>2, <1>3

LEMMA AttachRecallKeeps ==
    ASSUME DangerIInv, AttachRecall PROVE DangerIInv'
<1>1. /\ op.step = "Recall" /\ op.tick # 0 /\ Attached(op.tick)
      /\ recallDir' = [generation |-> life.next, writer |-> op.writer]
      /\ op' = [op EXCEPT !.step = IF session.exBound THEN "Extraction" ELSE "Publish",
                          !.lease = life.next, !.tick = 0]
      /\ UNCHANGED <<barrier, channel, pinned, published, commands, exDir, session, links>>
  BY DEF AttachRecall
<1>2. /\ UNCHANGED <<acked, frame, owner, ended, channel, pinned, mailbox, serving, told>>
      /\ UNCHANGED <<exDir, session>>
      /\ UNCHANGED <<dialed, handlers, open, available, left, refused>>
  BY <1>1 DEF barrier, commands, links
<1>3. /\ life' \in [next : Nat, active : Nat, pending : BOOLEAN]
      /\ life'.active = life.next /\ life'.active < life'.next /\ life.next # 0
      /\ lost' = IF pinned = 0 THEN 0 ELSE lost
      /\ life'.pending <=> lost' # 0
  BY <1>1, AttachedIs
<1>4. /\ recallDir' \in [generation : Nat, writer : Connections \cup {0}]
      /\ recallDir'.generation = life.next /\ recallDir'.writer = op.writer
  BY <1>1 DEF DangerIInv, WriterType
<1>5. /\ op' \in [step : {None, "Recall", "Extraction", "Restore", "Undo", "Publish", "Detach"},
                  writer : Connections \cup {0}, lease : Nat, tick : Nat]
      /\ op'.step = IF session.exBound THEN "Extraction" ELSE "Publish"
      /\ op'.writer = op.writer /\ op'.lease = life.next /\ op'.tick = 0
  BY <1>1 DEF DangerIInv, WriterType
<1>6. /\ BarrierType' /\ ActorType' /\ FrameInv' /\ PinInv' /\ DueInv' /\ ToldInv'
      /\ CountInv' /\ RecallIsDue'
  BY <1>1, <1>3, CountdownMoves DEF commands
<1>7. CommandInv'
  BY <1>2, <1>3, <1>5, CommandsStay DEF Horizon
<1>8. LifeInv'
  BY <1>2, <1>3, <1>4 DEF LifeInv
<1>9. LockInv'
  BY <1>1, <1>2, <1>5 DEF DangerIInv, LockInv, None
<1>10. WriterType'
  BY <1>2, <1>3, <1>4, <1>5 DEF DangerIInv, WriterType
<1>11. ExtractionInv' /\ ServedUntilEnded'
  BY <1>2 DEF DangerIInv, ExtractionInv, ServedUntilEnded
<1>12. AwayInv'
  BY <1>5 DEF AwayInv, None
<1>13. HandoffInv'
  <2>1. recallDir' = [generation |-> op'.lease, writer |-> op'.writer] /\ op'.lease # 0
    BY <1>1, <1>3, <1>5
  <2>2. op'.step \in {"Extraction", "Publish"} /\ (op'.step = "Extraction" <=> session.exBound)
    BY <1>5
  <2>3. ~session.exBound => exDir.writer = 0
    BY DEF DangerIInv, ExtractionInv
  <2>4. session.active \in handlers => exDir.writer \in {0, session.active}
    BY <1>1 DEF DangerIInv, HandoffInv
  <2>. QED
    BY <1>2, <1>4, <2>1, <2>2, <2>3, <2>4 DEF HandoffInv, None
<1>. QED
  BY <1>6, <1>7, <1>8, <1>9, <1>10, <1>11, <1>12, <1>13 DEF DangerIInv

LEMMA RestoreKeeps ==
    ASSUME DangerIInv, Restore PROVE DangerIInv'
<1>1. /\ op.step = "Restore" /\ op.tick # 0 /\ Attached(op.tick)
      /\ recallDir' = [generation |-> life.next, writer |-> session.active]
      /\ session' = [session EXCEPT !.recallLease = life.next]
      /\ op' = NoOp /\ available' \subseteq available
      /\ UNCHANGED <<barrier, channel, pinned, published, commands, exDir, dialed, handlers, left>>
  BY DEF Restore, Retired
<1>2. /\ UNCHANGED <<acked, frame, owner, ended, channel, pinned, mailbox, serving, told>>
      /\ UNCHANGED <<exDir, dialed, handlers, left>>
  BY <1>1 DEF barrier, commands
<1>3. /\ life' \in [next : Nat, active : Nat, pending : BOOLEAN]
      /\ life'.active = life.next /\ life'.active < life'.next /\ life.next # 0
      /\ lost' = IF pinned = 0 THEN 0 ELSE lost
      /\ life'.pending <=> lost' # 0
  BY <1>1, AttachedIs
<1>4. /\ recallDir' \in [generation : Nat, writer : Connections \cup {0}]
      /\ recallDir'.generation = life.next
      /\ session' \in [active : Connections \cup {0}, recallLease : Nat, exBound : BOOLEAN,
                       bound : BOOLEAN, ticks : BOOLEAN]
      /\ session'.active = session.active /\ session'.recallLease = life.next
      /\ session'.exBound = session.exBound /\ session'.bound = session.bound
      /\ session'.ticks = session.ticks
  BY <1>1 DEF DangerIInv, WriterType
<1>5. ended # NotEnded /\ pinned # 0
  BY <1>1 DEF DangerIInv, HandoffInv, PinInv
<1>6. /\ BarrierType' /\ ActorType' /\ FrameInv' /\ PinInv' /\ DueInv' /\ ToldInv'
      /\ CountInv' /\ RecallIsDue'
  BY <1>1, <1>3, CountdownMoves DEF commands
<1>7. CommandInv'
  BY <1>1, <1>2, <1>3, NoOpFields, CommandsStay DEF Horizon
<1>8. LifeInv'
  BY <1>2, <1>3, <1>4 DEF LifeInv
<1>9. LockInv'
  BY <1>1, NoOpFields DEF LockInv, None
<1>10. WriterType'
  BY <1>1, <1>2, <1>3, <1>4, NoOpFields DEF DangerIInv, WriterType
<1>11. ExtractionInv' /\ ServedUntilEnded' /\ AwayInv'
  BY <1>2, <1>4, <1>5 DEF DangerIInv, ExtractionInv, ServedUntilEnded, AwayInv
<1>12. HandoffInv'
  <2>1. session.active \in handlers => exDir.writer \in {0, session.active}
    BY <1>1 DEF DangerIInv, HandoffInv
  <2>. QED
    BY <1>1, <1>2, <1>3, <1>4, <2>1, NoOpFields DEF HandoffInv, None
<1>. QED
  BY <1>6, <1>7, <1>8, <1>9, <1>10, <1>11, <1>12 DEF DangerIInv

\* Undo and DetachEnd: nobody is left, or the pinned actor keeps the lease.
LEMMA LeaveKeeps ==
    ASSUME DangerIInv, Undo \/ DetachEnd PROVE DangerIInv'
<1>1. /\ op.step \in {"Undo", "Detach"} /\ op.tick # 0 /\ Detached(op.lease, op.tick)
      /\ op' = NoOp /\ available' \subseteq available
      /\ UNCHANGED <<barrier, channel, pinned, published, commands, exDir, dialed, handlers>>
  BY DEF Undo, DetachEnd, Retired
<1>2. /\ UNCHANGED <<acked, frame, owner, ended, channel, pinned, mailbox, serving, told>>
      /\ UNCHANGED <<exDir, dialed, handlers>>
  BY <1>1 DEF barrier, commands
<1>3. recallDir.generation = op.lease /\ op.lease # 0
  BY <1>1 DEF DangerIInv, HandoffInv
<1>4. /\ life' \in [next : Nat, active : Nat, pending : BOOLEAN]
      /\ recallDir' \in [generation : Nat, writer : Connections \cup {0}]
      /\ life'.active = recallDir'.generation /\ life'.active < life'.next
      /\ lost' = IF pinned = 0 THEN op.tick ELSE lost
      /\ life'.pending <=> lost' # 0
      /\ pinned = 0 => recallDir'.generation = 0
      /\ pinned = 0 => ~DetachRefused
  BY <1>1, <1>3, DetachedIs
<1>5. op.step = "Undo" => ended # NotEnded /\ pinned # 0
  BY <1>1 DEF DangerIInv, HandoffInv, PinInv
<1>6. /\ session' \in [active : Connections \cup {0}, recallLease : Nat, exBound : BOOLEAN,
                       bound : BOOLEAN, ticks : BOOLEAN]
      /\ session'.exBound = session.exBound /\ session'.bound = session.bound
      /\ session'.ticks = session.ticks
      /\ session'.active = 0 \/ (session'.active = session.active /\ op.step = "Detach")
      /\ pinned = 0 => left' = op.tick
      /\ refused' # refused => ended # NotEnded
  <2>1. CASE Undo
    BY <2>1, <1>5 DEF Undo, DangerIInv, WriterType
  <2>2. CASE DetachEnd
    BY <2>2, <1>4 DEF DetachEnd, DangerIInv, WriterType
  <2>. QED
    BY <1>1, <2>1, <2>2
<1>7. session'.active \notin handlers
  <2>1. 0 \notin handlers
    BY DEF DangerIInv, WriterType
  <2>2. op.step = "Detach" => session.active \notin handlers
    BY DEF DangerIInv, HandoffInv
  <2>. QED
    BY <1>6, <2>1, <2>2
<1>8. /\ BarrierType' /\ ActorType' /\ FrameInv' /\ PinInv' /\ DueInv' /\ ToldInv'
      /\ CountInv' /\ RecallIsDue'
  BY <1>1, <1>4, CountdownMoves DEF commands
<1>9. CommandInv'
  BY <1>1, <1>2, <1>4, NoOpFields, CommandsStay DEF Horizon
<1>10. LifeInv'
  BY <1>2, <1>4 DEF LifeInv
<1>11. LockInv'
  BY <1>1, NoOpFields DEF LockInv, None
<1>12. WriterType'
  BY <1>1, <1>2, <1>4, <1>6, NoOpFields DEF DangerIInv, WriterType
<1>13. ExtractionInv' /\ ServedUntilEnded'
  BY <1>2, <1>6 DEF DangerIInv, ExtractionInv, ServedUntilEnded
<1>14. AwayInv'
  BY <1>1, <1>2, <1>4, <1>6 DEF AwayInv
<1>15. HandoffInv'
  BY <1>1, <1>2, <1>7, NoOpFields DEF HandoffInv, None
<1>. QED
  BY <1>8, <1>9, <1>10, <1>11, <1>12, <1>13, <1>14, <1>15 DEF DangerIInv

-----------------------------------------------------------------------------
(* The mailbox and the actor.                                                *)

\* The frame that is under way is the next one.
LEMMA HorizonIs ==
    ASSUME DangerIInv
    PROVE  /\ acked \in Nat /\ Horizon \in Nat /\ Looked \in Nat
           /\ acked <= Looked /\ Looked <= Horizon /\ Horizon <= acked + 1
  BY DEF DangerIInv, BarrierType, FrameInv, Horizon, Looked

LEMMA SendKeeps ==
    ASSUME DangerIInv, NEW intent, NEW request, Send(intent, request),
           \/ intent = "Start" /\ request \in Requests
           \/ intent = "Cancel" /\ request = None
    PROVE  DangerIInv'
<1>. DEFINE new == [intent |-> intent, request |-> request, since |-> acked, tick |-> 0]
<1>1. /\ op.tick = 0 /\ session.recallLease # 0
      /\ recallDir.generation = session.recallLease
      /\ Len(mailbox) < MailboxCapacity /\ mailbox' = Append(mailbox, new)
      /\ UNCHANGED <<barrier, actor, serving, told, writers, links>>
  BY DEF Send, DirectoryFree
<1>2. /\ UNCHANGED <<acked, frame, owner, ended, channel, lost, pinned, serving, told>>
      /\ UNCHANGED <<life, recallDir, exDir, session, op>>
  BY <1>1 DEF barrier, actor, writers
<1>3. /\ BarrierType' /\ ActorType' /\ FrameInv' /\ PinInv' /\ DueInv' /\ ToldInv'
      /\ CountInv' /\ RecallIsDue'
  BY <1>1, ActorStays DEF writers
<1>4. /\ WriterType' /\ LifeInv' /\ ExtractionInv' /\ HandoffInv' /\ AwayInv'
      /\ ServedUntilEnded'
  BY <1>1, <1>2, SessionStays
<1>5. LockInv'
  BY <1>1, <1>2, LockStays DEF Horizon, links
<1>6. new \in Command /\ (new.intent = "Start" => new.request # None)
  BY Constants DEF Command, DangerIInv, BarrierType
<1>7. Recent(new)
  <2>1. lost # 0 => pinned # 0
    BY <1>1 DEF DangerIInv, LifeInv
  <2>. QED
    BY <1>1, <2>1, HorizonIs, Constants DEF Recent, DangerIInv, BarrierType
<1>8. \A c : Recent(c)' <=> Recent(c)
  BY <1>2 DEF Recent, Horizon
<1>. HIDE DEF new
<1>9. /\ mailbox \in Seq(Command) /\ mailbox' \in Seq(Command)
      /\ Len(mailbox') = Len(mailbox) + 1 /\ Len(mailbox) \in Nat
      /\ mailbox'[Len(mailbox) + 1] = new
      /\ \A i \in 1 .. Len(mailbox) : mailbox'[i] = mailbox[i]
  BY <1>1, <1>6 DEF DangerIInv, CommandInv
<1>10. CommandInv'
  <2>1. \A i \in 1 .. Len(mailbox') : i \in 1 .. Len(mailbox) \/ i = Len(mailbox) + 1
    BY <1>9
  <2>2. \A i \in 1 .. Len(mailbox') : /\ Recent(mailbox'[i])
                                      /\ mailbox'[i].intent = "Start" => mailbox'[i].request # None
    BY <1>6, <1>7, <1>9, <2>1 DEF DangerIInv, CommandInv
  <2>3. Len(mailbox') <= MailboxCapacity
    BY <1>1, <1>9, Constants
  <2>4. serving # NoCommand =>
          /\ serving \in Command /\ Recent(serving)
          /\ serving.since <= serving.tick /\ serving.tick <= acked
          /\ serving.intent = "Start" => serving.request # None
    BY DEF DangerIInv, CommandInv
  <2>. QED
    BY <1>2, <1>8, <1>9, <2>2, <2>3, <2>4 DEF CommandInv
<1>. QED
  BY <1>3, <1>4, <1>5, <1>10 DEF DangerIInv

LEMMA ServeKeeps ==
    ASSUME DangerIInv, Serve PROVE DangerIInv'
<1>1. /\ serving = NoCommand /\ mailbox # <<>>
      /\ serving' = [Head(mailbox) EXCEPT !.tick = acked] /\ mailbox' = Tail(mailbox)
      /\ UNCHANGED <<barrier, actor, told, writers, links>>
  BY DEF Serve
<1>2. /\ UNCHANGED <<acked, frame, owner, ended, channel, lost, pinned, told>>
      /\ UNCHANGED <<life, recallDir, exDir, session, op>>
  BY <1>1 DEF barrier, actor, writers
<1>3. /\ BarrierType' /\ ActorType' /\ FrameInv' /\ PinInv' /\ DueInv' /\ ToldInv'
      /\ CountInv' /\ RecallIsDue'
  BY <1>1, ActorStays DEF writers
<1>4. /\ WriterType' /\ LifeInv' /\ ExtractionInv' /\ HandoffInv' /\ AwayInv'
      /\ ServedUntilEnded'
  BY <1>1, <1>2, SessionStays
<1>5. LockInv'
  BY <1>1, <1>2, LockStays DEF Horizon, links
<1>6. /\ mailbox \in Seq(Command) /\ Len(mailbox) \in Nat /\ Len(mailbox) >= 1
      /\ Head(mailbox) = mailbox[1] /\ 1 \in 1 .. Len(mailbox)
      /\ mailbox' \in Seq(Command) /\ Len(mailbox') = Len(mailbox) - 1
      /\ \A i \in 1 .. Len(mailbox') : i + 1 \in 1 .. Len(mailbox) /\ mailbox'[i] = mailbox[i + 1]
  BY <1>1 DEF DangerIInv, CommandInv
<1>7. \A c : Recent(c)' <=> Recent(c)
  BY <1>2 DEF Recent, Horizon
<1>8. PICK c \in Command : c = mailbox[1]
  BY <1>6
<1>9. /\ serving' \in Command /\ serving'.since = c.since /\ serving'.tick = acked
      /\ serving'.intent = c.intent /\ serving'.request = c.request
  BY <1>1, <1>6, <1>8 DEF Command, DangerIInv, BarrierType
<1>10. Recent(c) /\ (c.intent = "Start" => c.request # None)
  BY <1>6, <1>8 DEF DangerIInv, CommandInv
<1>11. Recent(serving') /\ c.since <= acked
  BY <1>9, <1>10 DEF Recent
<1>12. CommandInv'
  <2>1. \A i \in 1 .. Len(mailbox') : /\ Recent(mailbox'[i])
                                      /\ mailbox'[i].intent = "Start" => mailbox'[i].request # None
    BY <1>6 DEF DangerIInv, CommandInv
  <2>3. Len(mailbox') <= MailboxCapacity
    BY <1>6, Constants DEF DangerIInv, CommandInv
  <2>4. serving'.since <= serving'.tick /\ serving'.tick <= acked'
    BY <1>2, <1>9, <1>11, HorizonIs
  <2>5. serving'.intent = "Start" => serving'.request # None
    BY <1>9, <1>10
  <2>. QED
    BY <1>6, <1>7, <1>9, <1>11, <2>1, <2>3, <2>4, <2>5 DEF CommandInv
<1>. QED
  BY <1>3, <1>4, <1>5, <1>12 DEF DangerIInv

\* ProductionRecallChannel::handle opens a channel, repeats its answer, ends it,
\* or does nothing.
LEMMA HandledIs ==
    ASSUME DangerIInv, serving # NoCommand
    PROVE  LET after == AfterIntent(serving) IN
           \/ /\ channel.state = "Inactive" /\ after.channel = Opening(serving)
              /\ after.told = PendingAnswer(Opening(serving))
           \/ /\ channel.state # "Inactive" /\ after.channel = channel
              /\ after.told = PendingAnswer(channel)
           \/ after.channel = Inactive
           \/ after.channel = channel /\ after.told = told
<1>1. /\ serving.intent \in {"Start", "Cancel"}
      /\ serving.intent = "Start" => serving.request # None
  BY DEF DangerIInv, CommandInv, Command
<1>2. channel.state = "Inactive" => channel.request = None
  BY DEF DangerIInv, ActorType, Inactive
<1>3. CASE serving.intent = "Start" /\ channel.state = "Inactive"
  BY <1>1, <1>2, <1>3 DEF AfterIntent
<1>4. CASE serving.intent = "Start" /\ channel.state # "Inactive"
  BY <1>1, <1>4 DEF AfterIntent
<1>5. CASE serving.intent = "Cancel"
  BY <1>5 DEF AfterIntent
<1>. QED
  BY <1>1, <1>3, <1>4, <1>5

LEMMA HandleKeeps ==
    ASSUME DangerIInv, Handle PROVE DangerIInv'
<1>1. /\ serving # NoCommand /\ owner.stage # "Preparing" /\ serving' = NoCommand
      /\ UNCHANGED <<barrier, lost, pinned, published, mailbox, writers, links>>
  BY DEF Handle, ActorFree
<1>2. /\ UNCHANGED <<acked, frame, owner, ended, lost, pinned, mailbox>>
      /\ UNCHANGED <<life, recallDir, exDir, session, op>>
  BY <1>1 DEF barrier, writers
<1>3. \/ channel' = channel /\ told' = told
      \/ /\ pinned = 0
         /\ \/ /\ channel.state = "Inactive" /\ channel' = Opening(serving)
               /\ told' = PendingAnswer(Opening(serving))
            \/ /\ channel.state # "Inactive" /\ channel' = channel
               /\ told' = PendingAnswer(channel)
            \/ channel' = Inactive
  <2>1. CASE published \/ pinned # 0
    BY <2>1 DEF Handle
  <2>2. CASE ~(published \/ pinned # 0)
    <3>1. channel' = AfterIntent(serving).channel /\ told' = AfterIntent(serving).told
      BY <2>2 DEF Handle
    <3>. QED
      BY <1>1, <2>2, <3>1, HandledIs
  <2>. QED
    BY <2>1, <2>2
<1>4. /\ WriterType' /\ LifeInv' /\ ExtractionInv' /\ HandoffInv' /\ AwayInv'
      /\ ServedUntilEnded'
  BY <1>1, <1>2, SessionStays
<1>5. LockInv'
  BY <1>1, <1>2, LockStays DEF Horizon, links
<1>6. BarrierType' /\ FrameInv'
  BY <1>2 DEF DangerIInv, BarrierType, FrameInv
<1>7. CommandInv'
  <2>1. \A c : Recent(c)' <=> Recent(c)
    BY <1>2 DEF Recent, Horizon
  <2>. QED
    BY <1>1, <1>2, <2>1 DEF DangerIInv, CommandInv
<1>8. CASE channel' = channel /\ told' = told
  <2>1. ActorType' /\ ToldInv' /\ RecallIsDue'
    BY <1>2, <1>8 DEF DangerIInv, ActorType, ToldInv, RecallIsDue, PendingAnswer, DeadlineTick
  <2>2. PinInv' /\ DueInv'
    BY <1>2, <1>8 DEF DangerIInv, PinInv, DueInv, ExplicitDue, LinkLostDue, CompletionTick,
                      DeadlineTick, Candidates
  <2>3. CountInv'
    BY <1>2, <1>8 DEF DangerIInv, CountInv, Looked, CompletionTick, DeadlineTick
  <2>. QED
    BY <1>4, <1>5, <1>6, <1>7, <2>1, <2>2, <2>3 DEF DangerIInv
<1>9. CASE /\ pinned = 0
           /\ \/ /\ channel.state = "Inactive" /\ channel' = Opening(serving)
                 /\ told' = PendingAnswer(Opening(serving))
              \/ /\ channel.state # "Inactive" /\ channel' = channel
                 /\ told' = PendingAnswer(channel)
              \/ channel' = Inactive
  <2>1. /\ serving \in Command /\ serving.since \in Nat /\ serving.tick \in Nat
        /\ serving.since <= serving.tick /\ serving.tick <= acked
        /\ Horizon <= serving.since + MaxQueueTicks
        /\ lost # 0 => serving.since <= lost
    BY <1>1, <1>9 DEF DangerIInv, CommandInv, Recent, Command
  <2>2. /\ Opening(serving) \in [state : {"Inactive", "Channeling", "Prepared"},
                                 request : Requests \cup {None}, started : Nat]
        /\ Opening(serving).state = "Channeling" /\ Opening(serving).started = serving.tick
    BY <2>1 DEF Opening, Command
  <2>3. /\ Inactive \in [state : {"Inactive", "Channeling", "Prepared"},
                         request : Requests \cup {None}, started : Nat]
        /\ Inactive.state = "Inactive" /\ Inactive.started = 0
    BY DEF Inactive
  <2>4. ActorType'
    BY <1>2, <1>9, <2>1, <2>2, <2>3 DEF DangerIInv, ActorType, BarrierType
  <2>5. ToldInv'
    BY <1>9, <2>3 DEF ToldInv, PendingAnswer
  <2>6. ended = NotEnded /\ owner.stage \in {"Idle", "Pinned", "Evaluated"}
    BY <1>1, <1>9 DEF DangerIInv, PinInv, BarrierType, FrameInv
  <2>7. RecallIsDue'
    BY <1>2, <2>6 DEF RecallIsDue, NotEnded, None
  <2>8. channel'.state # "Prepared"
    BY <1>9, <2>2, <2>3 DEF DangerIInv, PinInv
  <2>9. PinInv'
    <3>1. Candidates' = Candidates
      BY <1>2 DEF Candidates
    <3>. QED
      BY <1>2, <1>9, <2>6, <2>8, <3>1 DEF DangerIInv, PinInv
  <2>10. DueInv'
    <3>1. owner.stage = "Evaluated" => owner.recall = None
      BY <1>9 DEF DangerIInv, PinInv, Candidates
    <3>. QED
      BY <1>2, <2>6, <3>1 DEF DueInv, None
  <2>11. CountInv'
    <3>1. Looked' = Looked /\ Looked \in Nat
      BY <1>2, HorizonIs DEF Looked
    <3>2. Looked < serving.tick + ExplicitTicks /\ acked <= serving.since + MaxQueueTicks
      BY <2>1, HorizonIs, Constants
    <3>3. lost # 0 => Looked < lost + LinkLostTicks
      BY <1>9 DEF DangerIInv, CountInv, DeadlineTick
    <3>4. CASE channel' = Opening(serving)
      <4>1. channel'.started = serving.tick /\ lost \in Nat
        BY <2>2, <3>4 DEF DangerIInv, ActorType
      <4>2. Looked < channel'.started + ExplicitTicks
        BY <3>2, <4>1
      <4>3. lost # 0 => channel'.started <= lost + MaxQueueTicks
        BY <2>1, <3>2, <4>1, HorizonIs, Constants
      <4>. QED
        BY <1>2, <3>1, <3>3, <4>2, <4>3 DEF CountInv, CompletionTick, DeadlineTick
    <3>5. CASE channel' = channel
      BY <1>2, <1>9, <3>1, <3>5 DEF DangerIInv, CountInv, CompletionTick, DeadlineTick
    <3>6. CASE channel' = Inactive
      BY <1>2, <2>3, <3>1, <3>3, <3>6 DEF CountInv, DeadlineTick
    <3>. QED
      BY <1>9, <3>4, <3>5, <3>6
  <2>. QED
    BY <1>4, <1>5, <1>6, <1>7, <2>4, <2>5, <2>7, <2>9, <2>10, <2>11 DEF DangerIInv
<1>. QED
  BY <1>3, <1>8, <1>9

-----------------------------------------------------------------------------
(* The frames and their owner.                                               *)

\* What waits stays recent as long as no new frame is delivered.
LEMMA FramePasses ==
    ASSUME DangerIInv, UNCHANGED <<mailbox, serving, op, lost, dialed>>,
           acked' \in Nat, acked <= acked', Horizon' \in Nat, Horizon' <= Horizon,
           pinned # 0 => pinned' # 0
    PROVE  CommandInv' /\ LockInv'
<1>1. ASSUME NEW c \in Command, Recent(c) PROVE Recent(c)'
  BY <1>1, HorizonIs, Constants DEF Recent, Command
<1>2. CommandInv'
  <2>1. \A i \in 1 .. Len(mailbox) : mailbox[i] \in Command
    BY DEF DangerIInv, CommandInv
  <2>2. serving # NoCommand => serving.tick \in Nat /\ serving.tick <= acked'
    BY HorizonIs DEF DangerIInv, CommandInv, Command
  <2>. QED
    BY <1>1, <2>1, <2>2 DEF DangerIInv, CommandInv
<1>3. LockInv'
  <2>1. op.tick \in Nat /\ op.tick + MaxQueueTicks \in Nat
    BY Constants DEF DangerIInv, WriterType
  <2>2. op.tick # 0 => op.tick <= acked' /\ Horizon' <= op.tick + MaxQueueTicks
    BY <2>1, HorizonIs DEF DangerIInv, LockInv
  <2>. QED
    BY <2>2 DEF DangerIInv, LockInv
<1>. QED
  BY <1>2, <1>3

LEMMA DeliverKeeps ==
    ASSUME DangerIInv, NEW other \in Others \cup {None}, Deliver(other) PROVE DangerIInv'
<1>1. /\ frame = NoFrame /\ owner.stage = "Idle" /\ acked < MaxTick /\ QueueIsServed
      /\ frame' = [tick |-> acked + 1, other |-> other]
      /\ UNCHANGED <<acked, owner, ended, actor, commands, writers, links>>
  BY DEF Deliver
<1>2. /\ UNCHANGED <<channel, lost, pinned, mailbox, serving, told>>
      /\ UNCHANGED <<life, recallDir, exDir, session, op, dialed>>
  BY <1>1 DEF actor, commands, writers, links
<1>3. /\ frame' \in [tick : Nat, other : Others \cup {None}] /\ frame'.tick = acked + 1
      /\ frame'.tick # 0 /\ frame' # NoFrame
  BY <1>1 DEF DangerIInv, BarrierType, NoFrame
<1>4. /\ WriterType' /\ LifeInv' /\ ExtractionInv' /\ HandoffInv' /\ AwayInv'
      /\ ServedUntilEnded'
  BY <1>1, <1>2, SessionStays
<1>5. BarrierType' /\ FrameInv' /\ ActorType'
  BY <1>1, <1>2, <1>3 DEF DangerIInv, BarrierType, FrameInv, ActorType
<1>6. PinInv' /\ DueInv' /\ ToldInv' /\ RecallIsDue'
  BY <1>1, <1>2 DEF DangerIInv, PinInv, DueInv, ToldInv, RecallIsDue, PendingAnswer, DeadlineTick
<1>7. CountInv'
  BY <1>1, <1>2 DEF DangerIInv, CountInv, Looked, CompletionTick, DeadlineTick
<1>8. Horizon' = acked + 1
  BY <1>3 DEF Horizon
<1>9. LockInv'
  <2>1. op.tick \in Nat /\ acked \in Nat
    BY DEF DangerIInv, WriterType, BarrierType
  <2>2. op.tick # 0 => acked + 1 <= op.tick + MaxQueueTicks
    BY <1>1, <2>1, Constants DEF QueueIsServed
  <2>. QED
    BY <1>1, <1>2, <1>8, <2>2 DEF DangerIInv, LockInv
<1>10. ASSUME NEW c \in Command, Recent(c), acked - c.since < MaxQueueTicks PROVE Recent(c)'
  <2>1. c.since \in Nat /\ acked + 1 <= c.since + MaxQueueTicks
    BY <1>10, HorizonIs, Constants DEF Command
  <2>. QED
    BY <1>1, <1>2, <1>8, <1>10, <2>1 DEF Recent
<1>11. CommandInv'
  <2>1. \A i \in 1 .. Len(mailbox) : mailbox[i] \in Command /\ acked - mailbox[i].since < MaxQueueTicks
    <3>1. DOMAIN mailbox = 1 .. Len(mailbox) /\ \A i \in 1 .. Len(mailbox) : mailbox[i] \in Command
      BY DEF DangerIInv, CommandInv
    <3>. QED
      BY <1>1, <3>1 DEF QueueIsServed
  <2>2. serving # NoCommand => serving \in Command /\ acked - serving.since < MaxQueueTicks
    BY <1>1 DEF QueueIsServed, DangerIInv, CommandInv
  <2>. QED
    BY <1>1, <1>2, <1>10, <2>1, <2>2 DEF DangerIInv, CommandInv
<1>. QED
  BY <1>4, <1>5, <1>6, <1>7, <1>9, <1>11 DEF DangerIInv

\* A tick the owner begins with is pinned for another producer or not at all.
LEMMA PinOthersKeeps ==
    ASSUME DangerIInv, PinOthers PROVE DangerIInv'
<1>1. /\ frame # NoFrame /\ owner.stage = "Idle" /\ pinned = 0 /\ owner.recall = None
      /\ frame.tick = acked + 1
  BY DEF DangerIInv, PinInv, PinOthers, FrameInv
<1>2. /\ owner' = [owner EXCEPT !.stage = "Pinned"]
      /\ pinned' = IF frame.other # None THEN frame.tick ELSE pinned
      /\ UNCHANGED frame
      /\ UNCHANGED <<acked, ended, channel, lost, published, commands, writers, links>>
  BY <1>1 DEF PinOthers
<1>3. /\ UNCHANGED <<mailbox, serving, told>>
      /\ UNCHANGED <<life, recallDir, exDir, session, op, dialed>>
  BY <1>2 DEF commands, writers, links
<1>4. /\ owner' \in [stage : {"Idle", "Pinned", "Preparing", "Evaluated", "Executing",
                              "Publishing", "Retiring", "Done", "Stopped"},
                     recall : Recalls \cup {None},
                     cause : {None, "Store", "InvalidTerminalWinner"}]
      /\ owner'.stage = "Pinned" /\ owner'.recall = None
  BY <1>1, <1>2 DEF DangerIInv, BarrierType
<1>5. pinned' \in Nat /\ pinned' <= acked + 1
  BY <1>1, <1>2 DEF DangerIInv, BarrierType
<1>6. /\ WriterType' /\ LifeInv' /\ ExtractionInv' /\ HandoffInv' /\ AwayInv'
      /\ ServedUntilEnded'
  BY <1>1, <1>2, <1>3, SessionStays
<1>7. BarrierType' /\ FrameInv' /\ ActorType'
  BY <1>1, <1>2, <1>4, <1>5 DEF DangerIInv, BarrierType, FrameInv, ActorType
<1>8. ended = NotEnded /\ channel.state # "Prepared"
  BY <1>1 DEF DangerIInv, PinInv
<1>9. PinInv' /\ DueInv'
  BY <1>1, <1>2, <1>4, <1>8 DEF PinInv, DueInv, None
<1>10. ToldInv' /\ RecallIsDue'
  BY <1>2, <1>3 DEF DangerIInv, ToldInv, RecallIsDue, PendingAnswer, DeadlineTick
<1>11. CountInv'
  BY <1>1, <1>2, <1>4 DEF DangerIInv, CountInv, Looked, CompletionTick, DeadlineTick
<1>12. CommandInv' /\ LockInv'
  BY <1>1, <1>2, <1>3, HorizonIs, FramePasses DEF Horizon
<1>. QED
  BY <1>6, <1>7, <1>9, <1>10, <1>11, <1>12 DEF DangerIInv

\* evaluate_terminal_tick refuses no tick: a completion is never missed, and
\* never two are due.
LEMMA NothingMissed ==
    ASSUME DangerIInv, owner.stage = "Pinned"
    PROVE  ~Missed /\ ~(ExplicitDue /\ LinkLostDue)
<1>1. frame.tick = acked + 1 /\ Looked = acked /\ acked \in Nat
  BY DEF DangerIInv, FrameInv, Looked, BarrierType
<1>2. channel.started \in Nat /\ lost \in Nat
  BY DEF DangerIInv, ActorType
<1>3. /\ channel.state # "Inactive" => acked < channel.started + ExplicitTicks
      /\ lost # 0 => acked < lost + LinkLostTicks
      /\ channel.state # "Inactive" /\ lost # 0 => channel.started <= lost + MaxQueueTicks
  BY <1>1 DEF DangerIInv, CountInv, CompletionTick, DeadlineTick
<1>4. ~Missed
  BY <1>1, <1>2, <1>3, Constants DEF Missed, CompletionTick, DeadlineTick
<1>5. ~(ExplicitDue /\ LinkLostDue)
  BY <1>1, <1>2, <1>3, Constants DEF ExplicitDue, LinkLostDue, CompletionTick, DeadlineTick
<1>. QED
  BY <1>4, <1>5

LEMMA EvaluateKeeps ==
    ASSUME DangerIInv, Evaluate PROVE DangerIInv'
<1>. DEFINE due == ExplicitDue \/ LinkLostDue
<1>1. /\ owner.stage = "Pinned" /\ owner.recall = None
      /\ pinned = IF frame.other # None THEN frame.tick ELSE 0
      /\ frame.tick = acked + 1 /\ frame # NoFrame
  BY DEF Evaluate, DangerIInv, PinInv, FrameInv
<1>2. /\ owner' = [owner EXCEPT !.stage = IF due THEN "Preparing" ELSE "Evaluated"]
      /\ pinned' = IF due THEN frame.tick ELSE pinned
      /\ UNCHANGED frame
      /\ UNCHANGED <<acked, ended, channel, lost, published, commands, writers, links>>
  BY <1>1, NothingMissed DEF Evaluate
<1>3. /\ UNCHANGED <<mailbox, serving, told>>
      /\ UNCHANGED <<life, recallDir, exDir, session, op, dialed>>
  BY <1>2 DEF commands, writers, links
<1>4. /\ (ExplicitDue' <=> ExplicitDue) /\ (LinkLostDue' <=> LinkLostDue)
  BY <1>2 DEF ExplicitDue, LinkLostDue, CompletionTick, DeadlineTick
<1>5. due \in BOOLEAN /\ (due <=> ExplicitDue \/ LinkLostDue)
  BY DEF ExplicitDue, LinkLostDue
<1>. HIDE DEF due
<1>6. /\ owner' \in [stage : {"Idle", "Pinned", "Preparing", "Evaluated", "Executing",
                              "Publishing", "Retiring", "Done", "Stopped"},
                     recall : Recalls \cup {None},
                     cause : {None, "Store", "InvalidTerminalWinner"}]
      /\ owner'.stage = IF due THEN "Preparing" ELSE "Evaluated"
      /\ owner'.recall = None
  BY <1>1, <1>2 DEF DangerIInv, BarrierType
<1>7. pinned' \in Nat /\ pinned' <= acked + 1 /\ frame.tick # 0
  BY <1>1, <1>2 DEF DangerIInv, BarrierType
<1>8. pinned # 0 => pinned' # 0
  BY <1>2, <1>7
<1>9. /\ WriterType' /\ LifeInv' /\ ExtractionInv' /\ HandoffInv' /\ AwayInv'
      /\ ServedUntilEnded'
  BY <1>2, <1>3, <1>8, SessionStays
<1>10. BarrierType' /\ FrameInv' /\ ActorType'
  BY <1>1, <1>2, <1>6, <1>7 DEF DangerIInv, BarrierType, FrameInv, ActorType
<1>11. PinInv'
  <2>1. Candidates' = {frame.other} \ {None}
    BY <1>2, <1>6 DEF Candidates
  <2>2. Candidates' # {} <=> frame.other # None
    BY <2>1
  <2>3. ended # NotEnded => pinned # 0
    BY DEF DangerIInv, PinInv
  <2>4. pinned = 0 => channel.state # "Prepared"
    BY DEF DangerIInv, PinInv
  <2>. QED
    BY <1>1, <1>2, <1>4, <1>5, <1>6, <1>7, <1>8, <2>2, <2>3, <2>4 DEF PinInv, None
<1>12. DueInv'
  BY <1>6 DEF DueInv, None
<1>13. ToldInv' /\ RecallIsDue'
  BY <1>2, <1>3 DEF DangerIInv, ToldInv, RecallIsDue, PendingAnswer, DeadlineTick
<1>14. CountInv'
  <2>1. CASE due
    BY <1>2, <1>6, <1>7, <2>1 DEF CountInv
  <2>2. CASE ~due
    <3>1. Looked' = frame.tick /\ Looked = acked
      BY <1>1, <1>2, <1>6, <2>2 DEF Looked
    <3>2. /\ channel.state # "Inactive" => Looked < CompletionTick
          /\ lost # 0 => Looked < DeadlineTick
          /\ channel.state # "Inactive" /\ lost # 0 => channel.started <= lost + MaxQueueTicks
      BY <1>1 DEF DangerIInv, CountInv
    <3>3. /\ channel.state # "Inactive" => frame.tick # CompletionTick
          /\ lost # 0 => frame.tick # DeadlineTick
      BY <1>5, <2>2 DEF ExplicitDue, LinkLostDue
    <3>4. CompletionTick \in Nat /\ DeadlineTick \in Nat /\ acked \in Nat
      BY Constants DEF DangerIInv, ActorType, BarrierType, CompletionTick, DeadlineTick
    <3>5. /\ channel.state # "Inactive" => frame.tick < CompletionTick
          /\ lost # 0 => frame.tick < DeadlineTick
      BY <1>1, <3>1, <3>2, <3>3, <3>4
    <3>6. CompletionTick' = CompletionTick /\ DeadlineTick' = DeadlineTick
      BY <1>2 DEF CompletionTick, DeadlineTick
    <3>. QED
      BY <1>2, <3>1, <3>2, <3>5, <3>6 DEF CountInv
  <2>. QED
    BY <2>1, <2>2
<1>15. CommandInv' /\ LockInv'
  BY <1>2, <1>3, <1>8, HorizonIs, FramePasses DEF Horizon
<1>. QED
  BY <1>9, <1>10, <1>11, <1>12, <1>13, <1>14, <1>15 DEF DangerIInv

LEMMA PrepareKeeps ==
    ASSUME DangerIInv, Prepare PROVE DangerIInv'
<1>1. /\ owner.stage = "Preparing" /\ frame # NoFrame /\ pinned = frame.tick
      /\ frame.tick = acked + 1 /\ (ExplicitDue \/ LinkLostDue)
  BY DEF Prepare, DangerIInv, PinInv, FrameInv
<1>2. /\ owner' = [owner EXCEPT !.stage = "Evaluated",
                      !.recall = IF ExplicitDue THEN "EmergencyRecall" ELSE "DisconnectRecovery"]
      /\ channel' = IF ExplicitDue THEN [channel EXCEPT !.state = "Prepared"] ELSE channel
      /\ UNCHANGED <<acked, frame, ended, lost, pinned, published, commands, writers, links>>
  BY DEF Prepare
<1>3. /\ UNCHANGED <<mailbox, serving, told>>
      /\ UNCHANGED <<life, recallDir, exDir, session, op, dialed>>
  BY <1>2 DEF commands, writers, links
<1>4. /\ owner' \in [stage : {"Idle", "Pinned", "Preparing", "Evaluated", "Executing",
                              "Publishing", "Retiring", "Done", "Stopped"},
                     recall : Recalls \cup {None},
                     cause : {None, "Store", "InvalidTerminalWinner"}]
      /\ owner'.stage = "Evaluated"
      /\ owner'.recall = IF ExplicitDue THEN "EmergencyRecall" ELSE "DisconnectRecovery"
  BY <1>2 DEF DangerIInv, BarrierType, Recalls
<1>5. /\ channel' \in [state : {"Inactive", "Channeling", "Prepared"},
                       request : Requests \cup {None}, started : Nat]
      /\ channel'.started = channel.started /\ channel'.request = channel.request
      /\ channel'.state = IF ExplicitDue THEN "Prepared" ELSE channel.state
      /\ ~ExplicitDue => channel' = channel
  BY <1>2 DEF DangerIInv, ActorType
<1>6. pinned # 0
  BY <1>1 DEF DangerIInv, BarrierType
<1>7. /\ WriterType' /\ LifeInv' /\ ExtractionInv' /\ HandoffInv' /\ AwayInv'
      /\ ServedUntilEnded'
  BY <1>2, <1>3, SessionStays
<1>8. BarrierType' /\ FrameInv'
  BY <1>1, <1>2, <1>4 DEF DangerIInv, BarrierType, FrameInv
<1>9. ActorType'
  BY <1>2, <1>5 DEF DangerIInv, ActorType
<1>10. PinInv'
  <2>1. Candidates' # {}
    BY <1>4 DEF Candidates, None
  <2>. QED
    BY <1>2, <1>4, <1>6, <2>1 DEF PinInv
<1>11. DueInv'
  <2>1. channel'.started + ExplicitTicks = CompletionTick /\ DeadlineTick' = DeadlineTick
    BY <1>2, <1>5 DEF CompletionTick, DeadlineTick
  <2>2. ExplicitDue => ExplicitDue'
    BY <1>2, <1>5, <2>1 DEF ExplicitDue, CompletionTick
  <2>3. LinkLostDue => LinkLostDue'
    BY <1>2, <2>1 DEF LinkLostDue
  <2>. QED
    BY <1>1, <1>4, <2>2, <2>3 DEF DueInv
<1>12. ToldInv'
  <2>1. channel'.state # "Inactive" => channel.state # "Inactive"
    BY <1>5 DEF ExplicitDue
  <2>2. PendingAnswer(channel)' = PendingAnswer(channel)
    BY <1>5 DEF PendingAnswer
  <2>. QED
    BY <1>3, <2>1, <2>2 DEF DangerIInv, ToldInv
<1>13. RecallIsDue'
  BY <1>2, <1>3 DEF DangerIInv, RecallIsDue, DeadlineTick
<1>14. CountInv'
  BY <1>2, <1>4, <1>6 DEF CountInv
<1>15. CommandInv' /\ LockInv'
  BY <1>2, <1>3, HorizonIs, FramePasses DEF Horizon
<1>. QED
  BY <1>7, <1>8, <1>9, <1>10, <1>11, <1>12, <1>13, <1>14, <1>15 DEF DangerIInv

\* The owner stops with an error that is not the actor's; the pin stays.
LEMMA StopKeeps ==
    ASSUME DangerIInv, NEW cause \in {"Store", "InvalidTerminalWinner"}, Stop(cause),
           owner.stage \in {"Preparing", "Executing"},
           UNCHANGED <<acked, ended, actor, commands, writers, links>>
    PROVE  DangerIInv'
<1>1. /\ owner' = [stage |-> "Stopped", recall |-> None, cause |-> cause] /\ frame' = NoFrame
  BY DEF Stop
<1>2. /\ UNCHANGED <<acked, ended, channel, lost, pinned, mailbox, serving, told>>
      /\ UNCHANGED <<life, recallDir, exDir, session, op, dialed>>
  BY DEF actor, commands, writers, links
<1>3. /\ owner' \in [stage : {"Idle", "Pinned", "Preparing", "Evaluated", "Executing",
                              "Publishing", "Retiring", "Done", "Stopped"},
                     recall : Recalls \cup {None},
                     cause : {None, "Store", "InvalidTerminalWinner"}]
      /\ owner'.stage = "Stopped"
      /\ frame' \in [tick : Nat, other : Others \cup {None}]
  BY <1>1 DEF NoFrame
<1>4. pinned # 0
  BY DEF DangerIInv, PinInv, FrameInv, BarrierType
<1>5. /\ WriterType' /\ LifeInv' /\ ExtractionInv' /\ HandoffInv' /\ AwayInv'
      /\ ServedUntilEnded'
  BY <1>2, SessionStays
<1>6. BarrierType' /\ FrameInv' /\ ActorType'
  BY <1>1, <1>2, <1>3 DEF DangerIInv, BarrierType, FrameInv, ActorType
<1>7. PinInv' /\ DueInv' /\ CountInv'
  BY <1>2, <1>3, <1>4 DEF PinInv, DueInv, CountInv
<1>8. ToldInv' /\ RecallIsDue'
  BY <1>2 DEF DangerIInv, ToldInv, RecallIsDue, PendingAnswer, DeadlineTick
<1>9. CommandInv' /\ LockInv'
  BY <1>1, <1>2, HorizonIs, FramePasses DEF Horizon
<1>. QED
  BY <1>5, <1>6, <1>7, <1>8, <1>9 DEF DangerIInv

LEMMA SealKeeps ==
    ASSUME DangerIInv, Seal PROVE DangerIInv'
<1>1. /\ owner.stage = "Evaluated" /\ frame # NoFrame /\ frame.tick = acked + 1
      /\ acked < MaxTick /\ (pinned # 0 <=> Candidates # {})
      /\ UNCHANGED <<ended, actor, commands, writers, links>>
  BY DEF Seal, DangerIInv, PinInv, FrameInv
<1>2. /\ UNCHANGED <<ended, channel, lost, pinned, mailbox, serving, told>>
      /\ UNCHANGED <<life, recallDir, exDir, session, op, dialed>>
  BY <1>1 DEF actor, commands, writers, links
<1>3. /\ WriterType' /\ LifeInv' /\ ExtractionInv' /\ HandoffInv' /\ AwayInv'
      /\ ServedUntilEnded'
  BY <1>1, <1>2, SessionStays
<1>4. ToldInv' /\ RecallIsDue'
  BY <1>2 DEF DangerIInv, ToldInv, RecallIsDue, PendingAnswer, DeadlineTick
<1>5. CASE Candidates = {}
  <2>1. /\ owner' = [owner EXCEPT !.stage = "Idle"] /\ acked' = frame.tick /\ frame' = NoFrame
    BY <1>5 DEF Seal
  <2>2. owner.recall = None
    BY <1>5 DEF Candidates
  <2>3. /\ owner' \in [stage : {"Idle", "Pinned", "Preparing", "Evaluated", "Executing",
                                "Publishing", "Retiring", "Done", "Stopped"},
                       recall : Recalls \cup {None},
                       cause : {None, "Store", "InvalidTerminalWinner"}]
        /\ owner'.stage = "Idle" /\ owner'.recall = None
        /\ frame' \in [tick : Nat, other : Others \cup {None}]
    BY <2>1, <2>2 DEF DangerIInv, BarrierType, NoFrame
  <2>4. BarrierType' /\ FrameInv'
    BY <1>1, <1>2, <2>1, <2>3, Constants DEF DangerIInv, BarrierType, FrameInv
  <2>5. ActorType'
    BY <1>1, <1>2, <2>1 DEF DangerIInv, ActorType, BarrierType
  <2>6. PinInv' /\ DueInv'
    BY <1>1, <1>2, <1>5, <2>3 DEF DangerIInv, PinInv, DueInv
  <2>7. CountInv'
    <3>1. Looked' = Looked
      BY <1>1, <2>1, <2>3 DEF Looked
    <3>. QED
      BY <1>1, <1>2, <1>5, <3>1 DEF DangerIInv, CountInv, CompletionTick, DeadlineTick
  <2>8. CommandInv' /\ LockInv'
    <3>1. Horizon' = Horizon /\ acked' \in Nat /\ acked <= acked'
      BY <1>1, <2>1, HorizonIs DEF Horizon
    <3>. QED
      BY <1>2, <3>1, HorizonIs, FramePasses
  <2>. QED
    BY <1>3, <1>4, <2>4, <2>5, <2>6, <2>7, <2>8 DEF DangerIInv
<1>6. CASE Candidates # {}
  <2>1. /\ owner' = [owner EXCEPT !.stage = "Executing"] /\ UNCHANGED <<acked, frame>>
    BY <1>6 DEF Seal
  <2>2. /\ owner' \in [stage : {"Idle", "Pinned", "Preparing", "Evaluated", "Executing",
                                "Publishing", "Retiring", "Done", "Stopped"},
                       recall : Recalls \cup {None},
                       cause : {None, "Store", "InvalidTerminalWinner"}]
        /\ owner'.stage = "Executing" /\ owner'.recall = owner.recall
    BY <2>1 DEF DangerIInv, BarrierType
  <2>3. BarrierType' /\ FrameInv' /\ ActorType'
    BY <1>1, <1>2, <2>1, <2>2 DEF DangerIInv, BarrierType, FrameInv, ActorType
  <2>4. PinInv'
    <3>1. Candidates' = Candidates
      BY <2>1, <2>2 DEF Candidates
    <3>. QED
      BY <1>1, <1>2, <1>6, <2>2, <3>1 DEF PinInv
  <2>5. DueInv' /\ CountInv'
    BY <1>1, <1>2, <1>6, <2>1, <2>2
    DEF DangerIInv, DueInv, CountInv, ExplicitDue, LinkLostDue, CompletionTick, DeadlineTick
  <2>6. CommandInv' /\ LockInv'
    BY <1>2, <2>1, HorizonIs, FramePasses DEF Horizon
  <2>. QED
    BY <1>3, <1>4, <2>3, <2>4, <2>5, <2>6 DEF DangerIInv
<1>. QED
  BY <1>5, <1>6

\* The winner is one of the candidates, and no two of them have one rank.
LEMMA WinnerIs ==
    ASSUME DangerIInv, Candidates # {}
    PROVE  /\ Winner \in Candidates /\ Winner \in Kinds /\ Winner # None
           /\ Winner \in Recalls => Winner = owner.recall
<1>1. /\ frame.other \in {"LethalDeath", "SuccessfulExtraction", "FaultRestoration", "None"}
      /\ owner.recall \in {"EmergencyRecall", "DisconnectRecovery", "None"}
  BY Constants DEF DangerIInv, BarrierType, Recalls, None
<1>2. /\ priority["LethalDeath"] = 0 /\ priority["SuccessfulExtraction"] = 1
      /\ priority["EmergencyRecall"] = 2 /\ priority["DisconnectRecovery"] = 3
      /\ priority["FaultRestoration"] = 4
  BY DEF priority
<1>3. \E kind \in Candidates : \A other \in Candidates : priority[kind] <= priority[other]
  BY <1>1, <1>2 DEF Candidates, None
<1>4. Winner \in Candidates
  BY <1>3 DEF Winner
<1>. QED
  BY <1>1, <1>4 DEF Candidates, Kinds, Recalls, None

LEMMA ExecuteKeeps ==
    ASSUME DangerIInv, Execute PROVE DangerIInv'
<1>1. /\ owner.stage = "Executing" /\ frame # NoFrame /\ frame.tick = acked + 1
      /\ pinned # 0 /\ Candidates # {}
      /\ UNCHANGED <<acked, actor, commands, life, recallDir, session, op, links>>
  BY DEF Execute, DangerIInv, PinInv, FrameInv
<1>2. CASE Winner = "FaultRestoration" /\ exDir.actor = "Registered"
  <2>1. Stop("InvalidTerminalWinner") /\ UNCHANGED <<acked, ended, actor, commands, writers, links>>
    BY <1>1, <1>2 DEF Execute, writers
  <2>. QED
    BY <1>1, <2>1, StopKeeps
<1>3. CASE ~(Winner = "FaultRestoration" /\ exDir.actor = "Registered")
  <2>1. /\ ended' = [kind |-> Winner, tick |-> frame.tick, request |-> channel.request]
        /\ owner' = [owner EXCEPT !.stage = "Publishing"]
        /\ exDir' = IF Winner = "SuccessfulExtraction"
                    THEN [exDir EXCEPT !.actor = "Committed"] ELSE exDir
        /\ UNCHANGED frame
    BY <1>3 DEF Execute
  <2>2. /\ UNCHANGED <<acked, frame, channel, lost, pinned, mailbox, serving, told>>
        /\ UNCHANGED <<life, recallDir, session, op>>
        /\ UNCHANGED <<dialed, handlers, open, available, left, refused>>
    BY <1>1, <2>1 DEF actor, commands, links
  <2>3. /\ Winner \in Kinds /\ Winner # None /\ (Winner \in Recalls => Winner = owner.recall)
    BY <1>1, WinnerIs
  <2>4. /\ ended' \in [kind : Kinds \cup {None}, tick : Nat, request : Requests \cup {None}]
        /\ ended'.kind = Winner /\ ended'.tick = frame.tick
        /\ ended'.request = channel.request /\ ended' # NotEnded
    BY <2>1, <2>3 DEF DangerIInv, BarrierType, ActorType, NotEnded
  <2>5. /\ owner' \in [stage : {"Idle", "Pinned", "Preparing", "Evaluated", "Executing",
                                "Publishing", "Retiring", "Done", "Stopped"},
                       recall : Recalls \cup {None},
                       cause : {None, "Store", "InvalidTerminalWinner"}]
        /\ owner'.stage = "Publishing"
    BY <2>1 DEF DangerIInv, BarrierType
  <2>6. /\ exDir' \in [actor : {None, "Registered", "Committed", "Retired", "Aborted"},
                       writer : Connections \cup {0}]
        /\ exDir'.writer = exDir.writer /\ exDir'.actor \in {exDir.actor, "Committed"}
    BY <2>1 DEF DangerIInv, WriterType
  <2>7. BarrierType' /\ FrameInv' /\ ActorType'
    BY <1>1, <2>2, <2>3, <2>4, <2>5 DEF DangerIInv, BarrierType, FrameInv, ActorType
  <2>8. PinInv' /\ DueInv' /\ CountInv'
    BY <1>1, <2>2, <2>4, <2>5 DEF PinInv, DueInv, CountInv
  <2>9. ToldInv'
    BY <2>2 DEF DangerIInv, ToldInv, PendingAnswer
  <2>10. RecallIsDue'
    <3>1. Winner = "EmergencyRecall" => /\ channel.state # "Inactive"
                                        /\ frame.tick = channel.started + ExplicitTicks
      BY <1>1, <2>3 DEF DangerIInv, DueInv, ExplicitDue, CompletionTick, Recalls
    <3>2. Winner = "EmergencyRecall" =>
             told = [answer |-> "Pending", request |-> channel.request, tick |-> frame.tick]
      BY <3>1 DEF DangerIInv, ToldInv, PendingAnswer
    <3>3. Winner = "DisconnectRecovery" => frame.tick = lost + LinkLostTicks /\ life.pending
      BY <1>1, <2>3 DEF DangerIInv, DueInv, LinkLostDue, DeadlineTick, Recalls, LifeInv
    <3>. QED
      BY <2>2, <2>4, <3>2, <3>3 DEF RecallIsDue, DeadlineTick
  <2>11. LifeInv' /\ WriterType' /\ AwayInv' /\ ServedUntilEnded'
    BY <2>2, <2>4, <2>6 DEF DangerIInv, LifeInv, WriterType, AwayInv, ServedUntilEnded
  <2>12. ExtractionInv'
    BY <2>2, <2>4, <2>6 DEF DangerIInv, ExtractionInv
  <2>13. HandoffInv'
    BY <2>2, <2>4, <2>6 DEF DangerIInv, HandoffInv
  <2>14. CommandInv' /\ LockInv'
    BY <2>2, HorizonIs, FramePasses DEF Horizon
  <2>. QED
    BY <2>7, <2>8, <2>9, <2>10, <2>11, <2>12, <2>13, <2>14 DEF DangerIInv
<1>. QED
  BY <1>2, <1>3

LEMMA PublishRecallKeeps ==
    ASSUME DangerIInv, PublishRecall PROVE DangerIInv'
<1>1. /\ owner.stage = "Publishing" /\ owner' = [owner EXCEPT !.stage = "Retiring"]
      /\ frame # NoFrame /\ pinned # 0 /\ ended # NotEnded
      /\ UNCHANGED <<acked, frame, ended, channel, lost, pinned, commands, writers, links>>
  BY DEF PublishRecall, DangerIInv, PinInv, FrameInv
<1>2. /\ UNCHANGED <<acked, frame, ended, channel, lost, pinned, mailbox, serving, told>>
      /\ UNCHANGED <<life, recallDir, exDir, session, op, dialed>>
  BY <1>1 DEF commands, writers, links
<1>3. /\ owner' \in [stage : {"Idle", "Pinned", "Preparing", "Evaluated", "Executing",
                              "Publishing", "Retiring", "Done", "Stopped"},
                     recall : Recalls \cup {None},
                     cause : {None, "Store", "InvalidTerminalWinner"}]
      /\ owner'.stage = "Retiring"
  BY <1>1 DEF DangerIInv, BarrierType
<1>4. /\ WriterType' /\ LifeInv' /\ ExtractionInv' /\ HandoffInv' /\ AwayInv'
      /\ ServedUntilEnded'
  BY <1>1, <1>2, SessionStays
<1>5. BarrierType' /\ FrameInv' /\ ActorType'
  BY <1>1, <1>2, <1>3 DEF DangerIInv, BarrierType, FrameInv, ActorType
<1>6. PinInv' /\ DueInv' /\ CountInv'
  BY <1>1, <1>2, <1>3 DEF PinInv, DueInv, CountInv
<1>7. ToldInv' /\ RecallIsDue'
  BY <1>2 DEF DangerIInv, ToldInv, RecallIsDue, PendingAnswer, DeadlineTick
<1>8. CommandInv' /\ LockInv'
  BY <1>2, HorizonIs, FramePasses DEF Horizon
<1>. QED
  BY <1>4, <1>5, <1>6, <1>7, <1>8 DEF DangerIInv

LEMMA RetireKeeps ==
    ASSUME DangerIInv, Retire PROVE DangerIInv'
<1>1. /\ owner.stage = "Retiring" /\ owner' = [owner EXCEPT !.stage = "Done"]
      /\ frame # NoFrame /\ frame.tick = acked + 1 /\ acked < MaxTick
      /\ pinned # 0 /\ ended # NotEnded /\ acked' = frame.tick /\ frame' = NoFrame
      /\ exDir' = IF exDir.actor = "Registered" THEN [actor |-> "Retired", writer |-> 0] ELSE exDir
      /\ UNCHANGED <<ended, actor, commands, life, recallDir, session, op, links>>
  BY DEF Retire, DangerIInv, PinInv, FrameInv
<1>2. /\ UNCHANGED <<ended, channel, lost, pinned, mailbox, serving, told>>
      /\ UNCHANGED <<life, recallDir, session, op>>
      /\ UNCHANGED <<dialed, handlers, open, available, left, refused>>
  BY <1>1 DEF actor, commands, links
<1>3. /\ owner' \in [stage : {"Idle", "Pinned", "Preparing", "Evaluated", "Executing",
                              "Publishing", "Retiring", "Done", "Stopped"},
                     recall : Recalls \cup {None},
                     cause : {None, "Store", "InvalidTerminalWinner"}]
      /\ owner'.stage = "Done"
      /\ frame' \in [tick : Nat, other : Others \cup {None}]
  BY <1>1 DEF DangerIInv, BarrierType, NoFrame
<1>4. /\ exDir' \in [actor : {None, "Registered", "Committed", "Retired", "Aborted"},
                     writer : Connections \cup {0}]
      /\ exDir'.writer \in {0, exDir.writer} /\ exDir'.actor \in {exDir.actor, "Retired"}
  BY <1>1 DEF DangerIInv, WriterType
<1>5. BarrierType' /\ FrameInv'
  BY <1>1, <1>2, <1>3, Constants DEF DangerIInv, BarrierType, FrameInv
<1>6. ActorType'
  BY <1>1, <1>2 DEF DangerIInv, ActorType, BarrierType
<1>7. PinInv' /\ DueInv' /\ CountInv'
  BY <1>1, <1>2, <1>3 DEF PinInv, DueInv, CountInv
<1>8. ToldInv' /\ RecallIsDue'
  BY <1>2 DEF DangerIInv, ToldInv, RecallIsDue, PendingAnswer, DeadlineTick
<1>9. LifeInv' /\ WriterType' /\ AwayInv' /\ ServedUntilEnded'
  BY <1>1, <1>2, <1>4 DEF DangerIInv, LifeInv, WriterType, AwayInv, ServedUntilEnded
<1>10. ExtractionInv' /\ HandoffInv'
  BY <1>1, <1>2, <1>4 DEF DangerIInv, ExtractionInv, HandoffInv
<1>11. CommandInv' /\ LockInv'
  <2>1. Horizon' = Horizon /\ acked' \in Nat /\ acked <= acked'
    BY <1>1, HorizonIs DEF Horizon
  <2>. QED
    BY <1>2, <2>1, HorizonIs, FramePasses
<1>. QED
  BY <1>5, <1>6, <1>7, <1>8, <1>9, <1>10, <1>11 DEF DangerIInv

-----------------------------------------------------------------------------
(* The theorems.                                                             *)

LEMMA InitDanger == Init => DangerIInv
<1>. SUFFICES ASSUME Init PROVE DangerIInv
  OBVIOUS
<1>1. /\ acked = 1 /\ frame = NoFrame /\ ended = NotEnded
      /\ owner = [stage |-> "Idle", recall |-> None, cause |-> None]
      /\ channel = Inactive /\ lost = 0 /\ pinned = 0
      /\ mailbox = <<>> /\ serving = NoCommand /\ refused = None
      /\ life = [next |-> 2, active |-> 1, pending |-> FALSE]
      /\ recallDir = [generation |-> 1, writer |-> 1]
      /\ exDir = [actor |-> None, writer |-> 0]
      /\ session = [active |-> 1, recallLease |-> 1, exBound |-> FALSE,
                    bound |-> TRUE, ticks |-> TRUE]
      /\ op = NoOp /\ dialed = 1 /\ handlers = {1} /\ available = {1}
  BY DEF Init
<1>2. BarrierType /\ FrameInv
  BY <1>1, Constants DEF BarrierType, FrameInv, NoFrame, NotEnded, None
<1>3. ActorType
  BY <1>1 DEF ActorType, Inactive
<1>4. WriterType
  BY <1>1, NoOpFields, Constants DEF WriterType, Connections
<1>5. PinInv /\ DueInv /\ ToldInv /\ LifeInv
  BY <1>1 DEF PinInv, DueInv, ToldInv, LifeInv, Inactive
<1>6. CountInv /\ RecallIsDue /\ ServedUntilEnded
  BY <1>1 DEF CountInv, RecallIsDue, ServedUntilEnded, Inactive, NotEnded, None
<1>7. CommandInv
  BY <1>1, Constants DEF CommandInv
<1>8. LockInv /\ ExtractionInv /\ AwayInv
  BY <1>1, NoOpFields DEF LockInv, ExtractionInv, AwayInv, None
<1>9. HandoffInv
  BY <1>1, NoOpFields DEF HandoffInv, None
<1>. QED
  BY <1>2, <1>3, <1>4, <1>5, <1>6, <1>7, <1>8, <1>9 DEF DangerIInv

LEMMA StutterKeepsDanger == ASSUME DangerIInv, UNCHANGED vars PROVE DangerIInv'
<1>1. /\ UNCHANGED <<barrier, actor, commands, writers, links>>
  BY DEF vars
<1>2. /\ UNCHANGED <<mailbox, serving, told>> /\ UNCHANGED <<acked, frame, ended, lost, pinned>>
      /\ UNCHANGED <<life, recallDir, exDir, session, op, dialed>>
  BY <1>1 DEF barrier, actor, commands, writers, links
<1>3. /\ BarrierType' /\ ActorType' /\ FrameInv' /\ PinInv' /\ DueInv' /\ ToldInv'
      /\ LifeInv' /\ CountInv' /\ RecallIsDue'
  BY <1>1, <1>2, ActorStays
<1>4. /\ WriterType' /\ LifeInv' /\ ExtractionInv' /\ HandoffInv' /\ AwayInv'
      /\ ServedUntilEnded'
  BY <1>1, <1>2, SessionStays
<1>5. CommandInv' /\ LockInv'
  BY <1>2, CommandsStay, LockStays DEF Horizon
<1>. QED
  BY <1>3, <1>4, <1>5 DEF DangerIInv

LEMMA StepKeepsDanger == DangerIInv /\ [Next]_vars => DangerIInv'
<1>. SUFFICES ASSUME DangerIInv, [Next]_vars PROVE DangerIInv'
  OBVIOUS
<1>1. CASE Player
  BY <1>1, SendKeeps DEF Player
<1>2. CASE Serve \/ Handle \/ Frames
  BY <1>2, ServeKeeps, HandleKeeps, DeliverKeeps DEF Frames
<1>3. CASE Owner
  BY <1>3, PinOthersKeeps, EvaluateKeeps, PrepareKeeps, SealKeeps, ExecuteKeeps,
     PublishRecallKeeps, RetireKeeps DEF Owner
<1>4. CASE Extraction \/ Successor
  BY <1>4, RegisterKeeps, BindKeeps, SuccessorKeeps DEF Extraction, Successor
<1>5. CASE Attach
  BY <1>5, AttachBeginKeeps, AttachRecallKeeps, UntickedKeeps, AttachExtractionKeeps,
     FailKeeps, RestoreKeeps, LeaveKeeps, PublishKeeps DEF Attach
<1>6. CASE ReadTick \/ Detach
  BY <1>6, ReadTickKeeps, DetachBeginKeeps, LeaveKeeps, UntickedKeeps DEF Detach
<1>7. CASE Faults
  BY <1>7, LinkFails, StopKeeps DEF Faults, StoreFails
<1>8. CASE UNCHANGED vars
  BY <1>8, StutterKeepsDanger
<1>. QED
  BY <1>1, <1>2, <1>3, <1>4, <1>5, <1>6, <1>7, <1>8 DEF Next

\* A task that is at its first publications, or returned from there, is that of
\* a connection that was attached and is not detached.
TasksInv == fresh \cup leaked \subseteq handlers

LEMMA StepKeepsTasks == TasksInv /\ [Next]_vars => TasksInv'
<1>. SUFFICES ASSUME TasksInv, [Next]_vars PROVE TasksInv'
  OBVIOUS
<1>1. CASE Player \/ Successor
  BY <1>1 DEF Player, Send, Successor, StoreSuccessor, UnbindTicks, EnterNextDanger, InLoop,
     links, tasks, TasksInv
<1>2. CASE Serve \/ Handle \/ Frames \/ Extraction \/ ReadTick
  BY <1>2 DEF Serve, Handle, Frames, Deliver, Extraction, RegisterExtraction, BindExtraction,
     ReadTick, links, tasks, TasksInv
<1>3. CASE Owner
  BY <1>3 DEF Owner, PinOthers, Evaluate, Prepare, Seal, Execute, PublishRecall, Retire,
     links, tasks, TasksInv
<1>4. CASE Attach
  BY <1>4 DEF Attach, AttachBegin, AttachRecall, AttachUnticked, AttachExtraction,
     FailExtraction, Restore, FailRestore, Undo, Publish, links, tasks, TasksInv
<1>5. CASE Detach
  BY <1>5 DEF Detach, DetachBegin, DetachEnd, DetachUnticked, links, tasks, TasksInv
<1>6. CASE StoreFails
  BY <1>6 DEF StoreFails, links, tasks, TasksInv
<1>7. ASSUME NEW n \in Connections, Drop(n) \/ WriterFails(n) \/ FirstPublicationFails(n)
      PROVE  TasksInv'
  BY <1>7 DEF Drop, WriterFails, FirstPublicationFails, tasks, TasksInv
<1>8. CASE UNCHANGED vars
  BY <1>8 DEF vars, links, tasks, TasksInv
<1>. QED
  BY <1>1, <1>2, <1>3, <1>4, <1>5, <1>6, <1>7, <1>8 DEF Next, Faults

LEMMA TasksStay == Spec => []TasksInv
<1>1. Init => TasksInv
  BY DEF Init, TasksInv
<1>. QED
  BY <1>1, StepKeepsTasks, PTL DEF Spec

\* The invariant everything below follows from: the barrier, the actor, the
\* mailbox, the session operation and both directories, at every step of each.
THEOREM DangerIsInductive == Spec => []DangerIInv
  BY InitDanger, StepKeepsDanger, PTL DEF Spec

\* Between operations the session, the recall directory and the extraction
\* directory agree on one writer, whichever handoffs failed halfway
\* (prepare_dynamic_writer_handoffs, restore_recall_after_extraction_failure).
THEOREM WritersAgree == Spec => []OneWriter
<1>1. DangerIInv => OneWriter
  BY NoOpFields DEF DangerIInv, HandoffInv, OneWriter, None
<1>. QED
  BY <1>1, DangerIsInductive, PTL

\* A player who is away is counted down from the moment of leaving, unless the
\* task of the connection returned from its first publications and never
\* detached it, and every record holds what the code's types allow
\* (attach_transport, detach_transport, serve_connection).
THEOREM AwayIsCounted == Spec => []SessionInv
<1>1. DangerIInv /\ TasksInv => SessionTypeOK
  <2>. SUFFICES ASSUME DangerIInv, TasksInv PROVE SessionTypeOK
    OBVIOUS
  <2>1. acked \in Ticks /\ frame.tick \in {0, acked + 1}
    BY Constants DEF DangerIInv, BarrierType, FrameInv, Ticks, NoFrame
  <2>2. owner.stage \in {"Idle", "Pinned", "Preparing", "Evaluated", "Executing",
                         "Publishing", "Retiring", "Done", "Stopped"}
    BY DEF DangerIInv, BarrierType
  <2>3. channel.started \in 0 .. acked /\ lost \in 0 .. acked /\ pinned \in 0 .. acked + 1
    BY DEF DangerIInv, ActorType, BarrierType
  <2>4. Len(mailbox) <= MailboxCapacity
    BY DEF DangerIInv, CommandInv
  <2>5. life.active < life.next /\ recallDir.generation < life.next
    BY DEF DangerIInv, LifeInv
  <2>6. /\ recallDir.writer \in Connections \cup {0} /\ session.active \in Connections \cup {0}
        /\ handlers \subseteq 1 .. dialed /\ fresh \cup leaked \subseteq handlers
    BY DEF DangerIInv, WriterType, TasksInv
  <2>. QED
    BY <2>1, <2>2, <2>3, <2>4, <2>5, <2>6 DEF SessionTypeOK
<1>2. DangerIInv => AbandonedIsCounted /\ CountdownKept
  BY NoOpFields DEF DangerIInv, AwayInv, AbandonedIsCounted, CountdownKept, None
<1>. QED
  BY <1>1, <1>2, DangerIsInductive, TasksStay, PTL DEF SessionInv

\* A recall that is committed was due: the explicit one the player was last
\* told of at the announced tick, the automatic one at its deadline.
THEOREM CommittedWasDue == Spec => []RecallIsDue
<1>1. DangerIInv => RecallIsDue
  BY DEF DangerIInv
<1>. QED
  BY <1>1, DangerIsInductive, PTL

\* No tick is refused for what the actor holds (MissedCompletionTick,
\* MultipleRecallCandidates, a pinned tick), however late a command is served.
THEOREM NoTickRefused == Spec => []CompletionsAreMet
<1>1. DangerIInv => CompletionsAreMet
  BY DEF DangerIInv, BarrierType, CompletionsAreMet, None
<1>. QED
  BY <1>1, DangerIsInductive, PTL

\* Only after the danger has ended is a player who comes back refused.
THEOREM ReturnIsServed == Spec => []ServedUntilEnded
<1>1. DangerIInv => ServedUntilEnded
  BY DEF DangerIInv
<1>. QED
  BY <1>1, DangerIsInductive, PTL

=============================================================================
