--------------------------- MODULE DangerSession ---------------------------
(* One account in danger: the recall actor with its explicit channel and its *)
(* link-lost countdown, the transports that come and go around it, and the   *)
(* frames whose terminal owner evaluates both.                               *)
(*   production_recall_channel.rs   the actor: channel, countdown, pin       *)
(*   production_recall_session.rs   the lifecycle of transport generations   *)
(*   core_recall_runtime.rs         the directory: writer, mailbox           *)
(*   core_private_life_session.rs   the session: two-phase writer handoffs   *)
(*   core_private_terminal_owner.rs the frame barrier that drives the actor  *)
(* Three locks shape the steps.  A session operation (op) holds the session  *)
(* lock to its end.  The recall directory is locked from the reading of the  *)
(* tick until the lifecycle has answered (op.tick # 0).  The                 *)
(* actor is locked while the owner awaits the repository (Preparing), so a   *)
(* tick that was read before the lock may be old when it is used.            *)
EXTENDS Naturals, Sequences, FiniteSets, TerminalKinds

CONSTANTS
    ExplicitTicks,     \* PRODUCTION_RECALL_EXPLICIT_CHANNEL_TICKS, 12
    LinkLostTicks,     \* PRODUCTION_RECALL_LINK_LOST_TICKS, 90
    MailboxCapacity,   \* commands the actor's mailbox holds, 8
    MaxQueueTicks,     \* frames that pass at most while a command waits
    Others,            \* the other terminals the danger may end in
    Requests,          \* what tells two Start frames apart: sequence and client tick
    MaxTick,           \* bound on the frames of the model
    MaxConnections     \* bound on the connections of the model

None == "None"

\* The frame under way may always pass a command; a command that waited as long
\* as a channel lasts would open one whose completion has passed.
ASSUME TickAssumption ==
    /\ {ExplicitTicks, LinkLostTicks, MaxQueueTicks, MaxTick, MaxConnections}
           \subseteq Nat \ {0}
    /\ MailboxCapacity \in Nat
    /\ MaxQueueTicks < ExplicitTicks
    /\ ExplicitTicks + MaxQueueTicks < LinkLostTicks
    /\ None \notin Requests
    /\ Others \subseteq {"LethalDeath", "SuccessfulExtraction", "FaultRestoration"}

VARIABLES
    acked,       \* authoritative_tick: the last frame the owner acknowledged
    frame,       \* the frame in the capacity-one feed
    owner,       \* where the owner stands with it, or why it stopped
    ended,       \* the terminal that was committed
    channel,     \* ProductionRecallChannelState
    lost,        \* link_lost: the tick the countdown runs from, 0 without one
    pinned,      \* pinned_terminal, 0 without one
    published,   \* the recall was published to the actor
    mailbox,     \* CoreRecallActorInbox
    serving,     \* the command that left it and waits for the actor
    told,        \* the last answer that opened or cancelled a channel
    life,        \* ProductionRecallSessionState
    recallDir,   \* ActiveRecallTransport of the recall directory
    exDir,       \* actor and transport of the extraction directory
    session,     \* SessionEntry
    op,          \* the operation that holds the session lock
    dialed,      \* connections so far
    handlers,    \* connections that were attached and not detached yet
    fresh,       \* those whose server task may still be at its first publications
    leaked,      \* those whose server task returned from there: nobody detaches them
    open,        \* connections that are alive
    available,   \* writers that were neither retired nor failed
    left,        \* the tick at which the session last lost its transport
    refused      \* what was refused to a player who came back

barrier  == <<acked, frame, owner, ended>>
actor    == <<channel, lost, pinned, published>>
commands == <<mailbox, serving, told>>
writers  == <<life, recallDir, exDir, session, op>>
links    == <<dialed, handlers, open, available, left, refused>>
tasks    == <<fresh, leaked>>
vars     == <<barrier, actor, commands, writers, links, tasks>>

Connections == 1 .. MaxConnections
Ticks == 1 .. MaxTick

Inactive  == [state |-> "Inactive", request |-> None, started |-> 0]
NoCommand == [intent |-> None, request |-> None, since |-> 0, tick |-> 0]
NoFrame   == [tick |-> 0, other |-> None]
NotEnded  == [kind |-> None, tick |-> 0, request |-> None]
NoLease   == [generation |-> 0, writer |-> 0]
NoOp      == [step |-> None, writer |-> 0, lease |-> 0, tick |-> 0]
Nothing   == [answer |-> None, request |-> None, tick |-> 0]

\* The actor's tokio mutex is free, and so is the lock of the recall directory.
ActorFree == owner.stage # "Preparing"
DirectoryFree == op.tick = 0

\* Mutant of DeadlineTick: the countdown is as long as the channel.
DeadlineTickExplicit == lost + ExplicitTicks

\* completion_tick of the channel and of the countdown.
CompletionTick == channel.started + ExplicitTicks
DeadlineTick == lost + LinkLostTicks

\* The player entered danger on connection 1: its first frame is acknowledged
\* and bind_recall has put the session's writer into the recall directory.
Init ==
    /\ acked = 1 /\ frame = NoFrame /\ ended = NotEnded
    /\ owner = [stage |-> "Idle", recall |-> None, cause |-> None]
    /\ channel = Inactive /\ lost = 0 /\ pinned = 0 /\ published = FALSE
    /\ mailbox = <<>> /\ serving = NoCommand /\ told = Nothing
    /\ life = [next |-> 2, active |-> 1, pending |-> FALSE]
    /\ recallDir = [generation |-> 1, writer |-> 1]
    /\ exDir = [actor |-> None, writer |-> 0]
    /\ session = [active |-> 1, recallLease |-> 1, exBound |-> FALSE,
                  bound |-> TRUE, ticks |-> TRUE]
    /\ op = NoOp /\ dialed = 1 /\ handlers = {1} /\ open = {1} /\ available = {1}
    /\ left = 0 /\ refused = None /\ fresh = {} /\ leaked = {}

-----------------------------------------------------------------------------
(* The commands of the player.                                               *)

\* The connection loop of the session's transport has begun; it is over when the
\* connection is.
InLoop ==
    /\ session.active \in open \ leaked
    /\ fresh' = fresh \ {session.active}
    /\ UNCHANGED leaked

\* CoreRecallActorDirectory::handle_recall: only the current lease may queue.
Send(intent, request) ==
    /\ DirectoryFree
    /\ InLoop
    /\ session.recallLease # 0 /\ recallDir.generation = session.recallLease
    /\ Len(mailbox) < MailboxCapacity
    /\ mailbox' = Append(mailbox, [intent |-> intent, request |-> request,
                                   since |-> acked, tick |-> 0])
    /\ UNCHANGED <<barrier, actor, serving, told, writers, links>>

\* serve_next_with_tick: the tick is read when the command leaves the mailbox.
Serve ==
    /\ serving = NoCommand /\ mailbox # <<>>
    /\ serving' = [Head(mailbox) EXCEPT !.tick = acked]
    /\ mailbox' = Tail(mailbox)
    /\ UNCHANGED <<barrier, actor, told, writers, links, tasks>>

Opening(command) == [state |-> "Channeling", request |-> command.request,
                     started |-> command.tick]

PendingAnswer(opened) == [answer |-> "Pending", request |-> opened.request,
                          tick |-> opened.started + ExplicitTicks]

\* Mutant of AfterIntent: a cancelled channel keeps running.
AfterIntentUncancelled(command) ==
    CASE command.intent = "Start" /\ channel.state = "Inactive" ->
            [channel |-> Opening(command), told |-> PendingAnswer(Opening(command))]
      [] command.intent = "Start" /\ channel.request = command.request ->
            [channel |-> channel, told |-> PendingAnswer(channel)]
      [] command.intent = "Cancel" /\ channel.state = "Channeling"
              /\ command.tick < CompletionTick ->
            [channel |-> channel,
             told |-> [answer |-> "Cancelled", request |-> channel.request,
                       tick |-> command.tick]]
      [] OTHER -> [channel |-> channel, told |-> told]

\* ProductionRecallChannel::handle.  A Start opens a channel or repeats the
\* answer to the same request, and conflicts with another one; a Cancel finds no
\* channel (SourceUnavailable), comes too late (TerminalLost) or ends it.
AfterIntent(command) ==
    CASE command.intent = "Start" /\ channel.state = "Inactive" ->
            [channel |-> Opening(command), told |-> PendingAnswer(Opening(command))]
      [] command.intent = "Start" /\ channel.request = command.request ->
            [channel |-> channel, told |-> PendingAnswer(channel)]
      [] command.intent = "Cancel" /\ channel.state = "Channeling"
              /\ command.tick < CompletionTick ->
            [channel |-> Inactive,
             told |-> [answer |-> "Cancelled", request |-> channel.request,
                       tick |-> command.tick]]
      [] OTHER -> [channel |-> channel, told |-> told]

\* ProductionRecallIntentActor::handle, once the actor is free.  After a
\* publication the answer is its replay or TerminalLost, from the pin on it is
\* UnresolvedMutation; neither changes the actor.
Handle ==
    /\ serving # NoCommand /\ ActorFree
    /\ LET after == IF published \/ pinned # 0
                    THEN [channel |-> channel, told |-> told]
                    ELSE AfterIntent(serving)
       IN channel' = after.channel /\ told' = after.told
    /\ serving' = NoCommand
    /\ UNCHANGED <<barrier, lost, pinned, published, mailbox, writers, links, tasks>>

-----------------------------------------------------------------------------
(* The frames and their owner.                                               *)

\* MaxQueueTicks frames at most pass while a command waits in the mailbox or for
\* the actor, and between the reading of a tick and its use.
QueueIsServed ==
    /\ op.tick # 0 => acked - op.tick < MaxQueueTicks
    /\ \A command \in {mailbox[i] : i \in DOMAIN mailbox} \cup ({serving} \ {NoCommand}) :
           acked - command.since < MaxQueueTicks

\* acknowledge_terminal_frame or deliver_verified_fault: the driver hands the
\* next tick over with what the other producers found in it.
Deliver(other) ==
    /\ frame = NoFrame /\ owner.stage = "Idle" /\ acked < MaxTick
    /\ other = "SuccessfulExtraction" => session.exBound /\ exDir.actor = "Registered"
    /\ QueueIsServed
    /\ frame' = [tick |-> acked + 1, other |-> other]
    /\ UNCHANGED <<acked, owner, ended, actor, commands, writers, links, tasks>>

Stop(cause) ==
    /\ owner' = [stage |-> "Stopped", recall |-> None, cause |-> cause]
    /\ frame' = NoFrame

\* drive_recall_terminal_tick: refresh_pending_authority refuses another pinned
\* tick, and a candidate of another producer pins the tick first.
PinOthers ==
    /\ frame # NoFrame /\ owner.stage = "Idle" /\ ActorFree
    /\ IF pinned \notin {0, frame.tick}
       THEN Stop("PinnedTick") /\ UNCHANGED pinned
       ELSE /\ owner' = [owner EXCEPT !.stage = "Pinned"]
            /\ pinned' = IF frame.other # None THEN frame.tick ELSE pinned
            /\ UNCHANGED frame
    /\ UNCHANGED <<acked, ended, channel, lost, published, commands, writers, links, tasks>>

ExplicitDue == channel.state # "Inactive" /\ frame.tick = CompletionTick
LinkLostDue == lost # 0 /\ frame.tick = DeadlineTick
Missed == \/ channel.state = "Channeling" /\ frame.tick > CompletionTick
          \/ lost # 0 /\ frame.tick > DeadlineTick

\* evaluate_terminal_tick up to the repository: a due completion pins the tick
\* before it is awaited.
Evaluate ==
    /\ owner.stage = "Pinned" /\ ActorFree
    /\ IF ExplicitDue /\ LinkLostDue THEN Stop("MultipleRecallCandidates") /\ UNCHANGED pinned
       ELSE IF Missed THEN Stop("MissedCompletionTick") /\ UNCHANGED pinned
       ELSE /\ owner' = [owner EXCEPT !.stage =
                            IF ExplicitDue \/ LinkLostDue THEN "Preparing" ELSE "Evaluated"]
            /\ pinned' = IF ExplicitDue \/ LinkLostDue THEN frame.tick ELSE pinned
            /\ UNCHANGED frame
    /\ UNCHANGED <<acked, ended, channel, lost, published, commands, writers, links, tasks>>

\* planner.prepare answers, and the actor is unlocked with the prepared plan,
\* the candidate the driver observes ...
Prepare ==
    /\ owner.stage = "Preparing"
    /\ owner' = [owner EXCEPT !.stage = "Evaluated",
                    !.recall = IF ExplicitDue THEN "EmergencyRecall" ELSE "DisconnectRecovery"]
    /\ channel' = IF ExplicitDue THEN [channel EXCEPT !.state = "Prepared"] ELSE channel
    /\ UNCHANGED <<acked, frame, ended, lost, pinned, published, commands, writers, links, tasks>>

\* ... or it fails, and so does any other call of the owner: process_frame ends
\* with the error and the acknowledgement is dropped.
StoreFails ==
    /\ owner.stage \in {"Preparing", "Executing"}
    /\ Stop("Store")
    /\ UNCHANGED <<acked, ended, actor, commands, writers, links, tasks>>

Candidates == {frame.other, owner.recall} \ {None}

Winner == CHOOSE kind \in Candidates : \A other \in Candidates : priority[kind] <= priority[other]

\* seal_authoritative_tick; without a candidate the frame is acknowledged with
\* Continue and only then does the driver expose its tick.
Seal ==
    /\ owner.stage = "Evaluated"
    /\ IF Candidates = {}
       THEN /\ owner' = [owner EXCEPT !.stage = "Idle"]
            /\ acked' = frame.tick /\ frame' = NoFrame
       ELSE owner' = [owner EXCEPT !.stage = "Executing"] /\ UNCHANGED <<acked, frame>>
    /\ UNCHANGED <<ended, actor, commands, writers, links, tasks>>

\* The winner's transaction commits.  A verified fault retires the extraction
\* actor first, which is refused as long as nothing is committed.
Execute ==
    /\ owner.stage = "Executing"
    /\ IF Winner = "FaultRestoration" /\ exDir.actor = "Registered"
       THEN Stop("InvalidTerminalWinner") /\ UNCHANGED <<ended, exDir>>
       ELSE /\ ended' = [kind |-> Winner, tick |-> frame.tick, request |-> channel.request]
            /\ owner' = [owner EXCEPT !.stage = "Publishing"]
            /\ exDir' = IF Winner = "SuccessfulExtraction"
                        THEN [exDir EXCEPT !.actor = "Committed"] ELSE exDir
            /\ UNCHANGED frame
    /\ UNCHANGED <<acked, actor, commands, life, recallDir, session, op, links, tasks>>

\* publish_recall, once the actor is free.
PublishRecall ==
    /\ owner.stage = "Publishing" /\ ActorFree
    /\ published' = (ended.kind \in {"EmergencyRecall", "DisconnectRecovery"})
    /\ owner' = [owner EXCEPT !.stage = "Retiring"]
    /\ UNCHANGED <<acked, frame, ended, channel, lost, pinned, commands, writers, links, tasks>>

\* retire_actor_after_other_terminal drops the extraction actor, its transport
\* and its reserved handoff; then the frame is acknowledged as owned.
Retire ==
    /\ owner.stage = "Retiring"
    /\ exDir' = IF exDir.actor = "Registered" THEN [actor |-> "Retired", writer |-> 0] ELSE exDir
    /\ owner' = [owner EXCEPT !.stage = "Done"]
    /\ acked' = frame.tick /\ frame' = NoFrame
    /\ UNCHANGED <<ended, actor, commands, life, recallDir, session, op, links, tasks>>

-----------------------------------------------------------------------------
(* The extraction actor and the end of the danger.                           *)

\* registrar.register: Caldus is beaten and the extraction actor registered.
RegisterExtraction ==
    /\ "SuccessfulExtraction" \in Others
    /\ exDir.actor = None /\ session.bound /\ ended = NotEnded
    /\ exDir' = [exDir EXCEPT !.actor = "Registered"]
    /\ UNCHANGED <<barrier, actor, commands, life, recallDir, session, op, links, tasks>>

\* Mutant of BindExtraction: an aborted actor stays bound.
BindExtractionAborted ==
    /\ op = NoOp /\ ~session.exBound /\ exDir.actor = "Registered"
    /\ session' = [session EXCEPT !.exBound = TRUE]
    /\ exDir' = IF session.active \in available \cup {0}
                THEN [exDir EXCEPT !.writer = session.active]
                ELSE [exDir EXCEPT !.actor = "Aborted"]
    /\ UNCHANGED <<barrier, actor, commands, life, recallDir, op, links, tasks>>

\* bind_registered_extraction gives it the writer of the session; when that
\* writer has failed, SessionCaldusExtractionActivator aborts the actor.
BindExtraction ==
    /\ op = NoOp /\ ~session.exBound /\ exDir.actor = "Registered"
    /\ IF session.active \in available \cup {0}
       THEN /\ session' = [session EXCEPT !.exBound = TRUE]
            /\ exDir' = [exDir EXCEPT !.writer = session.active]
       ELSE exDir' = [exDir EXCEPT !.actor = "Aborted"] /\ UNCHANGED session
    /\ UNCHANGED <<barrier, actor, commands, life, recallDir, op, links, tasks>>

\* reconcile_stored_successor: after a death the successor is stored and
\* unbind_microrealm takes the danger out of the session ...
StoreSuccessor ==
    /\ op = NoOp /\ InLoop
    /\ ended.kind = "LethalDeath" /\ owner.stage = "Done"
    /\ session.bound /\ ~session.exBound
    /\ session' = [session EXCEPT !.bound = FALSE]
    /\ UNCHANGED <<barrier, actor, commands, life, recallDir, exDir, op, links>>

\* ... and, without the session lock, its ticks out of the tick directory.
UnbindTicks ==
    /\ ~session.bound /\ session.ticks
    /\ session' = [session EXCEPT !.ticks = FALSE]
    /\ UNCHANGED <<barrier, actor, commands, life, recallDir, exDir, op, links, tasks>>

\* enter_committed_microrealm for the successor: register_actor still finds the
\* actor of the first danger, which nothing but a failed admission retires.
EnterNextDanger ==
    /\ op = NoOp /\ InLoop /\ ~session.bound
    /\ refused' = "Entry"
    /\ UNCHANGED <<barrier, actor, commands, writers, dialed, handlers, open, available, left>>

-----------------------------------------------------------------------------
(* The session: transports attach and detach.                                *)

\* extraction.prepare and extraction.commit find an actor or a committed result.
ExtractionAnswers == ~session.exBound \/ exDir.actor \in {"Registered", "Committed"}

Retired(connections) ==
    /\ available' = available \ connections
    /\ open' = open \ connections

\* attach_transport up to prepare_dynamic_writer_handoffs: both directories
\* reserve the new writer, or the attachment is refused and the writer retired.
AttachBegin ==
    /\ op = NoOp /\ dialed < MaxConnections
    /\ dialed' = dialed + 1
    /\ IF ExtractionAnswers
       THEN /\ op' = [NoOp EXCEPT !.step = "Recall", !.writer = dialed']
            /\ available' = available \cup {dialed'}
            /\ open' = open \cup {dialed'}
            /\ UNCHANGED refused
       ELSE refused' = "Attach" /\ UNCHANGED <<op, available, open>>
    /\ UNCHANGED <<barrier, actor, commands, life, recallDir, exDir, session, handlers, left, tasks>>

\* The recall directory is locked and the tick read, for an attachment, a
\* restored writer or a detachment.
ReadTick ==
    /\ op.step \in {"Recall", "Restore", "Undo", "Detach"} /\ op.tick = 0
    /\ session.ticks
    /\ op.step = "Restore" => session.active \in available
    /\ op' = [op EXCEPT !.tick = acked]
    /\ UNCHANGED <<barrier, actor, commands, life, recallDir, exDir, session, links, tasks>>

\* Mutant of Attached: link_lost_pending survives the reconnect.
AttachedStillPending(tick) ==
    LET handoff == life.active # 0
        inTime  == ~handoff /\ life.pending /\ tick < DeadlineTick /\ pinned = 0
    IN /\ life' = [life EXCEPT !.next = @ + 1, !.active = life.next]
       /\ lost' = IF inTime THEN 0 ELSE lost

\* ProductionRecallSessionLifecycle::attach_transport: a handoff, a reconnect
\* that ends the countdown in time, or one whose terminal is pending.
Attached(tick) ==
    LET handoff == life.active # 0
        inTime  == ~handoff /\ life.pending /\ tick < DeadlineTick /\ pinned = 0
    IN /\ life' = [next |-> life.next + 1, active |-> life.next,
                   pending |-> life.pending /\ ~inTime]
       /\ lost' = IF inTime THEN 0 ELSE lost

\* commit_prepared_reliable_writer_handoff of the recall directory.
AttachRecall ==
    /\ op.step = "Recall" /\ op.tick # 0 /\ ActorFree
    /\ Attached(op.tick)
    /\ recallDir' = [generation |-> life.next, writer |-> op.writer]
    /\ op' = [op EXCEPT !.step = IF session.exBound THEN "Extraction" ELSE "Publish",
                        !.lease = life.next, !.tick = 0]
    /\ UNCHANGED <<barrier, channel, pinned, published, commands, exDir, session, links, tasks>>

\* The same without a tick: both reservations are aborted.
AttachUnticked ==
    /\ op.step = "Recall" /\ op.tick = 0 /\ ~session.ticks
    /\ Retired({op.writer})
    /\ op' = NoOp /\ refused' = "Attach"
    /\ UNCHANGED <<barrier, actor, commands, life, recallDir, exDir, session, dialed, handlers, left, tasks>>

\* extraction.commit, after which the session publishes the transport ...
AttachExtraction ==
    /\ op.step = "Extraction" /\ ExtractionAnswers
    /\ exDir' = [exDir EXCEPT !.writer = op.writer]
    /\ op' = [op EXCEPT !.step = "Publish"]
    /\ UNCHANGED <<barrier, actor, commands, life, recallDir, session, links, tasks>>

\* Mutant of FailExtraction: the recall handoff is left as it is.
FailExtractionUnrestored ==
    /\ op.step = "Extraction" /\ ~ExtractionAnswers
    /\ Retired({op.writer})
    /\ op' = NoOp /\ refused' = "Attach"
    /\ UNCHANGED <<barrier, actor, commands, life, recallDir, exDir, session, dialed, handlers, left, tasks>>

\* ... or restore_recall_after_extraction_failure begins.
FailExtraction ==
    /\ op.step = "Extraction" /\ ~ExtractionAnswers
    /\ op' = [op EXCEPT !.step = IF session.active # 0 THEN "Restore" ELSE "Undo"]
    /\ UNCHANGED <<barrier, actor, commands, life, recallDir, exDir, session, links, tasks>>

\* The previous writer is back in the recall directory, the new one is retired.
Restore ==
    /\ op.step = "Restore" /\ op.tick # 0 /\ ActorFree
    /\ Attached(op.tick)
    /\ recallDir' = [generation |-> life.next, writer |-> session.active]
    /\ session' = [session EXCEPT !.recallLease = life.next]
    /\ Retired({op.writer})
    /\ op' = NoOp /\ refused' = "Attach"
    /\ UNCHANGED <<barrier, channel, pinned, published, commands, exDir, dialed, handlers, left, tasks>>

\* The previous writer has failed meanwhile.
FailRestore ==
    /\ op.step = "Restore" /\ op.tick = 0 /\ session.active \notin available
    /\ op' = [op EXCEPT !.step = "Undo"]
    /\ UNCHANGED <<barrier, actor, commands, life, recallDir, exDir, session, links, tasks>>

\* ProductionRecallSessionLifecycle::detach_transport of the current generation
\* refuses a pinned actor: TerminalTickPinned.
DetachRefused == ~life.pending /\ pinned # 0

\* Mutant of Detached: the actor is not told of the lost link.
DetachedUncounted(lease, tick) ==
    IF recallDir.generation # lease \/ DetachRefused
    THEN UNCHANGED <<life, lost, recallDir>>
    ELSE /\ life' = [life EXCEPT !.active = 0]
         /\ recallDir' = NoLease
         /\ UNCHANGED lost

\* CoreRecallActorDirectory::detach_transport: a countdown that runs is kept.
Detached(lease, tick) ==
    IF recallDir.generation # lease \/ DetachRefused
    THEN UNCHANGED <<life, lost, recallDir>>
    ELSE /\ life' = [life EXCEPT !.active = 0, !.pending = TRUE]
         /\ lost' = IF life.pending THEN lost ELSE tick
         /\ recallDir' = NoLease

\* Nobody is left: the recall lease is given back, if the actor allows it, and
\* both writers are retired.
Undo ==
    /\ op.step = "Undo" /\ op.tick # 0 /\ ActorFree
    /\ Detached(op.lease, op.tick)
    /\ session' = [session EXCEPT !.active = 0, !.recallLease = 0]
    /\ Retired({op.writer, session.active})
    /\ left' = IF session.active # 0 THEN op.tick ELSE left
    /\ op' = NoOp /\ refused' = "Attach"
    /\ UNCHANGED <<barrier, channel, pinned, published, commands, exDir, dialed, handlers, tasks>>

\* attach_transport ends: the new writer is the session's, the previous is
\* retired, and the task goes on to publish the route, the belt and a snapshot.
Publish ==
    /\ op.step = "Publish"
    /\ session' = [session EXCEPT !.active = op.writer, !.recallLease = op.lease]
    /\ Retired({session.active})
    /\ handlers' = handlers \cup {op.writer}
    /\ fresh' = fresh \cup {op.writer}
    /\ op' = NoOp
    /\ UNCHANGED <<barrier, actor, commands, life, recallDir, exDir, dialed, left, refused, leaked>>

\* One of these publications fails: serve_connection returns with its error, and
\* detach_transport, which follows the connection loop, is never called.
FirstPublicationFails(connection) ==
    /\ connection \in fresh
    /\ fresh' = fresh \ {connection}
    /\ leaked' = leaked \cup {connection}
    /\ \E failed \in SUBSET {connection} : Retired(failed)
    /\ UNCHANGED <<barrier, actor, commands, writers, dialed, handlers, left, refused>>

\* detach_transport, called after the loop of a connection that is gone: a replaced
\* one is ignored, the session's gives its extraction lease back first.
DetachBegin(connection) ==
    /\ op = NoOp /\ connection \in handlers \ (open \cup leaked)
    /\ handlers' = handlers \ {connection}
    /\ fresh' = fresh \ {connection}
    /\ IF session.active # connection
       THEN UNCHANGED <<session, exDir, op, available, left>>
       ELSE /\ exDir' = [exDir EXCEPT !.writer = 0]
            /\ IF session.recallLease # 0
               THEN /\ op' = [step |-> "Detach", writer |-> connection,
                              lease |-> session.recallLease, tick |-> 0]
                    /\ session' = [session EXCEPT !.recallLease = 0]
                    /\ UNCHANGED <<available, left>>
               ELSE /\ session' = [session EXCEPT !.active = 0]
                    /\ available' = available \ {connection}
                    /\ left' = acked
                    /\ UNCHANGED op
    /\ UNCHANGED <<barrier, actor, commands, life, recallDir, dialed, open, refused, leaked>>

\* The recall directory has answered; with its error the session keeps the
\* transport, which the next attachment will replace.
DetachEnd ==
    /\ op.step = "Detach" /\ op.tick # 0 /\ ActorFree
    /\ Detached(op.lease, op.tick)
    /\ IF DetachRefused
       THEN UNCHANGED <<session, available, left>>
       ELSE /\ session' = [session EXCEPT !.active = 0]
            /\ available' = available \ {op.writer}
            /\ left' = op.tick
    /\ op' = NoOp
    /\ UNCHANGED <<barrier, channel, pinned, published, commands, exDir, dialed, handlers, open, refused, tasks>>

\* AuthoritativeTickUnavailable is an error of the recall directory as well.
DetachUnticked ==
    /\ op.step = "Detach" /\ op.tick = 0 /\ ~session.ticks
    /\ op' = NoOp
    /\ UNCHANGED <<barrier, actor, commands, life, recallDir, exDir, session, links, tasks>>

\* A connection is lost; its writer does not know before it writes.
Drop(connection) ==
    /\ connection \in open
    /\ open' = open \ {connection}
    /\ UNCHANGED <<barrier, actor, commands, writers, dialed, handlers, available, left, refused, tasks>>

\* A cancelled or failed write retires the writer.
WriterFails(connection) ==
    /\ connection \in available \cap handlers
    /\ Retired({connection})
    /\ UNCHANGED <<barrier, actor, commands, writers, dialed, handlers, left, refused, tasks>>

-----------------------------------------------------------------------------

Owner == PinOthers \/ Evaluate \/ Prepare \/ Seal \/ Execute \/ PublishRecall \/ Retire
Frames == \E other \in Others \cup {None} : Deliver(other)
Extraction == RegisterExtraction \/ BindExtraction
Attach == \/ AttachBegin \/ AttachRecall \/ AttachUnticked \/ AttachExtraction
          \/ FailExtraction \/ Restore \/ FailRestore \/ Undo \/ Publish
Detach == (\E connection \in Connections : DetachBegin(connection)) \/ DetachEnd \/ DetachUnticked
Successor == StoreSuccessor \/ UnbindTicks \/ EnterNextDanger
Faults ==
    \/ StoreFails
    \/ \E connection \in Connections :
          Drop(connection) \/ WriterFails(connection) \/ FirstPublicationFails(connection)
Player == (\E request \in Requests : Send("Start", request)) \/ Send("Cancel", None)

Next == \/ Player \/ Serve \/ Handle \/ Frames \/ Owner \/ Extraction
        \/ Attach \/ ReadTick \/ Detach \/ Successor \/ Faults

\* The tasks of the driver, the owner, the actor and the session run on; so does
\* the task of every connection that is gone, if its loop had begun.
Fairness ==
    /\ WF_vars(Frames) /\ WF_vars(Owner) /\ WF_vars(Serve) /\ WF_vars(Handle)
    /\ WF_vars(op # NoOp /\ (Attach \/ Detach)) /\ WF_vars(ReadTick)
    /\ \A connection \in Connections : SF_vars(DetachBegin(connection))

Spec == Init /\ [][Next]_vars
FairSpec == Spec /\ Fairness

-----------------------------------------------------------------------------

\* The records hold what the code's types allow: a pin is the tick of a frame,
\* a countdown and a channel start at a tick that was acknowledged.
SessionTypeOK ==
    /\ acked \in Ticks /\ frame.tick \in {0, acked + 1}
    /\ owner.stage \in {"Idle", "Pinned", "Preparing", "Evaluated", "Executing",
                        "Publishing", "Retiring", "Done", "Stopped"}
    /\ channel.started \in 0 .. acked /\ lost \in 0 .. acked /\ pinned \in 0 .. acked + 1
    /\ Len(mailbox) <= MailboxCapacity
    /\ life.active < life.next
    /\ recallDir.generation < life.next /\ recallDir.writer \in Connections \cup {0}
    /\ session.active \in Connections \cup {0}
    /\ handlers \subseteq 1 .. dialed /\ fresh \cup leaked \subseteq handlers

\* A recall that is committed was due.  An explicit one is the one the player
\* was last told of, at the tick that was announced: a cancelled or superseded
\* channel never completes, whatever waits in the mailbox while the plan is
\* prepared.  Automatic recovery commits exactly at the deadline of the
\* countdown, and never for a player whose reconnect ended it.
RecallIsDue ==
    /\ ended.kind = "EmergencyRecall" =>
          told = [answer |-> "Pending", request |-> ended.request, tick |-> ended.tick]
    /\ ended.kind = "DisconnectRecovery" =>
          ended.tick = DeadlineTick /\ life.pending

\* No tick is ever refused for what the recall actor holds: both completions on
\* one tick, a completion that was missed, or another pinned tick.
CompletionsAreMet ==
    owner.cause \notin {"MultipleRecallCandidates", "MissedCompletionTick", "PinnedTick"}

\* A player whose connection has no task any more is being counted down, or a
\* terminal is pinned, with one exception the code makes: a task that returned
\* from its first publications never detached its transport.
AbandonedIsCounted ==
    op = NoOp /\ session.active \notin handlers \ leaked =>
        lost # 0 \/ pinned # 0 \/ session.active \in leaked

\* The countdown of a player who is away runs from the moment the session lost
\* its last transport: an attempt to come back that fails halfway never moves it.
CountdownKept ==
    op = NoOp /\ session.active = 0 /\ pinned = 0 => lost = left

\* A player who was detached is counted down, from the moment of leaving; only a
\* transport whose first publications failed is never detached.
SessionInv == SessionTypeOK /\ AbandonedIsCounted /\ CountdownKept

\* Between two operations the session, the recall directory and the extraction
\* directory agree on one writer ("no new session can be advertised with a split
\* reliable sequence").
OneWriter ==
    op = NoOp /\ session.active \in handlers =>
        /\ recallDir.writer = session.active
        /\ recallDir.generation = session.recallLease
        /\ exDir.writer \in {0, session.active}

\* Whoever comes back is served as long as the danger goes on, whatever handoff
\* failed before: only after another terminal has retired the extraction actor is
\* a reconnect refused, and only a successor's entry finds the old recall actor.
ServedUntilEnded == refused # None => ended # NotEnded

\* The danger is over for the player, or the owner failed.
Over == ended # NotEnded \/ owner.stage = "Stopped"

\* Whoever loses the connection is detached, and whoever is detached and stays
\* away is recovered at the deadline or ends otherwise, unless the owner failed
\* or the frames of the model run out before the deadline; only a transport
\* whose first publications failed waits for the player's return.
AbandonedEnds ==
    /\ (session.active \notin open)
          ~> (session.active \in open \cup leaked \cup {0} \/ Over)
    /\ (session.active = 0 /\ (lost # 0 => DeadlineTick <= MaxTick))
          ~> (session.active # 0 \/ Over)
=============================================================================
