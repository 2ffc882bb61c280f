------------------------ MODULE TerminalCoordinator ------------------------
(***************************************************************************)
(* The terminal coordinator of one live character                          *)
(* (crates/server_app/src/core_terminal_coordinator.rs): a barrier in      *)
(* front of the arbiter.  Each of the five producers must say, for one     *)
(* tick and one character version, whether it has a candidate; only then   *)
(* may the tick be sealed and the winner be frozen.                        *)
(***************************************************************************)
EXTENDS TerminalArbiter

Producers == {"LethalHealth", "SuccessfulExtraction", "EmergencyRecall",
              "DisconnectRecovery", "VerifiedFaultRestoration"}

terminal_kind ==
    [LethalHealth             |-> "LethalDeath",
     SuccessfulExtraction     |-> "SuccessfulExtraction",
     EmergencyRecall          |-> "EmergencyRecall",
     DisconnectRecovery       |-> "DisconnectRecovery",
     VerifiedFaultRestoration |-> "FaultRestoration"]

\* What a producer says of one tick; candidate is None when it has nothing.
CoreTerminalEvaluation ==
    [producer : Producers, binding : Bindings, tick : Ticks,
     version : 0 .. MaxVersion, candidate : Proposals \cup {None}]

\* The arbiter's limit is 32: one candidate of each producer always fits.
ASSUME CoordinatorAssumption == MaxCandidates >= 5

VARIABLES
    barrier,     \* the ProducerBarrier, or None
    lastSealed,  \* last_sealed_tick; 0 for none, as no tick 0 is evaluated
    answer,      \* what the last call of the coordinator returned
    heard        \* history: the evaluations of the latest barrier

barrierVars == <<barrier, lastSealed, answer, heard>>
coordinatorVars == <<arbiterVars, barrierVars>>

ProducerBarrier ==
    [tick : Ticks, version : 0 .. MaxVersion,
     evaluated : SUBSET Producers, candidate_count : 0 .. 5]

Answers ==
    {"None", "EvaluationAccepted", "NoTerminal", "Prepared", "Recorded",
     "TerminalClosed", "InvalidObservedTick", "InvalidStateVersion",
     "EvaluationBindingMismatch", "DuplicateProducer", "TickDrift",
     "VersionDrift", "NonSequentialTick", "ProducerKindMismatch",
     "CandidateBindingMismatch", "CandidateTickMismatch",
     "CandidateVersionMismatch", "ArbiterRejected",
     "IncompleteProducerBarrier", "CommitFailed"}

CoordinatorTypeOK ==
    /\ ArbiterTypeOK
    /\ barrier \in ProducerBarrier \cup {None}
    /\ lastSealed \in Ticks \cup {0}
    /\ answer \in Answers
    /\ heard \subseteq CoreTerminalEvaluation

\* CoreTerminalCoordinator::new
CoordinatorInit ==
    /\ ArbiterInit
    /\ barrier = None
    /\ lastSealed = 0
    /\ answer = "None"
    /\ heard = {}

-----------------------------------------------------------------------------
Closed == phase \in {"Prepared", "Committed"}

\* Mutant of BarrierError: a new barrier may be opened for any tick.
BarrierErrorAnyTick(e) ==
    IF barrier # None /\ e.producer \in barrier.evaluated
    THEN "DuplicateProducer"
    ELSE IF barrier # None /\ e.tick # barrier.tick THEN "TickDrift"
    ELSE IF barrier # None /\ e.version # barrier.version THEN "VersionDrift"
    ELSE "None"

\* validate_barrier_identity
BarrierError(e) ==
    IF barrier # None
    THEN IF e.producer \in barrier.evaluated THEN "DuplicateProducer"
         ELSE IF e.tick # barrier.tick THEN "TickDrift"
         ELSE IF e.version # barrier.version THEN "VersionDrift"
         ELSE "None"
    ELSE IF lastSealed # 0 /\ e.tick # lastSealed + 1 THEN "NonSequentialTick"
    ELSE "None"

\* validate_candidate
CandidateError(e) ==
    IF e.candidate = None THEN "None"
    ELSE IF e.candidate.kind # terminal_kind[e.producer]
    THEN "ProducerKindMismatch"
    ELSE IF e.candidate.binding # e.binding THEN "CandidateBindingMismatch"
    ELSE IF e.candidate.tick # e.tick THEN "CandidateTickMismatch"
    ELSE IF e.candidate.version # e.version THEN "CandidateVersionMismatch"
    ELSE "None"

\* validate_evaluation
EvaluationError(e) ==
    IF Closed THEN "TerminalClosed"
    ELSE IF e.tick = 0 THEN "InvalidObservedTick"
    ELSE IF e.version \in {0, MaxVersion} THEN "InvalidStateVersion"
    ELSE IF e.binding # Own THEN "EvaluationBindingMismatch"
    ELSE IF BarrierError(e) # "None" THEN BarrierError(e)
    ELSE CandidateError(e)

NewBarrier(e) ==
    [tick |-> e.tick, version |-> e.version, evaluated |-> {},
     candidate_count |-> 0]

\* The barrier is opened by the first evaluation and counts every one.
Advance(e) ==
    /\ LET b == IF barrier = None THEN NewBarrier(e) ELSE barrier
       IN  barrier' =
               [tick |-> b.tick, version |-> b.version,
                evaluated |-> b.evaluated \cup {e.producer},
                candidate_count |-> b.candidate_count +
                    (IF e.candidate = None THEN 0 ELSE 1)]
    /\ heard' = (IF barrier = None THEN {} ELSE heard) \cup {e}
    /\ answer' = "EvaluationAccepted"
    /\ UNCHANGED lastSealed

EvaluateAbsent(e) ==
    /\ EvaluationError(e) = "None"
    /\ e.candidate = None
    /\ Advance(e)
    /\ UNCHANGED arbiterVars

EvaluateCandidate(e) ==
    /\ EvaluationError(e) = "None"
    /\ e.candidate # None
    /\ Admit(e.candidate)
    /\ Advance(e)

\* The arbiter did not accept the candidate: the barrier does not advance.
EvaluateRefused(e) ==
    /\ EvaluationError(e) = "None"
    /\ e.candidate # None
    /\ Refuse(e.candidate)
    /\ answer' = IF SubmitAnswer(e.candidate) \in
                       {"ReplayedPending", "ReplayedPrepared", "ReplayedCommitted"}
                 THEN "TerminalClosed" ELSE "ArbiterRejected"
    /\ UNCHANGED <<barrier, lastSealed, heard>>

EvaluateInvalid(e) ==
    /\ EvaluationError(e) # "None"
    /\ answer' = EvaluationError(e)
    /\ UNCHANGED <<arbiterVars, barrier, lastSealed, heard>>

evaluate(e) ==
    \/ EvaluateAbsent(e) \/ EvaluateCandidate(e)
    \/ EvaluateRefused(e) \/ EvaluateInvalid(e)

(***************************************************************************)
(* seal_authoritative_tick                                                 *)
(***************************************************************************)
\* Mutant of SealError: the tick is sealed before every producer has answered.
SealErrorIncomplete(tick, version) ==
    IF Closed THEN "TerminalClosed"
    ELSE IF barrier = None THEN "IncompleteProducerBarrier"
    ELSE IF tick # barrier.tick THEN "TickDrift"
    ELSE IF version # barrier.version THEN "VersionDrift"
    ELSE "None"

SealError(tick, version) ==
    IF Closed THEN "TerminalClosed"
    ELSE IF barrier = None THEN "IncompleteProducerBarrier"
    ELSE IF tick # barrier.tick THEN "TickDrift"
    ELSE IF version # barrier.version THEN "VersionDrift"
    ELSE IF barrier.evaluated # Producers THEN "IncompleteProducerBarrier"
    ELSE "None"

\* Mutant of SealNoTerminal: the count of candidates is not looked at.
SealNoTerminalUncounted(tick, version) ==
    /\ SealError(tick, version) = "None"
    /\ barrier' = None
    /\ lastSealed' = tick
    /\ answer' = "NoTerminal"
    /\ UNCHANGED <<arbiterVars, heard>>

SealNoTerminal(tick, version) ==
    /\ SealError(tick, version) = "None"
    /\ barrier.candidate_count = 0
    /\ barrier' = None
    /\ lastSealed' = tick
    /\ answer' = "NoTerminal"
    /\ UNCHANGED <<arbiterVars, heard>>

\* prepare could fail only if the arbiter held no candidate, or one of a later
\* tick; BarrierMirrorsArbiter says that it never does.
SealPrepared(tick, version) ==
    /\ SealError(tick, version) = "None"
    /\ barrier.candidate_count # 0
    /\ Freeze(tick)
    /\ barrier' = None
    /\ lastSealed' = tick
    /\ answer' = "Prepared"
    /\ UNCHANGED heard

SealInvalid(tick, version) ==
    /\ SealError(tick, version) # "None"
    /\ answer' = SealError(tick, version)
    /\ UNCHANGED <<arbiterVars, barrier, lastSealed, heard>>

seal_authoritative_tick(tick, version) ==
    \/ SealNoTerminal(tick, version)
    \/ SealPrepared(tick, version)
    \/ SealInvalid(tick, version)

RecordCommit(r) ==
    /\ record_commit(r)
    /\ answer' = IF reply' \in {"Committed", "Replayed"}
                 THEN "Recorded" ELSE "CommitFailed"
    /\ UNCHANGED <<barrier, lastSealed, heard>>

CoordinatorNext ==
    \/ \E e \in CoreTerminalEvaluation : evaluate(e)
    \/ \E t \in Ticks, v \in 0 .. MaxVersion : seal_authoritative_tick(t, v)
    \/ \E r \in StoredTerminalReceipt : RecordCommit(r)

CoordinatorSpec == CoordinatorInit /\ [][CoordinatorNext]_coordinatorVars

-----------------------------------------------------------------------------
(***************************************************************************)
(* Properties.                                                             *)
(***************************************************************************)
\* The barrier's own count and the candidates the arbiter holds are two books
\* of one fact, written by different code: while a barrier is open they agree
\* in number, tick and version, and without one the arbiter holds nothing.  So
\* a complete barrier with a candidate can always be sealed: neither error of
\* prepare can stop seal_authoritative_tick half way.
BarrierMirrorsArbiter ==
    /\ barrier # None =>
          /\ barrier.candidate_count = Cardinality(pending)
          /\ \A c \in pending : /\ c.tick = barrier.tick
                                /\ c.version = barrier.version
                                /\ pendingTick = barrier.tick
    /\ barrier = None => pending = {} /\ phase # "Pending"
    /\ phase = "Pending" <=> pending # {}

Candidates(S) == {e.candidate : e \in S} \ {None}

\* A terminal is decided only after each of the five producers has spoken
\* exactly once, of the very tick that was sealed, and the winner is the
\* canonical first of all the candidates they brought, whatever the order in
\* which the producers were asked (evaluate, seal_authoritative_tick).
DecisionHeardEveryone ==
    Decided =>
        /\ \A p \in Producers : \E e \in heard : e.producer = p
        /\ \A e, f \in heard : e.producer = f.producer => e = f
        /\ \A e \in heard : e.tick = lastSealed
        /\ IsLeader(Winner, Candidates(heard))

\* A candidate the coordinator accepted decides the run or is beaten by one
\* that does: no later call, the sealing of the tick as NoTerminal included,
\* lets the run go on as if the candidate had not been there.
CandidateEndsTheRun ==
    Candidates(heard) # {} =>
        \/ barrier # None /\ phase = "Pending"
        \/ Decided

\* Ticks are sealed without a gap and without going back, and none is sealed
\* once a terminal is decided (validate_barrier_identity,
\* seal_authoritative_tick).
TicksSealInOrder ==
    [][lastSealed' # lastSealed =>
          /\ lastSealed = 0 \/ lastSealed' = lastSealed + 1
          /\ ~Decided]_coordinatorVars

=============================================================================
