-------------------------- MODULE TerminalArbiter --------------------------
(***************************************************************************)
(* The terminal arbiter of one live character                              *)
(* (crates/server_app/src/terminal_arbiter.rs).                            *)
(*                                                                         *)
(* A danger run ends in one of five ways: death, extraction, an explicit   *)
(* recall, a recall because the link was lost, or a crash restoration.     *)
(* Several of them may be proposed on the same tick.  The arbiter collects *)
(* the proposals of one tick, freezes the winner when the tick is sealed,  *)
(* and keeps the receipt of the durable commit as the immutable outcome.   *)
(*                                                                         *)
(* Identifiers and hashes are naturals that keep the byte order of the     *)
(* code; 0 stands for the all-zero array that validation refuses.  The     *)
(* payload hash and the server plan hash are one number, `plan`.           *)
(***************************************************************************)
EXTENDS TerminalKinds, FiniteSets

CONSTANTS
    Bindings,       \* account, character, lineage and restore point, as one
    Own,            \* the binding this arbiter serves
    Proposals,      \* the candidates the producers may submit
    Results,        \* result hashes of the repository
    Ticks,
    MaxVersion,     \* stands for u64::MAX
    MaxCandidates   \* MAX_TERMINAL_CANDIDATES_PER_TICK

TerminalCandidate ==
    [binding : Bindings, terminal_id : Nat, mutation_id : Nat, plan : Nat,
     version : 0 .. MaxVersion, tick : Ticks, kind : Kinds]

\* TerminalCandidate::validate, which from_server_plan, the only constructor,
\* calls; submit's own call of it can no longer fail.
CandidateIsValid(c) ==
    /\ c.terminal_id # 0
    /\ c.mutation_id # 0
    /\ c.plan # 0
    /\ c.version # MaxVersion

ASSUME ArbiterAssumption ==
    /\ Own \in Bindings
    /\ Results \subseteq Nat \ {0}
    /\ Ticks \subseteq Nat
    /\ MaxVersion \in Nat
    /\ MaxCandidates \in Nat \ {0}
    /\ Proposals \subseteq TerminalCandidate
    /\ \A c \in Proposals : CandidateIsValid(c)

\* TerminalCandidate::canonical_cmp, as a strict order
Before(c, d) ==
    \/ priority[c.kind] < priority[d.kind]
    \/ /\ priority[c.kind] = priority[d.kind]
       /\ \/ c.terminal_id < d.terminal_id
          \/ /\ c.terminal_id = d.terminal_id
             /\ \/ c.mutation_id < d.mutation_id
                \/ /\ c.mutation_id = d.mutation_id
                   /\ c.plan < d.plan

\* Mutant of IsLeader: the maximum is taken for the minimum.
LeaderIsMaximum(c, S) == c \in S /\ \A d \in S : ~Before(c, d)

\* The minimum and the maximum the code takes of the candidates of a tick
IsLeader(c, S) == c \in S /\ \A d \in S : ~Before(d, c)
IsWorst(c, S)  == c \in S /\ \A d \in S : ~Before(c, d)

\* StoredTerminalReceipt::validate; both constructors, from_prepared and
\* from_storage, call it, so the call in record_commit can no longer fail.
ReceiptIsValid(r) ==
    /\ CandidateIsValid(r.candidate)
    /\ r.result # 0
    /\ r.post_version = r.candidate.version + 1
    /\ r.committed_tick >= r.candidate.tick

StoredTerminalReceipt ==
    {r \in [candidate : Proposals, result : Results,
            post_version : 0 .. MaxVersion, committed_tick : Ticks] :
        ReceiptIsValid(r)}

-----------------------------------------------------------------------------
VARIABLES
    phase,        \* the tag of ArbiterState
    pendingTick,  \* Pending.tick, 0 in the other phases
    pending,      \* Pending.candidates
    prepared,     \* the PreparedTerminal, or None
    receipt,      \* the committed StoredTerminalReceipt, or None
    reply,        \* what the last call returned
    admitted,     \* history: every candidate that was answered Accepted
    evicted       \* history: the candidates an overflow replaced

arbiterVars ==
    <<phase, pendingTick, pending, prepared, receipt, reply, admitted, evicted>>

None == [none |-> TRUE]

Phases == {"Open", "Pending", "Prepared", "Committed"}

PreparedTerminal ==
    [winner : Proposals, count : 1 .. MaxCandidates, sealed : Ticks]

Replies ==
    {"None", "Accepted", "ReplayedPending", "ReplayedPrepared",
     "ReplayedCommitted", "BindingMismatch", "IdempotencyConflict",
     "TerminalIdConflict", "StaleTick", "EarlierTickUnresolved",
     "AggregateVersionConflict", "CandidateCapacityExhausted",
     "TickAlreadySealed", "TerminalAlreadyCommitted",
     "Prepared", "TickNotSealed", "NothingPending",
     "Committed", "Replayed", "NotPrepared",
     "ReceiptDoesNotMatchPreparedWinner", "ImmutableOutcome"}

ArbiterTypeOK ==
    /\ phase \in Phases
    /\ pendingTick \in Ticks \cup {0}
    /\ pending \subseteq Proposals
    /\ prepared \in PreparedTerminal \cup {None}
    /\ receipt \in StoredTerminalReceipt \cup {None}
    /\ reply \in Replies
    /\ admitted \subseteq Proposals
    /\ evicted \subseteq Proposals

\* TerminalArbiter::new
ArbiterInit ==
    /\ phase = "Open"
    /\ pendingTick = 0
    /\ pending = {}
    /\ prepared = None
    /\ receipt = None
    /\ reply = "None"
    /\ admitted = {}
    /\ evicted = {}

-----------------------------------------------------------------------------
(***************************************************************************)
(* submit: the answer is decided by the phase, the first matching check    *)
(* of the code wins.  Only "Accepted" changes the arbiter.                 *)
(***************************************************************************)
HasLethal(S) == \E d \in S : d.kind = "LethalDeath"

PendingAnswer(c) ==
    IF \E d \in pending : d.mutation_id = c.mutation_id
    THEN IF c \in pending THEN "ReplayedPending" ELSE "IdempotencyConflict"
    ELSE IF \E d \in pending : d.terminal_id = c.terminal_id
    THEN "TerminalIdConflict"
    ELSE IF c.tick < pendingTick THEN "StaleTick"
    ELSE IF c.tick > pendingTick THEN "EarlierTickUnresolved"
    ELSE IF \E d \in pending : d.version # c.version
    THEN "AggregateVersionConflict"
    ELSE IF /\ Cardinality(pending) = MaxCandidates
            /\ c.kind # "LethalDeath" \/ HasLethal(pending)
    THEN "CandidateCapacityExhausted"
    ELSE "Accepted"

PreparedAnswer(c) ==
    IF prepared.winner = c THEN "ReplayedPrepared"
    ELSE IF prepared.winner.mutation_id = c.mutation_id
    THEN "IdempotencyConflict"
    ELSE IF prepared.winner.terminal_id = c.terminal_id
    THEN "TerminalIdConflict"
    ELSE "TickAlreadySealed"

CommittedAnswer(c) ==
    IF receipt.candidate = c THEN "ReplayedCommitted"
    ELSE IF receipt.candidate.mutation_id = c.mutation_id
    THEN "IdempotencyConflict"
    ELSE IF receipt.candidate.terminal_id = c.terminal_id
    THEN "TerminalIdConflict"
    ELSE "TerminalAlreadyCommitted"

SubmitAnswer(c) ==
    IF c.binding # Own THEN "BindingMismatch"
    ELSE IF phase = "Open" THEN "Accepted"
    ELSE IF phase = "Pending" THEN PendingAnswer(c)
    ELSE IF phase = "Prepared" THEN PreparedAnswer(c)
    ELSE CommittedAnswer(c)

\* A full tick takes one lethal candidate in place of its worst one.
replace_for_lethal_overflow(c) ==
    \E worst \in pending :
        /\ IsWorst(worst, pending)
        /\ pending' = (pending \ {worst}) \cup {c}
        /\ evicted' = evicted \cup {worst}

Admit(c) ==
    /\ SubmitAnswer(c) = "Accepted"
    /\ reply' = "Accepted"
    /\ admitted' = admitted \cup {c}
    /\ phase' = "Pending"
    /\ pendingTick' = c.tick
    /\ \/ /\ Cardinality(pending) < MaxCandidates
          /\ pending' = pending \cup {c}
          /\ UNCHANGED evicted
       \/ /\ Cardinality(pending) = MaxCandidates
          /\ replace_for_lethal_overflow(c)
    /\ UNCHANGED <<prepared, receipt>>

Refuse(c) ==
    /\ SubmitAnswer(c) # "Accepted"
    /\ reply' = SubmitAnswer(c)
    /\ UNCHANGED <<phase, pendingTick, pending, prepared, receipt, admitted,
                   evicted>>

submit(c) == Admit(c) \/ Refuse(c)

(***************************************************************************)
(* prepare: seal the tick and freeze the winner.  A repeated call returns  *)
(* the frozen winner again.                                                *)
(***************************************************************************)
Freeze(sealed) ==
    /\ phase = "Pending"
    /\ pendingTick <= sealed
    /\ \E winner \in pending :
          /\ IsLeader(winner, pending)
          /\ prepared' = [winner |-> winner, count |-> Cardinality(pending),
                          sealed |-> sealed]
    /\ phase' = "Prepared"
    /\ pendingTick' = 0
    /\ pending' = {}
    /\ reply' = "Prepared"
    /\ UNCHANGED <<receipt, admitted, evicted>>

PrepareUnchanged(sealed) ==
    /\ \/ phase = "Pending" /\ pendingTick > sealed /\ reply' = "TickNotSealed"
       \/ phase = "Prepared" /\ reply' = "Prepared"
       \/ phase \in {"Open", "Committed"} /\ reply' = "NothingPending"
    /\ UNCHANGED <<phase, pendingTick, pending, prepared, receipt, admitted,
                   evicted>>

prepare(sealed) == Freeze(sealed) \/ PrepareUnchanged(sealed)

(***************************************************************************)
(* record_commit: publish the receipt the repository produced.             *)
(***************************************************************************)
\* Mutant of Publish: the receipt is not compared with the prepared winner.
PublishUnmatched(r) ==
    /\ phase = "Prepared"
    /\ phase' = "Committed"
    /\ prepared' = None
    /\ receipt' = r
    /\ reply' = "Committed"
    /\ UNCHANGED <<pendingTick, pending, admitted, evicted>>

Publish(r) ==
    /\ phase = "Prepared"
    /\ r.candidate = prepared.winner
    /\ phase' = "Committed"
    /\ prepared' = None
    /\ receipt' = r
    /\ reply' = "Committed"
    /\ UNCHANGED <<pendingTick, pending, admitted, evicted>>

CommitUnchanged(r) ==
    /\ \/ /\ phase = "Prepared" /\ r.candidate # prepared.winner
          /\ reply' = "ReceiptDoesNotMatchPreparedWinner"
       \/ phase = "Committed" /\ r = receipt /\ reply' = "Replayed"
       \/ phase = "Committed" /\ r # receipt /\ reply' = "ImmutableOutcome"
       \/ phase \in {"Open", "Pending"} /\ reply' = "NotPrepared"
    /\ UNCHANGED <<phase, pendingTick, pending, prepared, receipt, admitted,
                   evicted>>

record_commit(r) == Publish(r) \/ CommitUnchanged(r)

ArbiterNext ==
    \/ \E c \in Proposals : submit(c)
    \/ \E t \in Ticks : prepare(t)
    \/ \E r \in StoredTerminalReceipt : record_commit(r)

ArbiterSpec == ArbiterInit /\ [][ArbiterNext]_arbiterVars

-----------------------------------------------------------------------------
(***************************************************************************)
(* Properties.                                                             *)
(***************************************************************************)
Decided == phase \in {"Prepared", "Committed"}

\* The candidate prepare froze; record_commit keeps it inside the receipt.
Winner == IF phase = "Prepared" THEN prepared.winner ELSE receipt.candidate

\* The frozen and the committed winner comes first, in canonical order, of all
\* the candidates that were ever accepted, the ones lethal overflow threw out
\* of the full tick included (submit_pending, replace_for_lethal_overflow,
\* prepare).  So the order of arrival does not matter, and an accepted lethal
\* proposal is never overtaken by another kind.
WinnerLeadsAdmitted ==
    Decided => /\ Winner \in admitted
               /\ \A c \in admitted : ~Before(c, Winner)

\* "An evicted request cannot later re-enter with altered authority": once
\* replace_for_lethal_overflow drops a request, no candidate that carries its
\* mutation id is pending, prepared or committed.
EvictedStaysOut ==
    \A e \in evicted :
        /\ \A c \in pending : c.mutation_id # e.mutation_id
        /\ Decided => Winner.mutation_id # e.mutation_id

\* Two different candidates that compete for one outcome share neither their
\* mutation id nor their terminal id, and were planned for the same tick and
\* character version (submit_pending's conflict checks).
CompetitorsAgree ==
    \A c, d \in pending :
        /\ c.tick = d.tick /\ c.version = d.version
        /\ c # d => /\ c.mutation_id # d.mutation_id
                    /\ c.terminal_id # d.terminal_id

\* What a call may never do: replace a frozen winner by another one, or change
\* a committed receipt (prepare, record_commit, submit in every phase).
OutcomeIsFinal ==
    [][/\ phase = "Prepared" =>
             \/ phase' = "Prepared" /\ prepared' = prepared
             \/ phase' = "Committed" /\ receipt'.candidate = prepared.winner
       /\ phase = "Committed" => phase' = "Committed" /\ receipt' = receipt
      ]_arbiterVars

=============================================================================
