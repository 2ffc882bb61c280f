--------------------------- MODULE TerminalProofs ---------------------------
(***************************************************************************)
(* Proofs about the terminal arbiter, for every set of proposals, every    *)
(* capacity and every range of ticks and versions, and about the           *)
(* coordinator.  The coordinator drives the arbiter only through the       *)
(* arbiter's own operations, so everything proved of the arbiter holds of  *)
(* it as well; what is new is the agreement of the barrier with the        *)
(* arbiter and with what the producers said.                               *)
(***************************************************************************)
EXTENDS TerminalCoordinator, FiniteSetTheorems, TLAPS

-----------------------------------------------------------------------------
(* The arbiter.                                                              *)

\* The phase says which of the arbiter's fields hold something.
PhaseShape ==
    /\ phase \in Phases
    /\ phase = "Open" => pending = {} /\ admitted = {} /\ evicted = {}
    /\ phase = "Pending" => pending # {}
    /\ phase # "Pending" => pending = {}
    /\ phase = "Prepared" => prepared \in PreparedTerminal
    /\ phase = "Committed" => receipt \in StoredTerminalReceipt

\* A tick never holds more candidates than its capacity.
PendingBounded ==
    IsFiniteSet(pending) /\ Cardinality(pending) <= MaxCandidates

\* The inductive invariant of the type.
TypeInv == ArbiterTypeOK /\ PhaseShape /\ PendingBounded

\* The empty set of candidates fits in every tick.
LEMMA EmptyFits ==
    IsFiniteSet({}) /\ Cardinality({}) = 0
BY FS_EmptySet

\* Adding a candidate to a tick that is not full keeps it within capacity.
LEMMA AddFits ==
    ASSUME NEW S, NEW c, IsFiniteSet(S), Cardinality(S) < MaxCandidates
    PROVE  /\ IsFiniteSet(S \cup {c})
           /\ Cardinality(S \cup {c}) <= MaxCandidates
<1>1. Cardinality(S) \in Nat /\ MaxCandidates \in Nat
    BY FS_CardinalityType, ArbiterAssumption
<1>2. IsFiniteSet(S \cup {c}) /\ Cardinality(S \cup {c}) \in {Cardinality(S), Cardinality(S) + 1}
    BY FS_AddElement
<1> QED BY <1>1, <1>2

\* Replacing a candidate of a tick by one it does not hold keeps the count.
LEMMA ReplaceFits ==
    ASSUME NEW S, NEW w \in S, NEW c, c \notin S, IsFiniteSet(S)
    PROVE  /\ IsFiniteSet((S \ {w}) \cup {c})
           /\ Cardinality((S \ {w}) \cup {c}) = Cardinality(S)
<1>1. Cardinality(S) \in Nat
    BY FS_CardinalityType
<1>2. IsFiniteSet(S \ {w}) /\ Cardinality(S \ {w}) = Cardinality(S) - 1
    BY FS_RemoveElement
<1>3. /\ IsFiniteSet((S \ {w}) \cup {c})
      /\ Cardinality((S \ {w}) \cup {c}) = Cardinality(S \ {w}) + 1
    BY <1>2, FS_AddElement
<1> QED BY <1>1, <1>2, <1>3

\* The fields of a proposal that are compared are naturals.
LEMMA ProposalType ==
    ASSUME NEW c \in Proposals
    PROVE  /\ c.tick \in Nat /\ c.tick \in Ticks
           /\ c.terminal_id \in Nat /\ c.mutation_id \in Nat /\ c.plan \in Nat
           /\ c.version \in 0 .. MaxVersion /\ c.kind \in Kinds
<1>1. c \in TerminalCandidate
    BY ArbiterAssumption
<1> QED BY <1>1, ArbiterAssumption DEF TerminalCandidate

\* What submit checked before it accepts a candidate.
LEMMA AcceptedFacts ==
    ASSUME TypeInv, NEW c \in Proposals, SubmitAnswer(c) = "Accepted"
    PROVE  /\ c.binding = Own
           /\ phase \in {"Open", "Pending"}
           /\ c \notin pending
           /\ phase = "Pending" =>
                /\ c.tick = pendingTick
                /\ \A d \in pending : /\ d.mutation_id # c.mutation_id
                                       /\ d.terminal_id # c.terminal_id
                                       /\ d.version = c.version
                /\ Cardinality(pending) = MaxCandidates =>
                     c.kind = "LethalDeath" /\ ~HasLethal(pending)
<1>1. c.binding = Own
    BY DEF SubmitAnswer
<1>2. phase \in {"Open", "Pending"}
    BY DEF TypeInv, PhaseShape, Phases, SubmitAnswer, PreparedAnswer,
           CommittedAnswer
<1>3. CASE phase = "Open"
    BY <1>1, <1>2, <1>3 DEF TypeInv, PhaseShape
<1>4. CASE phase = "Pending"
    <2>1. PendingAnswer(c) = "Accepted"
        BY <1>4 DEF SubmitAnswer
    <2>2. c.tick \in Nat /\ pendingTick \in Nat
        BY ProposalType, ArbiterAssumption DEF TypeInv, ArbiterTypeOK
    <2>3. ~ \E d \in pending : d.mutation_id = c.mutation_id
        BY <2>1 DEF PendingAnswer
    <2>4. ~ \E d \in pending : d.terminal_id = c.terminal_id
        BY <2>1, <2>3 DEF PendingAnswer
    <2>5. c.tick = pendingTick
        BY <2>1, <2>2, <2>3, <2>4 DEF PendingAnswer
    <2>6. ~ \E d \in pending : d.version # c.version
        BY <2>1, <2>2, <2>3, <2>4, <2>5 DEF PendingAnswer
    <2>7. Cardinality(pending) = MaxCandidates =>
             c.kind = "LethalDeath" /\ ~HasLethal(pending)
        BY <2>1, <2>2, <2>3, <2>4, <2>5, <2>6 DEF PendingAnswer
    <2> QED BY <1>1, <1>2, <2>3, <2>4, <2>5, <2>6, <2>7
<1> QED BY <1>2, <1>3, <1>4

\* Every answer of submit is one of the answers the code knows.
LEMMA AnswerType ==
    ASSUME TypeInv, NEW c \in Proposals
    PROVE  SubmitAnswer(c) \in Replies
<1>1. PendingAnswer(c) \in Replies
    BY DEF PendingAnswer, Replies
<1>2. PreparedAnswer(c) \in Replies
    BY DEF PreparedAnswer, Replies
<1>3. CommittedAnswer(c) \in Replies
    BY DEF CommittedAnswer, Replies
<1> QED
    BY <1>1, <1>2, <1>3 DEF SubmitAnswer, TypeInv, PhaseShape, Phases, Replies

\* Accepting a candidate, appended or in place of the worst one, keeps the type.
LEMMA AdmitType ==
    ASSUME TypeInv, NEW c \in Proposals, Admit(c)
    PROVE  TypeInv'
<1>1. /\ phase \in {"Open", "Pending"} /\ c \notin pending
    BY AcceptedFacts DEF Admit
<1>2. CASE /\ Cardinality(pending) < MaxCandidates
           /\ pending' = pending \cup {c}
           /\ UNCHANGED evicted
    <2>1. PendingBounded'
        BY <1>2, AddFits DEF TypeInv, PendingBounded
    <2>2. ArbiterTypeOK'
        BY <1>2, ProposalType
        DEF TypeInv, ArbiterTypeOK, Admit, Phases, Replies
    <2>3. PhaseShape'
        BY <1>2 DEF TypeInv, PhaseShape, Admit, Phases
    <2> QED BY <2>1, <2>2, <2>3 DEF TypeInv
<1>3. CASE /\ Cardinality(pending) = MaxCandidates
           /\ replace_for_lethal_overflow(c)
    <2>1. PICK worst \in pending :
             /\ pending' = (pending \ {worst}) \cup {c}
             /\ evicted' = evicted \cup {worst}
        BY <1>3 DEF replace_for_lethal_overflow
    <2>2. PendingBounded'
        BY <1>1, <2>1, ReplaceFits DEF TypeInv, PendingBounded
    <2>3. ArbiterTypeOK'
        BY <2>1, ProposalType
        DEF TypeInv, ArbiterTypeOK, Admit, Phases, Replies
    <2>4. PhaseShape'
        BY <2>1 DEF TypeInv, PhaseShape, Admit, Phases
    <2> QED BY <2>2, <2>3, <2>4 DEF TypeInv
<1> QED BY <1>2, <1>3 DEF Admit

\* Sealing the tick keeps the type: the winner is a proposal and the count of
\* candidates is at least one and within capacity.
LEMMA FreezeType ==
    ASSUME TypeInv, NEW t \in Ticks, Freeze(t)
    PROVE  TypeInv'
<1>1. PICK w \in pending :
         prepared' = [winner |-> w, count |-> Cardinality(pending), sealed |-> t]
    BY DEF Freeze
<1>2. Cardinality(pending) \in 1 .. MaxCandidates
    <2>1. Cardinality(pending) \in Nat
        BY FS_CardinalityType DEF TypeInv, PendingBounded
    <2>2. Cardinality(pending) # 0
        BY <1>1, FS_EmptySet DEF TypeInv, PendingBounded
    <2> QED BY <2>1, <2>2, ArbiterAssumption DEF TypeInv, PendingBounded
<1>3. prepared' \in PreparedTerminal
    BY <1>1, <1>2 DEF PreparedTerminal, TypeInv, ArbiterTypeOK
<1>4. ArbiterTypeOK'
    BY <1>3 DEF TypeInv, ArbiterTypeOK, Freeze, Phases, Replies
<1>5. PhaseShape'
    BY <1>3 DEF TypeInv, PhaseShape, Freeze, Phases
<1>6. PendingBounded'
    BY EmptyFits, ArbiterAssumption DEF PendingBounded, Freeze
<1> QED BY <1>4, <1>5, <1>6 DEF TypeInv

\* Every step keeps the type.
LEMMA NextType ==
    TypeInv /\ [ArbiterNext]_arbiterVars => TypeInv'
<1> SUFFICES ASSUME TypeInv, [ArbiterNext]_arbiterVars
             PROVE  TypeInv'
    OBVIOUS
<1>1. ASSUME NEW c \in Proposals, Refuse(c) PROVE TypeInv'
    <2>1. reply' \in Replies
        BY <1>1, AnswerType DEF Refuse
    <2> QED
        BY <1>1, <2>1
        DEF Refuse, TypeInv, ArbiterTypeOK, PhaseShape, PendingBounded
<1>2. ASSUME NEW t \in Ticks, PrepareUnchanged(t) PROVE TypeInv'
    BY <1>2 DEF PrepareUnchanged, Replies, TypeInv, ArbiterTypeOK, PhaseShape,
                PendingBounded
<1>3. ASSUME NEW r \in StoredTerminalReceipt, Publish(r) PROVE TypeInv'
    BY <1>3 DEF Publish, Replies, Phases, TypeInv, ArbiterTypeOK, PhaseShape,
                PendingBounded
<1>4. ASSUME NEW r \in StoredTerminalReceipt, CommitUnchanged(r) PROVE TypeInv'
    BY <1>4 DEF CommitUnchanged, Replies, TypeInv, ArbiterTypeOK, PhaseShape,
                PendingBounded
<1>5. CASE UNCHANGED arbiterVars
    BY <1>5 DEF arbiterVars, TypeInv, ArbiterTypeOK, PhaseShape, PendingBounded
<1> QED
    BY AdmitType, FreezeType, <1>1, <1>2, <1>3, <1>4, <1>5
    DEF ArbiterNext, submit, prepare, record_commit

\* The arbiter's fields always have their types: among them, the count of a
\* prepared terminal is between one and the capacity of a tick, and a prepared
\* or committed outcome is a proposal some producer made.
THEOREM ArbiterTypeCorrect == ArbiterSpec => []ArbiterTypeOK
<1>1. ArbiterInit => TypeInv
    BY EmptyFits, ArbiterAssumption
    DEF ArbiterInit, TypeInv, ArbiterTypeOK, PhaseShape, PendingBounded, Phases,
        Replies
<1>2. TypeInv => ArbiterTypeOK
    BY DEF TypeInv
<1> QED BY <1>1, <1>2, NextType, PTL DEF ArbiterSpec

-----------------------------------------------------------------------------
(***************************************************************************)
(* The safety invariants need what the arbiter remembers of a tick that    *)
(* overflowed: nothing was lost but the evicted candidates, they were not  *)
(* lethal, and the tick has been full and holding a lethal candidate ever  *)
(* since, so nothing more can enter it.                                    *)
(***************************************************************************)
NothingLost == phase = "Pending" => admitted = pending \cup evicted

OverflowIsFinal ==
    /\ \A e \in evicted : e.kind # "LethalDeath"
    /\ phase = "Pending" /\ evicted # {} =>
          HasLethal(pending) /\ Cardinality(pending) = MaxCandidates

OneTick == \A c \in pending : c.tick = pendingTick

SafetyInv ==
    /\ NothingLost
    /\ OverflowIsFinal
    /\ OneTick
    /\ CompetitorsAgree
    /\ WinnerLeadsAdmitted
    /\ EvictedStaysOut

\* Not being overtaken is transitive: the canonical order is a weak order.
LEMMA NotBeforeTransitive ==
    ASSUME NEW c \in Proposals, NEW d \in Proposals, NEW e \in Proposals,
           ~Before(c, d), ~Before(d, e)
    PROVE  ~Before(c, e)
<1>1. /\ priority[c.kind] \in Nat /\ priority[d.kind] \in Nat
      /\ priority[e.kind] \in Nat
    BY ProposalType DEF priority, Kinds
<1> HIDE DEF priority
<1> QED BY <1>1, ProposalType DEF Before

\* No candidate of another kind comes before a lethal one.
LEMMA LethalFirst ==
    ASSUME NEW c \in Proposals, NEW d \in Proposals,
           c.kind # "LethalDeath", d.kind = "LethalDeath"
    PROVE  ~Before(c, d)
<1>1. priority[c.kind] > 0 /\ priority[d.kind] = 0
    BY ProposalType DEF priority, Kinds
<1>2. priority[c.kind] \in Nat
    BY ProposalType DEF priority, Kinds
<1> QED BY <1>1, <1>2 DEF Before

\* Accepting a candidate keeps the safety invariant.
LEMMA AdmitSafe ==
    ASSUME TypeInv, SafetyInv, NEW c \in Proposals, Admit(c)
    PROVE  SafetyInv'
<1> USE DEF SafetyInv
<1>1. /\ phase \in {"Open", "Pending"}
      /\ c \notin pending
      /\ phase = "Pending" =>
           /\ c.tick = pendingTick
           /\ \A d \in pending : /\ d.mutation_id # c.mutation_id
                                  /\ d.terminal_id # c.terminal_id
                                  /\ d.version = c.version
           /\ Cardinality(pending) = MaxCandidates =>
                c.kind = "LethalDeath" /\ ~HasLethal(pending)
    BY AcceptedFacts DEF Admit
<1>2. phase = "Open" => pending = {} /\ evicted = {} /\ admitted = {}
    BY DEF TypeInv, PhaseShape
<1>3. /\ phase' = "Pending" /\ pendingTick' = c.tick
      /\ admitted' = admitted \cup {c}
    BY DEF Admit
<1>4. admitted = pending \cup evicted
    BY <1>1, <1>2 DEF NothingLost
<1>5. WinnerLeadsAdmitted'
    BY <1>3 DEF WinnerLeadsAdmitted, Decided
<1>6. CASE /\ Cardinality(pending) < MaxCandidates
           /\ pending' = pending \cup {c}
           /\ evicted' = evicted
    <2>0. Cardinality(pending) # MaxCandidates
        <3>1. Cardinality(pending) \in Nat /\ MaxCandidates \in Nat
            BY FS_CardinalityType, ArbiterAssumption DEF TypeInv, PendingBounded
        <3> QED BY <1>6, <3>1
    <2>1. evicted = {}
        BY <1>1, <1>2, <2>0 DEF OverflowIsFinal
    <2>2. NothingLost' /\ OverflowIsFinal'
        BY <1>3, <1>4, <1>6, <2>1 DEF NothingLost, OverflowIsFinal
    <2>3. OneTick'
        BY <1>1, <1>2, <1>3, <1>6 DEF OneTick
    <2>4. CompetitorsAgree'
        BY <1>1, <1>2, <1>6, <2>3, <1>3 DEF CompetitorsAgree, OneTick
    <2>5. EvictedStaysOut'
        BY <1>3, <1>6, <2>1 DEF EvictedStaysOut
    <2> QED BY <1>5, <2>2, <2>3, <2>4, <2>5
<1>7. CASE /\ Cardinality(pending) = MaxCandidates
           /\ replace_for_lethal_overflow(c)
    <2>1. PICK worst \in pending :
             /\ pending' = (pending \ {worst}) \cup {c}
             /\ evicted' = evicted \cup {worst}
        BY <1>7 DEF replace_for_lethal_overflow
    <2>2. phase = "Pending"
        BY <1>1, <1>2, <2>1
    <2>3. c.kind = "LethalDeath" /\ ~HasLethal(pending)
        BY <1>1, <1>7, <2>2
    <2>4. evicted = {}
        BY <2>2, <2>3 DEF OverflowIsFinal
    <2>5. worst.kind # "LethalDeath"
        BY <2>3 DEF HasLethal
    <2>6. NothingLost'
        BY <1>3, <1>4, <2>1, <2>4 DEF NothingLost
    <2>7. Cardinality(pending') = MaxCandidates
        BY <1>1, <1>7, <2>1, ReplaceFits DEF TypeInv, PendingBounded
    <2>8. HasLethal(pending)'
        BY <2>1, <2>3 DEF HasLethal
    <2>9. OverflowIsFinal'
        BY <2>1, <2>4, <2>5, <2>7, <2>8 DEF OverflowIsFinal
    <2>10. OneTick'
        BY <1>1, <1>3, <2>1, <2>2 DEF OneTick
    <2>11. CompetitorsAgree'
        BY <1>1, <1>3, <2>1, <2>2, <2>10 DEF CompetitorsAgree, OneTick
    <2>12. EvictedStaysOut'
        <3>1. \A d \in pending' : d.mutation_id # worst.mutation_id
            BY <1>1, <2>1, <2>2 DEF CompetitorsAgree
        <3> QED BY <1>3, <2>1, <2>4, <3>1 DEF EvictedStaysOut, Decided
    <2> QED BY <1>5, <2>6, <2>9, <2>10, <2>11, <2>12
<1> QED BY <1>6, <1>7 DEF Admit

\* Freezing the leader of a tick keeps the safety invariant: a candidate that
\* lethal overflow evicted does not come before the lethal one that is still
\* pending, and that one does not come before the winner.
LEMMA FreezeSafe ==
    ASSUME TypeInv, SafetyInv, NEW t \in Ticks, Freeze(t)
    PROVE  SafetyInv'
<1> USE DEF SafetyInv
<1>1. PICK w \in pending :
         /\ IsLeader(w, pending)
         /\ prepared' = [winner |-> w, count |-> Cardinality(pending), sealed |-> t]
    BY DEF Freeze
<1>2. /\ phase = "Pending" /\ phase' = "Prepared" /\ pending' = {}
      /\ admitted' = admitted /\ evicted' = evicted
    BY DEF Freeze
<1>3. Winner' = w
    BY <1>1, <1>2 DEF Winner
<1>4. pending \subseteq Proposals /\ evicted \subseteq Proposals
    BY DEF TypeInv, ArbiterTypeOK
<1>5. ASSUME NEW c \in admitted PROVE ~Before(c, w)
    <2>1. CASE c \in pending
        BY <1>1, <2>1 DEF IsLeader
    <2>2. CASE c \in evicted
        <3>1. PICK d \in pending : d.kind = "LethalDeath"
            BY <1>2, <2>2 DEF OverflowIsFinal, HasLethal
        <3>2. ~Before(c, d)
            BY <1>4, <2>2, <3>1, LethalFirst DEF OverflowIsFinal
        <3>3. ~Before(d, w)
            BY <1>1 DEF IsLeader
        <3> QED BY <1>4, <2>2, <3>2, <3>3, NotBeforeTransitive
    <2> QED BY <1>2, <2>1, <2>2 DEF NothingLost
<1>6. w \in admitted
    BY <1>2 DEF NothingLost
<1>7. WinnerLeadsAdmitted'
    BY <1>2, <1>3, <1>5, <1>6 DEF WinnerLeadsAdmitted
<1>8. EvictedStaysOut'
    BY <1>2, <1>3 DEF EvictedStaysOut
<1>9. NothingLost' /\ OverflowIsFinal' /\ OneTick' /\ CompetitorsAgree'
    BY <1>2 DEF NothingLost, OverflowIsFinal, OneTick, CompetitorsAgree
<1> QED BY <1>7, <1>8, <1>9

\* A call that only answers, and the publication of a matching receipt, keep
\* the safety invariant.
LEMMA NextSafe ==
    TypeInv /\ SafetyInv /\ [ArbiterNext]_arbiterVars => SafetyInv'
<1> SUFFICES ASSUME TypeInv, SafetyInv, [ArbiterNext]_arbiterVars
             PROVE  SafetyInv'
    OBVIOUS
<1>1. ASSUME UNCHANGED <<phase, pendingTick, pending, prepared, receipt,
                         admitted, evicted>>
      PROVE  SafetyInv'
    BY <1>1 DEF SafetyInv, NothingLost, OverflowIsFinal, OneTick, HasLethal,
                CompetitorsAgree, WinnerLeadsAdmitted, EvictedStaysOut, Decided,
                Winner
<1>2. ASSUME NEW r \in StoredTerminalReceipt, Publish(r) PROVE SafetyInv'
    <2>1. /\ phase = "Prepared" /\ phase' = "Committed"
          /\ receipt' = r /\ r.candidate = prepared.winner
          /\ UNCHANGED <<pendingTick, pending, admitted, evicted>>
        BY <1>2 DEF Publish
    <2>2. Winner' = Winner
        BY <2>1 DEF Winner
    <2>3. pending = {}
        BY <2>1 DEF TypeInv, PhaseShape
    <2>4. WinnerLeadsAdmitted'
        BY <2>1, <2>2 DEF SafetyInv, WinnerLeadsAdmitted, Decided
    <2>5. EvictedStaysOut'
        BY <2>1, <2>2 DEF SafetyInv, EvictedStaysOut, Decided
    <2> QED
        BY <2>1, <2>3, <2>4, <2>5
        DEF SafetyInv, NothingLost, OverflowIsFinal, OneTick, CompetitorsAgree
<1>3. ASSUME NEW c \in Proposals, submit(c) PROVE SafetyInv'
    BY <1>1, <1>3, AdmitSafe DEF submit, Refuse
<1>4. ASSUME NEW t \in Ticks, prepare(t) PROVE SafetyInv'
    BY <1>1, <1>4, FreezeSafe DEF prepare, PrepareUnchanged
<1>5. ASSUME NEW r \in StoredTerminalReceipt, record_commit(r) PROVE SafetyInv'
    BY <1>1, <1>2, <1>5 DEF record_commit, CommitUnchanged
<1>6. CASE UNCHANGED arbiterVars
    BY <1>1, <1>6 DEF arbiterVars
<1> QED BY <1>3, <1>4, <1>5, <1>6 DEF ArbiterNext

\* Both invariants hold of every behaviour of the arbiter.
LEMMA ArbiterInductive == ArbiterSpec => [](TypeInv /\ SafetyInv)
<1>1. ArbiterInit => TypeInv
    BY EmptyFits, ArbiterAssumption
    DEF ArbiterInit, TypeInv, ArbiterTypeOK, PhaseShape, PendingBounded, Phases,
        Replies
<1>2. ArbiterInit => SafetyInv
    BY DEF ArbiterInit, SafetyInv, NothingLost, OverflowIsFinal, OneTick,
           CompetitorsAgree, WinnerLeadsAdmitted, EvictedStaysOut, Decided
<1> QED BY <1>1, <1>2, NextType, NextSafe, PTL DEF ArbiterSpec

\* The winner prepare freezes, and the one record_commit publishes, comes first
\* of all the candidates submit ever accepted, the evicted ones included.
THEOREM WinnerLeads == ArbiterSpec => []WinnerLeadsAdmitted
<1>1. SafetyInv => WinnerLeadsAdmitted
    BY DEF SafetyInv
<1> QED BY <1>1, ArbiterInductive, PTL

\* A request that lethal overflow evicted never re-enters, whatever its new
\* payload (the comment in replace_for_lethal_overflow).
THEOREM EvictionIsForever == ArbiterSpec => []EvictedStaysOut
<1>1. SafetyInv => EvictedStaysOut
    BY DEF SafetyInv
<1> QED BY <1>1, ArbiterInductive, PTL

\* The candidates that compete for one outcome were planned for one tick and one
\* character version, and none takes another's mutation id or terminal id.
THEOREM CompetitorsNeverClash == ArbiterSpec => []CompetitorsAgree
<1>1. SafetyInv => CompetitorsAgree
    BY DEF SafetyInv
<1> QED BY <1>1, ArbiterInductive, PTL

\* No call replaces a frozen winner or changes a committed receipt.
THEOREM OutcomeNeverChanges == ArbiterSpec => OutcomeIsFinal
<1> DEFINE Kept ==
        /\ phase = "Prepared" =>
              \/ phase' = "Prepared" /\ prepared' = prepared
              \/ phase' = "Committed" /\ receipt'.candidate = prepared.winner
        /\ phase = "Committed" => phase' = "Committed" /\ receipt' = receipt
<1>1. TypeInv /\ [ArbiterNext]_arbiterVars => [Kept]_arbiterVars
    <2> SUFFICES ASSUME TypeInv, ArbiterNext PROVE Kept
        OBVIOUS
    <2>1. ASSUME NEW c \in Proposals, Admit(c) PROVE Kept
        BY <2>1, AcceptedFacts DEF Admit
    <2>2. ASSUME NEW c \in Proposals, Refuse(c) PROVE Kept
        BY <2>2 DEF Refuse
    <2>3. ASSUME NEW t \in Ticks, prepare(t) PROVE Kept
        BY <2>3 DEF prepare, Freeze, PrepareUnchanged
    <2>4. ASSUME NEW r \in StoredTerminalReceipt, record_commit(r) PROVE Kept
        BY <2>4 DEF record_commit, Publish, CommitUnchanged
    <2> HIDE DEF Kept
    <2> QED BY <2>1, <2>2, <2>3, <2>4 DEF ArbiterNext, submit
<1>2. ArbiterSpec => []TypeInv
    BY ArbiterInductive, PTL
<1> QED BY <1>1, <1>2, PTL DEF ArbiterSpec, OutcomeIsFinal

-----------------------------------------------------------------------------
(* The coordinator.                                                          *)

\* A barrier is not the absent one.
LEMMA BarrierIsSome ==
    ASSUME NEW b \in ProducerBarrier
    PROVE  b # None
BY DEF ProducerBarrier, None

\* There are five producers.
LEMMA FiveProducers ==
    ASSUME NEW S \in SUBSET Producers
    PROVE  IsFiniteSet(S) /\ Cardinality(S) \in 0 .. 5
<1> DEFINE P1 == {"LethalHealth"}
           P2 == P1 \cup {"SuccessfulExtraction"}
           P3 == P2 \cup {"EmergencyRecall"}
           P4 == P3 \cup {"DisconnectRecovery"}
           P5 == P4 \cup {"VerifiedFaultRestoration"}
<1>1. IsFiniteSet(P1) /\ Cardinality(P1) = 1
    BY FS_Singleton
<1>2. IsFiniteSet(P2) /\ Cardinality(P2) = 2
    BY <1>1, FS_AddElement
<1>3. IsFiniteSet(P3) /\ Cardinality(P3) = 3
    BY <1>2, FS_AddElement
<1>4. IsFiniteSet(P4) /\ Cardinality(P4) = 4
    BY <1>3, FS_AddElement
<1>5. IsFiniteSet(P5) /\ Cardinality(P5) = 5
    BY <1>4, FS_AddElement
<1>6. Producers = P5
    BY DEF Producers
<1>7. IsFiniteSet(S) /\ Cardinality(S) <= 5
    BY <1>5, <1>6, FS_Subset
<1> QED BY <1>7, FS_CardinalityType

\* A step of the coordinator is a step of the arbiter or leaves it alone.
LEMMA CoordinatorStepsArbiter ==
    [CoordinatorNext]_coordinatorVars => [ArbiterNext]_arbiterVars
<1> SUFFICES ASSUME CoordinatorNext PROVE ArbiterNext \/ UNCHANGED arbiterVars
    BY DEF coordinatorVars
<1>1. ASSUME NEW e \in CoreTerminalEvaluation, evaluate(e)
      PROVE  ArbiterNext \/ UNCHANGED arbiterVars
    <2>1. e.candidate # None => e.candidate \in Proposals
        BY DEF CoreTerminalEvaluation
    <2> QED
        BY <1>1, <2>1 DEF evaluate, EvaluateAbsent, EvaluateCandidate,
           EvaluateRefused, EvaluateInvalid, ArbiterNext, submit
<1>2. ASSUME NEW t \in Ticks, NEW v \in 0 .. MaxVersion,
             seal_authoritative_tick(t, v)
      PROVE  ArbiterNext \/ UNCHANGED arbiterVars
    BY <1>2 DEF seal_authoritative_tick, SealNoTerminal, SealPrepared,
       SealInvalid, ArbiterNext, prepare
<1>3. ASSUME NEW r \in StoredTerminalReceipt, RecordCommit(r)
      PROVE  ArbiterNext \/ UNCHANGED arbiterVars
    BY <1>3 DEF RecordCommit, ArbiterNext
<1> QED BY <1>1, <1>2, <1>3 DEF CoordinatorNext

\* The coordinator implements the arbiter.
THEOREM CoordinatorImplementsArbiter == CoordinatorSpec => ArbiterSpec
<1>1. CoordinatorInit => ArbiterInit
    BY DEF CoordinatorInit
<1> QED
    BY <1>1, CoordinatorStepsArbiter, PTL DEF CoordinatorSpec, ArbiterSpec

-----------------------------------------------------------------------------
BarrierType ==
    /\ barrier \in ProducerBarrier \cup {None}
    /\ lastSealed \in Ticks \cup {0}
    /\ answer \in Answers
    /\ heard \subseteq CoreTerminalEvaluation

\* What an open barrier knows: it stands for the evaluations of its own tick.
BarrierIsHeard ==
    barrier # None =>
        /\ ~Decided
        /\ barrier.tick # 0
        /\ lastSealed # 0 => barrier.tick = lastSealed + 1
        /\ barrier.evaluated = {e.producer : e \in heard}
        /\ \A e, f \in heard : e.producer = f.producer => e = f
        /\ \A e \in heard : e.tick = barrier.tick
        /\ Candidates(heard) = pending
        /\ barrier.candidate_count <= Cardinality(barrier.evaluated)

\* Between two barriers of an open run, the last one brought no candidate.
NothingLeftBehind == barrier = None /\ ~Decided => Candidates(heard) = {}

\* The inductive invariant of the coordinator.
CoordinatorInv ==
    /\ BarrierType
    /\ BarrierMirrorsArbiter
    /\ BarrierIsHeard
    /\ NothingLeftBehind
    /\ DecisionHeardEveryone

\* What validate_evaluation checked before an evaluation is taken.
LEMMA EvaluationFacts ==
    ASSUME NEW e \in CoreTerminalEvaluation, EvaluationError(e) = "None"
    PROVE  /\ ~Closed
           /\ e.tick # 0
           /\ barrier # None => /\ e.producer \notin barrier.evaluated
                                /\ e.tick = barrier.tick
                                /\ e.version = barrier.version
           /\ barrier = None /\ lastSealed # 0 => e.tick = lastSealed + 1
           /\ e.candidate # None => /\ e.candidate \in Proposals
                                    /\ e.candidate.tick = e.tick
                                    /\ e.candidate.version = e.version
<1>1. ~Closed /\ e.tick # 0
    BY DEF EvaluationError
<1>2. BarrierError(e) = "None" /\ CandidateError(e) = "None"
    BY DEF EvaluationError
<1>3. /\ barrier # None => /\ e.producer \notin barrier.evaluated
                           /\ e.tick = barrier.tick
                           /\ e.version = barrier.version
      /\ barrier = None /\ lastSealed # 0 => e.tick = lastSealed + 1
    BY <1>2 DEF BarrierError
<1>4. e.candidate # None => /\ e.candidate \in Proposals
                            /\ e.candidate.tick = e.tick
                            /\ e.candidate.version = e.version
    BY <1>2 DEF CandidateError, CoreTerminalEvaluation
<1> QED BY <1>1, <1>3, <1>4

\* Taking an evaluation, with or without a candidate, keeps the invariant.
LEMMA AdvanceKeeps ==
    ASSUME TypeInv, TypeInv', CoordinatorInv,
           NEW e \in CoreTerminalEvaluation,
           EvaluateAbsent(e) \/ EvaluateCandidate(e)
    PROVE  CoordinatorInv'
<1> DEFINE b == IF barrier = None THEN NewBarrier(e) ELSE barrier
           h == IF barrier = None THEN {} ELSE heard
<1>1. EvaluationError(e) = "None"
    BY DEF EvaluateAbsent, EvaluateCandidate
<1>2. /\ ~Closed
      /\ e.tick # 0
      /\ barrier # None => /\ e.producer \notin barrier.evaluated
                           /\ e.tick = barrier.tick
                           /\ e.version = barrier.version
      /\ barrier = None /\ lastSealed # 0 => e.tick = lastSealed + 1
      /\ e.candidate # None => /\ e.candidate \in Proposals
                               /\ e.candidate.tick = e.tick
                               /\ e.candidate.version = e.version
    BY <1>1, EvaluationFacts
<1>3. /\ e.tick \in Ticks /\ e.version \in 0 .. MaxVersion
      /\ e.producer \in Producers
    BY DEF CoreTerminalEvaluation
<1>4. /\ b \in ProducerBarrier
      /\ b.tick = e.tick /\ b.version = e.version
      /\ e.producer \notin b.evaluated
      /\ b.evaluated \subseteq Producers /\ b.candidate_count \in 0 .. 5
      /\ b.evaluated = {f.producer : f \in h}
      /\ b.candidate_count = Cardinality(pending)
      /\ b.candidate_count <= Cardinality(b.evaluated)
      /\ Candidates(h) = pending
      /\ lastSealed # 0 => b.tick = lastSealed + 1
    <2>1. CASE barrier = None
        <3>1. pending = {}
            BY <2>1 DEF CoordinatorInv, BarrierMirrorsArbiter
        <3>2. b = [tick |-> e.tick, version |-> e.version, evaluated |-> {},
                   candidate_count |-> 0]
            BY <2>1 DEF NewBarrier
        <3>3. Candidates(h) = {}
            BY <2>1 DEF Candidates
        <3> HIDE DEF b
        <3>4. b \in ProducerBarrier
            BY <1>3, <3>2 DEF ProducerBarrier
        <3> QED BY <1>2, <1>3, <2>1, <3>1, <3>2, <3>3, <3>4, EmptyFits
    <2>2. CASE barrier # None
        <3>1. b = barrier /\ h = heard
            BY <2>2
        <3>2. barrier \in ProducerBarrier
            BY <2>2 DEF CoordinatorInv, BarrierType
        <3> HIDE DEF b, h
        <3> QED
            BY <1>2, <2>2, <3>1, <3>2
            DEF CoordinatorInv, BarrierIsHeard, BarrierMirrorsArbiter,
                ProducerBarrier
    <2> QED BY <2>1, <2>2
<1>5. /\ barrier' = [tick |-> b.tick, version |-> b.version,
                      evaluated |-> b.evaluated \cup {e.producer},
                      candidate_count |-> b.candidate_count +
                          (IF e.candidate = None THEN 0 ELSE 1)]
      /\ heard' = h \cup {e}
      /\ answer' = "EvaluationAccepted"
      /\ lastSealed' = lastSealed
    BY DEF EvaluateAbsent, EvaluateCandidate, Advance
<1>6. /\ h \subseteq CoreTerminalEvaluation
      /\ \A f, g \in h : f.producer = g.producer => f = g
      /\ \A f \in h : f.tick = e.tick
    BY <1>2 DEF CoordinatorInv, BarrierType, BarrierIsHeard
<1> HIDE DEF b, h
<1>7. /\ barrier'.tick = e.tick /\ barrier'.version = e.version
      /\ barrier'.evaluated = b.evaluated \cup {e.producer}
      /\ barrier'.candidate_count =
            b.candidate_count + (IF e.candidate = None THEN 0 ELSE 1)
    BY <1>4, <1>5 DEF ProducerBarrier
<1>8. /\ Cardinality(b.evaluated) \in Nat
      /\ Cardinality(barrier'.evaluated) = Cardinality(b.evaluated) + 1
      /\ Cardinality(barrier'.evaluated) <= 5
    <2>1. IsFiniteSet(b.evaluated) /\ Cardinality(b.evaluated) \in 0 .. 5
        BY <1>4, FiveProducers
    <2>2. barrier'.evaluated \in SUBSET Producers
        BY <1>3, <1>4, <1>7
    <2>3. Cardinality(barrier'.evaluated) \in 0 .. 5
        BY <2>2, FiveProducers
    <2>4. Cardinality(b.evaluated \cup {e.producer}) = Cardinality(b.evaluated) + 1
        BY <1>4, <2>1, FS_AddElement
    <2>5. Cardinality(barrier'.evaluated) = Cardinality(b.evaluated) + 1
        BY <1>7, <2>4
    <2> QED BY <2>1, <2>3, <2>5
<1>9. barrier' \in ProducerBarrier /\ barrier' # None
    <2>1. barrier'.candidate_count \in 0 .. 5
        BY <1>4, <1>7, <1>8
    <2>2. barrier' \in ProducerBarrier
        BY <1>3, <1>4, <1>5, <1>7, <2>1 DEF ProducerBarrier
    <2> QED BY <2>2, BarrierIsSome
<1>10. /\ phase' \in {"Open", "Pending"}
       /\ pending' = IF e.candidate = None THEN pending
                     ELSE pending \cup {e.candidate}
       /\ e.candidate # None => e.candidate \notin pending
       /\ \A c \in pending : pendingTick' = e.tick
       /\ e.candidate # None => pendingTick' = e.tick
    <2>0. phase \in {"Open", "Pending"}
        BY <1>2 DEF Closed, TypeInv, PhaseShape, Phases
    <2>4. \A c \in pending : pendingTick = e.tick
        BY <1>2 DEF CoordinatorInv, BarrierMirrorsArbiter
    <2>1. CASE EvaluateAbsent(e)
        BY <2>0, <2>1, <2>4 DEF EvaluateAbsent, arbiterVars
    <2>2. CASE EvaluateCandidate(e)
        <3>1. e.candidate # None /\ e.candidate \in Proposals /\ Admit(e.candidate)
            BY <1>2, <2>2 DEF EvaluateCandidate
        <3>2. e.candidate \notin pending
            BY <3>1, AcceptedFacts DEF Admit
        <3>3. Cardinality(pending) < MaxCandidates
            BY <1>4, <1>8, CoordinatorAssumption, ArbiterAssumption
        <3>4. Cardinality(pending) # MaxCandidates
            BY <1>4, <3>3, ArbiterAssumption
        <3>5. /\ pending' = pending \cup {e.candidate}
              /\ phase' = "Pending" /\ pendingTick' = e.candidate.tick
            BY <3>1, <3>4 DEF Admit
        <3> QED BY <1>2, <3>1, <3>2, <3>5
    <2> QED BY <2>1, <2>2
<1>11. Candidates(heard') = pending'
    <2>1. Candidates(heard') = Candidates(h) \cup ({e.candidate} \ {None})
        BY <1>5 DEF Candidates
    <2> QED BY <1>4, <1>10, <2>1
<1>12. BarrierType'
    BY <1>5, <1>6, <1>9 DEF BarrierType, CoordinatorInv, Answers
<1>13. BarrierMirrorsArbiter'
    <2>1. barrier'.candidate_count = Cardinality(pending')
        <3>1. IsFiniteSet(pending)
            BY DEF TypeInv, PendingBounded
        <3>2. CASE e.candidate = None
            BY <1>4, <1>7, <1>10, <3>2
        <3>3. CASE e.candidate # None
            <4>1. Cardinality(pending \cup {e.candidate}) = Cardinality(pending) + 1
                BY <1>10, <3>1, <3>3, FS_AddElement
            <4> QED BY <1>4, <1>7, <1>10, <3>3, <4>1
        <3> QED BY <3>2, <3>3
    <2>2. \A c \in pending : c.version = e.version /\ c.tick = e.tick
        BY <1>2 DEF CoordinatorInv, BarrierMirrorsArbiter
    <2>3. \A c \in pending' : /\ c.tick = e.tick
                              /\ c.version = e.version
                              /\ pendingTick' = e.tick
        BY <1>2, <1>10, <2>2
    <2>4. phase' = "Pending" <=> pending' # {}
        BY <1>10 DEF TypeInv, PhaseShape
    <2> QED BY <1>7, <1>9, <2>1, <2>3, <2>4 DEF BarrierMirrorsArbiter
<1>14. ~Decided'
    BY <1>10 DEF Decided
<1>15. BarrierIsHeard'
    <2>1. barrier'.evaluated = {f.producer : f \in heard'}
        BY <1>4, <1>5, <1>7
    <2>2. \A f, g \in heard' : f.producer = g.producer => f = g
        <3>1. \A f \in h : f.producer # e.producer
            BY <1>4
        <3> QED BY <1>5, <1>6, <3>1
    <2>3. \A f \in heard' : f.tick = barrier'.tick
        BY <1>5, <1>6, <1>7
    <2>4. barrier'.candidate_count <= Cardinality(barrier'.evaluated)
        BY <1>4, <1>7, <1>8
    <2>5. barrier'.tick # 0 /\ (lastSealed' # 0 => barrier'.tick = lastSealed' + 1)
        BY <1>2, <1>4, <1>5, <1>7
    <2> QED BY <1>11, <1>14, <2>1, <2>2, <2>3, <2>4, <2>5 DEF BarrierIsHeard
<1>16. NothingLeftBehind' /\ DecisionHeardEveryone'
    BY <1>9, <1>14 DEF NothingLeftBehind, DecisionHeardEveryone
<1> QED BY <1>12, <1>13, <1>15, <1>16 DEF CoordinatorInv

\* Every error is one the code knows.
LEMMA ErrorType ==
    ASSUME NEW e, NEW t, NEW v
    PROVE  EvaluationError(e) \in Answers /\ SealError(t, v) \in Answers
<1>1. BarrierError(e) \in Answers
    BY DEF BarrierError, Answers
<1>2. CandidateError(e) \in Answers
    BY DEF CandidateError, Answers
<1>3. EvaluationError(e) \in Answers
    BY <1>1, <1>2 DEF EvaluationError, Answers
<1>4. SealError(t, v) \in Answers
    BY DEF SealError, Answers
<1> QED BY <1>3, <1>4

\* A call that changes neither the barrier nor the arbiter's outcome keeps the
\* invariant.
LEMMA AnswerKeeps ==
    ASSUME CoordinatorInv, answer' \in Answers,
           UNCHANGED <<barrier, lastSealed, heard, phase, pendingTick, pending,
                       prepared, receipt>>
    PROVE  CoordinatorInv'
BY DEF CoordinatorInv, BarrierType, BarrierMirrorsArbiter, BarrierIsHeard,
       NothingLeftBehind, DecisionHeardEveryone, Decided, Winner, Candidates,
       IsLeader

\* Sealing a complete barrier keeps the invariant.
LEMMA SealKeeps ==
    ASSUME TypeInv, TypeInv', CoordinatorInv,
           NEW t \in Ticks, NEW v \in 0 .. MaxVersion,
           SealNoTerminal(t, v) \/ SealPrepared(t, v)
    PROVE  CoordinatorInv'
<1>1. /\ ~Closed /\ barrier # None /\ barrier.tick = t
      /\ barrier.evaluated = Producers
    BY DEF SealNoTerminal, SealPrepared, SealError
<1>2. /\ barrier' = None /\ lastSealed' = t /\ heard' = heard
      /\ answer' \in Answers
    BY DEF SealNoTerminal, SealPrepared, Answers
<1>3. /\ Producers = {e.producer : e \in heard}
      /\ \A e, f \in heard : e.producer = f.producer => e = f
      /\ \A e \in heard : e.tick = t
      /\ Candidates(heard) = pending
    BY <1>1 DEF CoordinatorInv, BarrierIsHeard
<1>4. BarrierType'
    BY <1>2 DEF CoordinatorInv, BarrierType
<1>5. CASE SealNoTerminal(t, v)
    <2>1. /\ UNCHANGED <<phase, pending, pendingTick>>
          /\ barrier.candidate_count = 0
        BY <1>5 DEF SealNoTerminal, arbiterVars
    <2>2. pending = {}
        <3>1. Cardinality(pending) = 0 /\ IsFiniteSet(pending)
            BY <1>1, <2>1
            DEF CoordinatorInv, BarrierMirrorsArbiter, TypeInv, PendingBounded
        <3> QED BY <3>1, FS_EmptySet
    <2>3. phase \notin {"Pending", "Prepared", "Committed"}
        BY <1>1, <2>2 DEF Closed, TypeInv, PhaseShape
    <2>4. BarrierMirrorsArbiter'
        BY <1>2, <2>1, <2>2, <2>3 DEF BarrierMirrorsArbiter
    <2>5. NothingLeftBehind'
        BY <1>2, <1>3, <2>2 DEF NothingLeftBehind, Candidates
    <2> QED
        BY <1>2, <1>4, <2>1, <2>3, <2>4, <2>5
        DEF CoordinatorInv, BarrierIsHeard, DecisionHeardEveryone, Decided
<1>6. CASE SealPrepared(t, v)
    <2>1. Freeze(t)
        BY <1>6 DEF SealPrepared
    <2>2. PICK w \in pending :
             /\ IsLeader(w, pending)
             /\ prepared' = [winner |-> w, count |-> Cardinality(pending),
                             sealed |-> t]
        BY <2>1 DEF Freeze
    <2>3. phase' = "Prepared" /\ pending' = {}
        BY <2>1 DEF Freeze
    <2>4. Winner' = w
        BY <2>2, <2>3 DEF Winner
    <2>5. IsLeader(Winner', Candidates(heard'))
        BY <1>2, <1>3, <2>2, <2>4 DEF IsLeader, Candidates
    <2>6. DecisionHeardEveryone'
        <3>1. \A p \in Producers : \E e \in heard' : e.producer = p
            BY <1>2, <1>3
        <3>2. /\ \A e, f \in heard' : e.producer = f.producer => e = f
              /\ \A e \in heard' : e.tick = lastSealed'
            BY <1>2, <1>3
        <3>3. IsLeader(Winner, Candidates(heard))'
            BY <2>5 DEF IsLeader, Candidates
        <3> HIDE DEF Producers
        <3> QED BY <3>1, <3>2, <3>3 DEF DecisionHeardEveryone
    <2>7. BarrierMirrorsArbiter'
        BY <1>2, <2>3 DEF BarrierMirrorsArbiter
    <2>8. BarrierIsHeard' /\ NothingLeftBehind'
        BY <1>2, <2>3 DEF BarrierIsHeard, NothingLeftBehind, Decided
    <2> QED BY <1>4, <2>6, <2>7, <2>8 DEF CoordinatorInv
<1> QED BY <1>5, <1>6

\* Publishing the receipt of the prepared winner keeps the invariant.
LEMMA PublishKeeps ==
    ASSUME TypeInv, CoordinatorInv, NEW r \in StoredTerminalReceipt,
           RecordCommit(r)
    PROVE  CoordinatorInv'
<1>1. answer' \in Answers /\ UNCHANGED <<barrier, lastSealed, heard>>
    BY DEF RecordCommit, Answers
<1>2. CASE CommitUnchanged(r)
    BY <1>1, <1>2, AnswerKeeps DEF CommitUnchanged
<1>3. CASE Publish(r)
    <2>1. /\ phase = "Prepared" /\ phase' = "Committed"
          /\ receipt' = r /\ r.candidate = prepared.winner
          /\ UNCHANGED <<pendingTick, pending>>
        BY <1>3 DEF Publish
    <2>2. Winner' = Winner /\ Decided /\ Decided'
        BY <2>1 DEF Winner, Decided
    <2>3. barrier = None /\ pending = {}
        BY <2>1, <2>2
        DEF CoordinatorInv, BarrierIsHeard, TypeInv, PhaseShape
    <2>4. DecisionHeardEveryone'
        BY <1>1, <2>2
        DEF CoordinatorInv, DecisionHeardEveryone, Candidates, IsLeader
    <2>5. BarrierMirrorsArbiter'
        BY <1>1, <2>1, <2>3 DEF BarrierMirrorsArbiter
    <2>6. BarrierIsHeard' /\ NothingLeftBehind' /\ BarrierType'
        BY <1>1, <2>2, <2>3
        DEF CoordinatorInv, BarrierIsHeard, NothingLeftBehind, BarrierType
    <2> QED BY <2>4, <2>5, <2>6 DEF CoordinatorInv
<1> QED BY <1>2, <1>3 DEF RecordCommit, record_commit

\* Every step keeps the invariant.
LEMMA NextKeeps ==
    TypeInv /\ TypeInv' /\ CoordinatorInv /\ [CoordinatorNext]_coordinatorVars
        => CoordinatorInv'
<1> SUFFICES ASSUME TypeInv, TypeInv', CoordinatorInv,
                    [CoordinatorNext]_coordinatorVars
             PROVE  CoordinatorInv'
    OBVIOUS
<1>1. ASSUME NEW e \in CoreTerminalEvaluation, evaluate(e)
      PROVE  CoordinatorInv'
    <2>1. CASE EvaluateAbsent(e) \/ EvaluateCandidate(e)
        BY <2>1, AdvanceKeeps
    <2>2. CASE EvaluateRefused(e)
        <3>1. answer' \in Answers
            BY <2>2 DEF EvaluateRefused, Answers
        <3> QED BY <2>2, <3>1, AnswerKeeps DEF EvaluateRefused, Refuse
    <2>3. CASE EvaluateInvalid(e)
        <3>1. answer' \in Answers
            BY <2>3, ErrorType DEF EvaluateInvalid
        <3> QED BY <2>3, <3>1, AnswerKeeps DEF EvaluateInvalid, arbiterVars
    <2> QED BY <1>1, <2>1, <2>2, <2>3 DEF evaluate
<1>2. ASSUME NEW t \in Ticks, NEW v \in 0 .. MaxVersion,
             seal_authoritative_tick(t, v)
      PROVE  CoordinatorInv'
    <2>1. CASE SealInvalid(t, v)
        <3>1. answer' \in Answers
            BY <2>1, ErrorType DEF SealInvalid
        <3> QED BY <2>1, <3>1, AnswerKeeps DEF SealInvalid, arbiterVars
    <2> QED BY <1>2, <2>1, SealKeeps DEF seal_authoritative_tick
<1>3. CASE UNCHANGED coordinatorVars
    <2>1. answer' \in Answers
        BY <1>3 DEF coordinatorVars, barrierVars, CoordinatorInv, BarrierType
    <2> QED
        BY <1>3, <2>1, AnswerKeeps DEF coordinatorVars, barrierVars, arbiterVars
<1> QED BY <1>1, <1>2, <1>3, PublishKeeps DEF CoordinatorNext

\* The invariant holds of every behaviour of the coordinator.
LEMMA CoordinatorInductive ==
    CoordinatorSpec => [](TypeInv /\ CoordinatorInv)
<1>1. CoordinatorInit => CoordinatorInv
    BY EmptyFits
    DEF CoordinatorInit, ArbiterInit, CoordinatorInv, BarrierType, Answers,
        BarrierMirrorsArbiter, BarrierIsHeard, NothingLeftBehind, Candidates,
        DecisionHeardEveryone, Decided
<1>2. CoordinatorSpec => []TypeInv
    BY CoordinatorImplementsArbiter, ArbiterInductive, PTL
<1> QED BY <1>1, <1>2, NextKeeps, PTL DEF CoordinatorSpec

\* The fields of the coordinator and of its arbiter always have their types.
THEOREM CoordinatorTypeCorrect == CoordinatorSpec => []CoordinatorTypeOK
<1>1. TypeInv /\ CoordinatorInv => CoordinatorTypeOK
    BY DEF TypeInv, CoordinatorInv, BarrierType, CoordinatorTypeOK
<1> QED BY <1>1, CoordinatorInductive, PTL

\* The barrier's count and the arbiter's candidates always agree, so a complete
\* barrier with a candidate can always be sealed.
THEOREM BooksAgree == CoordinatorSpec => []BarrierMirrorsArbiter
<1>1. CoordinatorInv => BarrierMirrorsArbiter
    BY DEF CoordinatorInv
<1> QED BY <1>1, CoordinatorInductive, PTL

\* A terminal is decided only when all five producers have spoken of the sealed
\* tick, and the winner is the first of the candidates they brought.
THEOREM EveryoneIsHeard == CoordinatorSpec => []DecisionHeardEveryone
<1>1. CoordinatorInv => DecisionHeardEveryone
    BY DEF CoordinatorInv
<1> QED BY <1>1, CoordinatorInductive, PTL

\* A run in which a candidate was accepted never goes on without a terminal.
THEOREM CandidatesAreNotDropped == CoordinatorSpec => []CandidateEndsTheRun
<1>1. TypeInv /\ CoordinatorInv => CandidateEndsTheRun
    BY DEF TypeInv, PhaseShape, CoordinatorInv, BarrierIsHeard,
           BarrierMirrorsArbiter, NothingLeftBehind, CandidateEndsTheRun
<1> QED BY <1>1, CoordinatorInductive, PTL

\* Ticks are sealed one after the other and never after the decision.
THEOREM SealsAreSequential == CoordinatorSpec => TicksSealInOrder
<1> DEFINE Sequential ==
        lastSealed' # lastSealed =>
            /\ lastSealed = 0 \/ lastSealed' = lastSealed + 1
            /\ ~Decided
<1>1. CoordinatorInv /\ [CoordinatorNext]_coordinatorVars
        => [Sequential]_coordinatorVars
    <2> SUFFICES ASSUME CoordinatorInv, CoordinatorNext PROVE Sequential
        OBVIOUS
    <2>1. ASSUME NEW e \in CoreTerminalEvaluation, evaluate(e)
          PROVE  Sequential
        BY <2>1 DEF evaluate, EvaluateAbsent, EvaluateCandidate,
           EvaluateRefused, EvaluateInvalid, Advance
    <2>2. ASSUME NEW t \in Ticks, NEW v \in 0 .. MaxVersion,
                 SealNoTerminal(t, v) \/ SealPrepared(t, v)
          PROVE  Sequential
        <3>1. barrier # None /\ t = barrier.tick /\ lastSealed' = t
            BY <2>2 DEF SealNoTerminal, SealPrepared, SealError
        <3> QED BY <3>1 DEF CoordinatorInv, BarrierIsHeard
    <2>3. ASSUME NEW t \in Ticks, NEW v \in 0 .. MaxVersion, SealInvalid(t, v)
          PROVE  Sequential
        BY <2>3 DEF SealInvalid
    <2>4. ASSUME NEW r \in StoredTerminalReceipt, RecordCommit(r)
          PROVE  Sequential
        BY <2>4 DEF RecordCommit
    <2> HIDE DEF Sequential
    <2> QED
        BY <2>1, <2>2, <2>3, <2>4 DEF CoordinatorNext, seal_authoritative_tick
<1>2. CoordinatorSpec => []CoordinatorInv
    BY CoordinatorInductive, PTL
<1> QED BY <1>1, <1>2, PTL DEF CoordinatorSpec, TicksSealInOrder

=============================================================================
