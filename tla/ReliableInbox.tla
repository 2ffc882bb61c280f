---------------------------- MODULE ReliableInbox ----------------------------
(***************************************************************************)
(* The client's inbox for reliable events (protocol/src/reliable_inbox.rs):*)
(* frames come on independent streams, in any order, and are published as  *)
(* a contiguous prefix of their sequence numbers.                          *)
(***************************************************************************)
EXTENDS Naturals, FiniteSets, Sequences

CONSTANTS Window,       \* RELIABLE_EVENT_REORDER_WINDOW
          ReorderCap    \* RELIABLE_EVENT_REORDER_CAPACITY

ASSUME InboxAssumption == {Window, ReorderCap} \subseteq Nat

\* A frame is any record with a field `sequence`.
ResumeAfter(last) == [last |-> last, pending |-> {}]

HasGap(inbox) == inbox.pending # {}

\* What `push` refuses
PushError(inbox, f) ==
    LET expected == inbox.last + 1 IN
    CASE f.sequence < expected -> "StaleSequence"
      [] f.sequence > expected + Window -> "GapTooLarge"
      [] f.sequence \in (expected + 1)..(expected + Window) /\ f \notin inbox.pending
         /\ \E g \in inbox.pending : g.sequence = f.sequence -> "ConflictingSequence"
      [] f.sequence \in (expected + 1)..(expected + Window)
         /\ (\A g \in inbox.pending : g.sequence # f.sequence)
         /\ Cardinality(inbox.pending) = ReorderCap -> "Saturated"
      [] OTHER -> "None"

\* Mutant of Ready: a frame goes out as it comes.
ReadyAtOnce(inbox, f) == inbox.pending \cup {f}

\* The frames that become ready with f: f, if it is the expected one, and the
\* pending ones that follow without a gap
Ready(inbox, f) ==
    LET all == inbox.pending \cup {f} IN
    {g \in all : \A n \in (inbox.last + 1)..g.sequence : \E h \in all : h.sequence = n}

\* The ready frames in the order they are handed on
InOrder(frames) ==
    [i \in 1..Cardinality(frames) |->
        CHOOSE g \in frames : Cardinality({h \in frames : h.sequence <= g.sequence}) = i]

\* Mutant of Pushed: a frame that is not expected yet is dropped.
PushedOrDropped(inbox, f) ==
    IF f.sequence = inbox.last + 1 THEN [inbox EXCEPT !.last = @ + 1] ELSE inbox

\* The inbox after f
Pushed(inbox, f) ==
    LET ready == Ready(inbox, f) IN
    [last |-> inbox.last + Cardinality(ready),
     pending |-> (inbox.pending \cup {f}) \ ready]
=============================================================================
