---------------------------- MODULE RunOutcome -----------------------------
(***************************************************************************)
(* What the server promises a player of each danger run: it is opened when *)
(* the one before is over and its end has been told, it ends once, in one  *)
(* of four ways, the end that is told is the end it had, and after a death *)
(* there is no further run.                                                *)
(***************************************************************************)
EXTENDS Naturals

CONSTANT Last       \* the runs are 1 .. Last

Ends == {"Extraction", "Death", "Recall", "Restored"}

VARIABLES
    outcome,        \* of each run: "None", "Active" or how it ended
    told            \* what the player was told of its end, or "None"

outcomeVars == <<outcome, told>>

OutcomeInit ==
    /\ outcome = [r \in 1 .. Last |-> "None"]
    /\ told = [r \in 1 .. Last |-> "None"]

Open(r) ==
    /\ outcome[r] = "None"
    /\ \A e \in 1 .. Last : e < r => /\ outcome[e] \in Ends \ {"Death"}
                                     /\ told[e] = outcome[e]
    /\ outcome' = [outcome EXCEPT ![r] = "Active"]
    /\ UNCHANGED told

Close(r) ==
    /\ outcome[r] = "Active"
    /\ \E o \in Ends : outcome' = [outcome EXCEPT ![r] = o]
    /\ UNCHANGED told

Tell(r) ==
    /\ outcome[r] \in Ends
    /\ told[r] = "None"
    /\ told' = [told EXCEPT ![r] = outcome[r]]
    /\ UNCHANGED outcome

OutcomeNext == \E r \in 1 .. Last : Open(r) \/ Close(r) \/ Tell(r)

OutcomeSpec == OutcomeInit /\ [][OutcomeNext]_outcomeVars

=============================================================================
