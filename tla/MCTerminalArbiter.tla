------------------------- MODULE MCTerminalArbiter -------------------------
(* A tick that holds two candidates and five kinds of proposal: enough for *)
(* an overflow, for an id used twice and for a proposal of a later tick.   *)
EXTENDS TerminalArbiter

P(t, m, p, v, k, kind) ==
    [binding |-> "own", terminal_id |-> t, mutation_id |-> m, plan |-> p,
     version |-> v, tick |-> k, kind |-> kind]

MCProposals ==
    { P(1, 1, 1, 1, 1, "LethalDeath"),
      P(4, 4, 1, 1, 1, "LethalDeath"),
      P(2, 2, 1, 1, 1, "SuccessfulExtraction"),
      P(2, 2, 2, 1, 1, "SuccessfulExtraction"),  \* altered plan
      P(1, 5, 1, 1, 1, "SuccessfulExtraction"),  \* terminal id used twice
      P(3, 3, 1, 1, 1, "EmergencyRecall"),
      P(3, 3, 1, 1, 2, "EmergencyRecall"),       \* same request, later tick
      P(5, 6, 1, 0, 1, "DisconnectRecovery"),    \* other version
      P(6, 7, 1, 1, 2, "DisconnectRecovery"),
      P(7, 8, 1, 1, 1, "FaultRestoration"),
      [P(9, 9, 1, 1, 1, "LethalDeath") EXCEPT !.binding = "foreign"] }

=============================================================================
