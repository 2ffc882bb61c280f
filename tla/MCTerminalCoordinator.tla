----------------------- MODULE MCTerminalCoordinator -----------------------
(* Candidates of four producers, two of one kind, one that takes another's  *)
(* mutation id, and ones whose tick, version, kind or binding do not fit.   *)
EXTENDS TerminalCoordinator

P(id, m, v, t, kind) ==
    [binding |-> "own", terminal_id |-> id, mutation_id |-> m, plan |-> 1,
     version |-> v, tick |-> t, kind |-> kind]

MCProposals ==
    { P(1, 1, 1, 1, "LethalDeath"),
      P(2, 2, 1, 1, "SuccessfulExtraction"),
      P(3, 2, 1, 1, "EmergencyRecall"),          \* mutation id used twice
      P(1, 3, 1, 1, "DisconnectRecovery"),       \* terminal id used twice
      P(4, 4, 1, 2, "EmergencyRecall"),
      P(5, 5, 2, 2, "FaultRestoration"),
      P(6, 6, 2, 2, "LethalDeath"),
      [P(9, 9, 1, 1, "LethalDeath") EXCEPT !.binding = "foreign"] }

=============================================================================
