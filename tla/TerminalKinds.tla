--------------------------- MODULE TerminalKinds ---------------------------
(* The five ways a danger run can end, and their precedence: TerminalKind of *)
(* crates/server_app/src/terminal_arbiter.rs.                                *)
EXTENDS Naturals

Kinds == {"LethalDeath", "SuccessfulExtraction", "EmergencyRecall",
          "DisconnectRecovery", "FaultRestoration"}

priority ==
    [LethalDeath          |-> 0,
     SuccessfulExtraction |-> 1,
     EmergencyRecall      |-> 2,
     DisconnectRecovery   |-> 3,
     FaultRestoration     |-> 4]

=============================================================================
