---------------------------- MODULE MCDangerRun ----------------------------
(* Two runs: what the first leaves under way meets the second.  One lost     *)
(* answer is enough for a retry, a late transfer or a late use of the belt,  *)
(* two crashes for a restart that is itself interrupted, two uses for one    *)
(* that is answered beside one that is not.                                  *)
EXTENDS DangerRun

=============================================================================
