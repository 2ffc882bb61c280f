--------------------------- MODULE MCDangerSession --------------------------
(* Three stories, each a part of what may happen, so that all of it fits:     *)
(*   Channel  the player asks for recalls on a connection that holds, and may *)
(*            die;                                                            *)
(*   Return   one request and its cancellation around a reconnect, whose      *)
(*            writers do not fail;                                            *)
(*   Handoff  connections, the extraction and every terminal compete for the  *)
(*            session of a player who asks for nothing.                       *)
EXTENDS DangerSession

VARIABLE story

MCInit == Init /\ story \in {"Channel", "Return", "Handoff"}

\* What a step may do in a story
Within(s) ==
    CASE s = "Channel" ->
            dialed' = 1 /\ open' = {1} /\ exDir'.actor = None
              /\ frame'.other \in {None, "LethalDeath"}
      [] s = "Return" ->
            /\ dialed' <= 2 /\ exDir'.actor = None /\ frame'.other = None
            /\ leaked' = {} /\ (op' = op => available' = available)
            /\ \A i \in 1 .. Len(mailbox') : mailbox'[i].request \in {None, "r1"}
      [] OTHER ->
            /\ mailbox' = <<>> /\ leaked' \subseteq {2}
            /\ dialed' = 3 => frame'.other # "FaultRestoration"

MCNext == Next /\ Within(story) /\ UNCHANGED story

MCSpec == MCInit /\ [][MCNext]_<<vars, story>> /\ Fairness
=============================================================================
