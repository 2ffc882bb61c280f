------------------------- MODULE MCTelemetrySession -------------------------
(* Two stories of one account, each with a part of what may happen:          *)
(*   Crash  the client panics at any time of its own clock and reports it    *)
(*          until one crash is stored, the server may die, and one           *)
(*          connection is gone before the next is dialed;                    *)
(*   Leave  clients come, go and exit, the server dies or is shut down, and  *)
(*          one more call fails; the clock only moves over a restart.        *)
EXTENDS TelemetrySession

VARIABLE story

MCInit == TelemetryInit /\ story \in {"Crash", "Leave"}

\* What a step may do in a story
InStory(s) ==
    IF s = "Crash"
    THEN /\ server' # "Stopping" /\ losses' <= 1
         /\ crashes # {} => client'.marker \in {NoMarker, client.marker}
         /\ \A c \in Conns : ~conns'[c].clean
         /\ Cardinality({c \in Conns : conns'[c].at \notin {"Idle", "Done"}}) <= 1
    ELSE client'.marker = NoMarker /\ now' = 1 + restarts'

MCNext == TelemetryNext /\ InStory(story) /\ UNCHANGED story

MCSpec == MCInit /\ [][MCNext]_<<telemetryVars, story>>
=============================================================================
