-------------------------- MODULE MCReliableStream --------------------------
(* Two tasks and one connection with every kind of event until its numbers    *)
(* run out, or two connections with two frames each and without route events, *)
(* whose versions are those of one writer.  A frame that comes two ahead of   *)
(* the one expected does not fit the inbox.                                   *)
EXTENDS ReliableStream

VARIABLE links      \* the connections of this behaviour

MCInit == StreamInit /\ links \in {1, 2}

MCNext ==
    /\ StreamNext
    /\ current' <= links
    /\ links = 2 =>
          /\ \A t \in Tasks : tasks'[t].at # "Routing"
          /\ \A c \in Connections : writers'[c].last <= 2
    /\ UNCHANGED links

MCSpec == MCInit /\ [][MCNext]_<<streamVars, links>> /\ StreamFairness
=============================================================================
