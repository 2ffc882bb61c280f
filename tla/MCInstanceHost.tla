--------------------------- MODULE MCInstanceHost ---------------------------
(* An owner with two connections and a companion with one, of which a         *)
(* behaviour leaves one out: without c1 a connection of one owner replaces    *)
(* the other; without t2 two owners, who press nothing, share an arena and    *)
(* the server is shut down at the end.                                        *)
EXTENDS InstanceHost

VARIABLE absent     \* the connection nobody dials in this behaviour

MCOwnerOf == [t \in Transports |-> IF t = "c1" THEN "companion" ELSE "owner"]

Req(k, n, p) == [kind |-> k, sequence |-> n, prior |-> p]

\* A prior id may be that of the other seat; a control frame may be sent twice.
MCRequests ==
    { Req("Join", 1, 1), Req("Reconnect", 2, 1), Req("Reconnect", 2, 2),
      Req("Leave", 2, 1), Req("Gameplay", 1, 1), Req("Press", 1, 1),
      Req("Hold", 1, 1), Req("Release", 1, 1) }

MCInit == HostInit /\ absent \in {"t2", "c1"}

MCNext ==
    /\ HostNext
    /\ conn'[absent] = conn[absent]
    /\ absent = "t2" => /\ \A i \in Ids, o \in Owners : ~sessions'[i][o].held
                        /\ server' # "Serving" => scheduler_tick = MaxTicks
    /\ UNCHANGED absent

MCSpec == MCInit /\ [][MCNext]_<<hostVars, absent>> /\ HostFairness
=============================================================================
