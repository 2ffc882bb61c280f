-------------------------- MODULE MCSessionIngress --------------------------
(* Input and mutations share nothing but the tick and the link, so a behaviour *)
(* has one or the other: a fight drops nothing, and who loots does not fight.  *)
EXTENDS SessionIngress

VARIABLE part

MCInit == IngressInit /\ part \in {"Fight", "Loot"}

MCNext ==
    /\ IngressNext
    /\ part = "Fight" => UNCHANGED <<pickups, sent>>
    /\ part = "Loot" => client'.input = 1 /\ client'.action = 1
    /\ UNCHANGED part

MCSpec == MCInit /\ [][MCNext]_<<ingressVars, part>>
=============================================================================
