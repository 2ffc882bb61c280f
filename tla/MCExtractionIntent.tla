------------------------- MODULE MCExtractionIntent -------------------------
(* Two transports with requests and changed requests, lost answers and frames *)
(* that overtake them, or three transports with failing writers and one        *)
(* request that is repeated once while the result is delivered.                *)
EXTENDS ExtractionIntent

VARIABLE story

MCInit == Init /\ story \in {"Accept", "Deliver"}

\* What a step may do in a story
Within(s) ==
    IF s = "Accept" THEN generations' <= 2 /\ broken' = {}
                    ELSE /\ sent' <= 2 /\ \A r \in requests' : r.frame = "f1"
                         /\ ~unheard' /\ ~overtaken'

MCNext == Next /\ Within(story) /\ UNCHANGED story

MCSpec == MCInit /\ [][MCNext]_<<vars, story>> /\ Fairness
=============================================================================
