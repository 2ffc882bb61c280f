--------------------------- MODULE SessionIngress ---------------------------
(***************************************************************************)
(* What one client sends and what one AuthoritativeSession makes of it     *)
(* (server_app/src/session.rs): input datagrams coalesced by sequence,     *)
(* ability presses kept as one edge per tick, pickup mutations answered    *)
(* once per id.  The tick hands the result to the player's combat, which   *)
(* checks the press sequences again (sim_core/src/combat.rs) and whose     *)
(* error ends the tick loop of the whole server.                           *)
(*                                                                         *)
(* The client is the native one: its sequencer (client_bevy/src/           *)
(* network_play.rs) numbers frames, presses and mutations from one.  The   *)
(* network loses, repeats and reorders datagrams.  The link is lost and    *)
(* comes back; the client program may also be started again and then joins *)
(* the session that is still there, with a new sequencer.                  *)
(*                                                                         *)
(* Movement, aim, cooldowns and damage are left out: no sequence depends   *)
(* on them.  Death and recall end the session and are in InstanceHost.     *)
(***************************************************************************)
EXTENDS Naturals, FiniteSets, Sequences

CONSTANTS Pickups,      \* what enemies may drop for this player
          PerTick,      \* MAX_NEW_MUTATIONS_PER_TICK
          CacheSize,    \* MAX_CACHED_MUTATIONS
          MaxInput,     \* bound: input frames of one client program
          MaxActions,   \* bound: ability presses of one client program
          MaxRequests,  \* bound: pickup requests of one client program
          MaxLosses,    \* bound: link losses
          MaxRestarts   \* bound: starts of the client program after the first

ASSUME IngressAssumption ==
    /\ {PerTick, CacheSize, MaxInput, MaxActions, MaxRequests} \subseteq Nat
    /\ {MaxLosses, MaxRestarts} \subseteq Nat

VARIABLES client,     \* the sequencer of the running client program
          network,    \* input datagrams of the connection that may still arrive
          sent,       \* mutation requests that were sent, and may be sent again
          linked,     \* the session has its transport
          session,    \* the ingress state of the session
          combat,     \* the press sequences the player's combat has seen
          pickups,    \* where each pickup of the player is
          cache,      \* mutation_results
          arena,      \* the shared arena: forming, formed, or the fault that ended the loop
          faults,     \* link losses and restarts so far
          accepted,   \* history: ability presses answered Accepted
          cast,       \* history: ability presses combat took as new
          executed,   \* history: mutation ids in the order they were executed
          answers     \* history: final answers to mutations

ingressVars == <<client, network, sent, linked, session, combat, pickups, cache,
                 arena, faults, accepted, cast, executed, answers>>
clientVars == <<client, network, sent>>
mutationVars == <<pickups, cache, executed, answers>>
presses == <<accepted, cast>>

Abilities == {1, 2}
Ids == 1..MaxRequests
Request == [id : Ids, pickup : Pickups]
Frame == [sequence : 1..MaxInput, held : BOOLEAN, primary : 0..MaxInput]
NoResult == [request |-> [id |-> 0], code |-> "None"]
Codes == {"Accepted", "NotFound", "OutOfRange", "AlreadyResolved"}

NewSequencer ==
    [input |-> 1, primary |-> 0, held |-> FALSE, action |-> 1, mutation |-> 1]

NewSession ==
    [latest  |-> [sequence |-> 0, held |-> FALSE, primary |-> 0],
     maximum |-> 0, lastAction |-> 0,
     ability |-> [a \in Abilities |-> 0],
     pending |-> [a \in Abilities |-> FALSE],
     mutations |-> 0]

NewCombat == [press |-> 0, held |-> FALSE, ability |-> [a \in Abilities |-> 0]]

IngressInit ==
    /\ client = NewSequencer
    /\ network = {}
    /\ sent = {}
    /\ linked = TRUE
    /\ session = NewSession
    /\ combat = NewCombat
    /\ pickups = [p \in Pickups |-> "Absent"]
    /\ cache = [i \in Ids |-> NoResult]
    /\ arena = "Forming"
    /\ faults = [losses |-> 0, restarts |-> 0]
    /\ accepted = {}
    /\ cast = {}
    /\ executed = <<>>
    /\ answers = {}

Running == arena \in {"Forming", "Formed"}

-----------------------------------------------------------------------------
(* The client *)

\* A press is numbered on its rising edge and keeps its number until the next.
SamplePrimary(held) ==
    IF held /\ ~client.held THEN client.primary + 1 ELSE client.primary

\* One frame of input.  The transport worker holds only the latest one, so
\* what is not on the wire when the next is sampled may never be sent.
SampleInput(held) ==
    /\ Running
    /\ client.input <= MaxInput
    /\ client' = [client EXCEPT !.input = @ + 1, !.held = held,
                                !.primary = SamplePrimary(held)]
    /\ LET frame == [sequence |-> client.input, held |-> held,
                     primary |-> SamplePrimary(held)]
       IN  network' = IF linked THEN network \cup {frame} ELSE {frame}
    /\ UNCHANGED <<sent, linked, session, combat, mutationVars, arena, faults, presses>>

-----------------------------------------------------------------------------
(* Input datagrams *)

\* Mutant of Superseded: only a repeat of the latest frame is recognised.
SupersededOnlyRepeats(f) == f.sequence = session.latest.sequence

Superseded(f) == f.sequence <= session.latest.sequence

PrimaryRegression(f) == f.held /\ f.primary < session.maximum

\* Released frames carry no press: the session keeps the last accepted one.
Coalesced(f) ==
    LET maximum == IF f.held /\ f.primary > session.maximum
                   THEN f.primary ELSE session.maximum
    IN  [session EXCEPT !.maximum = maximum,
                        !.latest = [sequence |-> f.sequence, held |-> f.held,
                                    primary |-> maximum]]

\* submit_input: a datagram arrives, perhaps not for the first time.
SubmitInput(f) ==
    /\ Running /\ linked
    /\ f \in network
    /\ ~Superseded(f)
    /\ ~PrimaryRegression(f)
    /\ session' = Coalesced(f)
    /\ UNCHANGED <<client, network, sent, linked, combat, mutationVars, arena, faults, presses>>

-----------------------------------------------------------------------------
(* Ability presses *)

\* Mutant of ActionCode: a second press in one tick replaces the first.
ActionCodeUnlimited(a, n) ==
    IF n <= session.lastAction THEN "StaleSequence" ELSE "Accepted"

\* The answer to press number n of ability a
ActionCode(a, n) ==
    CASE n <= session.lastAction -> "StaleSequence"
      [] n > session.lastAction /\ session.pending[a] -> "RateLimited"
      [] OTHER -> "Accepted"

\* send_reliable_edges and submit_action_at: one exchange on one stream.
PressAbility(a) ==
    /\ Running /\ linked
    /\ client.action <= MaxActions
    /\ client' = [client EXCEPT !.action = @ + 1]
    /\ LET n == client.action
           code == ActionCode(a, n)
       IN  /\ session' = IF code = "StaleSequence" THEN session
                         ELSE IF code = "RateLimited" THEN [session EXCEPT !.lastAction = n]
                         ELSE [session EXCEPT !.lastAction = n, !.ability[a] = n,
                                              !.pending[a] = TRUE]
           /\ accepted' = IF code = "Accepted" THEN accepted \cup {<<a, n>>} ELSE accepted
    /\ UNCHANGED <<network, sent, linked, combat, mutationVars, arena, faults, cast>>

-----------------------------------------------------------------------------
(* Pickup mutations *)

\* SharedAuthoritativeArena::apply_pickup.  A pickup for which there is no room
\* stays where it is and is answered Accepted all the same.
PickupCode(p, reach) ==
    CASE pickups[p] = "Absent" -> "NotFound"
      [] pickups[p] # "Absent" /\ ~reach -> "OutOfRange"
      [] pickups[p] = "Collected" /\ reach -> "AlreadyResolved"
      [] OTHER -> "Accepted"

\* Mutant of Cached: the cache is searched for the request, not for its id.
CachedExactly(r) == cache[r.id] # NoResult /\ cache[r.id].request = r

Cached(r) == cache[r.id] # NoResult

CacheEntries == Cardinality({i \in Ids : cache[i] # NoResult})

RateLimited == session.mutations >= PerTick \/ CacheEntries >= CacheSize

\* Mutant of Remembered: only what was accepted is kept.
RememberedIfAccepted(r, c) ==
    IF c = "Accepted" THEN [cache EXCEPT ![r.id] = [request |-> r, code |-> c]] ELSE cache

\* What the cache holds after r was executed with code c
Remembered(r, c) == [cache EXCEPT ![r.id] = [request |-> r, code |-> c]]

\* A known id: its stored answer, or a conflict when the request differs.
AnswerFromCache(r) ==
    /\ Cached(r)
    /\ answers' = IF cache[r.id].request = r
                  THEN answers \cup {[request |-> r, code |-> cache[r.id].code]}
                  ELSE answers
    /\ UNCHANGED <<session, pickups, cache, executed>>

\* A new id within the limits is executed, and its answer kept.
ExecuteMutation(r) ==
    /\ ~Cached(r)
    /\ ~RateLimited
    /\ session' = [session EXCEPT !.mutations = @ + 1]
    /\ \E reach, room \in BOOLEAN :
          LET code == PickupCode(r.pickup, reach) IN
          /\ pickups' = IF code = "Accepted" /\ room
                        THEN [pickups EXCEPT ![r.pickup] = "Collected"] ELSE pickups
          /\ cache' = Remembered(r, code)
          /\ answers' = answers \cup {[request |-> r, code |-> code]}
    /\ executed' = Append(executed, r.id)

\* The limits are reached: RateLimited, and nothing is kept.
RefuseMutation(r) ==
    /\ ~Cached(r)
    /\ RateLimited
    /\ UNCHANGED <<session, mutationVars>>

\* submit_shared_mutation; before the arena forms, submit_mutation on the
\* session's own arena, in which nothing ever drops.
SubmitMutation(r) ==
    /\ Running /\ linked
    /\ AnswerFromCache(r) \/ ExecuteMutation(r) \/ RefuseMutation(r)
    /\ UNCHANGED <<network, linked, combat, arena, faults, presses>>

\* A new request is numbered by the sequencer.
SendMutation(p) ==
    /\ client.mutation <= MaxRequests
    /\ LET r == [id |-> client.mutation, pickup |-> p] IN
       /\ client' = [client EXCEPT !.mutation = @ + 1]
       /\ sent' = sent \cup {r}
       /\ SubmitMutation(r)

\* A request whose answer was lost is sent again as it was.
RetryMutation(r) == r \in sent /\ SubmitMutation(r) /\ UNCHANGED <<client, sent>>

-----------------------------------------------------------------------------
(* The tick *)

\* Combat::validate_sequence on what take_shared_authority_input hands over
SequenceFault ==
    CASE session.latest.primary < combat.press -> "StalePress"
      [] /\ session.latest.held /\ ~combat.held
         /\ session.latest.primary = combat.press -> "MissingPress"
      [] \E a \in Abilities : session.ability[a] < combat.ability[a] -> "StaleAbility"
      [] OTHER -> "None"

\* take_shared_authority_input: pending edges and the mutation count start over.
Taken ==
    [session EXCEPT !.pending = [a \in Abilities |-> FALSE], !.mutations = 0]

\* One tick of the host.  While the roster is open nothing is taken; then the
\* arena steps, and a fault of one player's sequences is the fault of all.
Tick(forms) ==
    /\ Running
    /\ forms \/ arena = "Formed"
    /\ session' = Taken
    /\ IF SequenceFault = "None"
       THEN /\ combat' = [press |-> session.latest.primary, held |-> session.latest.held,
                          ability |-> session.ability]
            /\ cast' = cast \cup {<<a, session.ability[a]>> :
                                 a \in {b \in Abilities : session.ability[b] > combat.ability[b]}}
            /\ arena' = "Formed"
            /\ \E dropped \in SUBSET {p \in Pickups : pickups[p] = "Absent"} :
                  pickups' = [p \in Pickups |-> IF p \in dropped THEN "Ground" ELSE pickups[p]]
       ELSE /\ arena' = SequenceFault
            /\ UNCHANGED <<combat, cast, pickups>>
    /\ UNCHANGED <<clientVars, linked, cache, faults, accepted, executed, answers>>

-----------------------------------------------------------------------------
(* The link *)

\* neutralize_transport_input: the button is let go, edges and numbers stay.
Neutralized == [session EXCEPT !.latest.held = FALSE]

\* The connection ends.  A frame the worker had not sent yet is sent on the
\* next connection; the ones under way are gone.
LoseLink ==
    /\ Running /\ linked
    /\ faults.losses < MaxLosses
    /\ linked' = FALSE
    /\ session' = Neutralized
    /\ faults' = [faults EXCEPT !.losses = @ + 1]
    /\ network' \in {{}, {f \in network : f.sequence = client.input - 1}}
    /\ UNCHANGED <<client, sent, combat, mutationVars, arena, presses>>

\* The client program ends with its connection and is started again.
Restart ==
    /\ Running
    /\ faults.restarts < MaxRestarts
    /\ linked' = FALSE
    /\ session' = Neutralized
    /\ client' = NewSequencer
    /\ network' = {}
    /\ sent' = {}
    /\ faults' = [faults EXCEPT !.restarts = @ + 1]
    /\ UNCHANGED <<combat, mutationVars, arena, presses>>

\* Reconnect or Join of the same owner: the session is taken up as it is.
Relink ==
    /\ Running /\ ~linked
    /\ linked' = TRUE
    /\ UNCHANGED <<clientVars, session, combat, mutationVars, arena, faults, presses>>

IngressNext ==
    \/ \E held \in BOOLEAN : SampleInput(held)
    \/ \E f \in network : SubmitInput(f)
    \/ \E a \in Abilities : PressAbility(a)
    \/ \E p \in Pickups : SendMutation(p)
    \/ \E r \in sent : RetryMutation(r)
    \/ \E forms \in BOOLEAN : Tick(forms)
    \/ LoseLink \/ Restart \/ Relink

IngressSpec == IngressInit /\ [][IngressNext]_ingressVars

-----------------------------------------------------------------------------
(* Properties *)

\* Type and bounds: the numbers of the session never exceed what a client
\* program can send, at most PerTick mutations run between two ticks, and the
\* cache keeps to its size.
IngressTypeOK ==
    /\ client \in [input : 1..(MaxInput + 1), primary : 0..MaxInput, held : BOOLEAN,
                   action : 1..(MaxActions + 1), mutation : 1..(MaxRequests + 1)]
    /\ network \subseteq Frame
    /\ sent \subseteq Request
    /\ linked \in BOOLEAN
    /\ session.latest \in [sequence : 0..MaxInput, held : BOOLEAN, primary : 0..MaxInput]
    /\ session.latest.primary = session.maximum
    /\ session.lastAction \in 0..MaxActions
    /\ session.ability \in [Abilities -> 0..MaxActions]
    /\ session.pending \in [Abilities -> BOOLEAN]
    /\ session.mutations \in 0..PerTick
    /\ pickups \in [Pickups -> {"Absent", "Ground", "Collected"}]
    /\ arena \in {"Forming", "Formed", "StalePress", "MissingPress", "StaleAbility"}
    /\ CacheEntries <= CacheSize

\* What the session hands over does not fail the tick, which would end the loop of
\* every player, while the link holds.  No order of datagrams, losses and
\* restarts hands combat a press number below one it has (StalePressSequence and its ability siblings of
\* Combat::validate_sequence), and a client that numbers its presses as the
\* native one does never repeats a consumed press (MissingPressSequence) as
\* long as its link holds, however its frames are lost, repeated and reordered.
PressesStayLegal ==
    /\ arena \notin {"StalePress", "StaleAbility"}
    /\ arena = "MissingPress" => faults.losses + faults.restarts > 0

\* The types of the session, and what it hands to the tick.
IngressInv == IngressTypeOK /\ PressesStayLegal

\* "Equal sequence remains legal for held fire" (docs/tasks/GB-M02-06.md:19), also
\* over a lost link.
HeldFireStaysLegal == arena # "MissingPress"

\* A press answered Accepted is either the one waiting for the next tick or was
\* taken by combat as a new press, and combat takes no other: none is lost or
\* invented by later presses, losses of the link or a restart of the client.
AcceptedPressesAreCast ==
    Running => accepted = cast \cup {<<a, session.ability[a]>> :
                                        a \in {b \in Abilities : session.pending[b]}}

\* A mutation id is executed at most once: not by a retry, not after its
\* request was refused, and not when a restarted client numbers from one again.
ExecutedOnce ==
    \A i, j \in 1..Len(executed) : executed[i] = executed[j] => i = j

\* The same request always gets the same final answer, also when the pickup has
\* dropped, come into reach or been collected in the meantime.
RetryAnswersAlike ==
    \A x, y \in answers : x.request = y.request => x.code = y.code

=============================================================================
