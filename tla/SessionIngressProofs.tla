------------------------ MODULE SessionIngressProofs ------------------------
(* One client and its session, for any bounds: the tick never fails for the   *)
(* order of its presses, accepted presses are cast, and a mutation is         *)
(* executed and answered once.                                                *)
(* Presses: what combat has seen never exceeds what the session has accepted  *)
(* (OrderInv), and as long as the link has never been lost the frames that    *)
(* may still arrive continue what the session has seen (NumberedInv).         *)
(* Mutations: whatever was executed or answered is in the cache (CacheInv),   *)
(* from which nothing is ever removed.                                        *)
EXTENDS SessionIngress, FiniteSetTheorems, TLAPS

SessionType ==
    [latest : [sequence : 0..MaxInput, held : BOOLEAN, primary : 0..MaxInput],
     maximum : 0..MaxInput, lastAction : 0..MaxActions,
     ability : [Abilities -> 0..MaxActions], pending : [Abilities -> BOOLEAN],
     mutations : 0..PerTick]

CombatType == [press : 0..MaxInput, held : BOOLEAN, ability : [Abilities -> 0..MaxActions]]

ClientType ==
    [input : 1..(MaxInput + 1), primary : 0..MaxInput, held : BOOLEAN,
     action : 1..(MaxActions + 1), mutation : 1..(MaxRequests + 1)]

Result == [request : Request, code : Codes]
Arenas == {"Forming", "Formed", "StalePress", "MissingPress", "StaleAbility"}

TypeInv ==
    /\ client \in ClientType
    /\ client.primary < client.input
    /\ network \subseteq Frame
    /\ sent \subseteq Request
    /\ linked \in BOOLEAN
    /\ session \in SessionType
    /\ session.latest.primary = session.maximum
    /\ combat \in CombatType
    /\ pickups \in [Pickups -> {"Absent", "Ground", "Collected"}]
    /\ cache \in [Ids -> {NoResult} \cup Result]
    /\ CacheEntries <= CacheSize
    /\ arena \in Arenas
    /\ faults \in [losses : Nat, restarts : Nat]

\* Combat is behind the session, and a press waits for the tick exactly when
\* combat has not seen its number.
OrderInv ==
    /\ combat.press <= session.maximum
    /\ \A a \in Abilities :
          /\ combat.ability[a] <= session.ability[a]
          /\ session.ability[a] <= session.lastAction
          /\ Running => (session.pending[a] <=> combat.ability[a] < session.ability[a])

Undisturbed == faults.losses + faults.restarts = 0

\* Frame f was sampled after frame g: its press is not older, and newer if the
\* button was let go in between.
Continues(f, g) == g.primary <= f.primary /\ (f.held /\ ~g.held => g.primary < f.primary)

\* While the link holds, later frames continue earlier ones and the session.
NumberedInv ==
    Undisturbed =>
        /\ linked
        /\ \A f \in network :
              /\ f.sequence < client.input
              /\ Continues(client, f)
              /\ session.latest.sequence < f.sequence => Continues(f, session.latest)
        /\ \A f, g \in network : g.sequence < f.sequence => Continues(f, g)
        /\ session.latest.sequence < client.input
        /\ Continues(client, session.latest)
        /\ session.latest.held /\ ~combat.held => combat.press < session.maximum

\* What was executed or answered is in the cache.
CacheInv ==
    /\ executed \in Seq(Ids)
    /\ \A i \in 1..Len(executed) : cache[executed[i]] # NoResult
    /\ answers \subseteq Result
    /\ \A x \in answers : cache[x.request.id] = x

IngressIInv ==
    /\ TypeInv /\ OrderInv /\ NumberedInv /\ CacheInv
    /\ PressesStayLegal /\ AcceptedPressesAreCast /\ ExecutedOnce

-----------------------------------------------------------------------------
LEMMA IngressInitially == IngressInit => IngressIInv
<1>. SUFFICES ASSUME IngressInit PROVE IngressIInv
  OBVIOUS
<1>. USE IngressAssumption DEF IngressInit
<1>1. session \in SessionType /\ session.latest.primary = session.maximum
  BY DEF NewSession, SessionType
<1>2. combat \in CombatType
  BY DEF NewCombat, CombatType
<1>3. client \in ClientType /\ client.primary < client.input
  BY DEF NewSequencer, ClientType
<1>4. CacheEntries <= CacheSize
  <2>1. {i \in Ids : cache[i] # NoResult} = {}
    OBVIOUS
  <2>2. CacheEntries = 0
    BY <2>1, FS_EmptySet DEF CacheEntries
  <2>. QED
    BY <2>2
<1>5. TypeInv
  BY <1>1, <1>2, <1>3, <1>4 DEF TypeInv, Arenas
<1>6. OrderInv
  BY DEF OrderInv, NewSession, NewCombat, Running
<1>7. NumberedInv
  BY DEF NumberedInv, NewSession, NewCombat, NewSequencer, Continues
<1>8. CacheInv /\ ExecutedOnce /\ PressesStayLegal
  BY DEF CacheInv, ExecutedOnce, PressesStayLegal
<1>9. AcceptedPressesAreCast
  BY DEF AcceptedPressesAreCast, NewSession
<1>. QED
  BY <1>5, <1>6, <1>7, <1>8, <1>9 DEF IngressIInv

\* The client samples a frame: it continues all frames before it.
LEMMA SampleKeeps ==
    ASSUME IngressIInv, NEW held \in BOOLEAN, SampleInput(held) PROVE IngressIInv'
<1>. DEFINE frame == [sequence |-> client.input, held |-> held, primary |-> SamplePrimary(held)]
<1>. USE IngressAssumption
<1>1. /\ client \in ClientType /\ client.primary < client.input /\ client.input <= MaxInput
      /\ SamplePrimary(held) \in 0..MaxInput
      /\ client.primary <= SamplePrimary(held)
      /\ SamplePrimary(held) <= client.input
      /\ held /\ ~client.held => client.primary < SamplePrimary(held)
  BY DEF IngressIInv, TypeInv, ClientType, SampleInput, SamplePrimary
<1>2. /\ client'.input = client.input + 1 /\ client'.held = held
      /\ client'.primary = SamplePrimary(held)
      /\ client' \in ClientType
  <2>1. client' = [client EXCEPT !.input = client.input + 1, !.held = held,
                                 !.primary = SamplePrimary(held)]
    BY DEF SampleInput
  <2>2. client.input + 1 \in 1..(MaxInput + 1)
    BY <1>1 DEF ClientType
  <2>. QED
    BY <1>1, <2>1, <2>2 DEF ClientType
<1>3. /\ UNCHANGED <<sent, linked, session, combat, pickups, cache, executed, answers, arena,
                     faults, accepted, cast>>
      /\ network' \subseteq network \cup {frame}
      /\ frame \in Frame
  <2>1. frame \in Frame
    <3>1. client.input \in 1..MaxInput
      BY <1>1 DEF ClientType
    <3>. QED
      BY <1>1, <3>1 DEF Frame
  <2>2. network' = IF linked THEN network \cup {frame} ELSE {frame}
    BY DEF SampleInput
  <2>. QED
    BY <2>1, <2>2 DEF SampleInput, mutationVars, presses
<1>4. CacheEntries' = CacheEntries
  BY <1>3 DEF CacheEntries
<1>5. TypeInv'
  BY <1>1, <1>2, <1>3, <1>4 DEF IngressIInv, TypeInv, ClientType
<1>6. NumberedInv'
  <2>. SUFFICES ASSUME Undisturbed' PROVE NumberedInv'
    BY DEF NumberedInv
  <2>1. Undisturbed
    BY <1>3 DEF Undisturbed
  <2>2. \A g \in network : Continues(client, g) => Continues(frame, g) /\ Continues(client', g)
    BY <1>1, <1>2 DEF Continues, IngressIInv, TypeInv, Frame, ClientType
  <2>3. session.latest \in [sequence : 0..MaxInput, held : BOOLEAN, primary : 0..MaxInput]
    BY DEF IngressIInv, TypeInv, SessionType
  <2>4. Continues(frame, session.latest) /\ Continues(client', session.latest)
    BY <1>1, <1>2, <2>1, <2>3 DEF Continues, IngressIInv, NumberedInv, ClientType
  <2>5. Continues(client', frame)
    BY <1>1, <1>2 DEF Continues, ClientType
  <2>6. \A g \in network : g.sequence < frame.sequence /\ Continues(client, g)
    BY <2>1 DEF IngressIInv, NumberedInv
  <2>7. session.latest.sequence < client'.input
    <3>1. session.latest.sequence < client.input
      BY <2>1 DEF IngressIInv, NumberedInv
    <3>. QED
      BY <1>1, <1>2, <2>3, <3>1 DEF ClientType
  <2>8. \A f \in network' :
           /\ f.sequence < client'.input
           /\ Continues(client', f)
           /\ session.latest.sequence < f.sequence => Continues(f, session.latest)
    BY <1>1, <1>2, <1>3, <2>1, <2>2, <2>4, <2>5, <2>6
       DEF IngressIInv, TypeInv, NumberedInv, Frame, ClientType
  <2>9. \A f, g \in network' : g.sequence < f.sequence => Continues(f, g)
    BY <1>1, <1>3, <2>1, <2>2, <2>6 DEF IngressIInv, TypeInv, NumberedInv, Frame, ClientType
  <2>. QED
    BY <1>3, <2>1, <2>4, <2>7, <2>8, <2>9 DEF IngressIInv, NumberedInv
<1>. QED
  BY <1>3, <1>5, <1>6
     DEF IngressIInv, OrderInv, Running, CacheInv, PressesStayLegal, AcceptedPressesAreCast,
         ExecutedOnce

\* A datagram arrives: it is newer than the latest, and its press is not older.
LEMMA SubmitKeeps ==
    ASSUME IngressIInv, NEW f \in network, SubmitInput(f) PROVE IngressIInv'
<1>. USE IngressAssumption
<1>. DEFINE maximum == IF f.held /\ f.primary > session.maximum THEN f.primary ELSE session.maximum
<1>1. /\ f \in Frame /\ session \in SessionType /\ combat \in CombatType
      /\ session.latest.sequence < f.sequence
      /\ f.held => session.maximum <= f.primary
      /\ maximum \in 0..MaxInput /\ session.maximum <= maximum
      /\ maximum = IF f.held THEN f.primary ELSE session.maximum
  BY DEF IngressIInv, TypeInv, SubmitInput, Superseded, PrimaryRegression, Frame, SessionType
<1>2. /\ session'.latest = [sequence |-> f.sequence, held |-> f.held, primary |-> maximum]
      /\ session'.maximum = maximum
      /\ session'.lastAction = session.lastAction
      /\ session'.ability = session.ability
      /\ session'.pending = session.pending
      /\ session' \in SessionType
  <2>1. session' = [session EXCEPT !.maximum = maximum,
                        !.latest = [sequence |-> f.sequence, held |-> f.held, primary |-> maximum]]
    BY DEF SubmitInput, Coalesced
  <2>. HIDE DEF maximum
  <2>2. [sequence |-> f.sequence, held |-> f.held, primary |-> maximum]
            \in [sequence : 0..MaxInput, held : BOOLEAN, primary : 0..MaxInput]
    BY <1>1 DEF Frame
  <2>. QED
    BY <1>1, <2>1, <2>2 DEF SessionType
<1>3. UNCHANGED <<client, network, sent, linked, combat, pickups, cache, executed, answers, arena,
                  faults, accepted, cast>>
  BY DEF SubmitInput, mutationVars, presses
<1>. HIDE DEF maximum
<1>4. TypeInv'
  BY <1>2, <1>3 DEF IngressIInv, TypeInv, CacheEntries
<1>5. OrderInv'
  BY <1>1, <1>2, <1>3 DEF IngressIInv, OrderInv, Running, SessionType, CombatType
<1>6. NumberedInv'
  <2>. SUFFICES ASSUME Undisturbed' PROVE NumberedInv'
    BY DEF NumberedInv
  <2>1. Undisturbed
    BY <1>3 DEF Undisturbed
  <2>2. Continues(f, session.latest)
    BY <1>1, <2>1 DEF IngressIInv, NumberedInv
  <2>3. session.latest.primary = session.maximum
    BY DEF IngressIInv, TypeInv
  <2>4. \A g \in network : f.sequence < g.sequence => Continues(g, session'.latest)
    <3>. SUFFICES ASSUME NEW g \in network, f.sequence < g.sequence
                  PROVE  Continues(g, session'.latest)
      OBVIOUS
    <3>1. Continues(g, f) /\ Continues(g, session.latest) /\ g \in Frame
      BY <1>1, <2>1 DEF IngressIInv, NumberedInv, TypeInv, Frame, SessionType
    <3>. QED
      BY <1>1, <1>2, <2>2, <2>3, <3>1 DEF Continues, Frame, SessionType
  <2>5. Continues(client, session'.latest)
    <3>1. Continues(client, f) /\ Continues(client, session.latest) /\ client \in ClientType
      BY <1>1, <2>1 DEF IngressIInv, NumberedInv, TypeInv
    <3>. QED
      BY <1>1, <1>2, <2>2, <2>3, <3>1 DEF Continues, Frame, SessionType, ClientType
  <2>6. session'.latest.held /\ ~combat.held => combat.press < session'.maximum
    BY <1>1, <1>2, <2>1, <2>2, <2>3
       DEF IngressIInv, NumberedInv, OrderInv, Continues, Frame, SessionType, CombatType
  <2>. QED
    BY <1>2, <1>3, <2>1, <2>4, <2>5, <2>6 DEF IngressIInv, NumberedInv
<1>. QED
  BY <1>2, <1>3, <1>4, <1>5, <1>6
     DEF IngressIInv, CacheInv, PressesStayLegal, AcceptedPressesAreCast, ExecutedOnce, Running

\* A press is numbered above all presses the session has seen, or is stale.
LEMMA PressKeeps ==
    ASSUME IngressIInv, NEW a \in Abilities, PressAbility(a) PROVE IngressIInv'
<1>. USE IngressAssumption
<1>. DEFINE n == client.action
<1>1. /\ client \in ClientType /\ session \in SessionType /\ combat \in CombatType
      /\ n \in 1..MaxActions /\ Running /\ session.latest.primary = session.maximum
  BY DEF IngressIInv, TypeInv, PressAbility, ClientType
<1>2. /\ client'.input = client.input /\ client'.primary = client.primary
      /\ client'.held = client.held
      /\ client' \in ClientType
  <2>1. client' = [client EXCEPT !.action = client.action + 1]
    BY DEF PressAbility
  <2>2. client.action + 1 \in 1..(MaxActions + 1)
    BY <1>1
  <2>. QED
    BY <1>1, <2>1, <2>2 DEF ClientType
<1>3. UNCHANGED <<network, sent, linked, combat, pickups, cache, executed, answers, arena, faults,
                  cast>>
  BY DEF PressAbility, mutationVars
<1>4. \/ n <= session.lastAction /\ session' = session /\ accepted' = accepted
      \/ /\ n > session.lastAction /\ session.pending[a]
         /\ session' = [session EXCEPT !.lastAction = n] /\ accepted' = accepted
      \/ /\ n > session.lastAction /\ ~session.pending[a]
         /\ session' = [session EXCEPT !.lastAction = n, !.ability[a] = n, !.pending[a] = TRUE]
         /\ accepted' = accepted \cup {<<a, n>>}
  <2>1. n <= session.lastAction \/ n > session.lastAction
    BY <1>1 DEF SessionType
  <2>2. CASE n <= session.lastAction
    BY <2>2 DEF PressAbility, ActionCode
  <2>3. CASE n > session.lastAction /\ session.pending[a]
    <3>1. ActionCode(a, n) = "RateLimited"
      BY <1>1, <2>3 DEF ActionCode, SessionType
    <3>. QED
      BY <2>3, <3>1 DEF PressAbility
  <2>4. CASE n > session.lastAction /\ ~session.pending[a]
    <3>1. ActionCode(a, n) = "Accepted"
      BY <1>1, <2>4 DEF ActionCode, SessionType
    <3>. QED
      BY <2>4, <3>1 DEF PressAbility
  <2>. QED
    BY <2>1, <2>2, <2>3, <2>4
<1>. HIDE DEF n
<1>5. /\ session'.latest = session.latest /\ session'.maximum = session.maximum
      /\ session' \in SessionType
  <2>1. /\ [session.ability EXCEPT ![a] = n] \in [Abilities -> 0..MaxActions]
        /\ [session.pending EXCEPT ![a] = TRUE] \in [Abilities -> BOOLEAN]
        /\ n \in 0..MaxActions
    BY <1>1 DEF SessionType
  <2>2. CASE session' = session
    BY <1>1, <2>2
  <2>3. CASE session' = [session EXCEPT !.lastAction = n]
    BY <1>1, <2>1, <2>3 DEF SessionType
  <2>4. CASE session' = [session EXCEPT !.lastAction = n, !.ability[a] = n, !.pending[a] = TRUE]
    BY <1>1, <2>1, <2>4 DEF SessionType
  <2>. QED
    BY <1>4, <2>2, <2>3, <2>4
<1>6. TypeInv'
  BY <1>1, <1>2, <1>3, <1>5 DEF IngressIInv, TypeInv, CacheEntries
<1>7. NumberedInv'
  BY <1>2, <1>3, <1>5 DEF IngressIInv, NumberedInv, Undisturbed, Continues
<1>8. OrderInv' /\ AcceptedPressesAreCast'
  <2>1. OrderInv /\ AcceptedPressesAreCast
    BY DEF IngressIInv
  <2>2. CASE session' = session /\ accepted' = accepted
    BY <1>3, <2>1, <2>2 DEF OrderInv, AcceptedPressesAreCast, Running
  <2>3. CASE /\ n > session.lastAction
             /\ session' = [session EXCEPT !.lastAction = n] /\ accepted' = accepted
    <3>1. /\ session'.ability = session.ability /\ session'.pending = session.pending
          /\ session'.lastAction = n
      BY <1>1, <2>3 DEF SessionType
    <3>. QED
      BY <1>1, <1>3, <1>5, <2>1, <2>3, <3>1
         DEF OrderInv, AcceptedPressesAreCast, Running, SessionType, CombatType
  <2>4. CASE /\ n > session.lastAction /\ ~session.pending[a]
             /\ session' = [session EXCEPT !.lastAction = n, !.ability[a] = n, !.pending[a] = TRUE]
             /\ accepted' = accepted \cup {<<a, n>>}
    <3>1. /\ session'.ability = [session.ability EXCEPT ![a] = n]
          /\ session'.pending = [session.pending EXCEPT ![a] = TRUE]
          /\ session'.lastAction = n
      BY <1>1, <2>4 DEF SessionType
    <3>2. /\ session'.ability[a] = n /\ session'.pending[a]
          /\ \A b \in Abilities \ {a} : /\ session'.ability[b] = session.ability[b]
                                        /\ session'.pending[b] = session.pending[b]
      BY <1>1, <3>1 DEF SessionType
    <3>3. OrderInv'
      BY <1>1, <1>3, <1>5, <2>1, <2>4, <3>1, <3>2 DEF OrderInv, Running, SessionType, CombatType
    <3>4. {<<b, session'.ability[b]>> : b \in {c \in Abilities : session'.pending[c]}}
            = {<<b, session.ability[b]>> : b \in {c \in Abilities : session.pending[c]}}
                \cup {<<a, n>>}
      BY <2>4, <3>2
    <3>. QED
      BY <1>1, <1>3, <2>1, <2>4, <3>3, <3>4 DEF AcceptedPressesAreCast, Running
  <2>. QED
    BY <1>4, <2>2, <2>3, <2>4
<1>. QED
  BY <1>3, <1>6, <1>7, <1>8
     DEF IngressIInv, CacheInv, PressesStayLegal, ExecutedOnce

\* What a request does to the mutation state: a known id leaves the cache as it
\* is, a new one is added to it with the only answer it will ever get.
LEMMA MutationSubmitted ==
    ASSUME IngressIInv, NEW r \in Request, SubmitMutation(r)
    PROVE  /\ session' \in SessionType
           /\ session'.latest = session.latest /\ session'.maximum = session.maximum
           /\ session'.lastAction = session.lastAction
           /\ session'.ability = session.ability /\ session'.pending = session.pending
           /\ pickups' \in [Pickups -> {"Absent", "Ground", "Collected"}]
           /\ cache' \in [Ids -> {NoResult} \cup Result]
           /\ CacheEntries' <= CacheSize
           /\ CacheInv' /\ ExecutedOnce'
<1>. USE IngressAssumption
<1>1. /\ session \in SessionType /\ cache \in [Ids -> {NoResult} \cup Result]
      /\ pickups \in [Pickups -> {"Absent", "Ground", "Collected"}]
      /\ CacheEntries <= CacheSize /\ CacheInv /\ ExecutedOnce
  BY DEF IngressIInv, TypeInv
<1>2. r.id \in Ids /\ r.pickup \in Pickups
  BY DEF Request
<1>3. CASE UNCHANGED <<session, pickups, cache, executed, answers>>
  BY <1>1, <1>3 DEF CacheEntries, CacheInv, ExecutedOnce
<1>4. CASE AnswerFromCache(r)
  <2>1. UNCHANGED <<session, pickups, cache, executed>>
    BY <1>4 DEF AnswerFromCache
  <2>2. cache[r.id] \in Result
    BY <1>1, <1>2, <1>4 DEF AnswerFromCache, Cached
  <2>3. \A x \in answers' : x \in Result /\ cache[x.request.id] = x
    <3>. SUFFICES ASSUME NEW x \in answers', x \notin answers
                  PROVE  x \in Result /\ cache[x.request.id] = x
      BY <1>1 DEF CacheInv
    <3>1. cache[r.id].request = r /\ x = [request |-> r, code |-> cache[r.id].code]
      BY <1>4 DEF AnswerFromCache
    <3>2. x = cache[r.id]
      BY <2>2, <3>1 DEF Result
    <3>. QED
      BY <2>2, <3>1, <3>2
  <2>. QED
    BY <1>1, <2>1, <2>3 DEF CacheEntries, CacheInv, ExecutedOnce
<1>5. CASE ExecuteMutation(r)
  <2>1. PICK reach \in BOOLEAN, room \in BOOLEAN :
           /\ pickups' = IF PickupCode(r.pickup, reach) = "Accepted" /\ room
                         THEN [pickups EXCEPT ![r.pickup] = "Collected"] ELSE pickups
           /\ cache' = Remembered(r, PickupCode(r.pickup, reach))
           /\ answers' = answers \cup {[request |-> r, code |-> PickupCode(r.pickup, reach)]}
    BY <1>5 DEF ExecuteMutation
  <2>. DEFINE result == [request |-> r, code |-> PickupCode(r.pickup, reach)]
  <2>2. PickupCode(r.pickup, reach) \in Codes
    BY DEF PickupCode, Codes
  <2>3. result \in Result /\ result # NoResult /\ result.request = r
    BY <2>2 DEF Result, NoResult, Codes
  <2>4. cache' = [cache EXCEPT ![r.id] = result] /\ answers' = answers \cup {result}
    BY <2>1 DEF Remembered
  <2>5. pickups' \in [Pickups -> {"Absent", "Ground", "Collected"}]
    BY <1>1, <2>1
  <2>6. /\ cache[r.id] = NoResult /\ session.mutations < PerTick /\ ~(CacheEntries >= CacheSize)
        /\ session' = [session EXCEPT !.mutations = session.mutations + 1]
        /\ executed' = Append(executed, r.id)
    BY <1>1, <1>5 DEF ExecuteMutation, Cached, RateLimited, SessionType
  <2>. HIDE DEF result
  <2>7. cache' \in [Ids -> {NoResult} \cup Result]
    BY <1>1, <1>2, <2>3, <2>4
  <2>8. /\ session' \in SessionType
        /\ session'.latest = session.latest /\ session'.maximum = session.maximum
        /\ session'.lastAction = session.lastAction
        /\ session'.ability = session.ability /\ session'.pending = session.pending
    <3>1. session.mutations + 1 \in 0..PerTick
      BY <1>1, <2>6 DEF SessionType
    <3>. QED
      BY <1>1, <2>6, <3>1 DEF SessionType
  <2>9. CacheEntries' <= CacheSize
    <3>. DEFINE known == {i \in Ids : cache[i] # NoResult}
    <3>1. IsFiniteSet(known) /\ Cardinality(known) \in Nat
      <4>1. IsFiniteSet(Ids)
        BY FS_Interval DEF Ids
      <4>. QED
        BY <4>1, FS_Subset, FS_CardinalityType
    <3>2. {i \in Ids : cache'[i] # NoResult} = known \cup {r.id} /\ r.id \notin known
      BY <1>1, <1>2, <2>3, <2>4, <2>6
    <3>3. Cardinality(known \cup {r.id}) = Cardinality(known) + 1
      BY <3>1, <3>2, FS_AddElement
    <3>4. CacheEntries' = CacheEntries + 1 /\ CacheEntries \in Nat
      BY <3>1, <3>2, <3>3 DEF CacheEntries
    <3>. QED
      BY <2>6, <3>4
  <2>10. \A i \in Ids : cache[i] # NoResult => cache'[i] = cache[i]
    BY <1>1, <1>2, <2>4, <2>6
  <2>11. cache'[r.id] = result
    BY <1>1, <1>2, <2>4
  <2>12. /\ executed \in Seq(Ids) /\ executed' \in Seq(Ids) /\ Len(executed) \in Nat
         /\ Len(executed') = Len(executed) + 1
         /\ executed'[Len(executed) + 1] = r.id
         /\ \A i \in 1..Len(executed) : executed'[i] = executed[i] /\ executed[i] \in Ids
    BY <1>1, <1>2, <2>6 DEF CacheInv
  <2>13. \A i \in 1..Len(executed') : cache'[executed'[i]] # NoResult
    BY <1>1, <2>3, <2>10, <2>11, <2>12 DEF CacheInv
  <2>14. \A i \in 1..Len(executed) : executed[i] # r.id
    BY <1>1, <2>6 DEF CacheInv
  <2>15. ExecutedOnce'
    <3>. SUFFICES ASSUME NEW i \in 1..Len(executed'), NEW j \in 1..Len(executed'),
                         executed'[i] = executed'[j]
                  PROVE  i = j
      BY DEF ExecutedOnce
    <3>1. /\ i \in 1..Len(executed) \/ i = Len(executed) + 1
          /\ j \in 1..Len(executed) \/ j = Len(executed) + 1
      BY <2>12
    <3>2. CASE i \in 1..Len(executed) /\ j \in 1..Len(executed)
      <4>1. executed[i] = executed[j]
        BY <2>12, <3>2
      <4>. QED
        BY <1>1, <3>2, <4>1 DEF ExecutedOnce
    <3>3. CASE i \in 1..Len(executed) /\ j = Len(executed) + 1
      BY <2>12, <2>14, <3>3
    <3>4. CASE i = Len(executed) + 1 /\ j \in 1..Len(executed)
      BY <2>12, <2>14, <3>4
    <3>. QED
      BY <3>1, <3>2, <3>3, <3>4
  <2>16. \A x \in answers' : x \in Result /\ cache'[x.request.id] = x
    <3>1. \A x \in answers : x \in Result /\ x.request.id \in Ids /\ cache[x.request.id] = x
      BY <1>1 DEF CacheInv, Result, Request
    <3>2. \A x \in Result : x # NoResult
      BY DEF Result, NoResult, Codes
    <3>. QED
      BY <2>3, <2>4, <2>10, <2>11, <3>1, <3>2
  <2>. QED
    BY <2>5, <2>7, <2>8, <2>9, <2>12, <2>13, <2>15, <2>16 DEF CacheInv
<1>. QED
  BY <1>3, <1>4, <1>5 DEF SubmitMutation, RefuseMutation, mutationVars

LEMMA MutationKeeps ==
    ASSUME IngressIInv, NEW r \in Request, SubmitMutation(r),
           client' \in ClientType, sent' \subseteq Request,
           client'.input = client.input, client'.primary = client.primary,
           client'.held = client.held
    PROVE  IngressIInv'
<1>1. UNCHANGED <<network, linked, combat, arena, faults, accepted, cast>>
  BY DEF SubmitMutation, presses
<1>2. TypeInv'
  BY <1>1, MutationSubmitted DEF IngressIInv, TypeInv
<1>3. OrderInv' /\ AcceptedPressesAreCast' /\ PressesStayLegal'
  BY <1>1, MutationSubmitted
     DEF IngressIInv, OrderInv, AcceptedPressesAreCast, PressesStayLegal, Running
<1>4. NumberedInv'
  BY <1>1, MutationSubmitted DEF IngressIInv, NumberedInv, Undisturbed, Continues
<1>. QED
  BY <1>2, <1>3, <1>4, MutationSubmitted DEF IngressIInv

LEMMA SendKeeps ==
    ASSUME IngressIInv, NEW p \in Pickups, SendMutation(p) PROVE IngressIInv'
<1>. USE IngressAssumption
<1>. DEFINE r == [id |-> client.mutation, pickup |-> p]
<1>1. client \in ClientType /\ client.mutation \in Ids /\ sent \subseteq Request
  BY DEF IngressIInv, TypeInv, ClientType, SendMutation, Ids
<1>2. r \in Request
  BY <1>1 DEF Request
<1>3. /\ SubmitMutation(r) /\ sent' = sent \cup {r}
      /\ client' = [client EXCEPT !.mutation = client.mutation + 1]
  BY DEF SendMutation
<1>4. client.mutation + 1 \in 1..(MaxRequests + 1)
  BY <1>1 DEF Ids
<1>5. /\ client' \in ClientType /\ client'.input = client.input
      /\ client'.primary = client.primary /\ client'.held = client.held
  BY <1>1, <1>3, <1>4 DEF ClientType
<1>. QED
  BY <1>1, <1>2, <1>3, <1>5, MutationKeeps

LEMMA RetryKeeps ==
    ASSUME IngressIInv, NEW r \in sent, RetryMutation(r) PROVE IngressIInv'
<1>1. /\ r \in Request /\ SubmitMutation(r) /\ client' = client /\ sent' = sent
      /\ client \in ClientType /\ sent \subseteq Request
  BY DEF IngressIInv, TypeInv, RetryMutation
<1>. QED
  BY <1>1, MutationKeeps

\* The tick: combat takes what the session has.  The press it may find missing
\* needs a link that was lost.
LEMMA TickKeeps ==
    ASSUME IngressIInv, NEW forms \in BOOLEAN, Tick(forms) PROVE IngressIInv'
<1>. USE IngressAssumption
<1>1. /\ session \in SessionType /\ combat \in CombatType /\ Running
      /\ session.latest.primary = session.maximum /\ OrderInv
      /\ pickups \in [Pickups -> {"Absent", "Ground", "Collected"}]
  BY DEF IngressIInv, TypeInv, Tick
<1>2. /\ session' \in SessionType
      /\ session'.latest = session.latest /\ session'.maximum = session.maximum
      /\ session'.lastAction = session.lastAction /\ session'.ability = session.ability
      /\ session'.pending = [a \in Abilities |-> FALSE]
  <2>1. session' = [session EXCEPT !.pending = [a \in Abilities |-> FALSE], !.mutations = 0]
    BY DEF Tick, Taken
  <2>2. [a \in Abilities |-> FALSE] \in [Abilities -> BOOLEAN] /\ 0 \in 0..PerTick
    OBVIOUS
  <2>. QED
    BY <1>1, <2>1, <2>2 DEF SessionType
<1>3. UNCHANGED <<client, network, sent, linked, cache, faults, accepted, executed, answers>>
  BY DEF Tick, clientVars
<1>4. CacheEntries' = CacheEntries
  BY <1>3 DEF CacheEntries
<1>5. ~(session.latest.primary < combat.press)
  BY <1>1 DEF OrderInv, SessionType, CombatType
<1>6. \A a \in Abilities : ~(session.ability[a] < combat.ability[a])
  BY <1>1 DEF OrderInv, SessionType, CombatType
<1>7. \/ SequenceFault = "None"
      \/ /\ SequenceFault = "MissingPress" /\ session.latest.held /\ ~combat.held
         /\ session.maximum = combat.press
  BY <1>1, <1>5, <1>6 DEF SequenceFault
<1>8. CASE SequenceFault = "None"
  <2>1. /\ combat' = [press |-> session.latest.primary, held |-> session.latest.held,
                      ability |-> session.ability]
        /\ arena' = "Formed"
        /\ cast' = cast \cup {<<a, session.ability[a]>> :
                        a \in {b \in Abilities : session.ability[b] > combat.ability[b]}}
    BY <1>8 DEF Tick
  <2>2. pickups' \in [Pickups -> {"Absent", "Ground", "Collected"}]
    <3>1. PICK dropped \in SUBSET Pickups :
             pickups' = [p \in Pickups |-> IF p \in dropped THEN "Ground" ELSE pickups[p]]
      BY <1>8 DEF Tick
    <3>. QED
      BY <1>1, <3>1
  <2>3. /\ combat' \in CombatType /\ combat'.press = session.maximum
        /\ combat'.held = session.latest.held /\ combat'.ability = session.ability
    BY <1>1, <2>1 DEF CombatType, SessionType
  <2>4. TypeInv'
    BY <1>2, <1>3, <1>4, <2>1, <2>2, <2>3 DEF IngressIInv, TypeInv, Arenas
  <2>5. OrderInv'
    BY <1>1, <1>2, <2>3 DEF OrderInv, SessionType
  <2>6. NumberedInv'
    BY <1>2, <1>3, <2>3 DEF IngressIInv, NumberedInv, Undisturbed
  <2>7. {b \in Abilities : session.ability[b] > combat.ability[b]}
            = {b \in Abilities : session.pending[b]}
    BY <1>1 DEF OrderInv, SessionType, CombatType
  <2>8. {b \in Abilities : session'.pending[b]} = {}
    BY <1>2
  <2>9. AcceptedPressesAreCast'
    BY <1>1, <1>3, <2>1, <2>7, <2>8 DEF IngressIInv, AcceptedPressesAreCast
  <2>. QED
    BY <1>3, <2>1, <2>4, <2>5, <2>6, <2>9
       DEF IngressIInv, CacheInv, PressesStayLegal, ExecutedOnce
<1>9. CASE /\ SequenceFault = "MissingPress" /\ session.latest.held /\ ~combat.held
           /\ session.maximum = combat.press
  <2>1. UNCHANGED <<combat, cast, pickups>> /\ arena' = "MissingPress"
    BY <1>9 DEF Tick
  <2>2. TypeInv'
    BY <1>2, <1>3, <1>4, <2>1 DEF IngressIInv, TypeInv, Arenas
  <2>3. OrderInv' /\ AcceptedPressesAreCast'
    BY <1>1, <1>2, <2>1 DEF OrderInv, Running, AcceptedPressesAreCast
  <2>4. NumberedInv'
    BY <1>2, <1>3, <2>1 DEF IngressIInv, NumberedInv, Undisturbed
  <2>5. ~Undisturbed
    <3>. SUFFICES ASSUME Undisturbed PROVE FALSE
      OBVIOUS
    <3>1. combat.press < session.maximum
      BY <1>9 DEF IngressIInv, NumberedInv
    <3>. QED
      BY <1>1, <1>9, <3>1 DEF SessionType, CombatType
  <2>6. faults'.losses + faults'.restarts > 0
    <3>1. faults \in [losses : Nat, restarts : Nat]
      BY DEF IngressIInv, TypeInv
    <3>. QED
      BY <1>3, <2>5, <3>1 DEF Undisturbed
  <2>. QED
    BY <1>3, <2>1, <2>2, <2>3, <2>4, <2>6
       DEF IngressIInv, CacheInv, PressesStayLegal, ExecutedOnce
<1>. QED
  BY <1>7, <1>8, <1>9

\* The end of a connection: the button is let go, presses and numbers stay.
LEMMA CutKeeps ==
    ASSUME IngressIInv, Running, linked' = FALSE, session' = Neutralized,
           client' \in ClientType, client'.primary < client'.input,
           network' \subseteq Frame, sent' \subseteq Request,
           faults' \in [losses : Nat, restarts : Nat],
           faults'.losses + faults'.restarts > 0,
           UNCHANGED <<combat, mutationVars, arena, presses>>
    PROVE  IngressIInv'
<1>1. /\ session'.latest = [session.latest EXCEPT !.held = FALSE]
      /\ session'.latest.primary = session.latest.primary
      /\ session'.maximum = session.maximum
      /\ session'.lastAction = session.lastAction /\ session'.ability = session.ability
      /\ session'.pending = session.pending
      /\ session' \in SessionType
  <2>1. session \in SessionType /\ session' = [session EXCEPT !.latest.held = FALSE]
    BY DEF IngressIInv, TypeInv, Neutralized
  <2>. QED
    BY <2>1 DEF SessionType
<1>2. UNCHANGED <<combat, pickups, cache, executed, answers, arena, accepted, cast>>
  BY DEF mutationVars, presses
<1>3. TypeInv'
  BY <1>1, <1>2 DEF IngressIInv, TypeInv, CacheEntries
<1>4. NumberedInv'
  BY DEF NumberedInv, Undisturbed
<1>. QED
  BY <1>1, <1>2, <1>3, <1>4
     DEF IngressIInv, OrderInv, Running, CacheInv, PressesStayLegal, AcceptedPressesAreCast,
         ExecutedOnce

LEMMA LinkKeeps ==
    ASSUME IngressIInv, LoseLink \/ Restart \/ Relink PROVE IngressIInv'
<1>. USE IngressAssumption
<1>1. /\ client \in ClientType /\ client.primary < client.input
      /\ network \subseteq Frame /\ sent \subseteq Request
      /\ faults \in [losses : Nat, restarts : Nat]
  BY DEF IngressIInv, TypeInv
<1>2. CASE LoseLink
  <2>1. faults' \in [losses : Nat, restarts : Nat] /\ faults'.losses + faults'.restarts > 0
    BY <1>1, <1>2 DEF LoseLink
  <2>2. network' \subseteq Frame
    BY <1>1, <1>2 DEF LoseLink
  <2>. QED
    BY <1>1, <1>2, <2>1, <2>2, CutKeeps DEF LoseLink
<1>3. CASE Restart
  <2>1. faults' \in [losses : Nat, restarts : Nat] /\ faults'.losses + faults'.restarts > 0
    BY <1>1, <1>3 DEF Restart
  <2>2. client' \in ClientType /\ client'.primary < client'.input
    BY <1>3 DEF Restart, NewSequencer, ClientType
  <2>. QED
    BY <1>3, <2>1, <2>2, CutKeeps DEF Restart
<1>4. CASE Relink
  <2>1. UNCHANGED <<client, network, sent, session, combat, pickups, cache, executed, answers,
                    arena, faults, accepted, cast>> /\ linked' = TRUE
    BY <1>4 DEF Relink, clientVars, mutationVars, presses
  <2>2. TypeInv'
    BY <2>1 DEF IngressIInv, TypeInv, CacheEntries
  <2>3. NumberedInv'
    BY <2>1 DEF IngressIInv, NumberedInv, Undisturbed
  <2>. QED
    BY <2>1, <2>2, <2>3
       DEF IngressIInv, OrderInv, Running, CacheInv, PressesStayLegal, AcceptedPressesAreCast,
           ExecutedOnce
<1>. QED
  BY <1>2, <1>3, <1>4

-----------------------------------------------------------------------------
\* The inductive invariant: every step of the client, the network, the session and
\* the link keeps what the session holds ahead of combat and behind the client.
THEOREM IngressIsInductive == IngressSpec => []IngressIInv
<1>1. ASSUME IngressIInv, [IngressNext]_ingressVars PROVE IngressIInv'
  <2>1. CASE UNCHANGED ingressVars
    <3>1. UNCHANGED <<client, network, sent, linked, session, combat, pickups, cache,
                      arena, faults, accepted, cast, executed, answers>>
      BY <2>1 DEF ingressVars
    <3>2. TypeInv'
      BY <1>1, <3>1 DEF IngressIInv, TypeInv, CacheEntries
    <3>3. NumberedInv'
      BY <1>1, <3>1 DEF IngressIInv, NumberedInv, Undisturbed
    <3>. QED
      BY <1>1, <3>1, <3>2, <3>3
         DEF IngressIInv, OrderInv, Running, CacheInv, PressesStayLegal, AcceptedPressesAreCast,
             ExecutedOnce
  <2>2. CASE IngressNext
    BY <1>1, <2>2, SampleKeeps, SubmitKeeps, PressKeeps, SendKeeps, RetryKeeps, TickKeeps,
       LinkKeeps DEF IngressNext
  <2>. QED
    BY <1>1, <2>1, <2>2
<1>. QED
  BY <1>1, IngressInitially, PTL DEF IngressSpec

\* No order of datagrams, link losses and restarts makes the tick of the server
\* fail (Combat::validate_sequence), except for a press repeated after a link was
\* lost; numbers, mutations per tick and the cache keep their bounds.
THEOREM IngressInvHolds == IngressSpec => []IngressInv
<1>1. IngressIInv => IngressInv
  BY DEF IngressIInv, IngressInv, IngressTypeOK, TypeInv, SessionType, ClientType, Arenas
<1>. QED
  BY <1>1, IngressIsInductive, PTL

\* Every press answered Accepted is cast once by the next tick, and no other is.
THEOREM AcceptedAreCast == IngressSpec => []AcceptedPressesAreCast
<1>1. IngressIInv => AcceptedPressesAreCast
  BY DEF IngressIInv
<1>. QED
  BY <1>1, IngressIsInductive, PTL

\* A mutation id is executed at most once, whatever is sent again.
THEOREM MutationsExecutedOnce == IngressSpec => []ExecutedOnce
<1>1. IngressIInv => ExecutedOnce
  BY DEF IngressIInv
<1>. QED
  BY <1>1, IngressIsInductive, PTL

\* A repeated request gets the answer of the first.
THEOREM RetriesAnsweredAlike == IngressSpec => []RetryAnswersAlike
<1>1. IngressIInv => RetryAnswersAlike
  BY DEF IngressIInv, CacheInv, RetryAnswersAlike
<1>. QED
  BY <1>1, IngressIsInductive, PTL
=============================================================================
