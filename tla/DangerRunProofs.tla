-------------------------- MODULE DangerRunProofs --------------------------
(***************************************************************************)
(* Proofs about a character's danger runs.  The invariant has a part about *)
(* the store alone, which every transaction keeps whoever sends it, and a  *)
(* part about what the process may conclude from the answers it is given.  *)
(***************************************************************************)
EXTENDS DangerRun, TLAPS

-----------------------------------------------------------------------------
(***************************************************************************)
(* The store.                                                              *)
(***************************************************************************)
RootsInOrder == \A r \in Runs : root[r] = "None" <=> r > run

\* A stored crash-restore result names the end of its run; the latest one is
\* the latest change of the character.
ReceiptsAgree ==
    /\ \A r \in Runs : receipt[r] # "None" =>
          root[r] = IF receipt[r] = "AlreadyRestored" THEN "Restored"
                                                      ELSE receipt[r]
    /\ \A r \in Runs : r = run /\ receipt[r] = "Restored" =>
          version = restoredVersion[r]

\* A stored result of a terminal names the end of its run.
ResultsAgree ==
    \A q \in results : q.kind \notin {"Bell", "Consumable"} =>
        q.kind # "FaultRestoration" /\ root[q.run] = closing[q.kind]

StoreInv ==
    /\ StoreTypeOK
    /\ RootsInOrder
    /\ LocationFollowsRoot
    /\ ReceiptsAgree
    /\ ResultsAgree

\* What no transaction but the realm gate's can change.
StoreGrows ==
    /\ run' = run
    /\ results \subseteq results'
    /\ \A r \in Runs : root[r] # "Active" => root'[r] = root[r]
    /\ \A r \in Runs : root[r] = "Active" => root'[r] \in Closings \cup {"Active"}
    /\ \A r \in Runs : receipt[r] # "None" =>
          receipt'[r] = receipt[r] /\ restoredVersion'[r] = restoredVersion[r]

-----------------------------------------------------------------------------
(***************************************************************************)
(* The process.                                                            *)
(***************************************************************************)
\* A caller waits in four phases, for one call, and has no answer yet.
LiveCalls ==
    \A m \in net : m.live =>
        /\ answer = "None"
        /\ \A n \in net : n.live => n = m
        /\ \/ phase = "Frozen" /\ m.q = BellRequest
           \/ phase = "Reserved" /\ m.q.kind = "Consumable"
           \/ phase = "Awaiting" /\ m.q = WinnerRequest
           \/ phase = "Restoring" /\ m.q = RestoreRequest

\* Nothing under way is of a run that has not been entered.
NetRuns == \A m \in net : m.q.run <= run

\* Outside the hall there is a run; a winner is the owner's alone.
PhaseFacts ==
    /\ phase \notin {"Hall", "Fresh"} => run \in Runs
    /\ phase \in {"Prepared", "Awaiting"} => winner \in Kinds
    /\ phase \in {"Entering", "Unbound", "Fresh", "Restoring", "Reloading"} =>
          winner = "None"
    /\ phase = "Converting" => BellRequest \in results
    /\ phase \in {"Entering", "Reserved"} => ~actor

\* What an answer tells the caller that waited for it.
AnswersAgree ==
    /\ phase = "Frozen" /\ answer \notin {"None", "Refused"} =>
          BellRequest \in results
    /\ phase = "Awaiting" /\ winner # "FaultRestoration" =>
          /\ answer \in {"None", "Fresh", "Replayed", "Refused"}
          /\ answer \in {"Fresh", "Replayed"} => WinnerRequest \in results
          /\ answer = "Refused" => \/ losses > 0 /\ LateWrite
                                   \/ ExitIsStale(WinnerRequest)
    /\ phase = "Awaiting" /\ winner = "FaultRestoration"
                           /\ answer # "None" => answer = receipt[run]
    /\ phase \in {"Restoring", "Reloading"} /\ answer # "None" =>
          answer = receipt[run]
    /\ phase = "Reloading" => answer # "None"

\* Who may still change the run an owner decides about: a Bell transfer or the
\* use of a consumable, awaited or given up, and the winner's own transaction.
NoRivals ==
    /\ phase = "Entering" => \A m \in net : m.q.run # run
    /\ phase \in {"Watching", "Frozen", "Reserved", "Converting", "Prepared",
                  "Awaiting"} =>
          \A m \in net : m.q.run = run =>
              \/ /\ \/ m.q = BellRequest
                    \/ m.q = Request("Consumable", 0, m.q.inventory)
                 /\ m.live \/ losses > 0
              \/ m.q \in results
              \/ phase \in {"Prepared", "Awaiting"} /\ m.q = WinnerRequest

\* The head the open exit was prepared on moves only with a consumable that was
\* given up.
ExitStands ==
    phase \in {"Watching", "Frozen", "Converting"} /\ actor =>
        \/ exit = inventory
        \/ losses > 0 /\ Request("Consumable", 0, exit) \in results

\* The decision of a sealed winner stands until its own transaction or one that
\* was given up is applied.
DecisionStands ==
    phase \in {"Prepared", "Awaiting"} =>
        \/ /\ root[run] = "Active" /\ version = route
           /\ winner = "FaultRestoration" \/ inventory = planned
        \/ losses > 0 /\ LateWrite
        \/ winner # "FaultRestoration" /\ WinnerRequest \in results
        \/ /\ winner = "FaultRestoration"
           /\ receipt[run] = "Restored" /\ restoredVersion[run] = route + 1

\* What was told is true, and every earlier run's end was told.
ToldIsTrue ==
    \A r \in Runs : /\ told[r] # "None" => told[r] = root[r]
                    /\ r < run => told[r] = root[r]

\* The inductive invariant.
DangerInv ==
    /\ RunTypeOK
    /\ StoreInv
    /\ LiveCalls
    /\ NetRuns
    /\ PhaseFacts
    /\ AnswersAgree
    /\ NoRivals
    /\ ExitStands
    /\ DecisionStands
    /\ ToldIsTrue
    /\ HallIsSettled
    /\ OwnerEndsItsRun
    /\ RestartResolves

\* The conjuncts of the invariant that only a step that changes the phase, the
\* calls or what was told can disturb while the store stands still.
ProcessInv ==
    /\ LiveCalls /\ NetRuns /\ PhaseFacts
    /\ AnswersAgree /\ NoRivals /\ ExitStands /\ DecisionStands
    /\ ToldIsTrue /\ HallIsSettled /\ OwnerEndsItsRun
    /\ RestartResolves

-----------------------------------------------------------------------------
(***************************************************************************)
(* The transactions keep the store's part.                                 *)
(***************************************************************************)
\* Kinds close a root in one of the four ways.
LEMMA ClosingType == \A k \in Kinds : closing[k] \in Closings
BY DEF Kinds, closing, Closings

\* While the latest root is active the character is alive and in danger, and
\* no other root is active.
LEMMA ActiveIsCurrent ==
    ASSUME StoreInv, NEW r \in Runs, root[r] = "Active"
    PROVE  r = run /\ life = "Living" /\ location = "Danger"
BY DEF StoreInv, StoreTypeOK, LocationFollowsRoot

\* The realm gate opens the next root from a settled hall.
LEMMA EnterKeepsStore ==
    ASSUME StoreInv, EnterTransaction
    PROVE  StoreInv'
<1> USE StoreAssumption DEF Runs
<1>1. run + 1 \in Runs /\ root[run + 1] = "None" /\ receipt[run + 1] = "None"
    BY DEF StoreInv, StoreTypeOK, RootsInOrder, ReceiptsAgree, EnterTransaction
<1>2. \A r \in Runs : root[r] \notin {"Active", "Death"}
    BY DEF StoreInv, LocationFollowsRoot, EnterTransaction
<1>3. StoreTypeOK'
    BY <1>1 DEF StoreInv, StoreTypeOK, EnterTransaction, RootStates
<1>4. RootsInOrder'
    BY <1>1 DEF StoreInv, StoreTypeOK, RootsInOrder, EnterTransaction
<1>5. LocationFollowsRoot'
    BY <1>1, <1>2 DEF StoreInv, StoreTypeOK, LocationFollowsRoot,
       EnterTransaction
<1>6. ReceiptsAgree'
    BY <1>1 DEF StoreInv, StoreTypeOK, ReceiptsAgree, EnterTransaction
<1>7. ResultsAgree'
    <2> SUFFICES ASSUME NEW q \in results, q.kind \notin {"Bell", "Consumable"}
                 PROVE  /\ q.kind # "FaultRestoration"
                        /\ root'[q.run] = closing[q.kind]
        BY DEF ResultsAgree, EnterTransaction
    <2>1. /\ q.kind # "FaultRestoration" /\ root[q.run] = closing[q.kind]
          /\ q.kind \in Kinds /\ q.run \in Runs
        BY DEF StoreInv, StoreTypeOK, ResultsAgree, Requests, RequestKinds
    <2>2. q.run # run + 1
        BY <1>1, <2>1, ClosingType DEF Closings
    <2> QED BY <2>1, <2>2 DEF EnterTransaction, StoreInv, StoreTypeOK
<1> QED BY <1>3, <1>4, <1>5, <1>6, <1>7 DEF StoreInv

\* A Bell transfer moves the version on and no root.
LEMMA BellKeepsStore ==
    ASSUME StoreInv, NEW q \in Requests, q.kind = "Bell", BellFresh(q)
    PROVE  StoreInv' /\ StoreGrows /\ q \in results'
<1>1. q.run \in Runs /\ run = q.run /\ root[run] = "Active"
    BY DEF BellFresh, Current, InDanger, Requests
<1>2. StoreTypeOK'
    BY DEF StoreInv, StoreTypeOK, BellFresh
<1>3. RootsInOrder' /\ LocationFollowsRoot'
    BY DEF StoreInv, RootsInOrder, LocationFollowsRoot, BellFresh
<1>4. ReceiptsAgree'
    BY <1>1 DEF StoreInv, StoreTypeOK, ReceiptsAgree, BellFresh
<1>5. ResultsAgree'
    BY DEF StoreInv, ResultsAgree, BellFresh
<1>6. StoreGrows /\ q \in results'
    BY DEF StoreGrows, BellFresh
<1> QED BY <1>2, <1>3, <1>4, <1>5, <1>6 DEF StoreInv

\* The use of a consumable moves the inventory on and nothing else.
LEMMA ConsumableKeepsStore ==
    ASSUME StoreInv, NEW q \in Requests, q.kind = "Consumable", ConsumableFresh(q)
    PROVE  StoreInv' /\ StoreGrows /\ q \in results'
<1>1. StoreTypeOK'
    BY DEF StoreInv, StoreTypeOK, ConsumableFresh
<1>2. RootsInOrder' /\ LocationFollowsRoot' /\ ReceiptsAgree'
    BY DEF StoreInv, RootsInOrder, LocationFollowsRoot, ReceiptsAgree,
       ConsumableFresh
<1>3. ResultsAgree'
    BY DEF StoreInv, ResultsAgree, ConsumableFresh
<1>4. StoreGrows /\ q \in results'
    BY DEF StoreGrows, ConsumableFresh
<1> QED BY <1>1, <1>2, <1>3, <1>4 DEF StoreInv

\* The three terminal transactions at a glance.
LEMMA TerminalFreshFacts ==
    ASSUME NEW q \in Requests, TerminalFresh(q)
    PROVE  /\ q \notin results
           /\ HeadsMatch(q)
           /\ root' = [root EXCEPT ![q.run] = closing[q.kind]]
           /\ life' = IF q.kind = "LethalDeath" THEN "Dead" ELSE life
           /\ location' = IF q.kind = "LethalDeath" THEN location ELSE "Hall"
           /\ version' = version + 1 /\ inventory' = inventory + 1
           /\ results' = results \cup {q}
           /\ UNCHANGED <<run, receipt, restoredVersion>>
BY DEF TerminalFresh, DeathFresh, ExtractionFresh, RecallFresh, Closes, closing

\* A terminal transaction closes the active root and moves the character with it.
LEMMA TerminalKeepsStore ==
    ASSUME StoreInv, NEW q \in Requests,
           q.kind \in Kinds \ {"FaultRestoration"}, TerminalFresh(q)
    PROVE  StoreInv' /\ StoreGrows /\ q \in results'
<1>0. /\ HeadsMatch(q)
      /\ root' = [root EXCEPT ![q.run] = closing[q.kind]]
      /\ life' = IF q.kind = "LethalDeath" THEN "Dead" ELSE life
      /\ location' = IF q.kind = "LethalDeath" THEN location ELSE "Hall"
      /\ version' = version + 1 /\ inventory' = inventory + 1
      /\ results' = results \cup {q}
      /\ UNCHANGED <<run, receipt, restoredVersion>>
    BY TerminalFreshFacts
<1>1. q.run \in Runs /\ run = q.run /\ root[run] = "Active"
      /\ life = "Living" /\ location = "Danger"
    BY <1>0 DEF HeadsMatch, Current, InDanger, Requests
<1>2. closing[q.kind] \in Closings /\ closing[q.kind] \in RootStates
    BY ClosingType DEF RootStates
<1>3. closing[q.kind] = "Death" <=> q.kind = "LethalDeath"
    BY DEF closing, Kinds
<1>4. closing[q.kind] \notin {"Active", "None"}
    BY <1>2 DEF Closings
<1>5. root' = [root EXCEPT ![run] = closing[q.kind]]
    BY <1>1, <1>0
<1>6. root \in [Runs -> RootStates] /\ run \in Runs
    BY <1>1 DEF StoreInv, StoreTypeOK
<1>7. StoreTypeOK'
    BY <1>1, <1>2, <1>5, <1>6, <1>0 DEF StoreInv, StoreTypeOK
<1>8. RootsInOrder'
    BY <1>1, <1>4, <1>5, <1>6, <1>0 DEF StoreInv, RootsInOrder
<1>9. LocationFollowsRoot'
    BY <1>1, <1>3, <1>4, <1>5, <1>6, <1>0 DEF StoreInv,
       StoreTypeOK, LocationFollowsRoot
<1>10. ReceiptsAgree'
    <2>1. receipt[run] = "None"
        BY <1>1 DEF StoreInv, StoreTypeOK, ReceiptsAgree, Closings
    <2> QED BY <2>1, <1>5, <1>6, <1>0 DEF StoreInv, ReceiptsAgree
<1>11. ResultsAgree'
    <2> SUFFICES ASSUME NEW p \in results', p.kind \notin {"Bell", "Consumable"}
                 PROVE  /\ p.kind # "FaultRestoration"
                        /\ root'[p.run] = closing[p.kind]
        BY DEF ResultsAgree
    <2>1. CASE p = q
        BY <2>1, <1>1, <1>5, <1>6
    <2>2. CASE p \in results
        <3>1. /\ p.kind # "FaultRestoration" /\ root[p.run] = closing[p.kind]
              /\ p.kind \in Kinds /\ p.run \in Runs
            BY <2>2 DEF StoreInv, StoreTypeOK, ResultsAgree, Requests,
               RequestKinds
        <3>2. p.run # run
            BY <1>1, <3>1, ClosingType DEF Closings
        <3> QED BY <3>1, <3>2, <1>5, <1>6
    <2> QED BY <2>1, <2>2, <1>0
<1>12. StoreGrows /\ q \in results'
    BY <1>1, <1>2, <1>5, <1>6, <1>0 DEF StoreGrows
<1> QED BY <1>7, <1>8, <1>9, <1>10, <1>11, <1>12 DEF StoreInv

\* So does a crash restoration, which also stores its result.
LEMMA RestoreKeepsStore ==
    ASSUME StoreInv, NEW q \in Requests, RestoreFresh(q)
    PROVE  StoreInv' /\ StoreGrows
<1>1. q.run \in Runs /\ run = q.run /\ root[run] = "Active"
      /\ life = "Living" /\ location = "Danger" /\ receipt[run] = "None"
    BY DEF RestoreFresh, Requests
<1>2. root' = [root EXCEPT ![run] = "Restored"]
      /\ receipt' = [receipt EXCEPT ![run] = "Restored"]
      /\ restoredVersion' = [restoredVersion EXCEPT ![run] = version + 1]
    BY <1>1 DEF RestoreFresh
<1>3. root \in [Runs -> RootStates] /\ run \in Runs
      /\ DOMAIN receipt = Runs /\ DOMAIN restoredVersion = Runs
    BY <1>1 DEF StoreInv, StoreTypeOK
<1>4. StoreTypeOK'
    BY <1>1, <1>2, <1>3 DEF StoreInv, StoreTypeOK, RestoreFresh, RootStates,
       Closings
<1>5. RootsInOrder'
    BY <1>1, <1>2, <1>3 DEF StoreInv, RootsInOrder, RestoreFresh
<1>6. LocationFollowsRoot'
    BY <1>1, <1>2, <1>3 DEF StoreInv, StoreTypeOK, LocationFollowsRoot,
       RestoreFresh
<1>7. ReceiptsAgree'
    BY <1>1, <1>2, <1>3 DEF StoreInv, StoreTypeOK, ReceiptsAgree, RestoreFresh
<1>8. ResultsAgree'
    <2> SUFFICES ASSUME NEW p \in results, p.kind \notin {"Bell", "Consumable"}
                 PROVE  /\ p.kind # "FaultRestoration"
                        /\ root'[p.run] = closing[p.kind]
        BY DEF ResultsAgree, RestoreFresh
    <2>1. /\ p.kind # "FaultRestoration" /\ root[p.run] = closing[p.kind]
          /\ p.kind \in Kinds /\ p.run \in Runs
        BY DEF StoreInv, StoreTypeOK, ResultsAgree, Requests, RequestKinds
    <2>2. p.run # run
        BY <1>1, <2>1, ClosingType DEF Closings
    <2> QED BY <2>1, <2>2, <1>2, <1>3
<1>9. StoreGrows
    BY <1>1, <1>2, <1>3 DEF StoreGrows, RestoreFresh, Closings
<1> QED BY <1>4, <1>5, <1>6, <1>7, <1>8, <1>9 DEF StoreInv

\* A crash restoration that finds the root closed stores which end was first.
LEMMA LostKeepsStore ==
    ASSUME StoreInv, NEW q \in Requests, RestoreLost(q)
    PROVE  StoreInv' /\ StoreGrows
<1>1. q.run \in Runs /\ receipt[q.run] = "None" /\ root[q.run] \in Closings
    BY DEF RestoreLost, Requests
<1>2. /\ TerminalCode(root[q.run]) \in Closings \cup {"None", "AlreadyRestored"}
      /\ TerminalCode(root[q.run]) # "Restored"
      /\ root[q.run] = IF TerminalCode(root[q.run]) = "AlreadyRestored"
                       THEN "Restored" ELSE TerminalCode(root[q.run])
    BY <1>1 DEF TerminalCode, Closings
<1>3. StoreTypeOK'
    BY <1>1, <1>2 DEF StoreInv, StoreTypeOK, RestoreLost
<1>4. RootsInOrder' /\ LocationFollowsRoot' /\ ResultsAgree'
    BY DEF StoreInv, RootsInOrder, LocationFollowsRoot, ResultsAgree, RestoreLost
<1>5. ReceiptsAgree'
    BY <1>1, <1>2 DEF StoreInv, StoreTypeOK, ReceiptsAgree, RestoreLost
<1>6. StoreGrows
    BY <1>1 DEF StoreInv, StoreTypeOK, StoreGrows, RestoreLost
<1> QED BY <1>3, <1>4, <1>5, <1>6 DEF StoreInv

\* Without a transaction the store's part is kept trivially.
LEMMA UnchangedKeepsStore ==
    ASSUME StoreInv, UNCHANGED storeVars
    PROVE  StoreInv' /\ StoreGrows
<1>1. StoreInv'
    BY DEF StoreInv, StoreTypeOK, RootsInOrder, LocationFollowsRoot,
       ReceiptsAgree, ResultsAgree, storeVars
<1>2. StoreGrows
    BY DEF StoreInv, StoreTypeOK, StoreGrows, storeVars, RootStates
<1> QED BY <1>1, <1>2

-----------------------------------------------------------------------------
(***************************************************************************)
(* The steps of the process keep the process's part.                       *)
(***************************************************************************)
\* An abandoned call asks for the same and nobody waits for it.
LEMMA AbandonedFacts ==
    ASSUME NEW S \in SUBSET [q : Requests, live : BOOLEAN]
    PROVE  /\ Abandoned(S) \subseteq [q : Requests, live : BOOLEAN]
           /\ \A m \in Abandoned(S) : m.live = FALSE /\ \E n \in S : m.q = n.q
<1> SUFFICES ASSUME NEW m \in Abandoned(S)
             PROVE  /\ m \in [q : Requests, live : BOOLEAN]
                    /\ m.live = FALSE
                    /\ \E n \in S : m.q = n.q
    OBVIOUS
<1>1. PICK n \in S : m = [q |-> n.q, live |-> FALSE]
    BY DEF Abandoned
<1>2. n.q \in Requests
    OBVIOUS
<1> QED BY <1>1, <1>2

\* The requests the process makes are requests of the current run.
LEMMA RequestFacts ==
    ASSUME RunTypeOK, run \in Runs
    PROVE  /\ \A k \in RequestKinds, v \in Nat, i \in Nat :
                 Request(k, v, i) \in Requests /\ Request(k, v, i).run = run
           /\ RestoreRequest \in Requests /\ RestoreRequest.run = run
           /\ winner \in Kinds =>
                 WinnerRequest \in Requests /\ WinnerRequest.run = run
<1>1. \A k \in RequestKinds, v \in Nat, i \in Nat :
        Request(k, v, i) \in Requests /\ Request(k, v, i).run = run
    BY DEF Request, Requests
<1>2. "FaultRestoration" \in RequestKinds /\ Kinds \subseteq RequestKinds
      /\ 0 \in Nat /\ route \in Nat /\ planned \in Nat
    BY DEF RequestKinds, Kinds, RunTypeOK
<1>3. RestoreRequest \in Requests /\ RestoreRequest.run = run
    BY <1>1, <1>2 DEF RestoreRequest
<1>4. winner \in Kinds => WinnerRequest \in Requests /\ WinnerRequest.run = run
    BY <1>1, <1>2, <1>3 DEF WinnerRequest
<1> QED BY <1>1, <1>3, <1>4

\* Binding, admission and rollback: a rollback drops the waiting caller, so
\* nothing that relied on its answer is left.
LEMMA AdmissionKeeps ==
    ASSUME DangerInv, BindMicrorealm \/ Admit \/ RollbackAdmission
    PROVE  DangerInv'
<1>0. StoreInv' /\ StoreTypeOK'
    BY UnchangedKeepsStore DEF DangerInv, StoreInv, BindMicrorealm, Admit,
       RollbackAdmission
<1>1. ASSUME RollbackAdmission
      PROVE  /\ run \in Runs
             /\ net' \subseteq [q : Requests, live : BOOLEAN]
             /\ \A m \in net' : m.live = FALSE /\ m.q.run <= run
    <2>1. run \in Runs /\ (phase = "Prepared" => winner \in Kinds)
        BY <1>1 DEF DangerInv, PhaseFacts, RollbackAdmission
    <2>2. run <= run
        BY <2>1, StoreAssumption DEF Runs
    <2>3. net \in SUBSET [q : Requests, live : BOOLEAN]
        BY DEF DangerInv, RunTypeOK
    <2>4. /\ Abandoned(net) \subseteq [q : Requests, live : BOOLEAN]
          /\ \A m \in Abandoned(net) : m.live = FALSE /\ m.q.run <= run
        BY <2>3, AbandonedFacts DEF DangerInv, NetRuns
    <2>5. phase = "Prepared" =>
              WinnerRequest \in Requests /\ WinnerRequest.run = run
        BY <2>1, RequestFacts DEF DangerInv
    <2>6. ASSUME NEW m \in net'
          PROVE  /\ m \in [q : Requests, live : BOOLEAN]
                 /\ m.live = FALSE /\ m.q.run <= run
        <3>1. \/ m \in Abandoned(net)
              \/ phase = "Prepared" /\ m = [q |-> WinnerRequest, live |-> FALSE]
            BY <1>1 DEF RollbackAdmission
        <3>2. CASE m \in Abandoned(net)
            BY <3>2, <2>4
        <3>3. CASE phase = "Prepared" /\ m = [q |-> WinnerRequest, live |-> FALSE]
            <4>1. m.q = WinnerRequest /\ m.live = FALSE
                BY <3>3
            <4>2. m \in [q : Requests, live : BOOLEAN]
                BY <3>3, <2>5
            <4> QED BY <3>3, <4>1, <4>2, <2>2, <2>5
        <3> QED BY <3>1, <3>2, <3>3
    <2> QED BY <2>1, <2>6
<1> USE DEF DangerInv, RunTypeOK, ProcessInv, LiveCalls, NetRuns, PhaseFacts,
        AnswersAgree, NoRivals, ExitStands, DecisionStands, ToldIsTrue, HallIsSettled,
        OwnerEndsItsRun, RestartResolves, storeVars, driverVars, decision, counters,
        Request, BellRequest, WinnerRequest, RestoreRequest, LateWrite,
        ExitIsStale, Phases, Answers
<1>2. ASSUME BindMicrorealm PROVE ProcessInv' /\ RunTypeOK'
    BY <1>0, <1>2 DEF BindMicrorealm
<1>3. ASSUME Admit PROVE ProcessInv' /\ RunTypeOK'
    BY <1>0, <1>3 DEF Admit
<1>4. ASSUME RollbackAdmission PROVE ProcessInv' /\ RunTypeOK'
    BY <1>0, <1>1, <1>4 DEF RollbackAdmission
<1> QED BY <1>0, <1>2, <1>3, <1>4

\* A call adds one request with a waiting caller.
LEMMA CallFacts ==
    ASSUME RunTypeOK, NetRuns, run \in Runs,
           NEW q \in Requests, q.run = run, Call(q)
    PROVE  /\ net' \subseteq [q : Requests, live : BOOLEAN]
           /\ \A m \in net' : m.q.run <= run
           /\ \A m \in net' : m \in net \/ (m.q = q /\ m.live)
           /\ \A m \in net' : m \in net \/ m = [q |-> q, live |-> TRUE]
           /\ answer' = "None"
<1>1. run <= run
    BY StoreAssumption DEF Runs
<1>2. ASSUME NEW m \in net'
      PROVE  /\ m \in [q : Requests, live : BOOLEAN]
             /\ m.q.run <= run
             /\ m \in net \/ (m.q = q /\ m.live)
    <2>1. CASE m \in net
        BY <2>1 DEF RunTypeOK, NetRuns
    <2>2. CASE m = [q |-> q, live |-> TRUE]
        <3>1. m.q = q /\ m.live
            BY <2>2
        <3>2. m \in [q : Requests, live : BOOLEAN]
            BY <2>2
        <3> QED BY <3>1, <3>2, <1>1
    <2> QED BY <2>1, <2>2 DEF Call
<1> QED BY <1>2 DEF Call

\* After Abandon nobody waits; what was under way still is.
LEMMA AbandonFacts ==
    ASSUME RunTypeOK, NetRuns, Abandon
    PROVE  /\ net' \subseteq [q : Requests, live : BOOLEAN]
           /\ \A m \in net' : m.q.run <= run
           /\ \A m \in net' : m.live = FALSE /\ \E n \in net : m.q = n.q
           /\ answer' = "None"
<1>1. net \in SUBSET [q : Requests, live : BOOLEAN]
    BY DEF RunTypeOK
<1> QED BY <1>1, AbandonedFacts DEF Abandon, NetRuns

\* The Bell transfer and the dungeon behind it.
LEMMA BellKeeps ==
    ASSUME DangerInv, Bell
    PROVE  DangerInv'
<1>0. StoreInv' /\ StoreTypeOK'
    BY UnchangedKeepsStore DEF DangerInv, StoreInv, Bell, FreezeForBell,
       BellAnswered, BellLost, BellDropped, InstallDungeon, RegisterExtraction
<1>1. ASSUME FreezeForBell
      PROVE  /\ run \in Runs
             /\ Call(BellRequest)
             /\ BellRequest \in Requests
             /\ BellRequest.run = run
    <2>1. run \in Runs
        BY <1>1 DEF FreezeForBell, DangerInv, PhaseFacts
    <2>2. "Bell" \in RequestKinds /\ route \in Nat /\ 0 \in Nat
        BY DEF RequestKinds, DangerInv, RunTypeOK
    <2> QED BY <1>1, <2>1, <2>2, RequestFacts DEF FreezeForBell, DangerInv,
               BellRequest
<1>2. ASSUME FreezeForBell
      PROVE  /\ net' \subseteq [q : Requests, live : BOOLEAN]
             /\ \A m \in net' : m.q.run <= run
             /\ \A m \in net' : m \in net \/ (m.q = BellRequest /\ m.live)
             /\ \A m, n \in net' : m.live /\ n.live => m = n
             /\ answer' = "None"
    <2>1. \A m \in net : ~m.live
        BY <1>2 DEF DangerInv, LiveCalls, FreezeForBell
    <2> QED BY <1>1, <1>2, <2>1, CallFacts DEF DangerInv
<1>3. ASSUME Abandon
      PROVE  /\ net' \subseteq [q : Requests, live : BOOLEAN]
             /\ \A m \in net' : m.q.run <= run
             /\ \A m \in net' : m.live = FALSE /\ \E n \in net : m.q = n.q
             /\ answer' = "None"
    BY <1>3, AbandonFacts DEF DangerInv
<1> USE DEF DangerInv, RunTypeOK, ProcessInv, LiveCalls, NetRuns, PhaseFacts,
        AnswersAgree, NoRivals, ExitStands, DecisionStands, ToldIsTrue, HallIsSettled,
        OwnerEndsItsRun, RestartResolves, storeVars, driverVars, decision, counters,
        Request, BellRequest, WinnerRequest, RestoreRequest, LateWrite,
        ExitIsStale, Phases, Answers
<1>4. ASSUME FreezeForBell PROVE ProcessInv' /\ RunTypeOK'
    BY <1>0, <1>1, <1>2, <1>4 DEF FreezeForBell
<1>5. ASSUME BellAnswered PROVE ProcessInv' /\ RunTypeOK'
    BY <1>0, <1>5 DEF BellAnswered
<1>6. ASSUME BellLost PROVE ProcessInv' /\ RunTypeOK'
    <2>1. RunTypeOK'
        BY <1>0, <1>3, <1>6, RunAssumption DEF BellLost
    <2>2. NoRivals'
        <3>1. losses' > 0
            BY <1>6 DEF BellLost
        <3> QED BY <1>3, <1>6, <3>1 DEF BellLost
    <2>3. \A m \in net' : m.live = FALSE /\ m.q.run <= run
        BY <1>3, <1>6 DEF BellLost
    <2> QED BY <1>6, <2>1, <2>2, <2>3 DEF BellLost
<1>7. ASSUME BellDropped PROVE ProcessInv' /\ RunTypeOK'
    BY <1>0, <1>3, <1>7 DEF BellDropped
<1>8. ASSUME InstallDungeon PROVE ProcessInv' /\ RunTypeOK'
    BY <1>0, <1>8 DEF InstallDungeon
<1>9. ASSUME RegisterExtraction PROVE ProcessInv' /\ RunTypeOK'
    <2>1. inventory \in Nat
        BY DEF StoreTypeOK
    <2> QED BY <1>0, <1>9, <2>1 DEF RegisterExtraction
<1> QED BY <1>0, <1>4, <1>5, <1>6, <1>7, <1>8, <1>9 DEF Bell

\* The use of a consumable: the driver waits for its commit or gives it up.
LEMMA BeltKeeps ==
    ASSUME DangerInv, Belt
    PROVE  DangerInv'
<1>0. StoreInv' /\ StoreTypeOK'
    BY UnchangedKeepsStore DEF DangerInv, StoreInv, Belt, UseConsumable,
       ConsumableAnswered, ConsumableLost, ConsumableTimedOut
<1>1. ASSUME UseConsumable
      PROVE  /\ run \in Runs
             /\ net' \subseteq [q : Requests, live : BOOLEAN]
             /\ \A m \in net' : m.q.run <= run
             /\ \A m \in net' : \/ m \in net
                                 \/ /\ m.q = Request("Consumable", 0, inventory)
                                    /\ m.live
             /\ \A m, n \in net' : m.live /\ n.live => m = n
             /\ answer' = "None"
    <2>0. \A m \in net : ~m.live
        BY <1>1 DEF DangerInv, LiveCalls, UseConsumable
    <2>1. run \in Runs
        BY <1>1 DEF UseConsumable, DangerInv, PhaseFacts
    <2>2. "Consumable" \in RequestKinds /\ inventory \in Nat /\ 0 \in Nat
        BY DEF RequestKinds, DangerInv, StoreInv, StoreTypeOK
    <2>3. Request("Consumable", 0, inventory) \in Requests
          /\ Request("Consumable", 0, inventory).run = run
        BY <2>1, <2>2, RequestFacts DEF DangerInv
    <2>4. Call(Request("Consumable", 0, inventory))
        BY <1>1 DEF UseConsumable
    <2> QED BY <2>0, <2>1, <2>3, <2>4, CallFacts DEF DangerInv
<1>2. ASSUME Abandon
      PROVE  /\ net' \subseteq [q : Requests, live : BOOLEAN]
             /\ \A m \in net' : m.q.run <= run
             /\ \A m \in net' : m.live = FALSE /\ \E n \in net : m.q = n.q
             /\ answer' = "None"
    BY <1>2, AbandonFacts DEF DangerInv
<1> USE DEF DangerInv, RunTypeOK, ProcessInv, LiveCalls, NetRuns, PhaseFacts,
        AnswersAgree, NoRivals, ExitStands, DecisionStands, ToldIsTrue, HallIsSettled,
        OwnerEndsItsRun, RestartResolves, storeVars, driverVars, decision, counters,
        Request, BellRequest, WinnerRequest, RestoreRequest, LateWrite,
        ExitIsStale, Phases, Answers
<1>3. ASSUME UseConsumable PROVE ProcessInv' /\ RunTypeOK'
    <2>1. uses' \in 0 .. MaxUses
        BY <1>3, RunAssumption DEF UseConsumable
    <2>2. RunTypeOK'
        BY <1>0, <1>1, <1>3, <2>1 DEF UseConsumable
    <2>3. NoRivals'
        BY <1>1, <1>3 DEF UseConsumable
    <2>4. LiveCalls'
        BY <1>1, <1>3 DEF UseConsumable
    <2> QED BY <1>1, <1>3, <2>2, <2>3, <2>4 DEF UseConsumable
<1>4. ASSUME ConsumableAnswered PROVE ProcessInv' /\ RunTypeOK'
    BY <1>0, <1>4 DEF ConsumableAnswered
<1>5. ASSUME ConsumableLost PROVE ProcessInv' /\ RunTypeOK'
    <2>1. losses' \in 0 .. MaxLosses /\ losses' > 0
        BY <1>5, RunAssumption DEF ConsumableLost
    <2>2. RunTypeOK'
        BY <1>0, <1>2, <1>5, <2>1 DEF ConsumableLost
    <2>3. NoRivals'
        <3>1. ASSUME NEW m \in net', m.q.run = run
              PROVE  \/ m.q = BellRequest \/ m.q \in results
                     \/ m.q = Request("Consumable", 0, m.q.inventory)
            <4>1. PICK n \in net : m.q = n.q
                BY <1>2, <1>5, <3>1 DEF ConsumableLost
            <4>2. \/ n.q = BellRequest \/ n.q = Request("Consumable", 0, n.q.inventory)
                  \/ n.q \in results
                BY <1>5, <3>1, <4>1 DEF ConsumableLost
            <4> QED BY <4>1, <4>2
        <3> QED BY <1>5, <2>1, <3>1 DEF ConsumableLost
    <2>4. \A m \in net' : m.live = FALSE /\ m.q.run <= run
        BY <1>2, <1>5 DEF ConsumableLost
    <2> QED BY <1>5, <2>2, <2>3, <2>4 DEF ConsumableLost
<1>6. ASSUME ConsumableTimedOut PROVE ProcessInv' /\ RunTypeOK'
    BY <1>0, <1>2, <1>6 DEF ConsumableTimedOut
<1> QED BY <1>0, <1>3, <1>4, <1>5, <1>6 DEF Belt

\* The owner: a sealed decision is of the current run and heads, and what is
\* published is what the store has answered.
LEMMA OwnerKeeps ==
    ASSUME DangerInv, Owner
    PROVE  DangerInv'
<1>0. StoreInv' /\ StoreTypeOK'
    BY UnchangedKeepsStore DEF DangerInv, StoreInv, Owner, process_frame,
       process_verified_fault, Evaluate, FaultBeforeFirstFrame, StopOwner,
       RetireBeforeCommit, Execute, RetryExact, Publish, NotAccepted,
       InstallDeliveredHall
<1>1. ASSUME Execute
      PROVE  /\ run \in Runs
             /\ net' \subseteq [q : Requests, live : BOOLEAN]
             /\ \A m \in net' : m.q.run <= run
             /\ \A m \in net' : m \in net \/ (m.q = WinnerRequest /\ m.live)
             /\ \A m, n \in net' : m.live /\ n.live => m = n
             /\ answer' = "None"
    <2>0. \A m \in net : ~m.live
        BY <1>1 DEF DangerInv, LiveCalls, Execute
    <2>1. run \in Runs /\ winner \in Kinds
        BY <1>1 DEF Execute, DangerInv, PhaseFacts
    <2>2. WinnerRequest \in Requests /\ WinnerRequest.run = run
        BY <2>1, RequestFacts DEF DangerInv
    <2> QED BY <1>1, <2>0, <2>1, <2>2, CallFacts DEF DangerInv, Execute
<1>2. ASSUME Abandon
      PROVE  /\ net' \subseteq [q : Requests, live : BOOLEAN]
             /\ \A m \in net' : m.q.run <= run
             /\ \A m \in net' : m.live = FALSE /\ \E n \in net : m.q = n.q
             /\ answer' = "None"
    BY <1>2, AbandonFacts DEF DangerInv
<1>3. ASSUME NEW due \in SUBSET Kinds, Evaluate(due), phase = "Watching",
             "SuccessfulExtraction" \in due => actor, framed' \in BOOLEAN
      PROVE  /\ phase' \in {"Watching", "Prepared", "Stopped"}
             /\ phase' = "Prepared" => /\ winner' \in Kinds
                                       /\ root[run] = "Active" /\ version = route
                                       /\ planned' = IF winner' = "SuccessfulExtraction"
                                                     THEN exit ELSE inventory
                                       /\ winner' = "SuccessfulExtraction" => actor
             /\ winner' \in Kinds \cup {"None"} /\ planned' \in Nat
    BY <1>3 DEF Evaluate, SnapshotMatches, BellRequest, Current, InDanger, Request,
       Leads, DangerInv, RunTypeOK, StoreTypeOK, decision
<1> USE DEF DangerInv, RunTypeOK, ProcessInv, LiveCalls, NetRuns, PhaseFacts,
        AnswersAgree, NoRivals, ExitStands, DecisionStands, ToldIsTrue, HallIsSettled,
        OwnerEndsItsRun, RestartResolves, storeVars, driverVars, decision, counters,
        Request, BellRequest, WinnerRequest, RestoreRequest, LateWrite,
        ExitIsStale, Phases, Answers
<1>4. ASSUME NEW due \in SUBSET Kinds, Evaluate(due), phase = "Watching",
             "SuccessfulExtraction" \in due => actor, framed' \in BOOLEAN
      PROVE  ProcessInv' /\ RunTypeOK'
    <2>1. UNCHANGED <<storeVars, net, route, admitted, through, actor, exit,
                      retained, answer, told, counters>>
        BY <1>4 DEF Evaluate
    <2>2. RunTypeOK'
        BY <1>0, <1>3, <1>4, <2>1
    <2>3. DecisionStands'
        BY <1>3, <1>4, <2>1
    <2> QED BY <1>3, <1>4, <2>1, <2>2, <2>3
<1>5. /\ DueAtFrame \subseteq SUBSET Kinds
      /\ \A due \in DueAtFrame : "SuccessfulExtraction" \in due => actor
    BY DEF DueAtFrame, Recalls, Kinds
<1>6. ASSUME process_frame PROVE ProcessInv' /\ RunTypeOK'
    BY <1>4, <1>5, <1>6 DEF process_frame
<1>7. ASSUME process_verified_fault PROVE ProcessInv' /\ RunTypeOK'
    BY <1>4, <1>5, <1>7 DEF process_verified_fault, Kinds
<1>8. ASSUME FaultBeforeFirstFrame PROVE ProcessInv' /\ RunTypeOK'
    BY <1>0, <1>8 DEF FaultBeforeFirstFrame
<1>9. ASSUME StopOwner PROVE ProcessInv' /\ RunTypeOK'
    BY <1>0, <1>2, <1>9 DEF StopOwner
<1>10. ASSUME RetireBeforeCommit PROVE ProcessInv' /\ RunTypeOK'
    BY <1>0, <1>10 DEF RetireBeforeCommit
<1>11. ASSUME Execute PROVE ProcessInv' /\ RunTypeOK'
    BY <1>0, <1>1, <1>11 DEF Execute
<1>12. ASSUME RetryExact PROVE ProcessInv' /\ RunTypeOK'
    <2>1. RunTypeOK'
        BY <1>0, <1>2, <1>12, RunAssumption DEF RetryExact
    <2>2. NoRivals'
        <3>1. ASSUME NEW m \in net', m.q.run = run
              PROVE  \/ m.q = BellRequest \/ m.q \in results
                     \/ m.q = Request("Consumable", 0, m.q.inventory)
                     \/ m.q = WinnerRequest
            <4>1. PICK n \in net : m.q = n.q
                BY <1>2, <1>12, <3>1 DEF RetryExact
            <4>2. \/ n.q = BellRequest \/ n.q = Request("Consumable", 0, n.q.inventory)
                  \/ n.q \in results \/ n.q = WinnerRequest
                BY <1>12, <3>1, <4>1 DEF RetryExact
            <4> QED BY <4>1, <4>2
        <3>2. losses' > 0
            BY <1>12 DEF RetryExact
        <3> QED BY <1>12, <3>1, <3>2 DEF RetryExact
    <2>3. \A m \in net' : m.live = FALSE /\ m.q.run <= run
        BY <1>2, <1>12 DEF RetryExact
    <2> QED BY <1>12, <2>1, <2>2, <2>3 DEF RetryExact
<1>13. ASSUME Publish PROVE ProcessInv' /\ RunTypeOK'
    <2>1. run \in Runs /\ winner \in Kinds /\ root[run] = closing[winner]
        <3>1. run \in Runs /\ winner \in Kinds
            BY <1>13 DEF Publish
        <3>2. CASE winner = "FaultRestoration"
            BY <1>13, <3>1, <3>2 DEF Publish, Accepted, StoreInv,
               ReceiptsAgree, closing
        <3>3. CASE winner # "FaultRestoration"
            <4>1. WinnerRequest \in results
                BY <1>13, <3>3 DEF Publish, Accepted
            <4>2. WinnerRequest.kind = winner /\ WinnerRequest.run = run
                BY <3>3
            <4> QED BY <3>1, <3>3, <4>1, <4>2 DEF StoreInv, ResultsAgree, Kinds
        <3> QED BY <3>1, <3>2, <3>3
    <2>2. told' = [told EXCEPT ![run] = root[run]]
        BY <1>13, <2>1 DEF Publish
    <2>3. closing[winner] \in Closings
        BY <2>1, ClosingType
    <2>4. RunTypeOK'
        BY <1>0, <1>13, <2>1, <2>2, <2>3 DEF Publish
    <2> QED BY <1>13, <2>1, <2>2, <2>4 DEF Publish
<1>14. ASSUME NotAccepted PROVE ProcessInv' /\ RunTypeOK'
    BY <1>0, <1>14 DEF NotAccepted
<1>15. ASSUME InstallDeliveredHall PROVE ProcessInv' /\ RunTypeOK'
    <2>1. run \in Runs /\ root[run] = "Extraction" /\ told[run] = "Extraction"
        BY <1>15 DEF InstallDeliveredHall, closing
    <2>2. \A r \in Runs : root[r] \notin {"Active", "Death"}
        BY <2>1 DEF StoreInv, LocationFollowsRoot
    <2>3. life = "Living" /\ location = "Hall"
        BY <2>2 DEF StoreInv, StoreTypeOK, LocationFollowsRoot
    <2>4. \A r \in Runs : r <= run => root[r] \in Closings /\ told[r] = root[r]
        BY <2>1, <2>2 DEF StoreInv, StoreTypeOK, RootsInOrder, RootStates, Runs
    <2> QED BY <1>0, <1>15, <2>3, <2>4 DEF InstallDeliveredHall
<1> QED BY <1>0, <1>6, <1>7, <1>8, <1>9, <1>10, <1>11, <1>12, <1>13, <1>14,
           <1>15 DEF Owner

\* A crash leaves the store alone and nobody waiting.
LEMMA CrashKeeps ==
    ASSUME DangerInv, Crash
    PROVE  DangerInv'
<1>0. StoreInv' /\ StoreTypeOK'
    BY UnchangedKeepsStore DEF DangerInv, StoreInv, Crash
<1>1. Abandon
    BY DEF Crash
<1>2. /\ net' \subseteq [q : Requests, live : BOOLEAN]
      /\ \A m \in net' : m.q.run <= run
      /\ \A m \in net' : m.live = FALSE
      /\ answer' = "None"
    BY <1>1, AbandonFacts DEF DangerInv
<1> USE DEF DangerInv, RunTypeOK, ProcessInv, LiveCalls, NetRuns, PhaseFacts,
        AnswersAgree, NoRivals, ExitStands, DecisionStands, ToldIsTrue, HallIsSettled,
        OwnerEndsItsRun, RestartResolves, storeVars, driverVars, decision, counters,
        Request, BellRequest, WinnerRequest, RestoreRequest, LateWrite,
        ExitIsStale, Phases, Answers
<1>3. RunTypeOK'
    <2>1. crashes' \in 0 .. MaxCrashes
        BY RunAssumption DEF Crash
    <2>2. net' \subseteq [q : Requests, live : BOOLEAN]
        BY <1>2
    <2> QED BY <1>0, <1>2, <2>1, <2>2 DEF Crash
<1>4. ProcessInv'
    BY <1>2 DEF Crash
<1> QED BY <1>0, <1>3, <1>4

\* A character that is dead or in the hall is shown the end its last run had.
LEMMA SettledFacts ==
    ASSUME DangerInv, life = "Dead" \/ location = "Hall"
    PROVE  /\ \A r \in Runs : r <= run => root[r] \in Closings
           /\ run \in Runs => root[run] \in Closings
           /\ life = "Dead" => run \in Runs
           /\ run \in Runs \/ run = 0
<1> USE DEF DangerInv, StoreInv, StoreTypeOK, Runs
<1>1. \A r \in Runs : root[r] # "Active"
    BY DEF LocationFollowsRoot
<1>2. \A r \in Runs : r <= run => root[r] \in Closings
    BY <1>1 DEF RootsInOrder, RootStates
<1>3. life = "Dead" => run \in Runs
    BY DEF LocationFollowsRoot
<1> QED BY <1>2, <1>3

\* Showing it keeps what is told true and opens the hall only when settled.
LEMMA ShowFacts ==
    ASSUME DangerInv, life = "Dead" \/ location = "Hall",
           ShowSettled, UNCHANGED storeVars
    PROVE  /\ told' \in [Runs -> Closings \cup {"None"}]
           /\ ToldIsTrue' /\ HallIsSettled'
           /\ phase' \in {"Hall", "Ended"}
           /\ phase' = "Ended" => run \in Runs
<1>1. \/ run = 0 /\ told' = told
      \/ run \in Runs /\ told' = [told EXCEPT ![run] = root[run]]
    BY SettledFacts DEF ShowSettled, Runs
<1>2. told \in [Runs -> Closings \cup {"None"}]
    BY DEF DangerInv, RunTypeOK
<1>3. told' \in [Runs -> Closings \cup {"None"}]
    BY <1>1, <1>2, SettledFacts
<1>4. \A r \in Runs : r <= run => told'[r] = root[r]
    <2> SUFFICES ASSUME NEW r \in Runs, r <= run PROVE told'[r] = root[r]
        OBVIOUS
    <2>1. r = run \/ r < run
        BY DEF DangerInv, StoreInv, StoreTypeOK, Runs
    <2>2. run # 0
        BY DEF Runs
    <2>3. CASE r = run
        BY <1>1, <1>2, <2>2, <2>3
    <2>4. CASE r # run
        BY <1>1, <1>2, <2>1, <2>2, <2>4 DEF DangerInv, ToldIsTrue
    <2> QED BY <2>3, <2>4
<1>5. ToldIsTrue'
    BY <1>1, <1>2, <1>4 DEF DangerInv, ToldIsTrue, storeVars
<1>6. HallIsSettled'
    BY <1>4, SettledFacts DEF HallIsSettled, ShowSettled, DangerInv, StoreInv,
       StoreTypeOK, storeVars
<1>7. phase' \in {"Hall", "Ended"} /\ (phase' = "Ended" => run \in Runs)
    BY SettledFacts DEF ShowSettled
<1> QED BY <1>3, <1>5, <1>6, <1>7

\* The stored answer of a crash restoration agrees with the store.
LEMMA AnswerMatches ==
    ASSUME DangerInv, phase = "Reloading"
    PROVE  receipt_matches_bootstrap
<1>1. run \in Runs /\ answer = receipt[run] /\ receipt[run] # "None"
    BY DEF DangerInv, PhaseFacts, AnswersAgree
<1>2. root[run] = IF answer = "AlreadyRestored" THEN "Restored" ELSE answer
    BY <1>1 DEF DangerInv, StoreInv, ReceiptsAgree
<1>3. answer \in Closings \cup {"AlreadyRestored"}
    BY <1>1 DEF DangerInv, StoreInv, StoreTypeOK
<1>4. CASE answer = "Death"
    BY <1>1, <1>2, <1>4 DEF DangerInv, StoreInv, LocationFollowsRoot,
       receipt_matches_bootstrap
<1>5. CASE answer # "Death"
    <2>1. \A r \in Runs : root[r] \notin {"Active", "Death"}
        BY <1>1, <1>2, <1>3, <1>5 DEF DangerInv, StoreInv, LocationFollowsRoot,
           Closings
    <2>2. life = "Living" /\ location = "Hall"
        BY <2>1 DEF DangerInv, StoreInv, StoreTypeOK, LocationFollowsRoot
    <2>3. answer = "Restored" => version = restoredVersion[run]
        BY <1>1 DEF DangerInv, StoreInv, ReceiptsAgree
    <2> QED BY <1>2, <1>3, <1>5, <2>2, <2>3 DEF receipt_matches_bootstrap,
               Closings
<1> QED BY <1>4, <1>5

\* The attachment of a transport and the resolver.
LEMMA BootstrapKeeps ==
    ASSUME DangerInv, Bootstrap
    PROVE  DangerInv'
<1>0. UNCHANGED storeVars /\ StoreInv' /\ StoreTypeOK'
    BY UnchangedKeepsStore DEF DangerInv, StoreInv, Bootstrap, AttachSettled,
       AttachDanger, RestoreAnswered, RestoreFails, ReloadMatched, ReloadFails
<1>1. ASSUME AttachDanger
      PROVE  /\ run \in Runs
             /\ net' \subseteq [q : Requests, live : BOOLEAN]
             /\ \A m \in net' : m.q.run <= run
             /\ \A m \in net' : m \in net \/ (m.q = RestoreRequest /\ m.live)
             /\ \A m, n \in net' : m.live /\ n.live => m = n
             /\ answer' = "None"
    <2>0. \A m \in net : ~m.live
        BY <1>1 DEF DangerInv, LiveCalls, AttachDanger
    <2>1. run \in Runs
        BY <1>1 DEF AttachDanger, DangerInv, StoreInv, LocationFollowsRoot
    <2>2. RestoreRequest \in Requests /\ RestoreRequest.run = run
        BY <2>1, RequestFacts DEF DangerInv
    <2> QED BY <1>1, <2>0, <2>1, <2>2, CallFacts DEF DangerInv, AttachDanger
<1>2. ASSUME RestoreFails
      PROVE  /\ net' \subseteq [q : Requests, live : BOOLEAN]
             /\ \A m \in net' : m.q.run <= run
             /\ \A m \in net' : m.live = FALSE
             /\ answer' = "None"
    BY <1>2, AbandonFacts DEF DangerInv, RestoreFails
<1>3. ASSUME ReloadMatched PROVE life = "Dead" \/ location = "Hall"
    BY <1>3 DEF ReloadMatched, receipt_matches_bootstrap
<1>4. ASSUME RestoreAnswered PROVE answer # "Error"
    BY <1>4 DEF RestoreAnswered, DangerInv, PhaseFacts, AnswersAgree, StoreInv,
       StoreTypeOK, Closings
<1>5. ASSUME AttachSettled \/ ReloadMatched
      PROVE  /\ told' \in [Runs -> Closings \cup {"None"}]
             /\ ToldIsTrue' /\ HallIsSettled'
             /\ phase' \in {"Hall", "Ended"}
             /\ phase' = "Ended" => run \in Runs
    BY <1>0, <1>3, <1>5, ShowFacts DEF AttachSettled, ReloadMatched
<1> USE DEF DangerInv, RunTypeOK, ProcessInv, LiveCalls, NetRuns, PhaseFacts,
        AnswersAgree, NoRivals, ExitStands, DecisionStands, ToldIsTrue, HallIsSettled,
        OwnerEndsItsRun, RestartResolves, storeVars, driverVars, decision, counters,
        Request, BellRequest, WinnerRequest, RestoreRequest, LateWrite,
        ExitIsStale, Phases, Answers
<1>6. ASSUME AttachSettled PROVE ProcessInv' /\ RunTypeOK'
    <2>1. RunTypeOK'
        BY <1>0, <1>5, <1>6 DEF AttachSettled
    <2>2. ToldIsTrue' /\ HallIsSettled'
        BY <1>5, <1>6
    <2> HIDE DEF ToldIsTrue, HallIsSettled
    <2> QED BY <1>0, <1>5, <1>6, <2>1, <2>2 DEF AttachSettled
<1>7. ASSUME AttachDanger PROVE ProcessInv' /\ RunTypeOK'
    BY <1>0, <1>1, <1>7 DEF AttachDanger
<1>8. ASSUME RestoreAnswered PROVE ProcessInv' /\ RunTypeOK'
    BY <1>0, <1>4, <1>8 DEF RestoreAnswered
<1>9. ASSUME RestoreFails PROVE ProcessInv' /\ RunTypeOK'
    <2>1. RunTypeOK'
        <3>1. losses' \in 0 .. MaxLosses
            BY <1>9, RunAssumption DEF RestoreFails
        <3> QED BY <1>0, <1>2, <1>9, <3>1 DEF RestoreFails
    <2> QED BY <1>0, <1>2, <1>9, <2>1 DEF RestoreFails
<1>10. ASSUME ReloadMatched PROVE ProcessInv' /\ RunTypeOK'
    <2>1. RunTypeOK'
        BY <1>0, <1>5, <1>10 DEF ReloadMatched
    <2>2. ToldIsTrue' /\ HallIsSettled'
        BY <1>5, <1>10
    <2> HIDE DEF ToldIsTrue, HallIsSettled
    <2> QED BY <1>0, <1>5, <1>10, <2>1, <2>2 DEF ReloadMatched
<1>11. ASSUME ReloadFails PROVE ProcessInv' /\ RunTypeOK'
    BY <1>0, <1>11, AnswerMatches DEF ReloadFails
<1> QED BY <1>0, <1>6, <1>7, <1>8, <1>9, <1>10, <1>11 DEF Bootstrap

-----------------------------------------------------------------------------
(***************************************************************************)
(* The steps that change the store.                                        *)
(***************************************************************************)
\* The realm gate: everything told so far is true of the runs before.
LEMMA EnterKeeps ==
    ASSUME DangerInv, EnterDanger
    PROVE  DangerInv'
<1>0. StoreInv' /\ StoreTypeOK'
    BY EnterKeepsStore DEF DangerInv, StoreInv, EnterDanger
<1>1. /\ run \in Nat /\ run' = run + 1 /\ run + 1 \in Runs
      /\ root' = [root EXCEPT ![run + 1] = "Active"]
      /\ version \in Nat
    BY StoreAssumption DEF DangerInv, StoreInv, StoreTypeOK, EnterDanger,
       EnterTransaction, Runs
<1>2. \A r \in Runs : r < run + 1 => told[r] = root[r] /\ root'[r] = root[r]
    BY <1>1 DEF DangerInv, HallIsSettled, EnterDanger, StoreInv, StoreTypeOK, Runs
<1>3. \A r \in Runs : told[r] # "None" => told[r] = root[r] /\ r # run + 1
    BY <1>1 DEF DangerInv, ToldIsTrue, StoreInv, RootsInOrder
<1>4. ToldIsTrue'
    BY <1>1, <1>2, <1>3 DEF EnterDanger, ToldIsTrue, DangerInv, StoreInv,
       StoreTypeOK
<1>5. \A m \in net : m.q.run <= run + 1 /\ m.q.run # run + 1
    BY <1>1 DEF DangerInv, NetRuns, RunTypeOK, Requests, Runs
<1> USE DEF DangerInv, RunTypeOK, ProcessInv, LiveCalls, NetRuns, PhaseFacts,
        AnswersAgree, NoRivals, ExitStands, DecisionStands, ToldIsTrue, HallIsSettled,
        OwnerEndsItsRun, RestartResolves, storeVars, driverVars, decision, counters,
        Request, BellRequest, WinnerRequest, RestoreRequest, LateWrite,
        ExitIsStale, Phases, Answers
<1>6. RunTypeOK'
    <2>1. version + 1 \in Nat
        BY <1>1
    <2> QED BY <1>0, <2>1 DEF EnterDanger
<1> HIDE DEF ToldIsTrue
<1> QED BY <1>0, <1>1, <1>4, <1>5, <1>6 DEF EnterDanger

\* The resolver is answered with the stored result of the run.
LEMMA RestoreAnswerIsStored ==
    ASSUME StoreInv, NEW q \in Requests, q.run = run,
           RestoreFresh(q) \/ RestoreLost(q) \/ RestoreUnchanged(q)
    PROVE  RestoreAnswer(q) = receipt'[run]
<1>1. run \in Runs /\ root[run] # "None" /\ DOMAIN receipt = Runs
    BY DEF Requests, StoreInv, StoreTypeOK, RootsInOrder, Runs
<1>2. CASE RestoreFresh(q)
    BY <1>1, <1>2 DEF RestoreFresh, RestoreAnswer, Closings
<1>3. CASE RestoreLost(q)
    BY <1>1, <1>3 DEF RestoreLost, RestoreAnswer
<1>4. CASE RestoreUnchanged(q)
    <2>1. receipt[run] # "None"
        BY <1>1, <1>4, ActiveIsCurrent DEF RestoreUnchanged
    <2> QED BY <1>4, <2>1 DEF RestoreUnchanged, RestoreAnswer, storeVars
<1> QED BY <1>2, <1>3, <1>4

\* An applied transaction keeps the store's part and moves nothing else but
\* the caller's answer.
LEMMA ApplyFacts ==
    ASSUME DangerInv, NEW m \in net, Apply(m)
    PROVE  /\ StoreInv' /\ StoreGrows
           /\ net' = net \ {m}
           /\ ~m.live => answer' = answer
           /\ m.live => answer' \in Answers
           /\ UNCHANGED <<phase, driverVars, retained, decision, told, counters>>
<1>1. m.q \in Requests /\ StoreInv
    BY DEF DangerInv, RunTypeOK
<1>2. CASE ApplyTransfer(m)
    BY <1>1, <1>2, BellKeepsStore, UnchangedKeepsStore
       DEF ApplyTransfer, AnswerTo, Replayed, TransferRefused, Answers
<1>5. CASE ApplyConsumable(m)
    BY <1>1, <1>5, ConsumableKeepsStore, UnchangedKeepsStore
       DEF ApplyConsumable, AnswerTo, Replayed, ConsumableRefused, Answers
<1>3. CASE ApplyTerminal(m)
    BY <1>1, <1>3, TerminalKeepsStore, UnchangedKeepsStore
       DEF ApplyTerminal, AnswerTo, Replayed, Refused, Answers
<1>4. CASE ApplyRestore(m)
    <2>1. RestoreAnswer(m.q) \in Answers
        BY <1>1 DEF RestoreAnswer, TerminalCode, Answers, Closings, StoreInv,
           StoreTypeOK, Requests
    <2>2. StoreInv' /\ StoreGrows
        BY <1>1, <1>4, RestoreKeepsStore, LostKeepsStore, UnchangedKeepsStore
           DEF ApplyRestore, RestoreUnchanged
    <2> QED BY <1>4, <2>1, <2>2 DEF ApplyRestore, AnswerTo
<1> QED BY <1>2, <1>3, <1>4, <1>5 DEF Apply

\* A decision that stands is not overtaken by what else is under way.
LEMMA ApplyKeepsDecision ==
    ASSUME DangerInv, NEW m \in net, Apply(m)
    PROVE  DecisionStands'
<1> SUFFICES ASSUME phase \in {"Prepared", "Awaiting"} PROVE DecisionStands'
    BY ApplyFacts DEF DecisionStands
<1>1. /\ run \in Runs /\ winner \in Kinds /\ m.q \in Requests
      /\ StoreInv /\ StoreInv' /\ StoreGrows
      /\ UNCHANGED <<phase, route, winner, planned, losses>>
    BY ApplyFacts DEF DangerInv, PhaseFacts, RunTypeOK, driverVars, decision, counters
<1>2. /\ BellRequest' = BellRequest /\ WinnerRequest' = WinnerRequest
      /\ Request("Consumable", 0, planned)' = Request("Consumable", 0, planned)
    BY <1>1 DEF StoreGrows, Request, BellRequest, WinnerRequest, RestoreRequest
<1>3. CASE /\ root[run] = "Active" /\ version = route
           /\ winner = "FaultRestoration" \/ inventory = planned
    <2>1. CASE UNCHANGED <<root, version, inventory>>
        BY <1>1, <1>3, <2>1 DEF StoreGrows, DecisionStands
    <2>2. CASE ~UNCHANGED <<root, version, inventory>>
        <3>0. TerminalFresh(m.q) =>
                 m.q \notin results /\ InDanger(m.q) /\ m.q \in results'
            BY <1>1, TerminalFreshFacts DEF HeadsMatch, Current
        <3>1. m.q.run = run /\ m.q \notin results
            BY <1>1, <2>2, <3>0 DEF Apply, ApplyTransfer, ApplyConsumable,
               ApplyTerminal, ApplyRestore, BellFresh, ConsumableFresh, Current,
               InDanger, Replayed, Refused, TransferRefused, ConsumableRefused,
               RestoreFresh, RestoreLost, RestoreUnchanged, storeVars, StoreInv,
               ResultsAgree
        <3>2. \/ m.q = WinnerRequest
              \/ /\ \/ m.q = BellRequest
                    \/ m.q = Request("Consumable", 0, m.q.inventory)
                 /\ m.live \/ losses > 0
            BY <3>1 DEF DangerInv, NoRivals
        <3>3. CASE m.q = BellRequest
            <4>1. m.q.kind = "Bell" /\ m.q # WinnerRequest
                BY <1>1, <3>3 DEF BellRequest, WinnerRequest, RestoreRequest,
                   Request, Kinds
            <4>2. ~m.live
                BY <4>1 DEF DangerInv, LiveCalls
            <4>3. m.q \in results'
                BY <2>2, <4>1 DEF Apply, ApplyTransfer, ApplyConsumable,
                   ApplyTerminal, ApplyRestore, BellFresh, Replayed,
                   TransferRefused, storeVars, Kinds
            <4> QED BY <1>1, <1>2, <3>2, <3>3, <4>1, <4>2, <4>3
                    DEF DecisionStands, LateWrite
        <3>4. CASE m.q = Request("Consumable", 0, m.q.inventory)
            <4>1. m.q.kind = "Consumable" /\ m.q # WinnerRequest /\ m.q # BellRequest
                BY <1>1, <3>4 DEF BellRequest, WinnerRequest, RestoreRequest,
                   Request, Kinds
            <4>2. ~m.live /\ losses > 0
                BY <3>2, <4>1 DEF DangerInv, LiveCalls
            <4>3. ConsumableFresh(m.q)
                BY <2>2, <4>1 DEF Apply, ApplyTransfer, ApplyConsumable,
                   ApplyTerminal, ApplyRestore, Replayed, ConsumableRefused,
                   storeVars, Kinds
            <4>4. m.q \in results' /\ m.q.inventory = inventory
                  /\ UNCHANGED <<root, version>>
                BY <4>3 DEF ConsumableFresh
            <4>5. CASE winner = "FaultRestoration"
                BY <1>1, <1>3, <4>4, <4>5 DEF StoreGrows, DecisionStands
            <4>6. CASE winner # "FaultRestoration"
                <5>1. m.q = Request("Consumable", 0, planned)
                    BY <1>3, <3>4, <4>4, <4>6
                <5> QED BY <1>1, <1>2, <4>2, <4>4, <4>6, <5>1
                        DEF DecisionStands, LateWrite
            <4> QED BY <4>5, <4>6
        <3>5. CASE m.q = WinnerRequest /\ m.q.kind # "FaultRestoration"
            <4>1. winner # "FaultRestoration" /\ m.q.kind = winner
                BY <3>5 DEF WinnerRequest, RestoreRequest, Request
            <4>2. m.q \in results'
                BY <1>1, <2>2, <3>0, <3>5, <4>1 DEF Apply, ApplyTransfer,
                   ApplyConsumable, ApplyTerminal, ApplyRestore, Replayed, Refused,
                   storeVars, Kinds
            <4> QED BY <1>1, <1>2, <3>5, <4>1, <4>2 DEF DecisionStands
        <3>6. CASE m.q = WinnerRequest /\ m.q.kind = "FaultRestoration"
            <4>1. RestoreFresh(m.q)
                BY <2>2, <3>6 DEF Apply, ApplyTransfer, ApplyConsumable,
                   ApplyTerminal, ApplyRestore, RestoreLost, RestoreUnchanged,
                   storeVars
            <4>2. winner = "FaultRestoration"
                BY <3>6 DEF WinnerRequest, Request
            <4>3. receipt'[run] = "Restored" /\ restoredVersion'[run] = route + 1
                BY <1>1, <1>3, <3>1, <4>1 DEF RestoreFresh, StoreInv, StoreTypeOK
            <4> QED BY <1>1, <4>2, <4>3 DEF DecisionStands, StoreGrows
        <3> QED BY <3>2, <3>3, <3>4, <3>5, <3>6
    <2> QED BY <2>1, <2>2
<1>4. CASE losses > 0 /\ LateWrite
    BY <1>1, <1>2, <1>4 DEF StoreGrows, DecisionStands, LateWrite
<1>5. CASE winner # "FaultRestoration" /\ WinnerRequest \in results
    BY <1>1, <1>2, <1>5 DEF StoreGrows, DecisionStands
<1>6. CASE /\ winner = "FaultRestoration"
           /\ receipt[run] = "Restored" /\ restoredVersion[run] = route + 1
    BY <1>1, <1>6 DEF StoreGrows, DecisionStands
<1> QED BY <1>3, <1>4, <1>5, <1>6 DEF DangerInv, DecisionStands

\* The exit's head is moved by a consumable that was given up, or not at all.
LEMMA ApplyKeepsExit ==
    ASSUME DangerInv, NEW m \in net, Apply(m)
    PROVE  ExitStands'
<1> SUFFICES ASSUME phase \in {"Watching", "Frozen", "Converting"}, actor
             PROVE  ExitStands'
    BY ApplyFacts DEF ExitStands, driverVars
<1>1. /\ run \in Runs /\ m.q \in Requests /\ StoreInv /\ StoreGrows
      /\ UNCHANGED <<phase, actor, exit, losses>>
    BY ApplyFacts DEF DangerInv, PhaseFacts, RunTypeOK, driverVars, counters
<1>2. Request("Consumable", 0, exit)' = Request("Consumable", 0, exit)
    BY <1>1 DEF StoreGrows, Request
<1>3. CASE inventory' = inventory
    BY <1>1, <1>2, <1>3 DEF DangerInv, ExitStands, StoreGrows
<1>4. CASE losses > 0 /\ Request("Consumable", 0, exit) \in results
    BY <1>1, <1>2, <1>4 DEF ExitStands, StoreGrows
<1>5. CASE inventory' # inventory /\ exit = inventory
    <2>0. TerminalFresh(m.q) => m.q \notin results /\ InDanger(m.q)
        BY <1>1, TerminalFreshFacts DEF HeadsMatch, Current
    <2>1. m.q.run = run /\ m.q \notin results /\ m.q.kind # "Bell"
        BY <1>1, <1>5, <2>0 DEF Apply, ApplyTransfer, ApplyConsumable,
           ApplyTerminal, ApplyRestore, BellFresh, ConsumableFresh, InDanger,
           Replayed, Refused, TransferRefused, ConsumableRefused, RestoreFresh,
           RestoreLost, RestoreUnchanged, storeVars, StoreInv, ResultsAgree, Kinds
    <2>2. /\ m.q = Request("Consumable", 0, m.q.inventory)
          /\ m.live \/ losses > 0
        BY <2>1 DEF DangerInv, NoRivals, BellRequest, Request
    <2>3. m.q.kind = "Consumable"
        BY <2>2 DEF Request
    <2>4. losses > 0
        BY <2>2, <2>3 DEF DangerInv, LiveCalls, BellRequest, Request
    <2>5. ConsumableFresh(m.q)
        BY <1>5, <2>3 DEF Apply, ApplyTransfer, ApplyConsumable, ApplyTerminal,
           ApplyRestore, Replayed, ConsumableRefused, storeVars, Kinds
    <2>6. m.q \in results' /\ m.q.inventory = exit
        BY <1>5, <2>5 DEF ConsumableFresh
    <2>7. m.q = Request("Consumable", 0, exit)
        BY <2>2, <2>6
    <2> QED BY <1>1, <1>2, <2>4, <2>6, <2>7 DEF ExitStands
<1> QED BY <1>3, <1>4, <1>5 DEF DangerInv, ExitStands

\* A caller that waits is told what its own request did.
LEMMA ApplyKeepsAnswers ==
    ASSUME DangerInv, NEW m \in net, Apply(m)
    PROVE  AnswersAgree'
<1>1. /\ m.q \in Requests
      /\ StoreInv /\ StoreGrows
      /\ UNCHANGED <<phase, route, winner, planned, losses>>
      /\ ~m.live => answer' = answer
      /\ phase = "Reloading" => answer # "None"
    BY ApplyFacts DEF DangerInv, RunTypeOK, driverVars, decision, counters, AnswersAgree
<1>2. /\ BellRequest' = BellRequest
      /\ WinnerRequest' = WinnerRequest /\ RestoreRequest' = RestoreRequest
      /\ ExitIsStale(WinnerRequest)' = ExitIsStale(WinnerRequest)
      /\ LateWrite => LateWrite'
    BY <1>1 DEF StoreGrows, Request, BellRequest, WinnerRequest, RestoreRequest,
       ExitIsStale, LateWrite
<1>3. CASE ~m.live
    BY <1>1, <1>2, <1>3 DEF DangerInv, AnswersAgree, StoreGrows, PhaseFacts
<1>4. CASE m.live
    <2>1. ASSUME m.q.kind # "FaultRestoration"
          PROVE  /\ answer' \in {"Fresh", "Replayed", "Refused"}
                 /\ answer' # "Refused" => m.q \in results'
                 /\ answer' = "Refused" /\ m.q.kind \in Kinds =>
                       m.q \notin results /\ ~HeadsMatch(m.q)
        <3>1. TerminalFresh(m.q) => m.q \in results'
            BY <1>1, TerminalFreshFacts
        <3> QED BY <1>4, <2>1, <3>1 DEF Apply, ApplyTransfer, ApplyConsumable,
                   ApplyTerminal, ApplyRestore, AnswerTo, BellFresh,
                   ConsumableFresh, Replayed, Refused, storeVars, Kinds
    <2>2. CASE phase = "Frozen" /\ m.q = BellRequest
        <3>1. m.q.kind # "FaultRestoration"
            BY <2>2 DEF BellRequest, Request
        <3> QED BY <1>1, <1>2, <2>1, <2>2, <3>1 DEF AnswersAgree
    <2>3. CASE phase = "Awaiting" /\ m.q = WinnerRequest
               /\ winner # "FaultRestoration"
        <3>1. m.q = Request(winner, route, planned) /\ m.q.kind # "FaultRestoration"
            BY <2>3 DEF WinnerRequest, Request
        <3>2. run \in Runs /\ winner \in Kinds
            BY <2>3 DEF DangerInv, PhaseFacts
        <3>3. root[run] = "Active" /\ version = route /\ inventory = planned
                 => HeadsMatch(m.q) \/ ExitIsStale(m.q)
            BY <1>1, <3>1, <3>2, ActiveIsCurrent DEF HeadsMatch, Current, InDanger,
               Request
        <3>4. m.q.kind = winner
            BY <3>1 DEF Request
        <3>5. answer' = "Refused" => \/ losses > 0 /\ LateWrite
                                     \/ ExitIsStale(WinnerRequest)
            BY <2>1, <2>3, <3>1, <3>2, <3>3, <3>4 DEF DangerInv, DecisionStands
        <3> QED BY <1>1, <1>2, <2>1, <2>3, <3>1, <3>5 DEF AnswersAgree, StoreGrows
    <2>4. CASE /\ m.q = RestoreRequest
               /\ \/ phase = "Awaiting" /\ winner = "FaultRestoration"
                  \/ phase = "Restoring"
        <3>1. m.q.kind = "FaultRestoration" /\ m.q.run = run
            BY <2>4 DEF RestoreRequest, Request
        <3>2. /\ RestoreFresh(m.q) \/ RestoreLost(m.q) \/ RestoreUnchanged(m.q)
              /\ answer' = RestoreAnswer(m.q)
            BY <1>4, <3>1 DEF Apply, ApplyTransfer, ApplyConsumable, ApplyTerminal,
               ApplyRestore, AnswerTo
        <3>3. answer' = receipt'[run] /\ run' = run
            BY <1>1, <3>1, <3>2, RestoreAnswerIsStored DEF StoreGrows
        <3> QED BY <1>1, <2>4, <3>3 DEF AnswersAgree
    <2>5. CASE phase = "Reserved"
        BY <1>1, <2>5 DEF AnswersAgree
    <2> QED BY <1>4, <2>2, <2>3, <2>4, <2>5 DEF DangerInv, LiveCalls, WinnerRequest
<1> QED BY <1>3, <1>4

\* A transaction that is applied, whoever sent it.
LEMMA ApplyKeeps ==
    ASSUME DangerInv, NEW m \in net, Apply(m)
    PROVE  DangerInv'
<1>1. /\ StoreInv' /\ StoreGrows
      /\ net' \subseteq net
      /\ ~m.live => answer' = answer
      /\ answer' \in Answers
      /\ UNCHANGED <<phase, driverVars, retained, decision, told, counters>>
    BY ApplyFacts DEF DangerInv, RunTypeOK
<1>2. RunTypeOK'
    BY <1>1 DEF DangerInv, RunTypeOK, StoreInv, driverVars, decision, counters
<1>3. /\ run' = run /\ BellRequest' = BellRequest
      /\ WinnerRequest' = WinnerRequest /\ RestoreRequest' = RestoreRequest
      /\ \A i : Request("Consumable", 0, i)' = Request("Consumable", 0, i)
      /\ UNCHANGED <<actor, winner, losses>>
    BY <1>1 DEF StoreGrows, Request, BellRequest, WinnerRequest, RestoreRequest,
       driverVars, decision, counters
<1>4. LiveCalls'
    <2> SUFFICES ASSUME NEW n \in net', n.live
                 PROVE  /\ answer' = "None"
                        /\ \A k \in net' : k.live => k = n
                        /\ \/ phase = "Frozen" /\ n.q = BellRequest
                           \/ phase = "Reserved" /\ n.q.kind = "Consumable"
                           \/ phase = "Awaiting" /\ n.q = WinnerRequest
                           \/ phase = "Restoring" /\ n.q = RestoreRequest
        BY <1>1, <1>3 DEF LiveCalls
    <2>1. n \in net /\ n # m /\ net' \subseteq net
        BY ApplyFacts
    <2>2. ~m.live
        BY <2>1 DEF DangerInv, LiveCalls, RunTypeOK
    <2> QED BY <1>1, <2>1, <2>2 DEF DangerInv, LiveCalls
<1>5. NetRuns' /\ PhaseFacts' /\ NoRivals' /\ RestartResolves'
    BY <1>1, <1>3 DEF DangerInv, NetRuns, PhaseFacts, NoRivals, RestartResolves,
       StoreGrows
<1>6. \A r \in Runs : root[r] \in Closings => root'[r] = root[r]
    BY <1>1 DEF StoreGrows, Closings
<1>7. ToldIsTrue'
    <2>1. \A r \in Runs : told[r] # "None" => root[r] \in Closings
        BY DEF DangerInv, RunTypeOK, ToldIsTrue
    <2>2. \A r \in Runs : r < run => root[r] # "Active"
        BY ActiveIsCurrent DEF DangerInv, Runs
    <2> QED BY <1>1, <1>6, <2>1, <2>2 DEF DangerInv, ToldIsTrue, StoreGrows
<1>8. HallIsSettled'
    <2> SUFFICES ASSUME phase = "Hall" PROVE HallIsSettled'
        BY <1>1 DEF HallIsSettled
    <2>1. \A r \in Runs : root[r] # "Active"
        BY ActiveIsCurrent DEF DangerInv, HallIsSettled
    <2>2. \A r \in Runs : root'[r] = root[r]
        BY <1>1, <2>1 DEF StoreGrows
    <2>3. \A r \in Runs : root'[r] \notin {"Active", "Death"}
        BY <2>1, <2>2 DEF DangerInv, HallIsSettled, StoreInv, LocationFollowsRoot
    <2>4. life' = "Living" /\ location' = "Hall"
        BY <1>1, <2>3 DEF StoreInv, StoreTypeOK, LocationFollowsRoot
    <2> QED BY <1>1, <1>3, <2>2, <2>4 DEF DangerInv, HallIsSettled
<1>9. OwnerEndsItsRun'
    BY <1>1, <1>3, <1>6, ClosingType DEF DangerInv, OwnerEndsItsRun, RunTypeOK,
       PhaseFacts
<1> QED BY <1>1, <1>2, <1>4, <1>5, <1>7, <1>8, <1>9, ApplyKeepsDecision,
           ApplyKeepsExit, ApplyKeepsAnswers DEF DangerInv

-----------------------------------------------------------------------------
\* The first hall of a new character.
LEMMA InitIsGood == RunInit => DangerInv
<1> SUFFICES ASSUME RunInit PROVE DangerInv
    OBVIOUS
<1>1. StoreTypeOK
    BY StoreAssumption DEF RunInit, StoreInit, StoreTypeOK, Runs, RootStates,
       Closings, Requests
<1>2. StoreInv
    BY <1>1 DEF StoreInv, RootsInOrder, LocationFollowsRoot, ReceiptsAgree,
       ResultsAgree, RunInit, StoreInit, Runs
<1>3. RunTypeOK
    <2>1. /\ 0 \in 0 .. MaxLosses /\ 0 \in 0 .. MaxCrashes /\ 0 \in 0 .. MaxUses
          /\ 0 \in Nat /\ 1 \in Nat
        BY RunAssumption
    <2>2. told \in [Runs -> Closings \cup {"None"}]
        BY DEF RunInit
    <2> QED BY <1>1, <2>1, <2>2 DEF RunInit, RunTypeOK, Phases, Answers
<1>4. ProcessInv
    BY DEF ProcessInv, LiveCalls, NetRuns, PhaseFacts, AnswersAgree, NoRivals,
       ExitStands, DecisionStands, ToldIsTrue, HallIsSettled, OwnerEndsItsRun,
       RestartResolves, RunInit, StoreInit, Runs
<1> QED BY <1>2, <1>3, <1>4 DEF DangerInv, ProcessInv

\* A stuttering step.
LEMMA StutterKeeps ==
    ASSUME DangerInv, UNCHANGED vars
    PROVE  DangerInv'
<1>1. UNCHANGED storeVars /\ UNCHANGED processVars
      /\ UNCHANGED <<net, counters>>
    BY DEF vars
<1>2. StoreInv' /\ StoreTypeOK'
    BY <1>1, UnchangedKeepsStore DEF DangerInv, StoreInv
<1> QED
    BY <1>1, <1>2 DEF DangerInv, RunTypeOK, LiveCalls, NetRuns, PhaseFacts,
       AnswersAgree, NoRivals, ExitStands, DecisionStands, ToldIsTrue, HallIsSettled,
       OwnerEndsItsRun, RestartResolves, storeVars, processVars, driverVars,
       decision, counters, Request, BellRequest, WinnerRequest, RestoreRequest,
       LateWrite, ExitIsStale

\* The invariant is inductive.
THEOREM DangerInvariant == RunSpec => []DangerInv
<1>1. ASSUME DangerInv, [RunNext]_vars PROVE DangerInv'
    <2>1. CASE EnterDanger
        BY <1>1, <2>1, EnterKeeps
    <2>2. CASE BindMicrorealm \/ Admit \/ RollbackAdmission
        BY <1>1, <2>2, AdmissionKeeps
    <2>3. CASE Bell
        BY <1>1, <2>3, BellKeeps
    <2>9. CASE Belt
        BY <1>1, <2>9, BeltKeeps
    <2>4. CASE Owner
        BY <1>1, <2>4, OwnerKeeps
    <2>5. CASE Crash
        BY <1>1, <2>5, CrashKeeps
    <2>6. CASE Bootstrap
        BY <1>1, <2>6, BootstrapKeeps
    <2>7. CASE \E m \in net : Apply(m)
        BY <1>1, <2>7, ApplyKeeps
    <2>8. CASE UNCHANGED vars
        BY <1>1, <2>8, StutterKeeps
    <2> QED BY <1>1, <2>1, <2>2, <2>3, <2>4, <2>5, <2>6, <2>7, <2>8, <2>9
            DEF RunNext, Admission
<1> QED BY <1>1, InitIsGood, PTL DEF RunSpec

\* Type correctness.
THEOREM RunTypeCorrect == RunSpec => []RunTypeOK
<1>1. DangerInv => RunTypeOK
    BY DEF DangerInv
<1> QED BY <1>1, DangerInvariant, PTL

\* The location row and the life state follow the restore roots.
THEOREM LocationIsConsistent == RunSpec => []LocationFollowsRoot
<1>1. DangerInv => LocationFollowsRoot
    BY DEF DangerInv, StoreInv
<1> QED BY <1>1, DangerInvariant, PTL

\* No restart finds the stored answer and the store in disagreement.
THEOREM RestartsResolve == RunSpec => []RestartResolves
<1>1. DangerInv => RestartResolves
    BY DEF DangerInv
<1> QED BY <1>1, DangerInvariant, PTL

\* The hall is open to settled characters only.
THEOREM HallOnlyWhenSettled == RunSpec => []HallIsSettled
<1>1. DangerInv => HallIsSettled
    BY DEF DangerInv
<1> QED BY <1>1, DangerInvariant, PTL

\* A published end is the durable one.
THEOREM PublishedIsDurable == RunSpec => []OwnerEndsItsRun
<1>1. DangerInv => OwnerEndsItsRun
    BY DEF DangerInv
<1> QED BY <1>1, DangerInvariant, PTL

\* Only a transfer or a consumable that was given up can have the owner refused.
THEOREM RefusalHasOneCause == RunSpec => []RefusedOnlyByLateWrite
<1>1. ASSUME DangerInv PROVE RefusedOnlyByLateWrite
    <2> SUFFICES ASSUME phase = "Awaiting", answer # "None", ~Accepted
                 PROVE  \/ losses > 0 /\ LateWrite
                        \/ ExitIsStale(WinnerRequest)
        BY DEF RefusedOnlyByLateWrite
    <2>1. run \in Runs
        BY <1>1 DEF DangerInv, PhaseFacts
    <2>2. CASE winner # "FaultRestoration"
        BY <1>1, <2>2 DEF Accepted, DangerInv, AnswersAgree
    <2>3. CASE winner = "FaultRestoration"
        <3>1. answer = receipt[run]
            BY <1>1, <2>3 DEF DangerInv, AnswersAgree
        <3>2. root[run] # "Active"
            BY <1>1, <2>1, <3>1 DEF DangerInv, StoreInv, StoreTypeOK,
               ReceiptsAgree, Closings
        <3>3. CASE losses > 0 /\ LateWrite
            BY <3>3
        <3>4. CASE receipt[run] = "Restored" /\ restoredVersion[run] = route + 1
            <4>1. version = restoredVersion[run] /\ root[run] = "Restored"
                BY <1>1, <2>1, <3>4 DEF DangerInv, StoreInv, ReceiptsAgree
            <4>2. location = "Hall"
                BY <1>1, <2>1, <4>1 DEF DangerInv, StoreInv, StoreTypeOK,
                   LocationFollowsRoot
            <4> QED BY <2>3, <3>1, <3>4, <4>1, <4>2 DEF Accepted
        <3> QED BY <1>1, <2>3, <3>2, <3>3, <3>4 DEF DangerInv, DecisionStands
    <2> QED BY <2>2, <2>3
<1> QED BY <1>1, DangerInvariant, PTL

-----------------------------------------------------------------------------
(***************************************************************************)
(* The refinement.                                                         *)
(***************************************************************************)
\* The two modules name the ends of a run alike.
LEMMA EndsAreClosings == Promise!Ends = Closings
BY DEF Promise!Ends, Closings

\* A transaction that is applied closes the latest run or no run.
LEMMA ApplyRefines ==
    ASSUME DangerInv, NEW m \in net, Apply(m)
    PROVE  Promise!OutcomeNext \/ UNCHANGED <<root, told>>
<1>1. UNCHANGED told /\ m.q \in Requests
    BY ApplyFacts DEF DangerInv, RunTypeOK
<1>2. CASE root' = root
    BY <1>1, <1>2
<1>3. CASE root' # root
    <2>1. /\ m.q.run \in Runs /\ root[m.q.run] = "Active"
          /\ \E o \in Closings : root' = [root EXCEPT ![m.q.run] = o]
        <3>1. \/ TerminalFresh(m.q) /\ m.q.kind \in Kinds
              \/ RestoreFresh(m.q)
            BY <1>3 DEF Apply, ApplyTransfer, ApplyConsumable, ApplyTerminal,
               ApplyRestore, BellFresh, ConsumableFresh, Replayed, Refused,
               TransferRefused, ConsumableRefused, RestoreLost, RestoreUnchanged,
               storeVars
        <3>2. CASE TerminalFresh(m.q) /\ m.q.kind \in Kinds
            BY <1>1, <3>2, ClosingType, TerminalFreshFacts DEF HeadsMatch, Current,
               InDanger, Requests
        <3>3. CASE RestoreFresh(m.q)
            BY <1>1, <3>3 DEF RestoreFresh, Closings, Requests
        <3> QED BY <3>1, <3>2, <3>3
    <2>2. Promise!Close(m.q.run)
        BY <1>1, <2>1, EndsAreClosings DEF Promise!Close
    <2> QED BY <2>1, <2>2 DEF Promise!OutcomeNext, Runs
<1> QED BY <1>2, <1>3

\* The realm gate opens a run after the one before has ended and been told.
LEMMA EnterRefines ==
    ASSUME DangerInv, EnterDanger
    PROVE  Promise!OutcomeNext
<1>1. /\ run + 1 \in Runs /\ run \in Nat
      /\ root' = [root EXCEPT ![run + 1] = "Active"] /\ told' = told
    BY StoreAssumption DEF DangerInv, StoreInv, StoreTypeOK, EnterDanger,
       EnterTransaction, Runs
<1>2. root[run + 1] = "None"
    BY <1>1 DEF DangerInv, StoreInv, RootsInOrder
<1>3. \A e \in Runs : e < run + 1 => e <= run
    BY <1>1 DEF Runs
<1>4. \A e \in Runs : root[e] # "Death"
    BY DEF EnterDanger, EnterTransaction, DangerInv, StoreInv, LocationFollowsRoot
<1>5. \A e \in Runs : e < run + 1 =>
         root[e] \in Closings \ {"Death"} /\ told[e] = root[e]
    BY <1>3, <1>4 DEF DangerInv, HallIsSettled, EnterDanger
<1>6. Promise!Open(run + 1)
    BY <1>1, <1>2, <1>5, EndsAreClosings DEF Promise!Open, Runs
<1> QED BY <1>1, <1>6 DEF Promise!OutcomeNext, Runs

\* What is told of a run is its end, once.
LEMMA TellRefines ==
    ASSUME DangerInv, NEW r \in Runs, root[r] \in Closings, root' = root,
           told' = [told EXCEPT ![r] = root[r]]
    PROVE  Promise!OutcomeNext \/ UNCHANGED <<root, told>>
<1>1. told \in [Runs -> Closings \cup {"None"}]
    BY DEF DangerInv, RunTypeOK
<1>2. CASE told[r] = "None"
    <2>1. Promise!Tell(r)
        BY <1>2, EndsAreClosings DEF Promise!Tell
    <2> QED BY <2>1 DEF Promise!OutcomeNext, Runs
<1>3. CASE told[r] # "None"
    <2>1. told[r] = root[r]
        BY <1>3 DEF DangerInv, ToldIsTrue
    <2>2. told' = told
        BY <1>1, <2>1
    <2> QED BY <2>2
<1> QED BY <1>2, <1>3

\* The owner's publication tells the end of the latest run.
LEMMA PublishRefines ==
    ASSUME DangerInv, Publish
    PROVE  Promise!OutcomeNext \/ UNCHANGED <<root, told>>
<1>1. DangerInv'
    BY OwnerKeeps DEF Owner
<1>2. run \in Runs /\ winner \in Kinds /\ UNCHANGED <<run, root, winner>>
    BY DEF DangerInv, PhaseFacts, Publish, storeVars, decision
<1>3. root[run] = closing[winner]
    BY <1>1, <1>2 DEF DangerInv, OwnerEndsItsRun, Publish, Kinds
<1>4. root[run] \in Closings /\ told' = [told EXCEPT ![run] = root[run]]
    BY <1>2, <1>3, ClosingType DEF Publish
<1> QED BY <1>2, <1>4, TellRefines

\* So does the bootstrap of a settled character, unless it was told before.
LEMMA ShowRefines ==
    ASSUME DangerInv, AttachSettled \/ ReloadMatched
    PROVE  Promise!OutcomeNext \/ UNCHANGED <<root, told>>
<1>1. life = "Dead" \/ location = "Hall"
    BY DEF AttachSettled, ReloadMatched, receipt_matches_bootstrap
<1>2. ShowSettled /\ root' = root
    BY DEF AttachSettled, ReloadMatched, storeVars
<1>3. CASE run = 0
    BY <1>2, <1>3 DEF ShowSettled
<1>4. CASE run \in Runs
    <2>1. run # 0
        BY <1>4 DEF Runs
    <2>2. told' = [told EXCEPT ![run] = root[run]] /\ root[run] \in Closings
        BY <1>1, <1>2, <1>4, <2>1, SettledFacts DEF ShowSettled
    <2> QED BY <1>2, <1>4, <2>2, TellRefines
<1> QED BY <1>1, <1>3, <1>4, SettledFacts

\* Every step keeps the promise or is invisible to the player.
LEMMA StepRefines ==
    ASSUME DangerInv, [RunNext]_vars
    PROVE  Promise!OutcomeNext \/ UNCHANGED <<root, told>>
<1>1. CASE EnterDanger
    BY <1>1, EnterRefines
<1>2. CASE BindMicrorealm \/ Admit \/ RollbackAdmission
    BY <1>2 DEF BindMicrorealm, Admit, RollbackAdmission, storeVars
<1>3. CASE Bell
    BY <1>3 DEF Bell, FreezeForBell, BellAnswered, BellLost, BellDropped,
       InstallDungeon, RegisterExtraction, storeVars
<1>9. CASE Belt
    BY <1>9 DEF Belt, UseConsumable, ConsumableAnswered, ConsumableLost,
       ConsumableTimedOut, storeVars
<1>4. CASE Owner
    BY <1>4, PublishRefines DEF Owner, process_frame, process_verified_fault,
       Evaluate, FaultBeforeFirstFrame, StopOwner, RetireBeforeCommit, Execute,
       RetryExact, NotAccepted, InstallDeliveredHall, storeVars
<1>5. CASE Crash
    BY <1>5 DEF Crash, storeVars
<1>6. CASE Bootstrap
    BY <1>6, ShowRefines DEF Bootstrap, AttachDanger, RestoreAnswered,
       RestoreFails, ReloadFails, storeVars
<1>7. CASE \E m \in net : Apply(m)
    BY <1>7, ApplyRefines
<1>8. CASE UNCHANGED vars
    BY <1>8 DEF vars, storeVars, processVars
<1> QED BY <1>1, <1>2, <1>3, <1>4, <1>5, <1>6, <1>7, <1>8, <1>9
        DEF RunNext, Admission

\* A run opens when the one before is over and told, ends once, and what is
\* told of it is the end it had, however transactions are lost, late or
\* repeated and whenever the process crashes.
THEOREM RunsKeepThePromise == RunSpec => PlayerPromise
<1>1. RunInit => Promise!OutcomeInit
    BY DEF RunInit, StoreInit, Promise!OutcomeInit, Runs
<1>2. DangerInv /\ [RunNext]_vars =>
         [Promise!OutcomeNext]_<<root, told>>
    BY StepRefines
<1>3. RunInit /\ [][RunNext]_vars =>
         Promise!OutcomeInit /\ [][Promise!OutcomeNext]_<<root, told>>
    BY <1>1, <1>2, DangerInvariant, PTL DEF RunSpec
<1> QED BY <1>3 DEF PlayerPromise, RunSpec, Promise!OutcomeSpec,
           Promise!outcomeVars

=============================================================================
