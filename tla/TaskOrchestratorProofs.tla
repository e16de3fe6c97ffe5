----------------------- MODULE TaskOrchestratorProofs -----------------------
(* The safety properties of TaskOrchestrator, for every set of tasks, graph, *)
(* set of workers and retry limits.                                          *)
EXTENDS TaskOrchestrator, TLAPS

-----------------------------------------------------------------------------
(* The inductive invariant.                                                  *)

\* Whatever is queued, run or answered was submitted.
OnlyKnownTasks ==
  \A t \in Tasks : t \in queue \/ exec[t] # "none" \/ result[t] # "none" => t \in known

\* Whoever is queued, run or not yet submitted may still fail once more.
RetriesLeft ==
  \A t \in Tasks : t \in queue \/ exec[t] # "none" \/ t \notin known =>
    retries[t] <= MaxRetries[t]

\* A node that is queued or run has no verdict yet.
ActiveNodesUndecided ==
  \A n \in DagNodes : n \in queue \/ exec[n] # "none" => node[n] = "inbox"

\* Nodes are known only once their graph is, and done only when they are known.
KnownNodes ==
  \A n \in DagNodes :
    /\ n \in known => node[n] # "absent"
    /\ node[n] = "done" => n \in known

\* What a node still waits for is what is not done of its dependencies.
WaitsForTheRest ==
  \A n \in DagNodes :
    /\ \A d \in waits[n] : d \in Deps[n] /\ node[d] # "done"
    /\ node[n] = "inbox" => \A d \in Deps[n] : d \in waits[n] \/ node[d] = "done"

\* No slot was registered or given away that was created after the newest.
SlotsInOrder ==
  /\ \A s \in registered : s <= newest
  /\ \A t \in Tasks : \A s \in given[t] : s <= newest

IInv ==
  /\ TypeOK
  /\ OnlyKnownTasks
  /\ RetriesLeft
  /\ ActiveNodesUndecided
  /\ KnownNodes
  /\ WaitsForTheRest
  /\ SlotsInOrder
  /\ AttemptOnce
  /\ BusyWorks
  /\ OnlyUnregisteringLoses
  /\ GraphOrder
  /\ FailureReachesAll

-----------------------------------------------------------------------------
(* What lies behind a failed node.                                           *)

\* Downstream contains the node and everything that depends on a member.
LEMMA DownstreamClosed ==
  ASSUME NEW t \in DagNodes
  PROVE  /\ t \in Downstream(t)
         /\ Closed(Downstream(t))
<1>1. t \in Downstream(t)
  BY DEF Downstream
<1>2. ASSUME NEW n \in DagNodes, NEW d \in Deps[n], d \in Downstream(t)
      PROVE  n \in Downstream(t)
  BY <1>2 DEF Downstream, Closed
<1> QED BY <1>1, <1>2 DEF Closed

\* and nothing else: a member other than the node depends on a member.
LEMMA DownstreamLeast ==
  ASSUME NEW t \in DagNodes, NEW n \in Downstream(t), n # t
  PROVE  Deps[n] \cap Downstream(t) # {}
<1> SUFFICES ASSUME Deps[n] \cap Downstream(t) = {} PROVE FALSE
  OBVIOUS
<1> DEFINE S == Downstream(t) \ {n}
<1>1. t \in S /\ S \in SUBSET DagNodes
  BY DownstreamClosed DEF Downstream
<1>2. Closed(S)
  BY DownstreamClosed DEF Closed
<1>3. n \in S
  BY <1>1, <1>2 DEF Downstream
<1> QED BY <1>3

\* When an undecided node is at work, nothing behind it was ever submitted.
LEMMA DownstreamUnknown ==
  ASSUME IInv, NEW t \in DagNodes, node[t] = "inbox", NEW n \in Downstream(t)
  PROVE  n = t \/ n \notin known
<1> DEFINE S == {m \in DagNodes : m = t \/ m \notin known}
<1>1. t \in S
  OBVIOUS
<1>2. Closed(S)
  <2> SUFFICES ASSUME NEW m \in DagNodes, NEW d \in Deps[m], d \in S, m \in known
               PROVE  m = t
    BY DEF Closed
  <2>1. node[d] = "done"
    BY DEF IInv, KnownNodes, GraphOrder
  <2>2. d \in known
    BY <2>1, GraphAssumption DEF IInv, KnownNodes
  <2> QED BY <2>1, <2>2
<1>3. S \in SUBSET DagNodes
  OBVIOUS
<1>4. n \in S
  BY <1>1, <1>2, <1>3 DEF Downstream
<1> QED BY <1>4

-----------------------------------------------------------------------------
(* The actions.                                                              *)

LEMMA InitInvariant == Init => IInv
<1> SUFFICES ASSUME Init PROVE IInv
  OBVIOUS
<1>1. TypeOK
  BY RetriesAssumption DEF Init, TypeOK, Places, Results, NodeStates
<1>2. GraphOrder /\ FailureReachesAll
  BY GraphAssumption DEF Init, GraphOrder, FailureReachesAll
<1>3. OnlyKnownTasks /\ RetriesLeft /\ ActiveNodesUndecided /\ KnownNodes /\ WaitsForTheRest
  BY GraphAssumption, RetriesAssumption DEF Init, OnlyKnownTasks, RetriesLeft, ActiveNodesUndecided, KnownNodes, WaitsForTheRest
<1>4. SlotsInOrder /\ AttemptOnce /\ BusyWorks /\ OnlyUnregisteringLoses
  BY DEF Init, SlotsInOrder, AttemptOnce, BusyWorks, OnlyUnregisteringLoses, Forgotten
<1> QED BY <1>1, <1>2, <1>3, <1>4 DEF IInv

\* The requests that leave tasks and graph alone.
LEMMA WorkersKeep ==
  ASSUME IInv,
         \/ Shutdown
         \/ \E s \in Slots : Register(s) \/ Unregister(s)
         \/ \E t \in Tasks : Pause(t) \/ Resume(t)
  PROVE  IInv'
<1> USE DEF IInv
<1>1. UNCHANGED <<slotVars, known, queue, retries, exec, stray, given, result, dagVars>>
  BY DEF Shutdown, Register, Unregister, Pause, Resume
<1>2. TypeOK' /\ SlotsInOrder'
  <2>1. CASE Shutdown \/ \E t \in Tasks : Pause(t) \/ Resume(t)
    BY <2>1 DEF Shutdown, Pause, Resume, TypeOK, SlotsInOrder, workerVars, slotVars, dagVars
  <2>2. CASE \E s \in Slots : Unregister(s)
    BY <2>2 DEF Unregister, TypeOK, SlotsInOrder, slotVars, dagVars
  <2>3. ASSUME NEW s \in Slots, Register(s)
        PROVE  TypeOK' /\ SlotsInOrder'
    <3>1. newest \in Int /\ s \in Int /\ Slots \subseteq Int
      BY WorkersAssumption DEF TypeOK
    <3>2. TypeOK'
      BY <2>3 DEF Register, TypeOK, slotVars, dagVars
    <3>3. SlotsInOrder'
      <4>1. \A r \in registered' : r \in Int /\ r <= s
        BY <2>3, <3>1 DEF Register, TypeOK, SlotsInOrder
      <4>2. \A t \in Tasks : \A r \in given[t] : r \in Int /\ r <= s
        BY <2>3, <3>1 DEF Register, TypeOK, SlotsInOrder
      <4> QED BY <4>1, <4>2, <2>3 DEF Register, SlotsInOrder
    <3> QED BY <3>2, <3>3
  <2> QED BY <2>1, <2>2, <2>3
<1>3. OnlyKnownTasks' /\ RetriesLeft' /\ ActiveNodesUndecided' /\ KnownNodes' /\ WaitsForTheRest'
  BY <1>1 DEF OnlyKnownTasks, RetriesLeft, ActiveNodesUndecided, KnownNodes, WaitsForTheRest, dagVars
<1>4. AttemptOnce' /\ GraphOrder' /\ FailureReachesAll'
  BY <1>1 DEF AttemptOnce, GraphOrder, FailureReachesAll, dagVars
<1>5. running' => running
  BY DEF Shutdown, Register, Unregister, Pause, Resume
<1>6. BusyWorks'
  BY <1>1, <1>5 DEF BusyWorks, slotVars
<1>7. OnlyUnregisteringLoses'
  <2> SUFFICES ASSUME running', NEW t \in Tasks, Forgotten(t)'
               PROVE  (given[t] \cap registered)' = {}
    BY DEF OnlyUnregisteringLoses
  <2>1. given[t] \cap registered = {}
    BY <1>1, <1>5 DEF OnlyUnregisteringLoses, Forgotten
  <2>2. ASSUME NEW s \in Slots, Register(s) PROVE s \notin given[t]
    <3>1. newest \in Int /\ s \in Int /\ s > newest
      BY <2>2, WorkersAssumption DEF TypeOK, Register
    <3>2. s \in given[t] => s <= newest
      BY DEF SlotsInOrder
    <3> QED BY <3>1, <3>2
  <2>3. registered' \subseteq registered \/ \E s \in Slots : Register(s) /\ registered' = registered \cup {s}
    BY DEF Shutdown, Register, Unregister, Pause, Resume, workerVars
  <2> QED BY <1>1, <2>1, <2>2, <2>3
<1> QED BY <1>2, <1>3, <1>4, <1>6, <1>7

LEMMA SubmitKeeps ==
  ASSUME IInv, NEW t \in Tasks, Submit(t)
  PROVE  IInv'
<1> USE DEF IInv, Submit
<1>1. exec[t] = "none" /\ result[t] = "none"
  BY DEF OnlyKnownTasks
<1>2. TypeOK' /\ OnlyKnownTasks' /\ RetriesLeft' /\ SlotsInOrder'
  BY DEF TypeOK, OnlyKnownTasks, RetriesLeft, SlotsInOrder, workerVars, slotVars, dagVars
<1>3. ActiveNodesUndecided' /\ KnownNodes' /\ WaitsForTheRest' /\ GraphOrder' /\ FailureReachesAll'
  BY DEF ActiveNodesUndecided, KnownNodes, WaitsForTheRest, GraphOrder, FailureReachesAll, dagVars
<1>4. AttemptOnce' /\ BusyWorks' /\ OnlyUnregisteringLoses'
  BY <1>1 DEF AttemptOnce, BusyWorks, OnlyUnregisteringLoses, Forgotten, workerVars, slotVars
<1> QED BY <1>2, <1>3, <1>4

LEMMA SubmitDagKeeps ==
  ASSUME IInv, SubmitDag
  PROVE  IInv'
<1> USE DEF IInv, SubmitDag
<1>1. \A n \in DagNodes : n \notin known /\ n \notin queue /\ exec[n] = "none" /\ result[n] = "none"
  BY GraphAssumption DEF KnownNodes, OnlyKnownTasks
<1>2. TypeOK' /\ OnlyKnownTasks' /\ RetriesLeft' /\ SlotsInOrder'
  BY <1>1, GraphAssumption DEF TypeOK, OnlyKnownTasks, RetriesLeft, SlotsInOrder, NodeStates,
                               workerVars, slotVars
<1>3. ActiveNodesUndecided' /\ KnownNodes'
  BY <1>1 DEF ActiveNodesUndecided, KnownNodes
<1>4. WaitsForTheRest' /\ GraphOrder' /\ FailureReachesAll'
  BY <1>1, GraphAssumption DEF WaitsForTheRest, GraphOrder, FailureReachesAll
<1>5. AttemptOnce' /\ BusyWorks' /\ OnlyUnregisteringLoses'
  BY <1>1 DEF AttemptOnce, BusyWorks, OnlyUnregisteringLoses, Forgotten, workerVars, slotVars
<1> QED BY <1>2, <1>3, <1>4, <1>5

LEMMA CancelKeeps ==
  ASSUME IInv, NEW t \in Tasks, Cancel(t)
  PROVE  IInv'
<1> USE DEF IInv, Cancel
<1>1. TypeOK' /\ OnlyKnownTasks' /\ RetriesLeft' /\ SlotsInOrder'
  BY DEF TypeOK, Results, OnlyKnownTasks, RetriesLeft, SlotsInOrder, workerVars, slotVars, dagVars
<1>2. ActiveNodesUndecided' /\ KnownNodes' /\ WaitsForTheRest' /\ GraphOrder' /\ FailureReachesAll'
  BY DEF ActiveNodesUndecided, KnownNodes, WaitsForTheRest, GraphOrder, FailureReachesAll, dagVars
<1>3. AttemptOnce' /\ BusyWorks' /\ OnlyUnregisteringLoses'
  BY DEF TypeOK, AttemptOnce, BusyWorks, OnlyUnregisteringLoses, Forgotten, workerVars, slotVars
<1> QED BY <1>1, <1>2, <1>3

LEMMA DispatchKeeps ==
  ASSUME IInv, Dispatch
  PROVE  IInv'
<1> USE DEF IInv, Dispatch
<1>1. \A t \in Tasks : FindWorker(t) \subseteq registered
  BY DEF FindWorker, Available, Holder
<1>2. TypeOK' /\ SlotsInOrder'
  BY <1>1 DEF TypeOK, Places, SlotsInOrder, workerVars, slotVars, dagVars
<1>3. OnlyKnownTasks' /\ RetriesLeft' /\ ActiveNodesUndecided'
  BY GraphAssumption DEF OnlyKnownTasks, RetriesLeft, ActiveNodesUndecided, dagVars
<1>4. KnownNodes' /\ WaitsForTheRest' /\ GraphOrder' /\ FailureReachesAll'
  BY DEF KnownNodes, WaitsForTheRest, GraphOrder, FailureReachesAll, dagVars
<1>5. AttemptOnce'
  BY DEF AttemptOnce
<1>6. BusyWorks'
  BY DEF AttemptOnce, BusyWorks, slotVars
<1>7. OnlyUnregisteringLoses'
  BY DEF OnlyUnregisteringLoses, Forgotten, workerVars
<1> QED BY <1>2, <1>3, <1>4, <1>5, <1>6, <1>7

LEMMA LoseTaskKeeps ==
  ASSUME IInv, NEW t \in Tasks, LoseTask(t)
  PROVE  IInv'
<1> USE DEF IInv, LoseTask
<1>1. TypeOK' /\ OnlyKnownTasks' /\ RetriesLeft' /\ SlotsInOrder' /\ ActiveNodesUndecided'
  BY GraphAssumption DEF TypeOK, Places, OnlyKnownTasks, RetriesLeft, SlotsInOrder, ActiveNodesUndecided,
                         workerVars, slotVars, dagVars
<1>2. KnownNodes' /\ WaitsForTheRest' /\ GraphOrder' /\ FailureReachesAll'
  BY DEF KnownNodes, WaitsForTheRest, GraphOrder, FailureReachesAll, dagVars
<1>3. AttemptOnce' /\ BusyWorks'
  BY DEF TypeOK, AttemptOnce, BusyWorks, slotVars
<1>4. given[t] \cap registered = {}
  BY DEF SameName
<1>5. OnlyUnregisteringLoses'
  BY <1>4 DEF TypeOK, OnlyUnregisteringLoses, Forgotten, workerVars
<1> QED BY <1>1, <1>2, <1>3, <1>5

LEMMA BeginKeeps ==
  ASSUME IInv, NEW t \in Tasks, Begin(t)
  PROVE  IInv'
<1> USE DEF IInv
<1>1. PICK s \in registered : Assign(s, t) /\ given' = [given EXCEPT ![t] = {s}]
  BY DEF Begin, SameName
<1>2. s \in Slots /\ exec[t] = "created" /\ exec'[t] \in {"agent", "held", "none"}
  BY DEF Begin, TypeOK
<1>3. TypeOK'
  BY <1>1, <1>2 DEF Begin, Assign, TypeOK, Places, workerVars, dagVars
<1>4. OnlyKnownTasks' /\ RetriesLeft' /\ ActiveNodesUndecided'
  BY <1>2, GraphAssumption DEF Begin, TypeOK, OnlyKnownTasks, RetriesLeft, ActiveNodesUndecided, dagVars
<1>5. SlotsInOrder'
  BY <1>1 DEF Begin, TypeOK, SlotsInOrder, workerVars
<1>6. KnownNodes' /\ WaitsForTheRest' /\ GraphOrder' /\ FailureReachesAll'
  BY DEF Begin, KnownNodes, WaitsForTheRest, GraphOrder, FailureReachesAll, dagVars
<1>7. AttemptOnce'
  BY <1>2 DEF Begin, TypeOK, AttemptOnce
<1>8. running' => running /\ exec'[t] \in {"agent", "held"}
  BY <1>2 DEF Begin, TypeOK
<1>9. BusyWorks'
  <2> SUFFICES ASSUME running', NEW r \in Slots, state'[r] = "busy"
               PROVE  \E u \in Tasks : current'[r] = u /\ given'[u] = {r} /\ exec'[u] \in {"held", "agent"}
    BY DEF BusyWorks
  <2>1. CASE r = s
    BY <1>1, <1>2, <1>8, <2>1 DEF Assign, TypeOK
  <2>2. CASE r # s
    <3>1. PICK u \in Tasks : current[r] = u /\ given[u] = {r} /\ exec[u] \in {"held", "agent"}
      BY <1>1, <1>8, <2>2 DEF Assign, TypeOK, BusyWorks
    <3> QED BY <1>1, <1>2, <2>2, <3>1 DEF Assign, Begin, TypeOK
  <2> QED BY <2>1, <2>2
<1>10. OnlyUnregisteringLoses'
  BY <1>1, <1>8 DEF Begin, TypeOK, OnlyUnregisteringLoses, Forgotten, workerVars
<1> QED BY <1>3, <1>4, <1>5, <1>6, <1>7, <1>9, <1>10

LEMMA HeldKeeps ==
  ASSUME IInv, NEW t \in Tasks, GoOn(t) \/ Abandon(t)
  PROVE  IInv'
<1> USE DEF IInv
<1>1. /\ exec[t] = "held"
      /\ \/ exec' = [exec EXCEPT ![t] = "agent"]
         \/ ~running /\ exec' = [exec EXCEPT ![t] = "none"]
      /\ UNCHANGED <<running, stray, workerVars, slotVars, known, queue, retries, given, paused,
                     result, dagVars>>
  <2>1. CASE GoOn(t)
    <3>1. exec[t] = "held" /\ exec' = [exec EXCEPT ![t] = "agent"]
      BY <2>1 DEF GoOn
    <3>2. UNCHANGED <<running, stray, workerVars, slotVars, known, queue, retries, given, paused,
                      result, dagVars>>
      BY <2>1 DEF GoOn
    <3> QED BY <3>1, <3>2
  <2>2. CASE Abandon(t)
    BY <2>2 DEF Abandon
  <2> QED BY <2>1, <2>2
<1>2. TypeOK' /\ SlotsInOrder'
  BY <1>1 DEF TypeOK, Places, SlotsInOrder, workerVars, slotVars, dagVars
<1>5. OnlyKnownTasks' /\ RetriesLeft' /\ ActiveNodesUndecided'
  BY <1>1, GraphAssumption DEF TypeOK, OnlyKnownTasks, RetriesLeft, ActiveNodesUndecided, dagVars
<1>3. KnownNodes' /\ WaitsForTheRest' /\ GraphOrder' /\ FailureReachesAll'
  BY <1>1 DEF KnownNodes, WaitsForTheRest, GraphOrder, FailureReachesAll, dagVars
<1>4. AttemptOnce' /\ BusyWorks' /\ OnlyUnregisteringLoses'
  BY <1>1 DEF TypeOK, AttemptOnce, BusyWorks, OnlyUnregisteringLoses, Forgotten,
              workerVars, slotVars
<1> QED BY <1>2, <1>3, <1>4, <1>5

\* An agent that ends gives back the slots it was given and no others.
LEMMA ReleaseKeepsBusy ==
  ASSUME IInv, NEW t \in Tasks, exec[t] = "agent", Release(t), running' = running,
         given' = given, exec' = [exec EXCEPT ![t] = "none"]
  PROVE  BusyWorks'
<1> USE DEF IInv
<1> SUFFICES ASSUME running', NEW r \in Slots, state'[r] = "busy"
             PROVE  \E u \in Tasks : current'[r] = u /\ given'[u] = {r} /\ exec'[u] \in {"held", "agent"}
  BY DEF BusyWorks
<1>1. r \notin given[t] /\ state[r] = "busy" /\ current'[r] = current[r]
  BY DEF Release
<1>2. PICK u \in Tasks : current[r] = u /\ given[u] = {r} /\ exec[u] \in {"held", "agent"}
  BY <1>1 DEF BusyWorks
<1> QED BY <1>1, <1>2 DEF TypeOK

\* The retry counter after a failure.
LEMMA CountedOnce ==
  ASSUME IInv, NEW t \in Tasks, retries' = [retries EXCEPT ![t] = retries[t] + 1]
  PROVE  /\ retries' \in [Tasks -> Nat]
         /\ retries'[t] = retries[t] + 1
         /\ retries[t] < MaxRetries[t] => retries'[t] <= MaxRetries[t]
         /\ retries'[t] <= MaxRetries[t] => retries'[t] <= MaxRetries[t] + 1
         /\ retries[t] <= MaxRetries[t] => retries'[t] <= MaxRetries[t] + 1
         /\ \A u \in Tasks \ {t} : retries'[u] = retries[u]
<1>1. retries \in [Tasks -> Nat]
  BY DEF IInv, TypeOK
<1>2. retries[t] \in Nat /\ MaxRetries[t] \in Nat
  BY <1>1, RetriesAssumption
<1>3. retries[t] + 1 \in Nat
  BY <1>2
<1>4. retries'[t] = retries[t] + 1
  BY <1>1
<1>5. /\ retries[t] < MaxRetries[t] => retries'[t] <= MaxRetries[t]
      /\ retries'[t] <= MaxRetries[t] => retries'[t] <= MaxRetries[t] + 1
      /\ retries[t] <= MaxRetries[t] => retries'[t] <= MaxRetries[t] + 1
  BY <1>2, <1>4
<1> QED BY <1>1, <1>3, <1>4, <1>5

\* An attempt that goes on in its thread is one more than those before it.
LEMMA LeaveRunKeeps ==
  ASSUME IInv, NEW t \in Tasks, LeaveRun(t), retries' = [retries EXCEPT ![t] = retries[t] + 1]
  PROVE  /\ stray' \subseteq [task : Tasks, number : Nat, slot : Slots]
         /\ \A r \in stray' : r.number < retries'[r.task]
         /\ \A r, q \in stray' : r.task = q.task /\ r.number = q.number => r = q
<1> USE DEF IInv
<1>1. stray \subseteq [task : Tasks, number : Nat, slot : Slots] /\ retries \in [Tasks -> Nat]
  BY DEF TypeOK
<1>2. \A r \in stray : r.task \in Tasks /\ r.number \in Nat /\ r.number < retries[r.task]
  BY <1>1 DEF AttemptOnce
<1>3. \A r \in stray : r.number < retries'[r.task]
  <2> SUFFICES ASSUME NEW r \in stray PROVE r.number < retries'[r.task]
    OBVIOUS
  <2>1. retries[r.task] \in Nat /\ retries[r.task] <= retries'[r.task]
    BY <1>1, <1>2
  <2>2. retries'[r.task] \in Nat
    BY <1>1, <1>2
  <2> QED BY <1>2, <2>1, <2>2
<1>4. CASE UNCHANGED stray
  BY <1>1, <1>3, <1>4 DEF AttemptOnce
<1>5. ASSUME NEW s \in Slots, stray' = stray \cup {[task |-> t, number |-> retries[t], slot |-> s]}
      PROVE  /\ stray' \subseteq [task : Tasks, number : Nat, slot : Slots]
             /\ \A r \in stray' : r.number < retries'[r.task]
             /\ \A r, q \in stray' : r.task = q.task /\ r.number = q.number => r = q
  <2> DEFINE new == [task |-> t, number |-> retries[t], slot |-> s]
  <2>1. new.task = t /\ new.number = retries[t] /\ retries[t] \in Nat
    BY <1>1
  <2>2. retries'[t] = retries[t] + 1
    BY <1>1
  <2>3. new.number < retries'[new.task]
    BY <2>1, <2>2
  <2>4. \A r \in stray : ~(r.task = new.task /\ r.number = new.number)
    BY <1>2, <2>1
  <2>5. new \in [task : Tasks, number : Nat, slot : Slots]
    BY <1>1
  <2>6. stray' = stray \cup {new}
    BY <1>5
  <2> HIDE DEF new
  <2>7. \A r, q \in stray' : r.task = q.task /\ r.number = q.number => r = q
    BY <2>4, <2>6 DEF AttemptOnce
  <2> QED BY <1>1, <1>3, <2>3, <2>5, <2>6, <2>7
<1>6. \A s \in given[t] : s \in Slots
  BY DEF TypeOK
<1> QED BY <1>4, <1>5, <1>6 DEF LeaveRun

LEMMA RunEndsKeeps ==
  ASSUME IInv, RunEnds
  PROVE  IInv'
<1> USE DEF IInv
<1>1. stray' \subseteq stray
  BY DEF RunEnds
<1>2. UNCHANGED <<running, workerVars, slotVars, known, queue, retries, exec, given, paused,
                 result, dagVars>>
  BY DEF RunEnds
<1>3. TypeOK' /\ SlotsInOrder'
  BY <1>1, <1>2 DEF TypeOK, SlotsInOrder, workerVars, slotVars, dagVars
<1>4. OnlyKnownTasks' /\ RetriesLeft' /\ ActiveNodesUndecided' /\ KnownNodes' /\ WaitsForTheRest'
  BY <1>2 DEF OnlyKnownTasks, RetriesLeft, ActiveNodesUndecided, KnownNodes, WaitsForTheRest, dagVars
<1>5. AttemptOnce'
  BY <1>1, <1>2 DEF AttemptOnce
<1>6. BusyWorks' /\ OnlyUnregisteringLoses' /\ GraphOrder' /\ FailureReachesAll'
  BY <1>2 DEF BusyWorks, OnlyUnregisteringLoses, Forgotten, GraphOrder, FailureReachesAll,
              workerVars, slotVars, dagVars
<1> QED BY <1>3, <1>4, <1>5, <1>6

LEMMA RetryKeeps ==
  ASSUME IInv, NEW t \in Tasks, Retry(t)
  PROVE  IInv'
<1>8. /\ retries'[t] <= MaxRetries[t]
      /\ retries'[t] <= MaxRetries[t] + 1
  <2>1. retries' = [retries EXCEPT ![t] = retries[t] + 1] /\ retries[t] < MaxRetries[t]
    BY DEF Retry
  <2> QED BY <2>1, CountedOnce
<1> USE DEF IInv
<1>1. TypeOK'
  <2>1. retries' \in [Tasks -> Nat]
    BY CountedOnce DEF Retry
  <2>3. retries'[t] <= MaxRetries[t] + 1
    BY <1>8
  <2>4. \A u \in Tasks \ {t} : retries'[u] <= MaxRetries[u] + 1
    BY CountedOnce DEF Retry, TypeOK
  <2>2. state' \in [Slots -> {"idle", "busy"}] /\ current' \in [Slots -> Tasks \cup {NoTask}]
    BY DEF Retry, Release, TypeOK
  <2>5. stray' \subseteq [task : Tasks, number : Nat, slot : Slots]
    BY LeaveRunKeeps DEF Retry
  <2> QED BY <2>1, <2>2, <2>3, <2>4, <2>5 DEF Retry, TypeOK, Places, workerVars, dagVars
<1>2. OnlyKnownTasks' /\ ActiveNodesUndecided' /\ SlotsInOrder'
  BY GraphAssumption DEF Retry, TypeOK, OnlyKnownTasks, ActiveNodesUndecided, SlotsInOrder,
                         workerVars, dagVars
<1>7. RetriesLeft'
  <2>1. retries'[t] <= MaxRetries[t]
    BY <1>8
  <2>2. \A u \in Tasks \ {t} : retries'[u] = retries[u]
    BY CountedOnce DEF Retry
  <2> QED BY <2>1, <2>2 DEF Retry, TypeOK, RetriesLeft
<1>3. KnownNodes' /\ WaitsForTheRest' /\ GraphOrder' /\ FailureReachesAll'
  BY DEF Retry, KnownNodes, WaitsForTheRest, GraphOrder, FailureReachesAll, dagVars
<1>4. AttemptOnce'
  <2>1. /\ \A r \in stray' : r.number < retries'[r.task]
        /\ \A r, q \in stray' : r.task = q.task /\ r.number = q.number => r = q
    BY LeaveRunKeeps DEF Retry
  <2>2. \A u \in Tasks :
          /\ u \in queue' => exec'[u] = "none"
          /\ result'[u] \in {"success", "failed"} => exec'[u] = "none" /\ u \notin queue'
    BY DEF Retry, TypeOK, AttemptOnce
  <2> QED BY <2>1, <2>2 DEF AttemptOnce
<1>5. BusyWorks'
  BY ReleaseKeepsBusy DEF Retry
<1>6. OnlyUnregisteringLoses'
  BY DEF Retry, TypeOK, OnlyUnregisteringLoses, Forgotten, workerVars
<1> QED BY <1>1, <1>2, <1>3, <1>4, <1>5, <1>6, <1>7

LEMMA SucceedKeeps ==
  ASSUME IInv, NEW t \in Tasks, Succeed(t)
  PROVE  IInv'
<1> USE DEF IInv
<1>1. exec[t] = "agent" /\ t \in known /\ t \notin queue /\ (t \in DagNodes => node[t] = "inbox")
  BY DEF Succeed, OnlyKnownTasks, AttemptOnce, ActiveNodesUndecided
<1>2. Unlocked(t) \subseteq DagNodes
  BY DEF Unlocked
<1>3. \A n \in Unlocked(t) : /\ node[n] = "inbox" /\ n # t
                             /\ \A d \in Deps[n] : d = t \/ node[d] = "done"
                             /\ n \notin known
  <2> SUFFICES ASSUME NEW n \in DagNodes, node[n] = "inbox", waits[n] = {t}
               PROVE  /\ node[n] = "inbox" /\ n # t
                      /\ \A d \in Deps[n] : d = t \/ node[d] = "done"
                      /\ n \notin known
    BY DEF Unlocked
  <2>1. t \in Deps[n] /\ node[t] # "done"
    BY DEF WaitsForTheRest
  <2>2. n \notin known
    BY <2>1 DEF KnownNodes, GraphOrder
  <2> QED BY <1>1, <2>2 DEF WaitsForTheRest
<1>4. TypeOK'
  BY <1>2, GraphAssumption DEF Succeed, TriggerDownstream, Release, TypeOK, Places, Results,
                               NodeStates, workerVars
<1>5. OnlyKnownTasks'
  BY <1>1, <1>2 DEF Succeed, TriggerDownstream, TypeOK, OnlyKnownTasks
<1>15. RetriesLeft'
  BY <1>1, <1>3 DEF Succeed, TriggerDownstream, TypeOK, RetriesLeft
<1>6. ActiveNodesUndecided'
  BY <1>1, <1>3, GraphAssumption DEF Succeed, TriggerDownstream, TypeOK, ActiveNodesUndecided
<1>7. KnownNodes'
  BY <1>1, <1>3 DEF Succeed, TriggerDownstream, KnownNodes
<1>8. WaitsForTheRest'
  BY GraphAssumption DEF Succeed, TriggerDownstream, WaitsForTheRest, TypeOK
<1>9. SlotsInOrder'
  BY DEF Succeed, SlotsInOrder, workerVars
<1>10. AttemptOnce'
  BY <1>1, <1>2, <1>3, GraphAssumption
     DEF Succeed, TriggerDownstream, TypeOK, AttemptOnce, OnlyKnownTasks
<1>11. BusyWorks'
  BY ReleaseKeepsBusy DEF Succeed
<1>12. OnlyUnregisteringLoses'
  BY <1>2 DEF Succeed, TriggerDownstream, TypeOK, OnlyUnregisteringLoses, Forgotten, workerVars
<1>16. ASSUME NEW n \in DagNodes, node'[n] # "absent"
       PROVE  n \in known' <=> \A d \in Deps[n] : node'[d] = "done"
  <2>1. \A d \in Deps[n] : d \in DagNodes /\ (node'[d] = "done" <=> d = t \/ node[d] = "done")
    BY GraphAssumption DEF Succeed, TriggerDownstream
  <2>2. node[n] # "absent" /\ (n \in known <=> \A d \in Deps[n] : node[d] = "done")
    BY <1>1, <1>16 DEF Succeed, TriggerDownstream, GraphOrder
  <2>3. CASE n \in known
    BY <2>1, <2>2, <2>3 DEF Succeed, TriggerDownstream
  <2>4. CASE n \in Unlocked(t)
    BY <1>3, <2>1, <2>4 DEF Succeed, TriggerDownstream
  <2>5. CASE n \notin known /\ n \notin Unlocked(t)
    <3>1. n \notin known'
      BY <2>5 DEF Succeed, TriggerDownstream
    <3>2. CASE node[n] = "inbox"
      <4>1. SUFFICES ASSUME \A d \in Deps[n] : d = t \/ node[d] = "done" PROVE FALSE
        BY <2>1, <3>1
      <4>2. waits[n] = {t}
        BY <2>2, <2>5, <3>2, <4>1 DEF WaitsForTheRest
      <4> QED BY <2>5, <3>2, <4>2 DEF Unlocked
    <3>3. CASE node[n] = "failed"
      <4>1. PICK d \in Deps[n] : node[d] = "failed"
        BY <2>5, <3>3 DEF FailureReachesAll
      <4>2. d # t
        BY <1>1, <2>1, <4>1
      <4> QED BY <2>1, <3>1, <4>1, <4>2
    <3>4. node[n] # "done"
      BY <2>5 DEF KnownNodes
    <3> QED BY <2>2, <3>2, <3>3, <3>4 DEF TypeOK, NodeStates
  <2> QED BY <2>3, <2>4, <2>5
<1>13. GraphOrder'
  BY <1>16 DEF GraphOrder
<1>14. FailureReachesAll'
  <2>1. \A n \in DagNodes : node'[n] = "failed" <=> node[n] = "failed"
    BY <1>1 DEF Succeed, TriggerDownstream
  <2>2. \A n \in DagNodes : node[n] = "failed" => (n \in known' <=> n \in known)
    BY <1>3 DEF Succeed, TriggerDownstream
  <2> QED BY <2>1, <2>2, GraphAssumption DEF FailureReachesAll
<1> QED BY <1>4, <1>5, <1>6, <1>7, <1>8, <1>9, <1>10, <1>11, <1>12, <1>13, <1>14, <1>15

LEMMA FailKeeps ==
  ASSUME IInv, NEW t \in Tasks, Fail(t)
  PROVE  IInv'
<1> USE DEF IInv
<1>1. exec[t] = "agent" /\ t \in known /\ t \notin queue /\ (t \in DagNodes => node[t] = "inbox")
  BY DEF Fail, OnlyKnownTasks, AttemptOnce, ActiveNodesUndecided
<1>2. \A n \in DagNodes :
        \/ node'[n] = node[n] /\ (t \in DagNodes => n \notin Downstream(t))
        \/ node'[n] = "failed" /\ t \in DagNodes /\ n \in Downstream(t) /\ (n = t \/ n \notin known)
  BY <1>1, DownstreamUnknown DEF Fail, TypeOK
<1>3. TypeOK'
  <2>1. retries' \in [Tasks -> Nat]
    BY CountedOnce DEF Fail
  <2>4. retries'[t] <= MaxRetries[t] + 1
    <3>1. retries[t] <= MaxRetries[t]
      BY <1>1 DEF RetriesLeft
    <3>2. retries' = [retries EXCEPT ![t] = retries[t] + 1]
      BY DEF Fail
    <3> QED BY <3>1, <3>2, CountedOnce
  <2>5. \A u \in Tasks \ {t} : retries'[u] <= MaxRetries[u] + 1
    BY CountedOnce DEF Fail, TypeOK
  <2>2. state' \in [Slots -> {"idle", "busy"}] /\ current' \in [Slots -> Tasks \cup {NoTask}]
    BY DEF Fail, Release, TypeOK
  <2>3. node' \in [DagNodes -> NodeStates]
    BY DEF Fail, TypeOK, NodeStates
  <2>6. stray' \subseteq [task : Tasks, number : Nat, slot : Slots]
    BY LeaveRunKeeps DEF Fail
  <2> QED BY <2>1, <2>2, <2>3, <2>4, <2>5, <2>6 DEF Fail, TypeOK, Places, Results, workerVars
<1>4. OnlyKnownTasks' /\ SlotsInOrder'
  BY <1>1 DEF Fail, TypeOK, OnlyKnownTasks, SlotsInOrder, workerVars
<1>12. RetriesLeft'
  BY <1>1 DEF Fail, TypeOK, RetriesLeft
<1>5. ActiveNodesUndecided'
  BY <1>1, <1>2, GraphAssumption DEF Fail, TypeOK, ActiveNodesUndecided, OnlyKnownTasks
<1>6. KnownNodes'
  BY <1>2 DEF Fail, KnownNodes
<1>7. \A n \in DagNodes : node[n] = "done" => node'[n] = "done"
  BY <1>1, <1>2 DEF KnownNodes
<1>8. WaitsForTheRest'
  BY <1>2, <1>7, GraphAssumption DEF Fail, WaitsForTheRest, TypeOK
<1>13. \A n \in DagNodes : node'[n] = "done" <=> node[n] = "done"
  BY <1>2, <1>7
<1>14. GraphOrder'
  <2> SUFFICES ASSUME NEW n \in DagNodes, node'[n] # "absent"
               PROVE  n \in known <=> \A d \in Deps[n] : node[d] = "done"
    BY <1>13, GraphAssumption DEF Fail, GraphOrder
  <2>1. CASE node[n] # "absent"
    BY <2>1 DEF GraphOrder
  <2>2. CASE node[n] = "absent"
    <3>1. t \in DagNodes /\ n \in Downstream(t) /\ n # t /\ n \notin known
      BY <1>1, <1>2, <2>2 DEF KnownNodes
    <3>2. PICK d \in Deps[n] : d \in Downstream(t)
      BY <3>1, DownstreamLeast
    <3>3. d \in DagNodes /\ node[d] # "done"
      BY <1>2, <1>7, <3>1, <3>2, GraphAssumption
    <3> QED BY <3>1, <3>3
  <2> QED BY <2>1, <2>2
<1>9. AttemptOnce' /\ OnlyUnregisteringLoses'
  <2>1. /\ \A r \in stray' : r.number < retries'[r.task]
        /\ \A r, q \in stray' : r.task = q.task /\ r.number = q.number => r = q
    BY LeaveRunKeeps DEF Fail
  <2>2. \A u \in Tasks :
          /\ u \in queue' => exec'[u] = "none"
          /\ result'[u] \in {"success", "failed"} => exec'[u] = "none" /\ u \notin queue'
    BY <1>1 DEF Fail, TypeOK, AttemptOnce
  <2>3. OnlyUnregisteringLoses'
    BY <1>1 DEF Fail, TypeOK, OnlyUnregisteringLoses, Forgotten, workerVars
  <2> QED BY <2>1, <2>2, <2>3 DEF AttemptOnce
<1>10. BusyWorks'
  BY ReleaseKeepsBusy DEF Fail
<1>11. FailureReachesAll'
  <2>1. ASSUME NEW n \in DagNodes, NEW d \in Deps[n], node'[d] = "failed"
        PROVE  node'[n] = "failed" /\ n \notin known
    <3>1. d \in DagNodes
      BY GraphAssumption
    <3>2. CASE node[d] = "failed"
      BY <1>2, <3>2 DEF FailureReachesAll
    <3>3. CASE node[d] # "failed"
      <4>1. t \in DagNodes /\ d \in Downstream(t)
        BY <1>2, <2>1, <3>1, <3>3
      <4>2. n \in Downstream(t) /\ node'[n] = "failed"
        BY <1>2, <4>1, DownstreamClosed DEF Closed
      <4>3. node[d] # "done"
        BY <1>7, <2>1, <3>1
      <4> QED BY <4>2, <4>3 DEF KnownNodes, GraphOrder
    <3> QED BY <3>2, <3>3
  <2>2. ASSUME NEW n \in DagNodes, node'[n] = "failed", n \notin known
        PROVE  \E d \in Deps[n] : node'[d] = "failed"
    <3>1. CASE node[n] = "failed"
      <4>1. PICK d \in Deps[n] : node[d] = "failed"
        BY <2>2, <3>1 DEF FailureReachesAll
      <4> QED BY <1>2, <4>1, GraphAssumption
    <3>2. CASE node[n] # "failed"
      <4>1. t \in DagNodes /\ n \in Downstream(t) /\ n # t
        BY <1>1, <1>2, <2>2, <3>2
      <4>2. PICK d \in Deps[n] : d \in Downstream(t)
        BY <4>1, DownstreamLeast
      <4> QED BY <1>2, <4>1, <4>2, GraphAssumption
    <3> QED BY <3>1, <3>2
  <2> QED BY <2>1, <2>2 DEF Fail, FailureReachesAll
<1> QED BY <1>3, <1>4, <1>5, <1>6, <1>8, <1>9, <1>10, <1>11, <1>12, <1>14

-----------------------------------------------------------------------------
(* The theorems.                                                             *)

\* The invariant holds in every reachable state.
THEOREM Invariant == Spec => []IInv
<1>1. Init => IInv
  BY InitInvariant
<1>2. IInv /\ [Next]_vars => IInv'
  <2> SUFFICES ASSUME IInv, [Next]_vars PROVE IInv'
    OBVIOUS
  <2>1. CASE UNCHANGED vars
    BY <2>1 DEF vars, workerVars, slotVars, dagVars, IInv, TypeOK, OnlyKnownTasks,
                RetriesLeft, ActiveNodesUndecided, KnownNodes, WaitsForTheRest, SlotsInOrder, AttemptOnce,
                BusyWorks, OnlyUnregisteringLoses, Forgotten, GraphOrder, FailureReachesAll
  <2>2. CASE Dispatch
    BY <2>2, DispatchKeeps
  <2>3. CASE SubmitDag
    BY <2>3, SubmitDagKeeps
  <2>4. CASE \/ Shutdown
             \/ \E s \in Slots : Register(s) \/ Unregister(s)
             \/ \E t \in Tasks : Pause(t) \/ Resume(t)
    BY <2>4, WorkersKeep
  <2>5. ASSUME NEW t \in Tasks, Submit(t) \/ Cancel(t) PROVE IInv'
    BY <2>5, SubmitKeeps, CancelKeeps
  <2>6. ASSUME NEW t \in Tasks, Execute(t) PROVE IInv'
    BY <2>6, LoseTaskKeeps, BeginKeeps, HeldKeeps, SucceedKeeps, RetryKeeps, FailKeeps DEF Execute
  <2>7. CASE RunEnds
    BY <2>7, RunEndsKeeps
  <2> QED BY <2>1, <2>2, <2>3, <2>4, <2>5, <2>6, <2>7 DEF Next
<1> QED BY <1>1, <1>2, PTL DEF Spec

\* Every variable keeps its type; no task is retried beyond its limit.
THEOREM TypeCorrect == Spec => []TypeOK
BY Invariant, PTL DEF IInv

\* Every attempt at a task is made once, none while another is waited for or after
\* the answer; what goes on in a thread is an earlier attempt, each one counted.
THEOREM AttemptOnceHolds == Spec => []AttemptOnce
BY Invariant, PTL DEF IInv

\* Until the shutdown, a busy slot has its current task at work on it.
THEOREM BusyWorksHolds == Spec => []BusyWorks
BY Invariant, PTL DEF IInv

\* Until the shutdown, only a task whose worker was unregistered is forgotten.
THEOREM OnlyUnregisteringLosesHolds == Spec => []OnlyUnregisteringLoses
BY Invariant, PTL DEF IInv

\* A node is submitted only when everything it depends on is done.
THEOREM GraphOrderHolds == Spec => []GraphOrder
BY Invariant, PTL DEF IInv

\* A failure reaches everything behind the node, none of it ever submitted.
THEOREM FailureReachesAllHolds == Spec => []FailureReachesAll
BY Invariant, PTL DEF IInv

\* While there are workers the queue never stands still for want of one: one of
\* them is free, or a task is at work whose end will free one.
QueueIsServed ==
  running /\ queue # {} /\ registered # {} =>
    Available # {} \/ \E t \in Tasks : exec[t] \in {"held", "agent"}

\* Until the shutdown _dispatch_loop waits for a worker only when one will come free.
THEOREM QueueIsServedHolds == Spec => []QueueIsServed
<1>1. TypeOK /\ BusyWorks => QueueIsServed
  <2> SUFFICES ASSUME TypeOK, BusyWorks, running, NEW s \in registered, Available = {}
               PROVE  \E t \in Tasks : exec[t] \in {"held", "agent"}
    BY DEF QueueIsServed
  <2>1. s \in Slots /\ state[s] = "busy"
    BY DEF TypeOK, Available
  <2> QED BY <2>1 DEF BusyWorks
<1> QED BY <1>1, Invariant, PTL DEF IInv

-----------------------------------------------------------------------------
(* The graph as seen from outside.                                           *)

\* What the invariant says of the phases.
LEMMA PhaseOf ==
  ASSUME IInv, NEW n \in DagNodes
  PROVE  /\ Phase[n] = "done" <=> node[n] = "done"
         /\ Phase[n] = "failed" <=> node[n] = "failed"
         /\ Phase[n] = "absent" <=> node[n] = "absent"
         /\ Phase[n] = "waiting" <=> node[n] = "inbox" /\ n \notin known
         /\ Phase[n] = "submitted" <=> node[n] = "inbox" /\ n \in known
<1>1. node[n] \in {"absent", "inbox", "done", "failed"}
  BY DEF IInv, TypeOK, NodeStates
<1>2. Phase[n] = IF node[n] # "inbox" THEN node[n]
                 ELSE IF n \in known THEN "submitted" ELSE "waiting"
  BY DEF Phase
<1> QED BY <1>1, <1>2

LEMMA SubmitDagRefines ==
  ASSUME IInv, SubmitDag
  PROVE  Graph!SubmitAll
<1>1. \A n \in DagNodes : Phase[n] = "absent" /\ n \notin known
  BY PhaseOf DEF SubmitDag, IInv, KnownNodes
<1>2. Phase' = [n \in DagNodes |-> IF Deps[n] = {} THEN "submitted" ELSE "waiting"]
  <2>1. \A n \in DagNodes : node'[n] = "inbox" /\ (n \in known' <=> Deps[n] = {})
    BY <1>1 DEF SubmitDag
  <2> QED BY <2>1 DEF Phase
<1> QED BY <1>1, <1>2 DEF Graph!SubmitAll

LEMMA SucceedRefines ==
  ASSUME IInv, NEW t \in DagNodes, Succeed(t)
  PROVE  Graph!Succeed(t)
<1> USE DEF IInv
<1>1. Phase[t] = "submitted" /\ node[t] = "inbox" /\ t \in known
  BY PhaseOf, GraphAssumption DEF Succeed, ActiveNodesUndecided, OnlyKnownTasks
<1> DEFINE Ready(n) == \A d \in Deps[n] : d = t \/ Phase[d] = "done"
<1>2. ASSUME NEW n \in DagNodes, Phase[n] = "waiting"
      PROVE  n \in Unlocked(t) <=> Ready(n)
  <2>1. node[n] = "inbox" /\ n \notin known
    BY <1>2, PhaseOf
  <2>2. Ready(n) <=> \A d \in Deps[n] : d = t \/ node[d] = "done"
    BY PhaseOf, GraphAssumption
  <2>3. waits[n] # {} /\ \A d \in waits[n] : d \in Deps[n] /\ node[d] # "done"
    BY <2>1 DEF WaitsForTheRest, GraphOrder
  <2>4. Unlocked(t) \subseteq DagNodes /\ (n \in Unlocked(t) <=> waits[n] = {t})
    BY <2>1 DEF Unlocked
  <2> QED BY <2>1, <2>2, <2>3, <2>4 DEF WaitsForTheRest
<1>3. ASSUME NEW n \in Unlocked(t) PROVE n \in DagNodes /\ Phase[n] = "waiting"
  <2>1. n \in DagNodes /\ node[n] = "inbox" /\ waits[n] = {t}
    BY DEF Unlocked
  <2>2. t \in Deps[n] /\ node[t] # "done"
    BY <2>1 DEF WaitsForTheRest
  <2>3. n \notin known
    BY <2>1, <2>2 DEF GraphOrder
  <2> QED BY <2>1, <2>3, PhaseOf
<1>4. ASSUME NEW n \in DagNodes
      PROVE  Phase'[n] = CASE n = t -> "done"
                           [] n # t /\ Phase[n] = "waiting" /\ Ready(n) -> "submitted"
                           [] OTHER -> Phase[n]
  <2>1. Phase'[n] = IF node'[n] # "inbox" THEN node'[n]
                    ELSE IF n \in known' THEN "submitted" ELSE "waiting"
    BY DEF Phase
  <2>2. CASE n = t
    BY <2>1, <2>2 DEF Succeed, TriggerDownstream
  <2>3. CASE n # t /\ Phase[n] = "waiting" /\ Ready(n)
    <3>1. node'[n] = "inbox" /\ n \in known'
      BY <1>2, <2>3, PhaseOf DEF Succeed, TriggerDownstream
    <3> QED BY <2>1, <2>3, <3>1
  <2>4. CASE n # t /\ ~(Phase[n] = "waiting" /\ Ready(n))
    <3>1. node'[n] = node[n] /\ (n \in known' <=> n \in known)
      BY <1>2, <1>3, <2>4 DEF Succeed, TriggerDownstream
    <3>2. Phase'[n] = Phase[n]
      BY <2>1, <3>1 DEF Phase
    <3> QED BY <2>4, <3>2
  <2> QED BY <2>2, <2>3, <2>4
<1>5. Phase' = [n \in DagNodes |-> Phase'[n]]
  BY DEF Phase
<1>6. Phase' = [n \in DagNodes |->
                  CASE n = t -> "done"
                    [] n # t /\ Phase[n] = "waiting" /\ Ready(n) -> "submitted"
                    [] OTHER -> Phase[n]]
  BY <1>4, <1>5, Zenon
<1> QED BY <1>1, <1>6 DEF Graph!Succeed

LEMMA FailRefines ==
  ASSUME IInv, NEW t \in DagNodes, Fail(t)
  PROVE  Graph!Fail(t)
<1>1. Phase[t] = "submitted" /\ node[t] = "inbox" /\ t \in known
  BY PhaseOf, GraphAssumption DEF IInv, Fail, ActiveNodesUndecided, OnlyKnownTasks
<1>2. Downstream(t) \in SUBSET DagNodes
  BY DEF Downstream
<1>3. Graph!LostWith(t, Downstream(t))
  BY DownstreamClosed, DownstreamLeast DEF Closed, Graph!LostWith
<1>4. ASSUME NEW n \in DagNodes
      PROVE  Phase'[n] = IF n \in Downstream(t) THEN "failed" ELSE Phase[n]
  <2>1. node'[n] = IF n \in Downstream(t) THEN "failed" ELSE node[n]
    BY DEF Fail
  <2>2. known' = known
    BY DEF Fail
  <2> QED BY <2>1, <2>2 DEF Phase
<1>5. Phase' = [n \in DagNodes |-> Phase'[n]]
  BY DEF Phase
<1>6. Phase' = [n \in DagNodes |-> IF n \in Downstream(t) THEN "failed" ELSE Phase[n]]
  BY <1>4, <1>5, Zenon
<1> QED BY <1>1, <1>2, <1>3, <1>6 DEF Graph!Fail

\* Everything else leaves the phases alone.
LEMMA OthersStutter ==
  ASSUME IInv, Next, ~SubmitDag, \A n \in DagNodes : ~Succeed(n) /\ ~Fail(n)
  PROVE  Phase' = Phase
<1>1. \/ UNCHANGED <<node, known>>
      \/ \E t \in Tasks \ DagNodes : Submit(t) \/ Succeed(t) \/ Fail(t)
  BY DEF Next, Dispatch, Shutdown, Register, Unregister, Submit, Cancel, Pause, Resume,
         Execute, LoseTask, Begin, GoOn, Abandon, Retry, RunEnds, dagVars
<1>2. ASSUME NEW t \in Tasks \ DagNodes, Submit(t)
      PROVE  node' = node /\ \A n \in DagNodes : n \in known' <=> n \in known
  BY <1>2 DEF Submit, dagVars
<1>3. ASSUME NEW t \in Tasks \ DagNodes, Succeed(t)
      PROVE  node' = node /\ \A n \in DagNodes : n \in known' <=> n \in known
  <2>1. Unlocked(t) = {}
    BY GraphAssumption DEF Unlocked, IInv, TypeOK
  <2> QED BY <1>3, <2>1 DEF Succeed, TriggerDownstream, IInv, TypeOK
<1>4. ASSUME NEW t \in Tasks \ DagNodes, Fail(t)
      PROVE  node' = node /\ known' = known
  BY <1>4 DEF Fail
<1>5. node' = node /\ \A n \in DagNodes : n \in known' <=> n \in known
  BY <1>1, <1>2, <1>3, <1>4
<1> QED BY <1>5 DEF Phase

\* TaskOrchestrator implements TaskGraph: whatever happens to workers, queue
\* and retries, a node is submitted in the very step that finishes the last
\* task it waited for, and a failure takes exactly what depends on it.
THEOREM GraphIsKept == Spec => GraphKept
<1>1. Init => Graph!Init
  BY DEF Init, Phase, Graph!Init
<1>2. IInv /\ [Next]_vars => [Graph!Next]_Phase
  <2> SUFFICES ASSUME IInv, Next PROVE Graph!Next \/ Phase' = Phase
    BY DEF vars, dagVars, Phase
  <2>1. CASE SubmitDag
    BY <2>1, SubmitDagRefines DEF Graph!Next
  <2>2. ASSUME NEW n \in DagNodes, Succeed(n) \/ Fail(n) PROVE Graph!Next
    BY <2>2, SucceedRefines, FailRefines DEF Graph!Next
  <2> QED BY <2>1, <2>2, OthersStutter
<1> QED BY <1>1, <1>2, Invariant, PTL DEF Spec, GraphKept, Graph!Spec

\* The verdict on a node of a graph is final.
THEOREM VerdictFinalHolds == Spec => VerdictFinal
<1> DEFINE Final == \A n \in DagNodes : node[n] \in {"done", "failed"} => node'[n] = node[n]
<1>1. IInv /\ [Next]_vars => [Final]_vars
  <2> SUFFICES ASSUME IInv, Next, NEW n \in DagNodes, node[n] \in {"done", "failed"}
               PROVE  node'[n] = node[n]
    BY DEF Final
  <2> USE DEF IInv
  <2>1. CASE UNCHANGED node
    BY <2>1
  <2>2. CASE SubmitDag
    BY <2>2 DEF SubmitDag
  <2>3. ASSUME NEW t \in Tasks, Succeed(t) PROVE node'[n] = node[n]
    <3>1. n # t
      BY <2>3 DEF Succeed, ActiveNodesUndecided
    <3> QED BY <2>3, <3>1 DEF Succeed, TriggerDownstream
  <2>4. ASSUME NEW t \in Tasks, Fail(t) PROVE node'[n] = node[n]
    <3>1. CASE t \notin DagNodes
      BY <2>4, <3>1 DEF Fail
    <3>2. CASE t \in DagNodes
      <4>1. node[t] = "inbox"
        BY <2>4, <3>2 DEF Fail, ActiveNodesUndecided
      <4>2. n \in Downstream(t) => n \notin known
        BY <3>2, <4>1, DownstreamUnknown
      <4>3. n \in Downstream(t) => node[n] = "failed"
        BY <4>2 DEF KnownNodes
      <4> QED BY <2>4, <3>2, <4>3 DEF Fail
    <3> QED BY <3>1, <3>2
  <2>5. UNCHANGED node \/ SubmitDag \/ \E t \in Tasks : Succeed(t) \/ Fail(t)
    BY DEF Next, Dispatch, Shutdown, Register, Unregister, Submit, Cancel, Pause, Resume,
           Execute, LoseTask, Begin, GoOn, Abandon, Retry, RunEnds, dagVars
  <2> QED BY <2>1, <2>2, <2>3, <2>4, <2>5
<1>2. VerdictFinal <=> [][Final]_vars
  BY DEF VerdictFinal
<1> QED BY <1>1, <1>2, Invariant, PTL DEF Spec
=============================================================================
