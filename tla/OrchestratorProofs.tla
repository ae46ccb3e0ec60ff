------------------------- MODULE OrchestratorProofs -------------------------
(***************************************************************************)
(* Theorems about the pool of workers, for any tasks and graph, sandboxes, *)
(* workers, containers and threshold of the circuit breaker, and about     *)
(* what becomes of its results, for any agents, sandboxes, files, answers  *)
(* of the reviewing model, plans, rounds and retries.                      *)
(***************************************************************************)
EXTENDS WorkerPool, Delivery, FiniteSetTheorems, TLAPS

USE TopologyAssumption, PoolAssumption, DeliveryAssumption


LEMMA InitIInv == Init => IInv
<1> SUFFICES ASSUME Init PROVE IInv
  OBVIOUS
<1> USE DEF Init
<1>1. Tasks!Init  OBVIOUS
<1>2. deps \in Graphs /\ phase = [t \in Task |-> "pending"]  BY <1>1 DEF Tasks!Init
<1>3. Len(Sandboxes) \in Nat  OBVIOUS
<1>4. TypeOK
  <2>1. pool \in [Sandbox -> Seq(Container)]  OBVIOUS
  <2>2. scan \in [Worker -> 1..(Len(Sandboxes) + 1)]  BY <1>3
  <2>3. breaker \in [Sandbox -> [state : Circuit, failures : Nat, cold : BOOLEAN]]  BY DEF Circuit
  <2>4. phase \in [Task -> Tasks!Phase]  BY <1>2 DEF Tasks!Phase
  <2> QED  BY <1>2, <2>1, <2>2, <2>3, <2>4 DEF TypeOK, Location
<1>5. HandsOK  BY DEF HandsOK, Idle, Inside
<1>6. ReportsOK  BY <1>2 DEF ReportsOK, Unreported, Idle
<1>7. ContainersOK  BY DEF ContainersOK
<1>8. CircuitTracksFailures  BY DEF CircuitTracksFailures
<1>9. OrchestratorOK  BY DEF OrchestratorOK
<1> QED  BY <1>4, <1>5, <1>6, <1>7, <1>8, <1>9 DEF IInv

----------------------------------------------------------------------------
(* What a step of a worker does to its own loop. *)

LEMMA AtSandbox ==
  ASSUME IInv, NEW w \in Worker, pc[w] \notin Idle \/ scan[w] <= Len(Sandboxes)
  PROVE  At(w) \in Sandbox
<1>1. scan[w] \in 1..Len(Sandboxes)
  <2>1. scan[w] \in 1..(Len(Sandboxes) + 1)  BY DEF IInv, TypeOK
  <2>2. scan[w] <= Len(Sandboxes)  BY DEF IInv, HandsOK
  <2> QED  BY <2>1, <2>2
<1> QED  BY <1>1 DEF At, Sandbox

(* A worker goes on with the task and the container it has. *)
LEMMA StaysHands ==
  ASSUME IInv, NEW w \in Worker, NEW loc \in Location, Goto(w, loc), Stay,
         pc[w] \notin Idle, loc \notin Idle, loc \in Inside <=> pc[w] \in Inside
  PROVE  /\ pc' \in [Worker -> Location]
         /\ HandsOK'
         /\ scan' \in [Worker -> 1..(Len(Sandboxes) + 1)] /\ found' \in [Worker -> BOOLEAN]
         /\ task' \in [Worker -> Task \cup {None}] /\ container' \in [Worker -> Container \cup {None}]
<1>1. /\ pc' = [pc EXCEPT ![w] = loc] /\ pc \in [Worker -> Location]
      /\ UNCHANGED <<scan, found, task, container>>
  BY DEF Goto, Stay, IInv, TypeOK
<1>2. HandsOK'  BY <1>1 DEF IInv, HandsOK
<1> QED  BY <1>1, <1>2 DEF IInv, TypeOK

(* Or it is rid of them. *)
LEMMA LeavesHands ==
  ASSUME IInv, NEW w \in Worker, NEW loc \in Idle, Goto(w, loc),
         scan' \in [Worker -> 1..(Len(Sandboxes) + 1)], found' \in [Worker -> BOOLEAN],
         \A v \in Worker : v # w => scan'[v] = scan[v],
         task' = [task EXCEPT ![w] = None], container' = [container EXCEPT ![w] = None]
  PROVE  /\ pc' \in [Worker -> Location]
         /\ HandsOK'
         /\ task' \in [Worker -> Task \cup {None}] /\ container' \in [Worker -> Container \cup {None}]
<1>1. /\ pc' = [pc EXCEPT ![w] = loc] /\ pc \in [Worker -> Location]
      /\ task \in [Worker -> Task \cup {None}] /\ container \in [Worker -> Container \cup {None}]
  BY DEF Goto, IInv, TypeOK
<1>2. loc \notin Inside /\ loc \in Location  BY DEF Idle, Inside, Location
<1>3. HandsOK'  BY <1>1, <1>2 DEF IInv, HandsOK
<1> QED  BY <1>1, <1>2, <1>3

(* No step of a worker's touches what the orchestrator knows, as long as no
   task is completed behind its back: while a worker is about, it waits. *)
LEMMA OrchestratorKept ==
  ASSUME IInv, NEW w \in Worker, pc[w] # "exited", UNCHANGED orchVars
  PROVE  OrchestratorOK'
BY DEF IInv, OrchestratorOK, orchVars, TypeOK

(* A step that keeps task, container, pool and the dispatcher as they are. *)
LEMMA StayStep ==
  ASSUME IInv, NEW w \in Worker, NEW loc \in Location, Goto(w, loc), Stay,
         UNCHANGED <<taskVars, exists, pool, applied, results, orchVars>>,
         pc[w] \notin Idle, loc \notin Idle, loc \in Inside <=> pc[w] \in Inside,
         loc \in Unreported <=> pc[w] \in Unreported, loc # "settleErr",
         pc[w] \in Filing => loc \in Filing,
         breaker' \in [Sandbox -> [state : Circuit, failures : Nat, cold : BOOLEAN]],
         CircuitTracksFailures', awake' \subseteq Container, heartbeats' \subseteq Container
  PROVE  IInv'
<1>1. /\ pc' = [pc EXCEPT ![w] = loc] /\ pc \in [Worker -> Location]
      /\ UNCHANGED <<scan, found, task, container>>
  BY DEF Goto, Stay, IInv, TypeOK
<1>2. HandsOK' /\ TypeOK'
  BY StaysHands DEF IInv, TypeOK, taskVars, orchVars
<1>3. ReportsOK'
  <2>1. \A v \in Worker :
          /\ pc'[v] \in Unreported => phase'[task'[v]] = "running"
          /\ pc'[v] \notin Unreported \cup Idle => phase'[task'[v]] \in {"completed", "failed"}
          /\ pc'[v] = "settleErr" => phase'[task'[v]] = "failed"
    BY <1>1 DEF IInv, ReportsOK, taskVars
  <2>2. \A v \in Worker : pc[v] \in Filing => pc'[v] \in Filing
    BY <1>1
  <2> QED  BY <1>1, <2>1, <2>2 DEF IInv, ReportsOK, taskVars
<1>4. ContainersOK'  BY <1>1 DEF IInv, ContainersOK
<1>5. OrchestratorOK'
  BY OrchestratorKept DEF Idle
<1> QED  BY <1>2, <1>3, <1>4, <1>5 DEF IInv

(* A step that gives the task up, whose result is not waited for. *)
LEMMA LeaveStep ==
  ASSUME IInv, NEW w \in Worker, NEW loc \in Idle, Goto(w, loc), pc[w] \notin Idle \cup Filing,
         scan' \in [Worker -> 1..(Len(Sandboxes) + 1)], found' \in [Worker -> BOOLEAN],
         \A v \in Worker : v # w => scan'[v] = scan[v],
         task' = [task EXCEPT ![w] = None], container' = [container EXCEPT ![w] = None],
         UNCHANGED <<taskVars, breaker, exists, applied, results, orchVars>>,
         awake' \subseteq Container, heartbeats' \subseteq Container,
         pool' \in [Sandbox -> Seq(Container)], ContainersOK'
  PROVE  IInv'
<1>1. /\ pc' = [pc EXCEPT ![w] = loc] /\ pc \in [Worker -> Location]
      /\ task \in [Worker -> Task \cup {None}] /\ container \in [Worker -> Container \cup {None}]
  BY DEF Goto, IInv, TypeOK
<1>2. HandsOK' /\ TypeOK'
  BY LeavesHands DEF IInv, TypeOK, taskVars, orchVars
<1>3. ReportsOK'
  <2>1. \A v \in Worker :
          /\ pc'[v] \in Unreported => phase'[task'[v]] = "running"
          /\ pc'[v] \notin Unreported \cup Idle => phase'[task'[v]] \in {"completed", "failed"}
          /\ pc'[v] = "settleErr" => phase'[task'[v]] = "failed"
    <3>1. loc \notin Unreported /\ loc # "settleErr"  BY DEF Idle, Unreported
    <3> QED  BY <1>1, <3>1 DEF IInv, ReportsOK, taskVars
  <2>2. \A v \in Worker : pc[v] \in Filing => pc'[v] \in Filing /\ task'[v] = task[v]
    BY <1>1
  <2> QED  BY <1>1, <2>1, <2>2 DEF IInv, ReportsOK, taskVars
<1>4. OrchestratorOK'
  BY OrchestratorKept DEF Idle
<1>5. CircuitTracksFailures'  BY DEF IInv, CircuitTracksFailures
<1> QED  BY <1>2, <1>3, <1>4, <1>5 DEF IInv

(* Continue gives the task up without a word. *)
LEMMA ContinueIInv ==
  ASSUME IInv, NEW w \in Worker, Continue(w), pc[w] \notin Idle \cup Filing,
         UNCHANGED <<taskVars, breaker, poolVars, applied, results, orchVars>>
  PROVE  IInv'
<1>1. "scan" \in Idle  BY DEF Idle
<1>2. scan' \in [Worker -> 1..(Len(Sandboxes) + 1)] /\ \A v \in Worker : v # w => scan'[v] = scan[v]
  <2>1. scan \in [Worker -> 1..(Len(Sandboxes) + 1)] /\ scan[w] <= Len(Sandboxes)
    BY DEF IInv, TypeOK, HandsOK
  <2>2. Len(Sandboxes) \in Nat  OBVIOUS
  <2>3. scan' = [scan EXCEPT ![w] = scan[w] + 1] /\ scan[w] + 1 \in 1..(Len(Sandboxes) + 1)
    BY <2>1, <2>2 DEF Continue
  <2> QED  BY <2>1, <2>3
<1>3. /\ task' = [task EXCEPT ![w] = None] /\ container' = [container EXCEPT ![w] = None]
      /\ Goto(w, "scan") /\ found' = found
      /\ UNCHANGED <<exists, awake, pool, heartbeats>>
  BY DEF Continue, poolVars
<1>4. ContainersOK'
  <2>1. container \in [Worker -> Container \cup {None}]  BY DEF IInv, TypeOK
  <2>2. None \notin Container  OBVIOUS
  <2>3. \A s \in Sandbox : \A i \in DOMAIN pool[s] : pool[s][i] # None
    BY <2>2 DEF IInv, TypeOK
  <2> QED  BY <1>3, <2>1, <2>3 DEF IInv, ContainersOK
<1>5. /\ found' \in [Worker -> BOOLEAN] /\ awake' \subseteq Container /\ heartbeats' \subseteq Container
      /\ pool' \in [Sandbox -> Seq(Container)]
  BY <1>3 DEF IInv, TypeOK
<1>6. UNCHANGED <<taskVars, breaker, exists, applied, results, orchVars>>  BY <1>3
<1> QED  BY <1>1, <1>2, <1>3, <1>4, <1>5, <1>6, LeaveStep
----------------------------------------------------------------------------
(* The scan. *)

LEMMA GetReadyTaskIInv ==
  ASSUME IInv, NEW w \in Worker, GetReadyTask(w)
  PROVE  IInv'
<1>1. /\ pc[w] = "scan" /\ scan[w] <= Len(Sandboxes)
      /\ pc' = [pc EXCEPT ![w] = "check"]
      /\ found' = [found EXCEPT ![w] = TRUE]
      /\ UNCHANGED <<deps, scan, container, breaker, exists, awake, pool, heartbeats, applied,
                     results, orchVars>>
  BY DEF GetReadyTask, Goto, poolVars
<1>2. PICK t \in Task : Tasks!Start(t) /\ task' = [task EXCEPT ![w] = t]
  BY DEF GetReadyTask
<1>3. /\ phase[t] = "pending" /\ phase' = [phase EXCEPT ![t] = "running"]
      /\ \A d \in deps[t] : d \in Task /\ phase[d] = "completed"
  BY <1>2 DEF Tasks!Start, Tasks!Becomes
<1>4. /\ pc \in [Worker -> Location] /\ task \in [Worker -> Task \cup {None}]
      /\ found \in [Worker -> BOOLEAN] /\ phase \in [Task -> Tasks!Phase]
  BY DEF IInv, TypeOK
<1>5. "check" \in Location /\ "running" \in Tasks!Phase  BY DEF Location, Tasks!Phase
<1>6. TypeOK'
  <2>1. /\ pc' \in [Worker -> Location] /\ task' \in [Worker -> Task \cup {None}]
        /\ found' \in [Worker -> BOOLEAN] /\ phase' \in [Task -> Tasks!Phase]
    BY <1>1, <1>2, <1>3, <1>4, <1>5
  <2> QED  BY <1>1, <2>1 DEF IInv, TypeOK, orchVars
<1>7. \A v \in Worker : task[v] # t
  <2>1. \A v \in Worker : task[v] = t => pc[v] \notin Idle  BY <1>2 DEF IInv, HandsOK
  <2> QED  BY <1>3, <2>1 DEF IInv, ReportsOK
<1>8. HandsOK'
  <2>1. "check" \notin Idle /\ "check" \notin Inside /\ "scan" \notin Inside
    BY DEF Idle, Inside
  <2>2. t # None  BY <1>2
  <2> QED  BY <1>1, <1>2, <1>4, <1>7, <2>1, <2>2 DEF IInv, HandsOK
<1>9. ReportsOK'
  <2>1. "check" \in Unreported /\ "check" \notin Filing /\ "scan" \notin Filing
    BY DEF Unreported, Filing
  <2>2. \A v \in Worker :
          /\ pc'[v] \in Unreported => phase'[task'[v]] = "running"
          /\ pc'[v] \notin Unreported \cup Idle => phase'[task'[v]] \in {"completed", "failed"}
          /\ pc'[v] = "settleErr" => phase'[task'[v]] = "failed"
    <3>1. TAKE v \in Worker
    <3>2. CASE v = w  BY <1>1, <1>2, <1>3, <1>4, <2>1, <3>2
    <3>3. CASE v # w
      <4>1. pc'[v] = pc[v] /\ task'[v] = task[v]  BY <1>1, <1>2, <1>4, <3>3
      <4>2. phase'[task[v]] = phase[task[v]]  BY <1>3, <1>4, <1>7
      <4> QED  BY <4>1, <4>2 DEF IInv, ReportsOK
    <3> QED  BY <3>2, <3>3
  <2>3. \A u \in Task :
          /\ phase'[u] = "running" => \A d \in deps'[u] : d \in Task /\ phase'[d] = "completed"
          /\ phase'[u] = "completed" =>
               /\ u \in applied'
               /\ u \in results' \/ \E v \in Worker : task'[v] = u /\ pc'[v] \in Filing
    <3>1. TAKE u \in Task
    <3>2. \A d \in Task : phase[d] = "completed" <=> phase'[d] = "completed"
      BY <1>3, <1>4
    <3>3. \A v \in Worker : pc[v] \in Filing => pc'[v] = pc[v] /\ task'[v] = task[v]
      BY <1>1, <1>2, <1>4, <2>1
    <3> QED  BY <1>1, <1>3, <1>4, <3>2, <3>3 DEF IInv, ReportsOK
  <2> QED  BY <2>2, <2>3 DEF ReportsOK
<1>10. ContainersOK'  BY <1>1 DEF IInv, ContainersOK
<1>11. CircuitTracksFailures'  BY <1>1 DEF IInv, CircuitTracksFailures
<1>12. OrchestratorOK'  BY <1>1, OrchestratorKept
<1> QED  BY <1>6, <1>8, <1>9, <1>10, <1>11, <1>12 DEF IInv

LEMMA ScanIInv ==
  ASSUME IInv, NEW w \in Worker, NoneReady(w) \/ EndScan(w)
  PROVE  IInv'
<1>1. /\ pc[w] = "scan"
      /\ pc' = pc \/ pc' = [pc EXCEPT ![w] = "exited"]
      /\ UNCHANGED <<taskVars, task, container, breaker, poolVars, applied, results, orchVars>>
  BY DEF NoneReady, EndScan, Goto
<1>2. /\ scan' \in [Worker -> 1..(Len(Sandboxes) + 1)] /\ found' \in [Worker -> BOOLEAN]
      /\ \A v \in Worker : v # w => scan'[v] = scan[v]
  <2>1. scan \in [Worker -> 1..(Len(Sandboxes) + 1)] /\ found \in [Worker -> BOOLEAN]
    BY DEF IInv, TypeOK
  <2>2. Len(Sandboxes) \in Nat  OBVIOUS
  <2>3. CASE NoneReady(w)
    <3>1. scan' = [scan EXCEPT ![w] = scan[w] + 1] /\ scan[w] + 1 \in 1..(Len(Sandboxes) + 1)
      BY <2>1, <2>2, <2>3 DEF NoneReady
    <3> QED  BY <2>1, <2>3, <3>1 DEF NoneReady
  <2>4. CASE EndScan(w)
    <3>1. 1 \in 1..(Len(Sandboxes) + 1)  BY <2>2
    <3> QED  BY <2>1, <2>4, <3>1 DEF EndScan
  <2> QED  BY <2>3, <2>4
<1>3. pc \in [Worker -> Location] /\ "exited" \in Location  BY DEF IInv, TypeOK, Location
<1>4. \A v \in Worker : /\ pc'[v] = pc[v] \/ (v = w /\ pc'[v] = "exited")
                        /\ pc'[v] \in Idle <=> pc[v] \in Idle
                        /\ pc'[v] \in Inside <=> pc[v] \in Inside
                        /\ pc'[v] \in Unreported <=> pc[v] \in Unreported
                        /\ pc'[v] \in Filing <=> pc[v] \in Filing
                        /\ pc'[v] = "settleErr" <=> pc[v] = "settleErr"
  <2>1. /\ "scan" \in Idle /\ "exited" \in Idle
        /\ \A loc \in Idle : loc \notin Inside /\ loc \notin Unreported /\ loc \notin Filing
                             /\ loc # "settleErr"
    BY DEF Idle, Inside, Unreported, Filing
  <2> QED  BY <1>1, <1>3, <2>1
<1>5. TypeOK'
  <2>1. pc' \in [Worker -> Location]  BY <1>1, <1>3
  <2> QED  BY <1>1, <1>2, <2>1 DEF IInv, TypeOK, taskVars, poolVars, orchVars
<1>6. HandsOK'
  <2>1. pc[w] \in Idle  BY <1>1 DEF Idle
  <2> QED  BY <1>1, <1>2, <1>4, <2>1 DEF IInv, HandsOK
<1>7. ReportsOK'  BY <1>1, <1>4 DEF IInv, ReportsOK, taskVars
<1>8. ContainersOK'  BY <1>1 DEF IInv, ContainersOK, poolVars
<1>9. CircuitTracksFailures'  BY <1>1 DEF IInv, CircuitTracksFailures
<1>10. OrchestratorOK'  BY <1>1, OrchestratorKept
<1> QED  BY <1>5, <1>6, <1>7, <1>8, <1>9, <1>10 DEF IInv

----------------------------------------------------------------------------
(* The circuit breaker. *)

LEMMA CheckCircuitIInv ==
  ASSUME IInv, NEW w \in Worker, CheckCircuit(w)
  PROVE  IInv'
<1> USE DEF Location, Idle, Inside, Unreported, Filing
<1>1. /\ pc[w] = "check"
      /\ UNCHANGED <<taskVars, breaker, poolVars, applied, results, orchVars>>
      /\ \/ \E loc \in {"wake", "probe"} : Goto(w, loc) /\ Stay
         \/ Continue(w)
  BY DEF CheckCircuit
<1>2. ASSUME NEW loc \in {"wake", "probe"}, Goto(w, loc), Stay
      PROVE  IInv'
  <2>1. CircuitTracksFailures'  BY <1>1 DEF IInv, CircuitTracksFailures
  <2>2. /\ breaker' \in [Sandbox -> [state : Circuit, failures : Nat, cold : BOOLEAN]]
        /\ awake' \subseteq Container /\ heartbeats' \subseteq Container
    BY <1>1 DEF IInv, TypeOK, poolVars
  <2> QED  BY <1>1, <1>2, <2>1, <2>2, StayStep DEF poolVars
<1>3. CASE Continue(w)  BY <1>1, <1>3, ContinueIInv
<1> QED  BY <1>1, <1>2, <1>3

LEMMA ProbeIInv ==
  ASSUME IInv, NEW w \in Worker, Probe(w)
  PROVE  IInv'
<1> USE DEF Location, Idle, Inside, Unreported, Filing
<1>1. /\ pc[w] = "probe" /\ Goto(w, "wake") /\ Stay
      /\ UNCHANGED <<taskVars, exists, awake, pool, heartbeats, applied, results, orchVars>>
      /\ awake' \subseteq Container /\ heartbeats' \subseteq Container
  BY DEF Probe, poolVars, IInv, TypeOK
<1>2. At(w) \in Sandbox  BY <1>1, AtSandbox
<1>3. breaker \in [Sandbox -> [state : Circuit, failures : Nat, cold : BOOLEAN]]
  BY DEF IInv, TypeOK
<1>4. /\ breaker' \in [Sandbox -> [state : Circuit, failures : Nat, cold : BOOLEAN]]
      /\ \A s \in Sandbox : breaker'[s].failures = breaker[s].failures
                            /\ (breaker'[s].state = "closed" <=> breaker[s].state = "closed")
  <2>1. CASE breaker' = breaker  BY <1>3, <2>1
  <2>2. CASE /\ breaker[At(w)].state = "open"
             /\ breaker' = [breaker EXCEPT ![At(w)].state = "halfOpen"]
    <3>1. PICK s \in Sandbox : s = At(w)  BY <1>2
    <3>2. PICK b : b = [breaker[s] EXCEPT !.state = "halfOpen"]
      OBVIOUS
    <3>3. breaker' = [breaker EXCEPT ![s] = b]  BY <2>2, <3>1, <3>2
    <3>4. /\ b \in [state : Circuit, failures : Nat, cold : BOOLEAN]
          /\ b.failures = breaker[s].failures /\ b.state = "halfOpen"
      <4>1. breaker[s] \in [state : Circuit, failures : Nat, cold : BOOLEAN]
        BY <1>3, <3>1
      <4> QED  BY <3>2, <4>1 DEF Circuit
    <3>5. breaker[s].state = "open"  BY <2>2, <3>1
    <3>6. breaker' \in [Sandbox -> [state : Circuit, failures : Nat, cold : BOOLEAN]]
      BY <1>3, <3>3, <3>4
    <3>7. breaker'[s] = b /\ \A r \in Sandbox : r # s => breaker'[r] = breaker[r]
      BY <1>3, <3>3
    <3> QED  BY <3>4, <3>5, <3>6, <3>7
  <2> QED  BY <2>1, <2>2 DEF Probe
<1>5. CircuitTracksFailures'  BY <1>4 DEF IInv, CircuitTracksFailures
<1> QED  BY <1>1, <1>4, <1>5, StayStep

LEMMA RecordHealthIInv ==
  ASSUME IInv, NEW w \in Worker, RecordHealth(w)
  PROVE  IInv'
<1> USE DEF Location, Idle, Inside, Unreported, Filing
<1>1. /\ pc[w] \in {"recordOk", "recordErr"} /\ Goto(w, "forget") /\ Stay
      /\ UNCHANGED <<taskVars, exists, awake, pool, heartbeats, applied, results, orchVars>>
      /\ awake' \subseteq Container /\ heartbeats' \subseteq Container
  BY DEF RecordHealth, poolVars, IInv, TypeOK
<1>2. At(w) \in Sandbox  BY <1>1, AtSandbox
<1>3. breaker \in [Sandbox -> [state : Circuit, failures : Nat, cold : BOOLEAN]]
  BY DEF IInv, TypeOK
<1>4. /\ breaker' \in [Sandbox -> [state : Circuit, failures : Nat, cold : BOOLEAN]]
      /\ CircuitTracksFailures'
  <2>1. CASE breaker' = [breaker EXCEPT ![At(w)].failures = 0, ![At(w)].state = "closed"]
    <3>1. breaker[At(w)] \in [state : Circuit, failures : Nat, cold : BOOLEAN]
      BY <1>2, <1>3
    <3>2. breaker' = [breaker EXCEPT ![At(w)] = [@ EXCEPT !.failures = 0, !.state = "closed"]]
      BY <1>2, <1>3, <2>1
    <3>3. PICK q : q = [breaker[At(w)] EXCEPT !.failures = 0, !.state = "closed"]
      OBVIOUS
    <3>4. /\ q \in [state : Circuit, failures : Nat, cold : BOOLEAN]
          /\ q.failures = 0 /\ q.state = "closed"
      BY <3>1, <3>3 DEF Circuit
    <3>5. breaker' = [breaker EXCEPT ![At(w)] = q]
      BY <3>2, <3>3
    <3> QED  BY <1>2, <1>3, <3>4, <3>5 DEF IInv, CircuitTracksFailures
  <2>2. CASE LET n == breaker[At(w)].failures + 1
             IN breaker' = [breaker EXCEPT ![At(w)] =
                              [state |-> IF n >= Threshold THEN "open" ELSE @.state,
                               failures |-> n, cold |-> FALSE]]
    BY <1>2, <1>3, <2>2 DEF Circuit, IInv, CircuitTracksFailures
  <2> QED  BY <2>1, <2>2 DEF RecordHealth
<1> QED  BY <1>1, <1>4, StayStep

LEMMA CoolIInv ==
  ASSUME IInv, NEW s \in Sandbox, Cool(s)
  PROVE  IInv'
<1>1. UNCHANGED <<taskVars, loopVars, poolVars, applied, results, orchVars>>
  BY DEF Cool
<1>2. breaker \in [Sandbox -> [state : Circuit, failures : Nat, cold : BOOLEAN]]
  BY DEF IInv, TypeOK
<1>3. /\ breaker' \in [Sandbox -> [state : Circuit, failures : Nat, cold : BOOLEAN]]
      /\ \A r \in Sandbox : breaker'[r].failures = breaker[r].failures
                            /\ breaker'[r].state = breaker[r].state
  <2>1. PICK b : b = [breaker[s] EXCEPT !.cold = TRUE]
    OBVIOUS
  <2>2. breaker' = [breaker EXCEPT ![s] = b]  BY <2>1 DEF Cool
  <2>3. /\ b \in [state : Circuit, failures : Nat, cold : BOOLEAN]
        /\ b.failures = breaker[s].failures /\ b.state = breaker[s].state
    <3>1. breaker[s] \in [state : Circuit, failures : Nat, cold : BOOLEAN]
      BY <1>2
    <3> QED  BY <2>1, <3>1
  <2>4. breaker' \in [Sandbox -> [state : Circuit, failures : Nat, cold : BOOLEAN]]
    BY <1>2, <2>2, <2>3
  <2>5. breaker'[s] = b /\ \A r \in Sandbox : r # s => breaker'[r] = breaker[r]
    BY <1>2, <2>2
  <2> QED  BY <2>3, <2>4, <2>5
<1>4. CircuitTracksFailures'  BY <1>3 DEF IInv, CircuitTracksFailures
<1>5. TypeOK'
  BY <1>1, <1>3 DEF IInv, TypeOK, taskVars, loopVars, poolVars, orchVars
<1>6. HandsOK' /\ ReportsOK' /\ ContainersOK' /\ OrchestratorOK'
  BY <1>1 DEF IInv, HandsOK, ReportsOK, ContainersOK, OrchestratorOK, taskVars, loopVars,
              poolVars, orchVars
<1> QED  BY <1>4, <1>5, <1>6 DEF IInv
----------------------------------------------------------------------------
(* Containers. *)

(* A worker steps inside with a container. *)
LEMMA EnterStep ==
  ASSUME IInv, NEW w \in Worker, NEW c \in Container, NEW loc \in {"start", "init"},
         pc[w] \in {"wake", "create"}, Goto(w, loc), container' = [container EXCEPT ![w] = c],
         UNCHANGED <<taskVars, scan, found, task, breaker, heartbeats, applied, results, orchVars>>,
         exists' \subseteq Container, awake' \subseteq Container,
         pool' \in [Sandbox -> Seq(Container)], ContainersOK'
  PROVE  IInv'
<1>1. /\ pc' = [pc EXCEPT ![w] = loc] /\ pc \in [Worker -> Location]
      /\ container \in [Worker -> Container \cup {None}]
  BY DEF Goto, IInv, TypeOK
<1>2. /\ loc \in Location /\ loc \in Inside /\ loc \notin Idle /\ loc \in Unreported
      /\ pc[w] \in Unreported /\ pc[w] \notin Filing /\ loc # "settleErr"
      /\ pc[w] \notin Idle /\ pc[w] # "exited"
  BY DEF Location, Inside, Idle, Unreported, Filing
<1>3. c # None  OBVIOUS
<1>4. TypeOK'
  <2>1. pc' \in [Worker -> Location] /\ container' \in [Worker -> Container \cup {None}]
    BY <1>1, <1>2
  <2> QED  BY <2>1 DEF IInv, TypeOK, taskVars, orchVars
<1>5. HandsOK'  BY <1>1, <1>2, <1>3 DEF IInv, HandsOK
<1>6. ReportsOK'
  <2>1. \A v \in Worker : /\ pc'[v] \in Unreported <=> pc[v] \in Unreported
                          /\ pc'[v] \in Idle <=> pc[v] \in Idle
                          /\ pc'[v] = "settleErr" => pc[v] = "settleErr"
                          /\ pc[v] \in Filing => pc'[v] \in Filing
    BY <1>1, <1>2
  <2> QED  BY <2>1 DEF IInv, ReportsOK, taskVars
<1>7. CircuitTracksFailures'  BY DEF IInv, CircuitTracksFailures
<1>8. OrchestratorOK'  BY <1>2, OrchestratorKept
<1> QED  BY <1>4, <1>5, <1>6, <1>7, <1>7, <1>8 DEF IInv

(* Which container it is with does not matter, as long as it is agentd's and
   was neither with a worker nor in the pool that is left. *)
LEMMA EnterContainers ==
  ASSUME IInv, NEW w \in Worker, NEW c \in Container, container' = [container EXCEPT ![w] = c],
         exists \subseteq exists', c \in exists', \A v \in Worker : container[v] # c,
         \A s \in Sandbox : \A i \in DOMAIN pool'[s] :
           pool'[s][i] \in exists' \ {c} /\ \A v \in Worker : container[v] # pool'[s][i],
         \A s, r \in Sandbox : \A i \in DOMAIN pool'[s], j \in DOMAIN pool'[r] :
           pool'[s][i] = pool'[r][j] => s = r /\ i = j
  PROVE  ContainersOK'
<1>1. container \in [Worker -> Container \cup {None}]  BY DEF IInv, TypeOK
<1>2. \A v \in Worker : container'[v] = IF v = w THEN c ELSE container[v]
  BY <1>1
<1>3. \A v \in Worker : container'[v] # None => container'[v] \in exists'
  BY <1>2 DEF IInv, ContainersOK
<1>4. \A u, v \in Worker : container'[u] = container'[v] /\ container'[v] # None => u = v
  BY <1>2 DEF IInv, ContainersOK
<1>5. \A s \in Sandbox : \A i \in DOMAIN pool'[s] :
        pool'[s][i] \in exists' /\ \A v \in Worker : container'[v] # pool'[s][i]
  BY <1>2
<1> QED  BY <1>3, <1>4, <1>5 DEF ContainersOK

LEMMA WakeContainerIInv ==
  ASSUME IInv, NEW w \in Worker, WakeContainer(w)
  PROVE  IInv'
<1> DEFINE s == At(w)
           q == pool[s]
<1>1. /\ pc[w] = "wake"
      /\ UNCHANGED <<taskVars, scan, found, task, breaker, exists, heartbeats, applied, results,
                     orchVars>>
  BY DEF WakeContainer
<1>2. s \in Sandbox  BY <1>1, AtSandbox DEF Idle
<1>3. /\ pool \in [Sandbox -> Seq(Container)] /\ q \in Seq(Container)
      /\ awake \subseteq Container /\ exists \subseteq Container /\ heartbeats \subseteq Container
  BY <1>2 DEF IInv, TypeOK
<1>4. CASE q # <<>>
  <2>1. /\ pool' = [pool EXCEPT ![s] = Tail(q)]
        /\ awake' = awake \cup {Head(q)}
        /\ container' = [container EXCEPT ![w] = Head(q)]
        /\ Goto(w, "start")
    BY <1>2, <1>3, <1>4 DEF WakeContainer
  <2>2. /\ Head(q) = q[1] /\ 1 \in DOMAIN q /\ Head(q) \in Container
        /\ Tail(q) \in Seq(Container)
        /\ \A i \in DOMAIN Tail(q) : i \in Nat /\ i + 1 \in DOMAIN q /\ Tail(q)[i] = q[i + 1] /\ i + 1 # 1
    BY <1>3, <1>4
  <2>3. pool' \in [Sandbox -> Seq(Container)]
    BY <1>3, <2>1, <2>2
  <2>4. /\ pool'[s] = Tail(q)
        /\ \A r \in Sandbox : r # s => pool'[r] = pool[r]
    BY <1>2, <1>3, <2>1
  <2>5. \A r, t \in Sandbox : \A i \in DOMAIN pool[r], j \in DOMAIN pool[t] :
          pool[r][i] = pool[t][j] => r = t /\ i = j
    BY DEF IInv, ContainersOK
  <2>6. \A r \in Sandbox : \A i \in DOMAIN pool'[r] :
          \E k \in DOMAIN pool[r] : /\ pool'[r][i] = pool[r][k]
                                    /\ k = IF r = s THEN i + 1 ELSE i
    BY <2>2, <2>4
  <2>7. \A r \in Sandbox : \A i \in DOMAIN pool'[r] :
          pool'[r][i] \in exists' \ {Head(q)} /\ \A v \in Worker : container[v] # pool'[r][i]
    <3>1. TAKE r \in Sandbox
    <3>2. TAKE i \in DOMAIN pool'[r]
    <3>3. PICK k \in DOMAIN pool[r] : /\ pool'[r][i] = pool[r][k]
                                      /\ k = IF r = s THEN i + 1 ELSE i
      BY <2>6
    <3>4. pool[r][k] \in exists /\ \A v \in Worker : container[v] # pool[r][k]
      BY <3>3 DEF IInv, ContainersOK
    <3>5. pool[r][k] # Head(q)
      <4>1. r = s => k # 1  BY <2>2, <2>4, <3>3
      <4>2. pool[r][k] = pool[s][1] => r = s /\ k = 1  BY <1>2, <2>2, <2>5
      <4> QED  BY <2>2, <4>1, <4>2
    <3> QED  BY <1>1, <3>3, <3>4, <3>5
  <2>8. \A r, t \in Sandbox : \A i \in DOMAIN pool'[r], j \in DOMAIN pool'[t] :
          pool'[r][i] = pool'[t][j] => r = t /\ i = j
    <3>1. SUFFICES ASSUME NEW r \in Sandbox, NEW t \in Sandbox, NEW i \in DOMAIN pool'[r],
                          NEW j \in DOMAIN pool'[t], pool'[r][i] = pool'[t][j]
                   PROVE  r = t /\ i = j
      OBVIOUS
    <3>2. PICK k \in DOMAIN pool[r] : pool'[r][i] = pool[r][k] /\ k = IF r = s THEN i + 1 ELSE i
      BY <2>6
    <3>3. PICK l \in DOMAIN pool[t] : pool'[t][j] = pool[t][l] /\ l = IF t = s THEN j + 1 ELSE j
      BY <2>6
    <3>4. r = t /\ k = l
      <4>1. pool[r][k] = pool[t][l]  BY <3>1, <3>2, <3>3
      <4> QED  BY <2>5, <4>1
    <3>5. r = t /\ (IF r = s THEN i + 1 ELSE i) = (IF t = s THEN j + 1 ELSE j)
      BY <3>2, <3>3, <3>4
    <3>6. r = s => i \in Nat /\ j \in Nat
      BY <2>2, <2>4, <3>5
    <3> QED  BY <3>5, <3>6
  <2>9. Head(q) \in exists /\ \A v \in Worker : container[v] # Head(q)
    BY <1>2, <2>2 DEF IInv, ContainersOK
  <2>10. UNCHANGED <<taskVars, scan, found, task, breaker, heartbeats, applied, results, orchVars>>
    BY <1>1
  <2>11. "start" \in {"start", "init"} /\ pc[w] \in {"wake", "create"}  BY <1>1
  <2>12. awake' \subseteq Container  BY <1>3, <2>1, <2>2
  <2>13. PICK c \in Container : c = Head(q)  BY <2>2
  <2>14. /\ container' = [container EXCEPT ![w] = c] /\ Goto(w, "start")
         /\ exists \subseteq exists' /\ exists' \subseteq Container /\ c \in exists'
         /\ \A v \in Worker : container[v] # c
    BY <1>1, <1>3, <2>1, <2>9, <2>13
  <2>15. \A r \in Sandbox : \A i \in DOMAIN pool'[r] :
           pool'[r][i] \in exists' \ {c} /\ \A v \in Worker : container[v] # pool'[r][i]
    BY <2>7, <2>13
  <2>16. ContainersOK'  BY <2>8, <2>14, <2>15, EnterContainers
  <2> QED  BY <2>3, <2>10, <2>11, <2>12, <2>14, <2>16, EnterStep
<1>5. CASE q = <<>>
  <2>1. Goto(w, "create") /\ UNCHANGED <<pool, awake, container>>
    BY <1>5 DEF WakeContainer
  <2>2. Stay /\ UNCHANGED <<taskVars, exists, pool, applied, results, orchVars>>
    BY <1>1, <2>1 DEF Stay
  <2>3. CircuitTracksFailures'  BY <1>1 DEF IInv, CircuitTracksFailures
  <2>4. /\ breaker' \in [Sandbox -> [state : Circuit, failures : Nat, cold : BOOLEAN]]
        /\ awake' \subseteq Container /\ heartbeats' \subseteq Container
    BY <1>1, <2>1 DEF IInv, TypeOK
  <2> QED
    BY <1>1, <2>1, <2>2, <2>3, <2>4, StayStep DEF Location, Idle, Inside, Unreported, Filing
<1> QED  BY <1>4, <1>5

LEMMA CreateContainerIInv ==
  ASSUME IInv, NEW w \in Worker, CreateContainer(w)
  PROVE  IInv'
<1>1. /\ pc[w] = "create"
      /\ UNCHANGED <<taskVars, breaker, pool, heartbeats, applied, results, orchVars>>
  BY DEF CreateContainer
<1>2. CASE Continue(w) /\ UNCHANGED <<exists, awake>>
  BY <1>1, <1>2, ContinueIInv DEF Idle, Filing, poolVars
<1>3. CASE /\ Container \ exists # {}
           /\ LET c == CHOOSE c \in Container \ exists : TRUE
              IN /\ exists' = exists \cup {c}
                 /\ awake' = awake \cup {c}
                 /\ container' = [container EXCEPT ![w] = c]
           /\ Goto(w, "init")
           /\ UNCHANGED <<scan, found, task>>
  <2>1. PICK c \in Container \ exists :
               /\ exists' = exists \cup {c}
               /\ awake' = awake \cup {c}
               /\ container' = [container EXCEPT ![w] = c]
    BY <1>3
  <2>2. /\ exists \subseteq Container /\ awake \subseteq Container
        /\ pool \in [Sandbox -> Seq(Container)]
    BY DEF IInv, TypeOK
  <2>3. \A v \in Worker : container[v] # c
    <3>1. c # None  OBVIOUS
    <3> QED  BY <3>1 DEF IInv, ContainersOK
  <2>4. \A s \in Sandbox : \A i \in DOMAIN pool'[s] :
          pool'[s][i] \in exists' \ {c} /\ \A v \in Worker : container[v] # pool'[s][i]
    BY <1>1, <2>1 DEF IInv, ContainersOK
  <2>5. \A s, r \in Sandbox : \A i \in DOMAIN pool'[s], j \in DOMAIN pool'[r] :
          pool'[s][i] = pool'[r][j] => s = r /\ i = j
    BY <1>1 DEF IInv, ContainersOK
  <2>6. "init" \in {"start", "init"} /\ pc[w] \in {"wake", "create"}  BY <1>1
  <2>7. UNCHANGED <<taskVars, scan, found, task, breaker, heartbeats, applied, results, orchVars>>
    BY <1>1, <1>3
  <2>8. /\ exists \subseteq exists' /\ exists' \subseteq Container /\ awake' \subseteq Container
        /\ c \in exists' /\ pool' \in [Sandbox -> Seq(Container)]
    BY <1>1, <2>1, <2>2
  <2>9. ContainersOK'  BY <2>1, <2>3, <2>4, <2>5, <2>8, EnterContainers
  <2> QED  BY <1>3, <2>1, <2>6, <2>7, <2>8, <2>9, EnterStep
<1> QED  BY <1>2, <1>3 DEF CreateContainer
----------------------------------------------------------------------------
(* One task, from its container to its report. *)

(* Steps that keep the breaker, the dispatcher and who is in which container. *)
LEMMA QuietIInv ==
  ASSUME IInv, NEW w \in Worker,
         StartTask(w) \/ ExecuteOk(w) \/ ForgetAgent(w) \/ SleepContainer(w)
  PROVE  IInv'
<1> USE DEF Location, Idle, Inside, Unreported, Filing
<1>1. /\ Stay
      /\ UNCHANGED <<taskVars, breaker, exists, pool, applied, results, orchVars>>
      /\ \/ pc[w] = "start" /\ Goto(w, "execute")
         \/ pc[w] = "execute" /\ Goto(w, "apply")
         \/ pc[w] = "execute" /\ Goto(w, "report")
         \/ pc[w] = "forget" /\ Goto(w, "push")
         \/ pc[w] = "sleep" /\ Goto(w, "asleep")
  BY DEF StartTask, ExecuteOk, ForgetAgent, SleepContainer, poolVars
<1>2. /\ awake \subseteq Container /\ heartbeats \subseteq Container
      /\ breaker \in [Sandbox -> [state : Circuit, failures : Nat, cold : BOOLEAN]]
  BY DEF IInv, TypeOK
<1>3. pc[w] = "start" => container[w] \in Container
  BY DEF IInv, TypeOK, HandsOK
<1>4. awake' \subseteq Container /\ heartbeats' \subseteq Container
  BY <1>2, <1>3 DEF StartTask, ExecuteOk, ForgetAgent, SleepContainer, poolVars
<1>5. CircuitTracksFailures'  BY <1>1 DEF IInv, CircuitTracksFailures
<1>6. UNCHANGED <<taskVars, exists, pool, applied, results, orchVars>>  BY <1>1
<1>7. breaker' \in [Sandbox -> [state : Circuit, failures : Nat, cold : BOOLEAN]]  BY <1>1, <1>2
<1> QED  BY <1>1, <1>4, <1>5, <1>6, <1>7, StayStep

LEMMA InitRepoIInv ==
  ASSUME IInv, NEW w \in Worker, InitRepo(w)
  PROVE  IInv'
<1> USE DEF Location, Idle, Inside, Unreported, Filing
<1>1. /\ pc[w] = "init"
      /\ UNCHANGED <<taskVars, breaker, poolVars, applied, results, orchVars>>
  BY DEF InitRepo
<1>2. CASE Continue(w)  BY <1>1, <1>2, ContinueIInv
<1>3. CASE Goto(w, "start") /\ Stay
  <2>1. CircuitTracksFailures'  BY <1>1 DEF IInv, CircuitTracksFailures
  <2>2. /\ breaker' \in [Sandbox -> [state : Circuit, failures : Nat, cold : BOOLEAN]]
        /\ awake' \subseteq Container /\ heartbeats' \subseteq Container
    BY <1>1 DEF IInv, TypeOK, poolVars
  <2>3. UNCHANGED <<taskVars, exists, pool, applied, results, orchVars>>  BY <1>1 DEF poolVars
  <2> QED  BY <1>1, <1>3, <2>1, <2>2, <2>3, StayStep
<1> QED  BY <1>2, <1>3 DEF InitRepo

LEMMA ExecutePanicsIInv ==
  ASSUME IInv, NEW w \in Worker, ExecutePanics(w)
  PROVE  IInv'
<1>1. /\ pc[w] = "execute" /\ Goto(w, "exited")
      /\ task' = [task EXCEPT ![w] = None] /\ container' = [container EXCEPT ![w] = None]
      /\ UNCHANGED <<taskVars, breaker, exists, applied, results, orchVars>>
      /\ UNCHANGED <<scan, found, awake, pool, heartbeats>>
  BY DEF ExecutePanics, poolVars
<1>2. "exited" \in Idle /\ pc[w] \notin Idle \cup Filing
  BY <1>1 DEF Idle, Filing
<1>3. ContainersOK'
  <2>1. container \in [Worker -> Container \cup {None}]  BY DEF IInv, TypeOK
  <2>2. \A s \in Sandbox : \A i \in DOMAIN pool[s] : pool[s][i] # None
    <3>1. None \notin Container  OBVIOUS
    <3> QED  BY <3>1 DEF IInv, TypeOK
  <2> QED  BY <1>1, <2>1, <2>2 DEF IInv, ContainersOK
<1>4. /\ scan' \in [Worker -> 1..(Len(Sandboxes) + 1)] /\ found' \in [Worker -> BOOLEAN]
      /\ awake' \subseteq Container /\ heartbeats' \subseteq Container
      /\ pool' \in [Sandbox -> Seq(Container)]
      /\ \A v \in Worker : v # w => scan'[v] = scan[v]
  BY <1>1 DEF IInv, TypeOK
<1> QED  BY <1>1, <1>2, <1>3, <1>4, LeaveStep

LEMMA PoolContainerIInv ==
  ASSUME IInv, NEW w \in Worker, PoolContainer(w)
  PROVE  IInv'
<1> DEFINE s == At(w)
           c == container[w]
<1>1. /\ pc[w] = "asleep" /\ Goto(w, "scan")
      /\ task' = [task EXCEPT ![w] = None] /\ container' = [container EXCEPT ![w] = None]
      /\ UNCHANGED <<taskVars, breaker, exists, applied, results, orchVars>>
      /\ UNCHANGED <<awake, heartbeats>>
      /\ scan' = [scan EXCEPT ![w] = 1] /\ found' = [found EXCEPT ![w] = FALSE]
  BY DEF PoolContainer
<1>2. /\ "scan" \in Idle /\ pc[w] \notin Idle \cup Filing
      /\ s \in Sandbox /\ c # None
  <2>1. "scan" \in Idle /\ pc[w] \notin Idle \cup Filing /\ pc[w] \in Inside
    BY <1>1 DEF Idle, Filing, Inside
  <2> QED  BY <2>1, AtSandbox DEF IInv, HandsOK
<1>3. /\ pool \in [Sandbox -> Seq(Container)] /\ pool[s] \in Seq(Container)
      /\ container \in [Worker -> Container \cup {None}] /\ c \in Container
      /\ pool' = [pool EXCEPT ![s] = Append(pool[s], c)]
  BY <1>2 DEF IInv, TypeOK, PoolContainer
<1>4. pool' \in [Sandbox -> Seq(Container)]
  <2>1. Append(pool[s], c) \in Seq(Container)  BY <1>3
  <2> QED  BY <1>3, <2>1
<1>5. \A r \in Sandbox : \A i \in DOMAIN pool'[r] :
        \/ i \in DOMAIN pool[r] /\ pool'[r][i] = pool[r][i]
        \/ r = s /\ i = Len(pool[s]) + 1 /\ pool'[r][i] = c
  <2>1. \A i \in DOMAIN Append(pool[s], c) :
          \/ i \in DOMAIN pool[s] /\ Append(pool[s], c)[i] = pool[s][i]
          \/ i = Len(pool[s]) + 1 /\ Append(pool[s], c)[i] = c
    BY <1>3
  <2>2. pool'[s] = Append(pool[s], c) /\ \A r \in Sandbox : r # s => pool'[r] = pool[r]
    BY <1>2, <1>3
  <2> QED  BY <2>1, <2>2
<1>6. ContainersOK'
  <2>1. /\ \A v \in Worker : container[v] # None => container[v] \in exists
        /\ \A u, v \in Worker : container[u] = container[v] /\ container[v] # None => u = v
        /\ \A r \in Sandbox : \A i \in DOMAIN pool[r] :
             pool[r][i] \in exists /\ \A v \in Worker : container[v] # pool[r][i]
        /\ \A r, t \in Sandbox : \A i \in DOMAIN pool[r], j \in DOMAIN pool[t] :
             pool[r][i] = pool[t][j] => r = t /\ i = j
    BY DEF IInv, ContainersOK
  <2>2. \A v \in Worker : container'[v] = IF v = w THEN None ELSE container[v]
    BY <1>1, <1>3
  <2>3. \A v \in Worker : container'[v] # None => container'[v] \in exists'
    BY <1>1, <2>1, <2>2
  <2>4. \A u, v \in Worker : container'[u] = container'[v] /\ container'[v] # None => u = v
    BY <2>1, <2>2
  <2>5. \A r \in Sandbox : \A i \in DOMAIN pool'[r] :
          pool'[r][i] \in exists' /\ \A v \in Worker : container'[v] # pool'[r][i]
    <3>1. TAKE r \in Sandbox
    <3>2. TAKE i \in DOMAIN pool'[r]
    <3>3. CASE pool'[r][i] = c
      <4>1. c \in exists' /\ \A v \in Worker : container'[v] # c
        BY <1>1, <1>2, <2>1, <2>2
      <4> QED  BY <3>3, <4>1
    <3>4. CASE i \in DOMAIN pool[r] /\ pool'[r][i] = pool[r][i]
      <4>1. pool[r][i] \in exists /\ \A v \in Worker : container[v] # pool[r][i]
        BY <2>1, <3>4
      <4>2. pool[r][i] # None
        <5>1. None \notin Container  OBVIOUS
        <5> QED  BY <1>3, <3>4, <5>1
      <4> QED  BY <1>1, <2>2, <3>4, <4>1, <4>2
    <3> QED  BY <1>5, <3>3, <3>4
  <2>6. \A r, t \in Sandbox : \A i \in DOMAIN pool'[r], j \in DOMAIN pool'[t] :
          pool'[r][i] = pool'[t][j] => r = t /\ i = j
    <3>1. SUFFICES ASSUME NEW r \in Sandbox, NEW t \in Sandbox, NEW i \in DOMAIN pool'[r],
                          NEW j \in DOMAIN pool'[t], pool'[r][i] = pool'[t][j]
                   PROVE  r = t /\ i = j
      OBVIOUS
    <3>2. \A q \in Sandbox : \A k \in DOMAIN pool[q] : pool[q][k] # c
      BY <2>1
    <3> QED  BY <1>5, <2>1, <3>1, <3>2
  <2> QED  BY <2>3, <2>4, <2>5, <2>6 DEF ContainersOK
<1>7. /\ scan' \in [Worker -> 1..(Len(Sandboxes) + 1)] /\ found' \in [Worker -> BOOLEAN]
      /\ awake' \subseteq Container /\ heartbeats' \subseteq Container
      /\ \A v \in Worker : v # w => scan'[v] = scan[v]
  <2>1. 1 \in 1..(Len(Sandboxes) + 1)
    <3>1. Len(Sandboxes) \in Nat  OBVIOUS
    <3> QED  BY <3>1
  <2> QED  BY <1>1, <2>1 DEF IInv, TypeOK
<1> QED  BY <1>1, <1>2, <1>4, <1>6, <1>7, LeaveStep

(* A worker reports its task: the task ends, completed only after its diff. *)
LEMMA ReportStep ==
  ASSUME IInv, NEW w \in Worker, NEW p \in {"completed", "failed"}, NEW loc \in {"settle", "settleErr"},
         pc[w] \in {"execute", "report"}, Goto(w, loc), Stay,
         phase' = [phase EXCEPT ![task[w]] = p],
         UNCHANGED <<deps, breaker, poolVars, applied, results, orchVars>>,
         p = "completed" => task[w] \in applied /\ loc = "settle"
  PROVE  IInv'
<1> DEFINE t == task[w]
<1>1. /\ loc \in Location /\ loc \notin Idle /\ loc \in Inside /\ pc[w] \in Inside
      /\ pc[w] \notin Idle /\ pc[w] \in Unreported /\ loc \notin Unreported /\ pc[w] \notin Filing
      /\ loc = "settle" => loc \in Filing
      /\ pc[w] # "exited"
  BY DEF Location, Idle, Inside, Unreported, Filing
<1>2. /\ pc' = [pc EXCEPT ![w] = loc] /\ pc \in [Worker -> Location]
      /\ UNCHANGED <<scan, found, task, container, deps, applied, results>>
      /\ task \in [Worker -> Task \cup {None}] /\ phase \in [Task -> Tasks!Phase]
  BY DEF Goto, Stay, IInv, TypeOK
<1>3. /\ t \in Task /\ phase[t] = "running"
      /\ \A v \in Worker : v # w => task[v] # t
  BY <1>1, <1>2 DEF IInv, HandsOK, ReportsOK
<1>4. /\ phase'[t] = p
      /\ \A u \in Task : u # t => phase'[u] = phase[u]
  BY <1>2, <1>3
<1>5. phase' \in [Task -> Tasks!Phase]
  <2>1. p \in Tasks!Phase  BY DEF Tasks!Phase
  <2> QED  BY <1>2, <2>1
<1>6. HandsOK' /\ TypeOK'
  BY <1>1, <1>5, StaysHands DEF IInv, TypeOK, poolVars, orchVars
<1>7. ReportsOK'
  <2>1. \A v \in Worker :
          /\ pc'[v] \in Unreported => phase'[task'[v]] = "running"
          /\ pc'[v] \notin Unreported \cup Idle => phase'[task'[v]] \in {"completed", "failed"}
          /\ pc'[v] = "settleErr" => phase'[task'[v]] = "failed"
    <3>1. TAKE v \in Worker
    <3>2. CASE v = w  BY <1>1, <1>2, <1>4, <3>2
    <3>3. CASE v # w
      <4>1. pc'[v] = pc[v] /\ task'[v] = task[v]  BY <1>2, <3>3
      <4>2. pc[v] \notin Idle => task[v] \in Task /\ phase'[task[v]] = phase[task[v]]
        BY <1>2, <1>3, <1>4, <3>3 DEF IInv, HandsOK
      <4>3. pc[v] \in Unreported \/ pc[v] = "settleErr" => pc[v] \notin Idle
        BY DEF Unreported, Idle
      <4> QED  BY <4>1, <4>2, <4>3 DEF IInv, ReportsOK
    <3> QED  BY <3>2, <3>3
  <2>2. \A u \in Task :
          /\ phase'[u] = "running" => \A d \in deps'[u] : d \in Task /\ phase'[d] = "completed"
          /\ phase'[u] = "completed" =>
               /\ u \in applied'
               /\ u \in results' \/ \E v \in Worker : task'[v] = u /\ pc'[v] \in Filing
    <3>1. TAKE u \in Task
    <3>2. \A d \in Task : phase[d] = "completed" => phase'[d] = "completed"
      BY <1>3, <1>4
    <3>3. \A v \in Worker : pc[v] \in Filing => pc'[v] \in Filing /\ task'[v] = task[v]
      BY <1>1, <1>2
    <3>4. CASE u = t
      BY <1>1, <1>2, <1>4, <3>4
    <3>5. CASE u # t
      BY <1>2, <1>4, <3>2, <3>3, <3>5 DEF IInv, ReportsOK
    <3> QED  BY <3>4, <3>5
  <2> QED  BY <2>1, <2>2 DEF ReportsOK
<1>8. ContainersOK'  BY <1>2 DEF IInv, ContainersOK, poolVars
<1>9. CircuitTracksFailures'  BY DEF IInv, CircuitTracksFailures
<1>10. OrchestratorOK'  BY <1>1, OrchestratorKept
<1> QED  BY <1>6, <1>7, <1>8, <1>9, <1>10 DEF IInv

LEMMA ReportIInv ==
  ASSUME IInv, NEW w \in Worker, Report(w) \/ ExecuteErr(w)
  PROVE  IInv'
<1>1. UNCHANGED <<deps, breaker, poolVars, applied, results, orchVars>> /\ Stay
  BY DEF Report, ExecuteErr
<1>2. CASE Report(w)
  <2>1. \E p \in {"completed", "failed"} : /\ phase' = [phase EXCEPT ![task[w]] = p]
                                           /\ p = "completed" => task[w] \in applied
    BY <1>2 DEF Report
  <2>2. pc[w] \in {"execute", "report"} /\ Goto(w, "settle") /\ "settle" \in {"settle", "settleErr"}
    BY <1>2 DEF Report
  <2> QED  BY <1>1, <2>1, <2>2, ReportStep
<1>3. CASE ExecuteErr(w)
  <2>1. /\ phase' = [phase EXCEPT ![task[w]] = "failed"] /\ "failed" \in {"completed", "failed"}
        /\ pc[w] \in {"execute", "report"} /\ Goto(w, "settleErr") /\ "settleErr" \in {"settle", "settleErr"}
    BY <1>3 DEF ExecuteErr
  <2> QED  BY <1>1, <2>1, ReportStep
<1> QED  BY <1>2, <1>3
LEMMA ApplyDiffIInv ==
  ASSUME IInv, NEW w \in Worker, ApplyDiff(w)
  PROVE  IInv'
<1>1. /\ pc[w] = "apply" /\ Goto(w, "report") /\ Stay
      /\ applied' = applied \cup {task[w]}
      /\ UNCHANGED <<taskVars, breaker, poolVars, results, orchVars>>
  BY DEF ApplyDiff
<1>2. /\ pc' = [pc EXCEPT ![w] = "report"] /\ pc \in [Worker -> Location]
      /\ UNCHANGED <<scan, found, task, container, deps, phase>>
  BY <1>1 DEF Goto, Stay, IInv, TypeOK, taskVars
<1>3. /\ "report" \in Location /\ "report" \notin Idle /\ "report" \in Inside
      /\ "report" \in Unreported /\ pc[w] \notin Idle /\ pc[w] \in Inside /\ pc[w] \in Unreported
      /\ pc[w] \notin Filing
  BY <1>1 DEF Location, Idle, Inside, Unreported, Filing
<1>4. task[w] \in Task
  BY <1>3 DEF IInv, TypeOK, HandsOK
<1>5. HandsOK' /\ TypeOK'
  BY <1>1, <1>3, <1>4, StaysHands DEF IInv, TypeOK, taskVars, poolVars, orchVars
<1>6. ReportsOK'
  <2>1. \A v \in Worker :
          /\ pc'[v] \in Unreported <=> pc[v] \in Unreported
          /\ pc'[v] \in Idle <=> pc[v] \in Idle
          /\ pc'[v] = "settleErr" => pc[v] = "settleErr"
          /\ pc[v] \in Filing => pc'[v] \in Filing
    BY <1>1, <1>2, <1>3
  <2> QED  BY <1>1, <1>2, <2>1 DEF IInv, ReportsOK
<1>7. ContainersOK'  BY <1>1, <1>2 DEF IInv, ContainersOK, poolVars
<1>8. CircuitTracksFailures'  BY <1>1 DEF IInv, CircuitTracksFailures
<1>9. OrchestratorOK'  BY <1>1, OrchestratorKept
<1> QED  BY <1>5, <1>6, <1>7, <1>8, <1>9 DEF IInv

----------------------------------------------------------------------------
(* After the report. *)

LEMMA CascadeIInv ==
  ASSUME IInv, NEW w \in Worker, Cascade(w)
  PROVE  IInv'
<1>1. /\ pc[w] \in {"settle", "settleErr"}
      /\ UNCHANGED <<deps, loopVars, breaker, poolVars, applied, results, orchVars>>
  BY DEF Cascade
<1>2. PICK t \in Task : phase[t] = "pending" /\ phase' = [phase EXCEPT ![t] = "skipped"]
  BY DEF Cascade, Tasks!Skip, Tasks!Becomes
<1>3. phase \in [Task -> Tasks!Phase] /\ "skipped" \in Tasks!Phase
  BY DEF IInv, TypeOK, Tasks!Phase
<1>4. /\ phase'[t] = "skipped"
      /\ \A u \in Task : u # t => phase'[u] = phase[u]
      /\ phase' \in [Task -> Tasks!Phase]
  BY <1>2, <1>3
<1>5. UNCHANGED <<pc, scan, found, task, container>>  BY <1>1 DEF loopVars
<1>6. TypeOK'
  BY <1>1, <1>4, <1>5 DEF IInv, TypeOK, poolVars, orchVars
<1>7. HandsOK' /\ ContainersOK' /\ CircuitTracksFailures'
  BY <1>1, <1>5 DEF IInv, HandsOK, ContainersOK, CircuitTracksFailures, poolVars
<1>8. ReportsOK'
  <2>1. \A v \in Worker : pc[v] \notin Idle => task[v] \in Task /\ task[v] # t
    <3>1. TAKE v \in Worker
    <3>2. pc[v] \notin Idle => task[v] \in Task  BY DEF IInv, TypeOK, HandsOK
    <3>3. pc[v] \notin Idle => phase[task[v]] # "pending"  BY DEF IInv, ReportsOK
    <3> QED  BY <1>2, <3>2, <3>3
  <2>2. \A v \in Worker :
          /\ pc'[v] \in Unreported => phase'[task'[v]] = "running"
          /\ pc'[v] \notin Unreported \cup Idle => phase'[task'[v]] \in {"completed", "failed"}
          /\ pc'[v] = "settleErr" => phase'[task'[v]] = "failed"
    <3>1. \A loc \in Unreported \cup {"settleErr"} : loc \notin Idle  BY DEF Unreported, Idle
    <3> QED  BY <1>4, <1>5, <2>1, <3>1 DEF IInv, ReportsOK
  <2>3. \A d \in Task : phase[d] = "completed" => phase'[d] = "completed"
    BY <1>2, <1>4
  <2> QED  BY <1>1, <1>4, <1>5, <2>2, <2>3 DEF IInv, ReportsOK
<1>9. OrchestratorOK'  BY <1>1, OrchestratorKept
<1> QED  BY <1>6, <1>7, <1>8, <1>9 DEF IInv

LEMMA SettledIInv ==
  ASSUME IInv, NEW w \in Worker, Settled(w)
  PROVE  IInv'
<1> USE DEF Location, Idle, Inside, Unreported, Filing
<1>1. UNCHANGED <<taskVars, breaker, poolVars, applied, results, orchVars>>
  BY DEF Settled
<1>2. CASE pc[w] = "settleErr" /\ Continue(w)
  BY <1>1, <1>2, ContinueIInv
<1>3. ASSUME NEW loc \in {"recordOk", "recordErr"}, pc[w] = "settle", Goto(w, loc), Stay
      PROVE  IInv'
  <2>1. CircuitTracksFailures'  BY <1>1 DEF IInv, CircuitTracksFailures
  <2>2. /\ breaker' \in [Sandbox -> [state : Circuit, failures : Nat, cold : BOOLEAN]]
        /\ awake' \subseteq Container /\ heartbeats' \subseteq Container
    BY <1>1 DEF IInv, TypeOK, poolVars
  <2>3. UNCHANGED <<taskVars, exists, pool, applied, results, orchVars>>  BY <1>1 DEF poolVars
  <2> QED  BY <1>3, <2>1, <2>2, <2>3, StayStep
<1> QED  BY <1>2, <1>3 DEF Settled

LEMMA PushResultIInv ==
  ASSUME IInv, NEW w \in Worker, PushResult(w)
  PROVE  IInv'
<1>1. /\ pc[w] = "push" /\ Goto(w, "sleep") /\ Stay
      /\ results' = results \cup {task[w]}
      /\ UNCHANGED <<taskVars, breaker, poolVars, applied, orchVars>>
  BY DEF PushResult
<1>2. /\ pc' = [pc EXCEPT ![w] = "sleep"] /\ pc \in [Worker -> Location]
      /\ UNCHANGED <<scan, found, task, container, deps, phase>>
  BY <1>1 DEF Goto, Stay, IInv, TypeOK, taskVars
<1>3. /\ "sleep" \in Location /\ "sleep" \notin Idle /\ "sleep" \in Inside
      /\ "sleep" \notin Unreported /\ pc[w] \notin Idle /\ pc[w] \in Inside /\ pc[w] \notin Unreported
  BY <1>1 DEF Location, Idle, Inside, Unreported
<1>4. task[w] \in Task
  BY <1>3 DEF IInv, TypeOK, HandsOK
<1>5. HandsOK' /\ TypeOK'
  BY <1>1, <1>3, <1>4, StaysHands DEF IInv, TypeOK, taskVars, poolVars, orchVars
<1>6. ReportsOK'
  <2>1. \A v \in Worker :
          /\ pc'[v] \in Unreported <=> pc[v] \in Unreported
          /\ pc'[v] \in Idle <=> pc[v] \in Idle
          /\ pc'[v] = "settleErr" => pc[v] = "settleErr"
          /\ pc[v] \in Filing => pc'[v] \in Filing \/ task[v] \in results'
    BY <1>1, <1>2, <1>3
  <2> QED  BY <1>1, <1>2, <2>1 DEF IInv, ReportsOK
<1>7. ContainersOK'  BY <1>1, <1>2 DEF IInv, ContainersOK, poolVars
<1>8. CircuitTracksFailures'  BY <1>1 DEF IInv, CircuitTracksFailures
<1>9. OrchestratorOK'  BY <1>1, OrchestratorKept
<1> QED  BY <1>5, <1>6, <1>7, <1>8, <1>9 DEF IInv

----------------------------------------------------------------------------
(* The orchestrator. *)

LEMMA OrchestrateIInv ==
  ASSUME IInv, Orchestrate
  PROVE  IInv'
<1>1. UNCHANGED <<taskVars, loopVars, breaker, applied, results>>
  BY DEF Orchestrate
<1>2. UNCHANGED <<deps, phase, pc, scan, found, task, container, breaker, applied, results>>
  BY <1>1 DEF taskVars, loopVars
<1>3. HandsOK' /\ ReportsOK' /\ CircuitTracksFailures'
  BY <1>2 DEF IInv, HandsOK, ReportsOK, CircuitTracksFailures
<1>4. CASE (JoinWorkers \/ Timeout \/ AwaitStats \/ ReadResults) /\ UNCHANGED poolVars
  <2>1. UNCHANGED <<exists, awake, pool, heartbeats>>  BY <1>4 DEF poolVars
  <2>2. TypeOK'
    <3>1. /\ orch' \in {"waiting", "joined", "counted", "cleaned", "merging"}
          /\ timedOut' \in BOOLEAN /\ merged' \subseteq Task
      BY <1>4 DEF JoinWorkers, Timeout, AwaitStats, ReadResults, IInv, TypeOK
    <3> QED  BY <1>2, <2>1, <3>1 DEF IInv, TypeOK
  <2>3. ContainersOK'  BY <1>2, <2>1 DEF IInv, ContainersOK
  <2>4. OrchestratorOK'
    <3>1. CASE JoinWorkers  BY <1>2, <3>1 DEF JoinWorkers, IInv, OrchestratorOK
    <3>2. CASE Timeout  BY <3>2 DEF Timeout, OrchestratorOK
    <3>3. CASE AwaitStats  BY <1>2, <3>3 DEF AwaitStats, IInv, OrchestratorOK
    <3>4. CASE ReadResults
      <4>1. /\ orch = "cleaned" /\ orch' = "merging" /\ merged' = results /\ timedOut' = timedOut
        BY <3>4 DEF ReadResults
      <4>2. ~timedOut => \A w \in Worker : pc[w] = "exited"
        BY <4>1 DEF IInv, OrchestratorOK
      <4>3. ~timedOut => \A t \in Task : phase[t] = "completed" => t \in results
        BY <4>2 DEF IInv, ReportsOK, Filing
      <4> QED  BY <1>2, <2>1, <4>1, <4>2, <4>3 DEF IInv, OrchestratorOK
    <3> QED  BY <1>4, <3>1, <3>2, <3>3, <3>4
  <2> QED  BY <1>3, <2>2, <2>3, <2>4 DEF IInv
<1>5. CASE Cleanup
  <2>1. /\ orch = "counted" /\ orch' = "cleaned"
        /\ pool' = [s \in Sandbox |-> <<>>]
        /\ UNCHANGED <<awake, heartbeats, timedOut, merged>>
    BY <1>5 DEF Cleanup
  <2>2. PICK refused \in SUBSET Asleep : exists' = refused \cup (exists \ Asleep)
    BY <1>5 DEF Cleanup
  <2>3. TypeOK'
    <3>1. Asleep \subseteq Container  BY DEF Asleep
    <3>2. exists' \subseteq Container  BY <2>2, <3>1 DEF IInv, TypeOK
    <3>3. pool' \in [Sandbox -> Seq(Container)]  BY <2>1
    <3> QED  BY <1>2, <2>1, <3>2, <3>3 DEF IInv, TypeOK
  <2>4. ContainersOK'
    <3>1. \A w \in Worker : container[w] # None => container[w] \in exists \ Asleep
      BY DEF IInv, ContainersOK, Asleep
    <3> QED  BY <1>2, <2>1, <2>2, <3>1 DEF IInv, ContainersOK
  <2>5. OrchestratorOK'
    BY <1>2, <2>1 DEF IInv, OrchestratorOK
  <2> QED  BY <1>3, <2>3, <2>4, <2>5 DEF IInv
<1> QED  BY <1>4, <1>5 DEF Orchestrate

----------------------------------------------------------------------------
(* The theorems. *)

(* The inductive invariant: where a worker is determines what it holds, a task
   in hand is running until it is reported, every container is with one worker
   or at one place of the pool, and the orchestrator goes on only when every
   worker has left or its time is up. *)
THEOREM Invariance == Spec => []IInv
<1>1. Init => IInv  BY InitIInv
<1>2. IInv /\ [Next]_vars => IInv'
  <2> SUFFICES ASSUME IInv, [Next]_vars PROVE IInv'
    OBVIOUS
  <2>1. ASSUME NEW w \in Worker, Work(w) PROVE IInv'
    BY <2>1, GetReadyTaskIInv, ScanIInv, CheckCircuitIInv, ProbeIInv, RecordHealthIInv,
       WakeContainerIInv, CreateContainerIInv, InitRepoIInv, QuietIInv, ReportIInv,
       ExecutePanicsIInv, ApplyDiffIInv, CascadeIInv, SettledIInv, PushResultIInv,
       PoolContainerIInv DEF Work
  <2>2. ASSUME NEW s \in Sandbox, Cool(s) PROVE IInv'  BY <2>2, CoolIInv
  <2>3. CASE Orchestrate  BY <2>3, OrchestrateIInv
  <2>4. CASE UNCHANGED vars
    BY <2>4 DEF vars, taskVars, loopVars, poolVars, orchVars, IInv, TypeOK, HandsOK, ReportsOK,
                ContainersOK, CircuitTracksFailures, OrchestratorOK
  <2> QED  BY <2>1, <2>2, <2>3, <2>4 DEF Next
<1> QED  BY <1>1, <1>2, PTL DEF Spec

(* Every variable keeps to its type: a failure count never goes below zero,
   though successes reset it while failures add to it. *)
THEOREM TypeCorrect == Spec => []TypeOK
<1>1. IInv => TypeOK  BY DEF IInv
<1> QED  BY <1>1, Invariance, PTL

(* A set whose elements are all equal has at most one. *)
LEMMA AtMostOne ==
  ASSUME NEW S, \A x, y \in S : x = y
  PROVE  S = {} \/ Cardinality(S) = 1
<1>1. CASE S = {}  BY <1>1
<1>2. CASE S # {}
  <2>1. PICK x : x \in S  BY <1>2
  <2>2. S = {x}  BY <2>1
  <2> QED  BY <2>2, FS_Singleton
<1> QED  BY <1>1, <1>2

(* No container is with two agents, or with one and asleep in the pool, and
   none in use is destroyed, in whatever order workers wake, create, sleep and
   pool containers and the orchestrator, its wait cut short, cleans up. *)
THEOREM ExclusiveContainers == Spec => []ContainerExclusive
<1>1. IInv => ContainerExclusive
  <2> SUFFICES ASSUME IInv, NEW c \in Container
               PROVE  /\ Cardinality(Users(c)) + Cardinality(Places(c)) <= 1
                      /\ Users(c) # {} => c \in exists
    BY DEF ContainerExclusive
  <2>1. c # None  OBVIOUS
  <2>2. \A v, w \in Users(c) : v = w  BY <2>1 DEF Users, IInv, ContainersOK
  <2>3. \A x, y \in Places(c) : x = y
    <3> SUFFICES ASSUME NEW x \in Places(c), NEW y \in Places(c) PROVE x = y
      OBVIOUS
    <3>1. /\ x \in Sandbox \X (1..Cardinality(Container)) /\ y \in Sandbox \X (1..Cardinality(Container))
          /\ x[2] \in DOMAIN pool[x[1]] /\ pool[x[1]][x[2]] = c
          /\ y[2] \in DOMAIN pool[y[1]] /\ pool[y[1]][y[2]] = c
      BY DEF Places
    <3>2. x[1] \in Sandbox /\ y[1] \in Sandbox  BY <3>1
    <3>3. x[1] = y[1] /\ x[2] = y[2]  BY <3>1, <3>2 DEF IInv, ContainersOK
    <3> QED  BY <3>1, <3>3
  <2>4. Users(c) = {} \/ Places(c) = {}
    <3> SUFFICES ASSUME NEW w \in Users(c), NEW x \in Places(c) PROVE FALSE
      OBVIOUS
    <3>1. w \in Worker /\ container[w] = c  BY DEF Users
    <3>2. x[1] \in Sandbox /\ x[2] \in DOMAIN pool[x[1]] /\ pool[x[1]][x[2]] = c  BY DEF Places
    <3> QED  BY <3>1, <3>2 DEF IInv, ContainersOK
  <2>5. Users(c) # {} => c \in exists  BY <2>1 DEF Users, IInv, ContainersOK
  <2>6. Cardinality({}) = 0  BY FS_EmptySet
  <2>7. /\ Users(c) = {} \/ Cardinality(Users(c)) = 1
        /\ Places(c) = {} \/ Cardinality(Places(c)) = 1
    BY <2>2, <2>3, AtMostOne
  <2>8. /\ Cardinality(Users(c)) \in {0, 1} /\ Cardinality(Places(c)) \in {0, 1}
        /\ Cardinality(Users(c)) = 0 \/ Cardinality(Places(c)) = 0
    <3>1. Users(c) = {} => Cardinality(Users(c)) = 0  BY <2>6
    <3>2. Places(c) = {} => Cardinality(Places(c)) = 0  BY <2>6
    <3> QED  BY <2>4, <2>7, <3>1, <3>2
  <2> QED  BY <2>5, <2>8
<1> QED  BY <1>1, Invariance, PTL

(* When a task runs, all it depends on is completed and has offered its diff
   to the sandbox layer: no report overtakes its diff. *)
THEOREM DiffsFirst == Spec => []DependenciesApplied
<1>1. IInv => DependenciesApplied
  <2> SUFFICES ASSUME IInv, NEW w \in Worker, pc[w] = "execute"
               PROVE  deps[task[w]] \subseteq applied
    BY DEF DependenciesApplied
  <2>1. task[w] \in Task  BY DEF IInv, TypeOK, HandsOK, Idle
  <2>2. phase[task[w]] = "running"  BY DEF IInv, ReportsOK, Unreported
  <2> QED  BY <2>1, <2>2 DEF IInv, ReportsOK
<1> QED  BY <1>1, Invariance, PTL

(* A circuit is closed exactly while fewer than Threshold failures in a row
   stand, whatever probes and reports of different workers overlap. *)
THEOREM CircuitsTrack == Spec => []CircuitTracksFailures
<1>1. IInv => CircuitTracksFailures  BY DEF IInv
<1> QED  BY <1>1, Invariance, PTL

(* When the wait for the workers was not cut short, the merge gets the result
   of every completed task and no container is left asleep. *)
THEOREM CompleteMerge == Spec => []MergeIsComplete
<1>1. IInv => MergeIsComplete  BY DEF IInv, OrchestratorOK, MergeIsComplete
<1> QED  BY <1>1, Invariance, PTL

(* The pool drives the dispatcher as TaskLifecycle allows: it starts a task
   once, when all it depends on is completed, and never reports one twice or
   one it did not start. *)
THEOREM Refinement == Spec => DrivesLifecycle
<1>1. Init => Tasks!Init  BY DEF Init
<1>2. IInv /\ [Next]_vars => [Tasks!Next]_(Tasks!vars)
  <2> SUFFICES ASSUME IInv, [Next]_vars PROVE Tasks!Next \/ UNCHANGED Tasks!vars
    OBVIOUS
  <2>1. CASE UNCHANGED <<deps, phase>>  BY <2>1 DEF Tasks!vars
  <2>2. ASSUME NEW w \in Worker, GetReadyTask(w) PROVE Tasks!Next
    BY <2>2 DEF GetReadyTask, Tasks!Next
  <2>3. ASSUME NEW w \in Worker, Cascade(w) PROVE Tasks!Next
    BY <2>3 DEF Cascade, Tasks!Next
  <2>4. ASSUME NEW w \in Worker, Report(w) \/ ExecuteErr(w) PROVE Tasks!Next
    <3>1. pc[w] \in {"report", "execute"} /\ deps' = deps  BY <2>4 DEF Report, ExecuteErr
    <3>2. task[w] \in Task /\ phase[task[w]] = "running"
      <4>1. pc[w] \notin Idle /\ pc[w] \in Unreported  BY <3>1 DEF Idle, Unreported
      <4>2. task[w] # None  BY <4>1 DEF IInv, HandsOK
      <4> QED  BY <4>1, <4>2 DEF IInv, TypeOK, ReportsOK
    <3>3. Tasks!Becomes(task[w], "completed") \/ Tasks!Becomes(task[w], "failed")
      BY <2>4 DEF Report, ExecuteErr, Tasks!Becomes
    <3> QED  BY <3>1, <3>2, <3>3 DEF Tasks!Next, Tasks!Finish
  <2>5. ASSUME NEW w \in Worker, Work(w), ~GetReadyTask(w), ~Cascade(w), ~Report(w), ~ExecuteErr(w)
        PROVE  UNCHANGED <<deps, phase>>
    BY <2>5 DEF Work, NoneReady, EndScan, CheckCircuit, Probe, RecordHealth, WakeContainer,
       CreateContainer, InitRepo, StartTask, ExecuteOk, ExecutePanics, ApplyDiff, Settled,
       ForgetAgent, PushResult, SleepContainer, PoolContainer, taskVars
  <2>6. ASSUME Orchestrate \/ \E s \in Sandbox : Cool(s) PROVE UNCHANGED <<deps, phase>>
    BY <2>6 DEF Orchestrate, Cool, taskVars
  <2>7. CASE UNCHANGED vars  BY <2>1, <2>7 DEF vars, taskVars
  <2> QED  BY <2>1, <2>2, <2>3, <2>4, <2>5, <2>6, <2>7 DEF Next
<1> QED  BY <1>1, <1>2, Invariance, PTL DEF Spec, DrivesLifecycle, Tasks!Spec

----------------------------------------------------------------------------
(* Delivery: the texts a set of agents offers. *)

LEMMA SandboxFinite == IsFiniteSet(Sandbox)
<1> DEFINE n == Len(Sandboxes)
           g == [i \in 1..n |-> Sandboxes[i]]
<1>1. n \in Nat /\ DOMAIN Sandboxes = 1..n  OBVIOUS
<1>2. g \in Surjection(1..n, Sandbox)
  <2>1. g \in [1..n -> Sandbox]  BY <1>1 DEF Sandbox
  <2>2. \A s \in Sandbox : \E i \in 1..n : g[i] = s  BY <1>1 DEF Sandbox
  <2> QED  BY <2>1, <2>2 DEF Surjection
<1>3. IsFiniteSet(1..n)  BY <1>1, FS_Interval
<1> QED  BY <1>2, <1>3, FS_Surjection

LEMMA EntriesFinite ==
  ASSUME NEW A, IsFiniteSet(A), NEW cs \in [A -> Diff], NEW f \in File
  PROVE  IsFiniteSet(Entries(cs, f))
<1> DEFINE Of(a) == {a} \X (1..cs[a][f])
           S == {Of(a) : a \in A}
           g == [a \in A |-> Of(a)]
<1>1. g \in Surjection(A, S)
  <2> HIDE DEF Of
  <2> QED  BY DEF Surjection
<1>2. IsFiniteSet(S)  BY <1>1, FS_Surjection
<1>3. ASSUME NEW a \in A PROVE IsFiniteSet(Of(a))
  <2>1. cs[a][f] \in Nat  BY DEF Diff
  <2>2. IsFiniteSet(1..cs[a][f])  BY <2>1, FS_Interval
  <2>3. IsFiniteSet({a})  BY FS_Singleton
  <2> QED  BY <2>2, <2>3, FS_Product
<1>4. IsFiniteSet(UNION S)
  <2>1. \A T \in S : IsFiniteSet(T)  BY <1>3
  <2> HIDE DEF S
  <2> QED  BY <1>2, <2>1, FS_UNION
<1> QED  BY <1>4 DEF Entries

LEMMA ConcatenationType ==
  ASSUME NEW A, IsFiniteSet(A), NEW cs \in [A -> Diff]
  PROVE  /\ Concatenation(cs) \in Diff
         /\ \A f \in File : /\ Concatenation(cs)[f] = 0 <=> Entries(cs, f) = {}
                            /\ \A a \in A : cs[a][f] > 0 => Concatenation(cs)[f] > 0
<1>1. ASSUME NEW f \in File
      PROVE  /\ Concatenation(cs)[f] = Cardinality(Entries(cs, f))
             /\ Cardinality(Entries(cs, f)) \in Nat
             /\ Cardinality(Entries(cs, f)) = 0 <=> Entries(cs, f) = {}
  <2>1. IsFiniteSet(Entries(cs, f))  BY EntriesFinite
  <2> QED  BY <2>1, FS_CardinalityType, FS_EmptySet DEF Concatenation
<1>2. ASSUME NEW f \in File, NEW a \in A, cs[a][f] > 0 PROVE Entries(cs, f) # {}
  <2>1. cs[a][f] \in Nat  BY DEF Diff
  <2>2. <<a, 1>> \in {a} \X (1..cs[a][f])  BY <1>2, <2>1
  <2> QED  BY <2>2 DEF Entries
<1>3. Concatenation(cs) \in Diff  BY <1>1 DEF Concatenation, Diff
<1> QED  BY <1>1, <1>2, <1>3

(* One agent's texts are what it has. *)
LEMMA ConcatenationOfOne ==
  ASSUME NEW a, NEW cs \in [{a} -> Diff], NEW f \in File
  PROVE  Concatenation(cs)[f] = cs[a][f]
<1>1. cs[a][f] \in Nat  BY DEF Diff
<1>2. Entries(cs, f) = {a} \X (1..cs[a][f])  BY DEF Entries
<1>3. IsFiniteSet({a}) /\ Cardinality({a}) = 1  BY FS_Singleton
<1>4. IsFiniteSet(1..cs[a][f]) /\ Cardinality(1..cs[a][f]) = cs[a][f]
  <2> DEFINE n == cs[a][f]
  <2>1. n \in Nat  BY <1>1
  <2> HIDE DEF n
  <2>2. IsFiniteSet(1..n) /\ Cardinality(1..n) = IF 1 > n THEN 0 ELSE n - 1 + 1
    BY <2>1, FS_Interval
  <2>3. Cardinality(1..n) = n  BY <2>1, <2>2
  <2> QED  BY <2>2, <2>3 DEF n
<1>5. Cardinality({a} \X (1..cs[a][f])) = cs[a][f]
  <2> DEFINE n == cs[a][f]
             K == 1..n
  <2>1. n \in Nat  BY <1>1
  <2> HIDE DEF n
  <2>2. IsFiniteSet(K) /\ Cardinality(K) = n  BY <1>4 DEF n
  <2> HIDE DEF K
  <2>3. Cardinality({a} \X K) = Cardinality({a}) * Cardinality(K)  BY <1>3, <2>2, FS_Product
  <2>4. Cardinality({a}) * Cardinality(K) = n  BY <1>3, <2>1, <2>2
  <2> QED  BY <2>3, <2>4 DEF n, K
<1>6. Concatenation(cs)[f] = Cardinality(Entries(cs, f))  BY DEF Concatenation
<1> QED  BY <1>2, <1>5, <1>6

(* A review loses no file but those it drops, and doubles none that is not
   decided on again. *)
LEMMA ReviewedKeeps ==
  ASSUME NEW A, IsFiniteSet(A), NEW cs \in [A -> Diff], NEW answer \in [File -> Answers]
  PROVE  /\ Reviewed(cs, answer) \in Diff
         /\ \A f \in File : \A a \in A : cs[a][f] > 0 =>
              Reviewed(cs, answer)[f] > 0 \/ (Entries(cs, f) # {} /\ answer[f].drops > 0)
         /\ \A f \in File : Reviewed(cs, answer)[f] > 1 =>
              answer[f].texts + answer[f].drops > (IF f \in Conflicts(cs) THEN 1 ELSE 0)
<1>1. ASSUME NEW f \in File
      PROVE  /\ Reviewed(cs, answer)[f] \in Nat
             /\ \A a \in A : cs[a][f] > 0 =>
                  Reviewed(cs, answer)[f] > 0 \/ (Entries(cs, f) # {} /\ answer[f].drops > 0)
             /\ Reviewed(cs, answer)[f] > 1 =>
                  answer[f].texts + answer[f].drops > (IF f \in Conflicts(cs) THEN 1 ELSE 0)
  <2> DEFINE n == Concatenation(cs)[f]
             x == answer[f].texts
             y == answer[f].drops
             k == Decided(cs, answer, f).texts
             r == Reviewed(cs, answer)[f]
  <2>1. n \in Nat /\ (n = 0 <=> Entries(cs, f) = {}) /\ (\A a \in A : cs[a][f] > 0 => n > 0)
    BY ConcatenationType DEF Diff
  <2>2. f \in Conflicts(cs) <=> n > 1  BY DEF Conflicts
  <2>3. answer[f] \in [texts : Nat, drops : Nat]  BY DEF Decisions
  <2>4. x \in Nat /\ y \in Nat /\ answer[f] = [texts |-> x, drops |-> y]  BY <2>3
  <2>5. k = (IF n > 1 /\ x = 0 /\ y = 0 THEN 1 ELSE x)
    <3>1. answer[f] = [texts |-> 0, drops |-> 0] <=> x = 0 /\ y = 0  BY <2>4
    <3> QED  BY <2>2, <3>1 DEF Decided
  <2>6. r = (IF n > 1 THEN 0 ELSE n) + (IF n = 0 THEN 0 ELSE k)
    BY <2>1, <2>2 DEF Reviewed, DiffForDecisions
  <2> HIDE DEF n, x, y, k, r
  <2>7. k \in Nat  BY <2>4, <2>5
  <2>8. /\ n = 0 => r = 0
        /\ n = 1 => r = 1 + x
        /\ n > 1 => r = k
    <3>1. CASE n = 0  BY <2>6, <3>1
    <3>2. CASE n = 1
      <4>1. k = x  BY <2>5, <3>2
      <4> QED  BY <2>4, <2>6, <3>2, <4>1
    <3>3. CASE n > 1
      <4>1. (IF n > 1 THEN 0 ELSE n) = 0 /\ (IF n = 0 THEN 0 ELSE k) = k  BY <2>1, <3>3
      <4> QED  BY <2>6, <2>7, <3>3, <4>1
    <3> QED  BY <2>1, <3>1, <3>2, <3>3
  <2>9. r \in Nat  BY <2>1, <2>4, <2>5, <2>7, <2>8
  <2>10. n > 0 => r > 0 \/ (Entries(cs, f) # {} /\ y > 0)  BY <2>1, <2>4, <2>5, <2>7, <2>8
  <2>11. r > 1 => x + y > (IF n > 1 THEN 1 ELSE 0)  BY <2>1, <2>4, <2>5, <2>7, <2>8
  <2> QED  BY <2>1, <2>2, <2>9, <2>10, <2>11 DEF r, x, y
<1>2. Reviewed(cs, answer) \in Diff  BY <1>1 DEF Reviewed, Diff
<1> QED  BY <1>1, <1>2

(* Parsing leaves out the quoted texts and nothing else. *)
LEMMA ChangesType ==
  ASSUME NEW A, NEW cs \in [A -> Diff]
  PROVE  /\ Changes(cs) \in [A -> Diff]
         /\ \A a \in A, f \in File : f \notin Quoted => Changes(cs)[a][f] = cs[a][f]
<1>1. ASSUME NEW a \in A
      PROVE  /\ Parsed(cs[a]) \in Diff
             /\ \A f \in File : f \notin Quoted => Parsed(cs[a])[f] = cs[a][f]
  <2>1. cs[a] \in Diff  OBVIOUS
  <2> QED  BY <2>1 DEF Parsed, Diff
<1> QED  BY <1>1 DEF Changes

(* Whether a sandbox's raw diffs are passed on does not change while the work
   stays. *)
LEMMA RawSandbox ==
  ASSUME UNCHANGED given
  PROVE  \A t \in Task : Raw(Hint[t])' <=> PassedOn(Hint[t]) \/ Hint[t] \in concatenated'
<1> SUFFICES ASSUME NEW t \in Task
             PROVE  Raw(Hint[t])' <=> PassedOn(Hint[t]) \/ Hint[t] \in concatenated'
  OBVIOUS
<1>1. Hint[t] # Cross  OBVIOUS
<1>2. Contributions(Hint[t])' = Contributions(Hint[t])  BY <1>1 DEF Contributions, given
<1> QED  BY <1>1, <1>2 DEF Raw, PassedOn, given

(* So what the sandboxes keep is kept with their diffs. *)
LEMMA SandboxesKept ==
  ASSUME DeliveryIInv, UNCHANGED given, MergedSandboxes' = MergedSandboxes,
         stage = "done" => stage' = "done",
         dropped \subseteq dropped', concatenated' = concatenated, merged_diff' = merged_diff
  PROVE  SandboxesKeep' /\ ReviewsOK'
<1>0. ReviewsOK'  BY DEF DeliveryIInv, ReviewsOK
<1> SUFFICES ASSUME NEW t \in Task, NEW f \in File, Hint[t] \in MergedSandboxes', work[t][f] > 0
             PROVE  \/ merged_diff[Hint[t]] # None /\ merged_diff[Hint[t]][f] > 0
                    \/ f \in dropped'
                    \/ f \in Quoted /\ ~(Raw(Hint[t])')
  BY <1>0 DEF SandboxesKeep, given
<1>1. Raw(Hint[t])' <=> Raw(Hint[t])  BY RawSandbox DEF Raw
<1> QED  BY <1>1 DEF DeliveryIInv, SandboxesKeep

----------------------------------------------------------------------------
(* What is offered for review. *)

LEMMA SandboxContributions ==
  ASSUME DeliveryIInv, NEW p \in Sandbox
  PROVE  LET cs == Contributions(p)
             A == {t \in Task : Hint[t] = p /\ work[t] # Empty}
         IN /\ IsFiniteSet(A) /\ A \subseteq Task /\ DOMAIN cs = A
            /\ cs \in [A -> Diff] /\ (\A t \in A : cs[t] = work[t])
<1> DEFINE A == {t \in Task : Hint[t] = p /\ work[t] # Empty}
<1>1. IsFiniteSet(A)  BY FS_Subset
<1>2. p # Cross  OBVIOUS
<1>3. Contributions(p) = [t \in A |-> work[t]]  BY <1>2 DEF Contributions
<1>4. work \in [Task -> Diff]  BY DEF DeliveryIInv, DeliveryTypeOK
<1> QED  BY <1>1, <1>3, <1>4

LEMMA CrossContributions ==
  ASSUME DeliveryIInv
  PROVE  LET cs == Contributions(Cross)
         IN /\ IsFiniteSet(Delivering) /\ Delivering \subseteq Sandbox /\ DOMAIN cs = Delivering
            /\ cs \in [Delivering -> Diff] /\ (\A s \in Delivering : cs[s] = merged_diff[s])
<1>1. IsFiniteSet(Delivering)  BY SandboxFinite, FS_Subset DEF Delivering
<1>2. Contributions(Cross) = [s \in Delivering |-> merged_diff[s]]  BY DEF Contributions, Delivering
<1>3. \A s \in Delivering : s \in Sandbox /\ merged_diff[s] \in Diff
  BY DEF Delivering, IsDiff, DeliveryIInv, DeliveryTypeOK
<1> QED  BY <1>1, <1>2, <1>3 DEF Delivering

(* A task that has changed a file offers it to its sandbox. *)
LEMMA WorkOffered ==
  ASSUME DeliveryIInv, NEW t \in Task, NEW f \in File, work[t][f] > 0
  PROVE  work[t] # Empty /\ work[t] \in Diff /\ Hint[t] \in Sandbox
<1>1. work[t] \in Diff  BY DEF DeliveryIInv, DeliveryTypeOK
<1>2. work[t] # Empty
  <2>1. SUFFICES ASSUME work[t] = Empty PROVE FALSE  OBVIOUS
  <2>2. work[t][f] = 0  BY <2>1 DEF Empty
  <2> QED  BY <2>2
<1> QED  BY <1>1, <1>2

(* And a sandbox that has it offers it to the review across sandboxes. *)
LEMMA MergedOffered ==
  ASSUME NEW s \in Sandbox, NEW f \in File, merged_diff[s] # None, merged_diff[s][f] > 0
  PROVE  s \in Delivering
<1>1. merged_diff[s] # Empty
  <2>1. SUFFICES ASSUME merged_diff[s] = Empty PROVE FALSE  OBVIOUS
  <2>2. merged_diff[s][f] = 0  BY <2>1 DEF Empty
  <2> QED  BY <2>2
<1> QED  BY <1>1 DEF Delivering, IsDiff

----------------------------------------------------------------------------
LEMMA DeliveryInitIInv == DeliveryInit => DeliveryIInv
<1> SUFFICES ASSUME DeliveryInit PROVE DeliveryIInv
  OBVIOUS
<1> USE DEF DeliveryInit
<1>1. work \in [Task -> Diff] /\ \A t \in Task, f \in File : work[t][f] <= 1
  <2>1. PICK touched \in [Task -> SUBSET File] :
          work = [t \in Task |-> [f \in File |-> IF f \in touched[t] THEN 1 ELSE 0]]
    OBVIOUS
  <2> QED  BY <2>1 DEF Diff
<1>2. Empty \in Diff  BY DEF Empty, Diff
<1>3. \E who \in (SUBSET Task) \cup (SUBSET Sandbox) : offered \in [who -> Diff]
  <2>1. {} \in (SUBSET Task) \cup (SUBSET Sandbox)  OBVIOUS
  <2>2. offered \in [{} -> Diff]  OBVIOUS
  <2> QED  BY <2>1, <2>2
<1>4. DeliveryTypeOK
  <2>1. attempts \in 0..(MaxRetries - 1) /\ round \in Nat  OBVIOUS
  <2>2. merged_diff \in [Sandbox -> Diff \cup {None}] /\ status \in [Sandbox -> Status]
    BY DEF Status
  <2>3. current \in Diff /\ final \in Diff  BY <1>2
  <2>4. at \in Place \cup {None} /\ todo \subseteq Sandbox /\ working \subseteq VF  OBVIOUS
  <2> QED  BY <1>1, <1>3, <2>1, <2>2, <2>3, <2>4 DEF DeliveryTypeOK
<1>5. WorkOK  BY <1>1 DEF WorkOK
<1>6. StageOK  BY DEF StageOK, Verifying
<1>9. RoundsOK
  <2>1. LastRound \in Nat  BY DEF LastRound
  <2> QED  BY <2>1 DEF RoundsOK
<1>7. SandboxesKeep /\ ReviewsOK  BY DEF SandboxesKeep, ReviewsOK, MergedSandboxes
<1>8. SandboxesExplained  BY DEF SandboxesExplained
<1> QED  BY <1>4, <1>5, <1>6, <1>7, <1>8, <1>9 DEF DeliveryIInv, NothingLost, OneTextPerFile

(* Outside of a fix the rounds are left alone. *)
LEMMA RoundsKept ==
  ASSUME DeliveryIInv, stage # "fix", stage' # "fix", mode' = mode, round' = round, failing' = failing
  PROVE  RoundsOK'
BY DEF DeliveryIInv, RoundsOK, LastRound

(* A sandbox is settled with a diff that has its agents' work, and reasons for
   what it has twice. *)
LEMMA SettleSandbox ==
  ASSUME DeliveryIInv, NEW p \in todo, NEW d \in Diff \cup {None}, Settle(p, d),
         stage = "review" \/ (stage = "asking" /\ at = p),
         UNCHANGED <<given, verifyVars>>, offered' = offered \/ offered' = <<>>,
         dropped' \in SUBSET File, dropped \subseteq dropped',
         twice' \in SUBSET File, twice \subseteq twice',
         concatenated' \in SUBSET Place, concatenated \subseteq concatenated',
         concatenated' \subseteq concatenated \cup {p},
         \A t \in Task, f \in File : Hint[t] = p /\ work[t][f] > 0 =>
           \/ d # None /\ d[f] > 0
           \/ f \in dropped'
           \/ f \in Quoted /\ ~(PassedOn(p) \/ p \in concatenated'),
         d # None => /\ \A f \in File : d[f] > 1 => f \in twice' \/ p \in concatenated'
                     /\ \E t \in Task : Hint[t] = p /\ work[t] # Empty
  PROVE  DeliveryIInv'
<1>1. p \in Sandbox /\ p # Cross /\ todo \subseteq Sandbox  BY DEF DeliveryIInv, DeliveryTypeOK
<1>2. merged_diff \in [Sandbox -> Diff \cup {None}]  BY DEF DeliveryIInv, DeliveryTypeOK
<1>3. /\ merged_diff' = [merged_diff EXCEPT ![p] = d]
      /\ IF todo = {p} THEN stage' = "verify" /\ todo' = Sandbox
         ELSE stage' = "review" /\ todo' = todo \ {p}
      /\ UNCHANGED final /\ at' = None /\ attempts' = 0
  BY <1>1 DEF Settle
<1>4. DeliveryTypeOK'
  <2>1. (\E who \in (SUBSET Task) \cup (SUBSET Sandbox) : offered \in [who -> Diff])'
    <3>1. CASE offered' = offered  BY <3>1 DEF DeliveryIInv, DeliveryTypeOK
    <3>2. CASE offered' = <<>>
      <4>1. offered' \in [{} -> Diff]  BY <3>2
      <4> QED  BY <4>1
    <3> QED  BY <3>1, <3>2
  <2>2. merged_diff' \in [Sandbox -> Diff \cup {None}]  BY <1>2, <1>3
  <2>3. todo' \subseteq Sandbox  BY <1>1, <1>3
  <2> QED  BY <1>3, <2>1, <2>2, <2>3 DEF DeliveryIInv, DeliveryTypeOK, given, verifyVars
<1>5. WorkOK'  BY DEF WorkOK, DeliveryIInv, given
<1>6. StageOK'  BY <1>3 DEF StageOK, Verifying
<1>7. MergedSandboxes' = MergedSandboxes \cup {p} /\ MergedSandboxes \subseteq Sandbox
  BY <1>1, <1>3 DEF MergedSandboxes
<1>8. SandboxesKeep'
  <2> SUFFICES ASSUME NEW t \in Task, NEW f \in File, Hint[t] \in MergedSandboxes', work[t][f] > 0
               PROVE  \/ merged_diff'[Hint[t]] # None /\ merged_diff'[Hint[t]][f] > 0
                      \/ f \in dropped'
                      \/ f \in Quoted /\ ~(Raw(Hint[t])')
    BY DEF SandboxesKeep, given
  <2>0. Raw(Hint[t])' <=> PassedOn(Hint[t]) \/ Hint[t] \in concatenated'  BY RawSandbox
  <2>1. CASE Hint[t] = p
    <3>1. merged_diff'[Hint[t]] = d  BY <1>1, <1>2, <1>3, <2>1
    <3> QED  BY <2>0, <2>1, <3>1
  <2>2. CASE Hint[t] # p
    <3>1. Hint[t] \in MergedSandboxes /\ merged_diff'[Hint[t]] = merged_diff[Hint[t]]
      BY <1>2, <1>3, <1>7, <2>2
    <3>2. Raw(Hint[t])' <=> Raw(Hint[t])  BY <2>0, <2>2 DEF Raw
    <3> QED  BY <3>1, <3>2 DEF DeliveryIInv, SandboxesKeep
  <2> QED  BY <2>1, <2>2
<1>9. SandboxesExplained'
  <2> SUFFICES ASSUME NEW s \in Sandbox, merged_diff'[s] # None
               PROVE  /\ \A f \in File : merged_diff'[s][f] > 1 => f \in twice' \/ s \in concatenated'
                      /\ \E t \in Task : Hint[t] = s /\ work[t] # Empty
    BY DEF SandboxesExplained, given
  <2>1. CASE s = p  BY <1>2, <1>3, <2>1
  <2>2. CASE s # p  BY <1>2, <1>3, <2>2 DEF DeliveryIInv, SandboxesExplained
  <2> QED  BY <2>1, <2>2
<1>10. stage' # "done" /\ stage # "done"  BY <1>3
<1>11. RoundsOK'  BY <1>3, RoundsKept DEF given, verifyVars
<1>12. ReviewsOK'  BY <1>7, <1>10 DEF DeliveryIInv, ReviewsOK
<1> QED  BY <1>4, <1>5, <1>6, <1>8, <1>9, <1>10, <1>11, <1>12 DEF DeliveryIInv, NothingLost, OneTextPerFile

(* The review across sandboxes settles what is delivered. *)
LEMMA SettleCross ==
  ASSUME DeliveryIInv, NEW d \in Diff, Settle(Cross, d), mode = "full",
         stage = "cross" \/ (stage = "asking" /\ at = Cross),
         UNCHANGED <<given, verifyVars>>, offered' = offered \/ offered' = <<>>,
         dropped' \in SUBSET File, dropped \subseteq dropped',
         twice' \in SUBSET File, twice \subseteq twice',
         concatenated' \in SUBSET Place, concatenated \subseteq concatenated',
         concatenated' \subseteq concatenated \cup {Cross},
         \A s \in Delivering, f \in File : merged_diff[s][f] > 0 =>
           \/ d[f] > 0
           \/ f \in dropped'
           \/ f \in Quoted /\ ~(PassedOn(Cross) \/ Cross \in concatenated'),
         \A f \in File : d[f] > 1 => \/ f \in twice'
                                     \/ Cross \in concatenated'
                                     \/ Cardinality(Delivering) = 1 /\ Delivering \subseteq concatenated'
  PROVE  DeliveryIInv'
<1>1. /\ stage' = "done" /\ final' = d /\ UNCHANGED <<merged_diff, todo>>
      /\ at' = None /\ attempts' = 0
  BY DEF Settle
<1>2. DeliveryTypeOK'
  <2>1. (\E who \in (SUBSET Task) \cup (SUBSET Sandbox) : offered \in [who -> Diff])'
    <3>1. CASE offered' = offered  BY <3>1 DEF DeliveryIInv, DeliveryTypeOK
    <3>2. CASE offered' = <<>>
      <4>1. offered' \in [{} -> Diff]  BY <3>2
      <4> QED  BY <4>1
    <3> QED  BY <3>1, <3>2
  <2> QED  BY <1>1, <2>1 DEF DeliveryIInv, DeliveryTypeOK, given, verifyVars
<1>3. WorkOK'  BY DEF WorkOK, DeliveryIInv, given
<1>4. StageOK'  BY <1>1 DEF StageOK, Verifying
<1>5. MergedSandboxes = Sandbox  BY DEF MergedSandboxes
<1>6. SandboxesKeep'
  <2> SUFFICES ASSUME NEW t \in Task, NEW f \in File, work[t][f] > 0
               PROVE  \/ merged_diff[Hint[t]] # None /\ merged_diff[Hint[t]][f] > 0
                      \/ f \in dropped'
                      \/ f \in Quoted /\ ~(Raw(Hint[t])')
    BY <1>1 DEF SandboxesKeep, given
  <2>1. Hint[t] \in Sandbox /\ Hint[t] # Cross  OBVIOUS
  <2>2. Raw(Hint[t])' <=> Raw(Hint[t])  BY <2>1, RawSandbox DEF Raw
  <2> QED  BY <1>5, <2>1, <2>2 DEF SandboxesKeep, DeliveryIInv
<1>7. SandboxesExplained'  BY <1>1 DEF SandboxesExplained, DeliveryIInv, given
<1>8. NothingLost'
  <2> SUFFICES ASSUME NEW t \in Task, NEW f \in File, work[t][f] > 0, f \notin dropped',
                      f \in Quoted => Raw(Hint[t])' /\ Raw(Cross)'
               PROVE  d[f] > 0
    BY <1>1 DEF NothingLost, given
  <2>1. Hint[t] \in Sandbox /\ Hint[t] # Cross  OBVIOUS
  <2>2. Raw(Hint[t])' <=> Raw(Hint[t])  BY <2>1, RawSandbox DEF Raw
  <2>3. Raw(Cross)' <=> PassedOn(Cross) \/ Cross \in concatenated'
    <3>1. Contributions(Cross)' = Contributions(Cross)  BY <1>1 DEF Contributions
    <3> QED  BY <3>1 DEF Raw, PassedOn, given
  <2>4. merged_diff[Hint[t]] # None /\ merged_diff[Hint[t]][f] > 0
    BY <1>5, <2>1, <2>2 DEF DeliveryIInv, SandboxesKeep
  <2>5. Hint[t] \in Delivering  BY <2>1, <2>4, MergedOffered
  <2> QED  BY <2>3, <2>4, <2>5
<1>9. OneTextPerFile'
  <2>1. Delivering' = Delivering  BY <1>1 DEF Delivering
  <2> QED  BY <1>1, <2>1 DEF OneTextPerFile
<1>10. RoundsOK'  BY <1>1, RoundsKept DEF given, verifyVars
<1>11. ReviewsOK'
  <2>1. MergedSandboxes' = Sandbox /\ concatenated \subseteq Sandbox
    BY <1>1, <1>5 DEF MergedSandboxes, DeliveryIInv, ReviewsOK
  <2> QED  BY <1>1, <2>1 DEF ReviewsOK
<1> QED  BY <1>2, <1>3, <1>4, <1>6, <1>7, <1>8, <1>9, <1>10, <1>11 DEF DeliveryIInv

----------------------------------------------------------------------------
(* The reviews. *)

LEMMA ReviewIInv ==
  ASSUME DeliveryIInv, NEW p \in Place, Review(p)
  PROVE  DeliveryIInv'
<1> DEFINE cs == Contributions(p)
<1>1. UNCHANGED <<given, verifyVars, dropped, twice, concatenated>>  BY DEF Review
<1>2. /\ dropped \in SUBSET File /\ twice \in SUBSET File /\ concatenated \in SUBSET Place
  BY DEF DeliveryIInv, DeliveryTypeOK
<1> DEFINE used == IF PassedOn(p) THEN cs ELSE Changes(cs)
<1>3. CASE Conflicts(Changes(cs)) = {} \/ PassedOn(p)
  <2> DEFINE d == IF DOMAIN cs = {} /\ p # Cross THEN None ELSE Concatenation(used)
  <2>1. Settle(p, d) /\ offered' = offered  BY <1>3 DEF Review
  <2>2. ASSUME NEW f \in File, Conflicts(Changes(cs)) = {}, Concatenation(Changes(cs)) \in Diff
        PROVE  ~(Concatenation(Changes(cs))[f] > 1)
    BY <2>2 DEF Conflicts
  <2>3. CASE stage = "review" /\ p \in todo
    <3>1. p \in Sandbox /\ p # Cross  BY <2>3 DEF DeliveryIInv, DeliveryTypeOK
    <3> DEFINE A == {t \in Task : Hint[t] = p /\ work[t] # Empty}
    <3>2. /\ IsFiniteSet(A) /\ A \subseteq Task /\ DOMAIN cs = A
          /\ cs \in [A -> Diff] /\ (\A t \in A : cs[t] = work[t])
      BY <3>1, SandboxContributions
    <3>0. PassedOn(p) => Cardinality(DOMAIN cs) = 1  BY DEF PassedOn
    <3> HIDE DEF A, cs
    <3>3. /\ used \in [A -> Diff]
          /\ \A t \in A, f \in File : (f \in Quoted => PassedOn(p)) => used[t][f] = cs[t][f]
      BY <3>2, ChangesType
    <3>4. /\ Concatenation(used) \in Diff
          /\ \A f \in File : \A t \in A : used[t][f] > 0 => Concatenation(used)[f] > 0
      <4> HIDE DEF used
      <4> QED  BY <3>2, <3>3, ConcatenationType
    <3>5. \A t \in Task, f \in File : Hint[t] = p /\ work[t][f] > 0 =>
            (d # None /\ d[f] > 0) \/ (f \in Quoted /\ ~PassedOn(p))
      <4> SUFFICES ASSUME NEW t \in Task, NEW f \in File, Hint[t] = p, work[t][f] > 0,
                          f \in Quoted => PassedOn(p)
                   PROVE  d # None /\ d[f] > 0
        OBVIOUS
      <4>1. t \in A  BY WorkOffered DEF A
      <4>2. used[t][f] > 0  BY <3>2, <3>3, <4>1
      <4>3. d = Concatenation(used)  BY <3>2, <4>1
      <4> HIDE DEF used, d
      <4>4. Concatenation(used) # None  BY <3>4
      <4> QED  BY <3>4, <4>1, <4>2, <4>3, <4>4
    <3>6. d # None => /\ \A f \in File : ~(d[f] > 1)
                      /\ \E t \in Task : Hint[t] = p /\ work[t] # Empty
      <4> SUFFICES ASSUME d # None
                   PROVE  /\ \A f \in File : ~(d[f] > 1)
                          /\ \E t \in Task : Hint[t] = p /\ work[t] # Empty
        OBVIOUS
      <4>1. d = Concatenation(used) /\ A # {}  BY <3>1, <3>2
      <4>2. CASE ~PassedOn(p)
        <5>1. used = Changes(cs) /\ Conflicts(Changes(cs)) = {}  BY <1>3, <4>2
        <5>2. \A f \in File : ~(d[f] > 1)  BY <2>2, <3>4, <4>1, <5>1
        <5> QED  BY <4>1, <5>2 DEF A
      <4>3. CASE PassedOn(p)
        <5>0. used = cs  BY <4>3
        <5>1. PICK t : A = {t}  BY <3>0, <3>2, <4>3, FS_Singleton
        <5>2. \A f \in File : Concatenation(cs)[f] = cs[t][f]
          <6>1. cs \in [{t} -> Diff]  BY <3>2, <5>1
          <6> QED  BY <6>1, ConcatenationOfOne
        <5>3. t \in Task /\ cs[t] = work[t] /\ work[t] \in Diff
          BY <3>2, <5>1 DEF DeliveryIInv, DeliveryTypeOK
        <5>4. \A f \in File : work[t][f] <= 1  BY <5>3 DEF DeliveryIInv, WorkOK
        <5>5. \A f \in File : ~(d[f] > 1)
          <6> TAKE f \in File
          <6>1. d[f] = work[t][f] /\ work[t][f] \in Nat  BY <4>1, <5>0, <5>2, <5>3 DEF Diff
          <6> QED  BY <5>4, <6>1
        <5> QED  BY <4>1, <5>5 DEF A
      <4> QED  BY <4>2, <4>3
    <3>7. d \in Diff \cup {None}  BY <3>4
    <3>8. \A t \in Task, f \in File : Hint[t] = p /\ work[t][f] > 0 =>
            \/ d # None /\ d[f] > 0
            \/ f \in dropped'
            \/ f \in Quoted /\ ~(PassedOn(p) \/ p \in concatenated')
      <4>1. p \notin concatenated
        <5>1. MergedSandboxes = Sandbox \ todo /\ stage # "done"  BY <2>3 DEF MergedSandboxes
        <5> QED  BY <2>3, <5>1 DEF DeliveryIInv, ReviewsOK
      <4> HIDE DEF d
      <4> QED  BY <1>1, <3>5, <4>1
    <3> HIDE DEF d
    <3> QED  BY <1>1, <1>2, <2>1, <2>3, <3>6, <3>7, <3>8, SettleSandbox
  <2>4. CASE stage = "cross" /\ p = Cross /\ mode = "full"
    <3>1. /\ IsFiniteSet(Delivering) /\ Delivering \subseteq Sandbox /\ DOMAIN cs = Delivering
          /\ cs \in [Delivering -> Diff] /\ (\A s \in Delivering : cs[s] = merged_diff[s])
      BY <2>4, CrossContributions
    <3>0. PassedOn(p) => Cardinality(DOMAIN cs) = 1  BY DEF PassedOn
    <3> HIDE DEF cs
    <3>2. /\ used \in [Delivering -> Diff]
          /\ \A s \in Delivering, f \in File : (f \in Quoted => PassedOn(p)) => used[s][f] = cs[s][f]
      BY <3>1, ChangesType
    <3>3. /\ Concatenation(used) \in Diff
          /\ \A f \in File : \A s \in Delivering : used[s][f] > 0 => Concatenation(used)[f] > 0
      <4> HIDE DEF used
      <4> QED  BY <3>1, <3>2, ConcatenationType
    <3>4. d = Concatenation(used)  BY <2>4
    <3>5. \A s \in Delivering, f \in File : merged_diff[s][f] > 0 =>
            d[f] > 0 \/ (f \in Quoted /\ ~PassedOn(p))
      <4> HIDE DEF used, d
      <4> QED  BY <3>1, <3>2, <3>3, <3>4
    <3>6. \A f \in File : d[f] > 1 => \/ f \in twice
                                      \/ Cardinality(Delivering) = 1 /\ Delivering \subseteq concatenated
      <4>1. CASE ~PassedOn(p)
        <5>1. used = Changes(cs) /\ Conflicts(Changes(cs)) = {}  BY <1>3, <4>1
        <5> QED  BY <2>2, <3>3, <3>4, <5>1
      <4>2. CASE PassedOn(p)
        <5>0. used = cs  BY <4>2
        <5>1. PICK s : Delivering = {s}  BY <3>0, <3>1, <4>2, FS_Singleton
        <5>2. \A f \in File : Concatenation(cs)[f] = cs[s][f]
          <6>1. cs \in [{s} -> Diff]  BY <3>1, <5>1
          <6> QED  BY <6>1, ConcatenationOfOne
        <5>3. s \in Sandbox /\ cs[s] = merged_diff[s] /\ merged_diff[s] # None
          BY <3>1, <5>1 DEF Delivering, IsDiff
        <5>4. \A f \in File : merged_diff[s][f] > 1 => f \in twice \/ s \in concatenated
          BY <5>3 DEF DeliveryIInv, SandboxesExplained
        <5>5. \A f \in File : d[f] = merged_diff[s][f]  BY <3>4, <5>0, <5>2, <5>3
        <5>6. Cardinality(Delivering) = 1  BY <3>0, <3>1, <4>2
        <5> QED  BY <5>1, <5>4, <5>5, <5>6
      <4> QED  BY <4>1, <4>2
    <3>7. d \in Diff  BY <3>3, <3>4
    <3>8. Settle(Cross, d)  BY <2>1, <2>4
    <3>9. Cross \notin concatenated
      <4>1. MergedSandboxes = Sandbox /\ stage # "done"  BY <2>4 DEF MergedSandboxes
      <4> QED  BY <4>1 DEF DeliveryIInv, ReviewsOK
    <3> HIDE DEF d
    <3> QED  BY <1>1, <1>2, <2>1, <2>4, <3>5, <3>6, <3>7, <3>8, <3>9, SettleCross
  <2> QED  BY <2>3, <2>4 DEF Review
<1>4. CASE ~(Conflicts(Changes(cs)) = {} \/ PassedOn(p))
  <2>1. /\ stage' = "asking" /\ at' = p /\ offered' = cs
        /\ UNCHANGED <<todo, attempts, merged_diff, final>>
    BY <1>4 DEF Review
  <2>2. (stage = "review" /\ p \in todo) \/ (stage = "cross" /\ p = Cross /\ mode = "full")
    BY DEF Review
  <2>3. \E who \in (SUBSET Task) \cup (SUBSET Sandbox) : cs \in [who -> Diff]
    <3>1. CASE p \in Sandbox
      <4> DEFINE A == {t \in Task : Hint[t] = p /\ work[t] # Empty}
      <4>1. A \in (SUBSET Task) \cup (SUBSET Sandbox) /\ cs \in [A -> Diff]
        BY <3>1, SandboxContributions
      <4> QED  BY <4>1
    <3>2. CASE p = Cross
      <4>1. Delivering \subseteq Sandbox /\ cs \in [Delivering -> Diff]
        BY <3>2, CrossContributions
      <4> HIDE DEF cs
      <4>2. Delivering \in (SUBSET Task) \cup (SUBSET Sandbox)  BY <4>1
      <4> QED  BY <4>1, <4>2
    <3> QED  BY <3>1, <3>2 DEF Place
  <2>4. cs' = cs  BY <1>1, <2>1 DEF Contributions, given
  <2>5. p # Cross => p \in Sandbox  BY DEF Place
  <2>6. DeliveryTypeOK'
    <3>1. (\E who \in (SUBSET Task) \cup (SUBSET Sandbox) : offered \in [who -> Diff])'
      BY <2>1, <2>3
    <3> QED  BY <1>1, <2>1, <3>1 DEF DeliveryIInv, DeliveryTypeOK, given, verifyVars
  <2>7. WorkOK'  BY <1>1 DEF DeliveryIInv, WorkOK, given
  <2>8. StageOK'
    <3>1. Contributions(at)' = cs  BY <2>1, <2>4
    <3>2. DOMAIN cs # {}
      <4> DEFINE read == Changes(cs)
      <4>1. PICK f \in File : Concatenation(read)[f] > 1  BY <1>4 DEF Conflicts
      <4>2. SUFFICES ASSUME DOMAIN cs = {} PROVE FALSE  OBVIOUS
      <4>3. DOMAIN read = {}  BY <4>2 DEF Changes
      <4> HIDE DEF read
      <4>4. Entries(read, f) = {}  BY <4>3 DEF Entries
      <4>5. Concatenation(read)[f] = 0  BY <4>4, FS_EmptySet DEF Concatenation
      <4> QED  BY <4>1, <4>5
    <3>3. ~(PassedOn(at)')
      <4>1. ~(Cardinality(DOMAIN cs) = 1 /\ (mode = "standard" \/ p = Cross))  BY <1>4 DEF PassedOn
      <4>2. at' = p /\ mode' = mode  BY <1>1, <2>1 DEF given
      <4> HIDE DEF cs
      <4> QED  BY <3>1, <4>1, <4>2 DEF PassedOn
    <3> HIDE DEF cs
    <3> QED  BY <1>1, <2>1, <2>2, <3>1, <3>2, <3>3 DEF StageOK, Verifying, given
  <2>9. MergedSandboxes' = MergedSandboxes
    <3>1. p \in todo => p # Cross  BY DEF DeliveryIInv, DeliveryTypeOK
    <3> QED  BY <2>1, <2>2, <3>1 DEF MergedSandboxes
  <2>10. SandboxesKeep' /\ ReviewsOK'  BY <1>1, <2>1, <2>2, <2>9, SandboxesKept
  <2>12. SandboxesExplained'  BY <1>1, <2>1 DEF DeliveryIInv, SandboxesExplained, given
  <2>11. RoundsOK'  BY <1>1, <2>1, <2>2, RoundsKept DEF given, verifyVars
  <2> QED  BY <2>1, <2>6, <2>7, <2>8, <2>10, <2>11, <2>12 DEF DeliveryIInv, NothingLost, OneTextPerFile
<1> QED  BY <1>3, <1>4

(* What is under review is what its place offers. *)
LEMMA OfferedOK ==
  ASSUME DeliveryIInv, stage = "asking"
  PROVE  /\ \E A : /\ IsFiniteSet(A) /\ offered \in [A -> Diff]
                   /\ at \in todo => A = {t \in Task : Hint[t] = at /\ work[t] # Empty} /\ \A t \in A : offered[t] = work[t]
                   /\ at = Cross => A = Delivering /\ \A s \in A : offered[s] = merged_diff[s]
         /\ (at \in todo /\ at \in Sandbox /\ at # Cross) \/ (at = Cross /\ mode = "full")
<1>1. offered = Contributions(at) /\ (at \in todo \/ (at = Cross /\ mode = "full"))
  BY DEF DeliveryIInv, StageOK
<1>2. at \in todo => at \in Sandbox /\ at # Cross  BY DEF DeliveryIInv, DeliveryTypeOK
<1>3. CASE at \in todo
  <2> DEFINE A == {t \in Task : Hint[t] = at /\ work[t] # Empty}
  <2>1. IsFiniteSet(A) /\ offered \in [A -> Diff] /\ \A t \in A : offered[t] = work[t]
    BY <1>1, <1>2, <1>3, SandboxContributions
  <2> QED  BY <1>2, <1>3, <2>1
<1>4. CASE at = Cross /\ mode = "full"
  <2>1. /\ IsFiniteSet(Delivering) /\ offered \in [Delivering -> Diff]
        /\ \A s \in Delivering : offered[s] = merged_diff[s]
    BY <1>1, <1>4, CrossContributions
  <2> QED  BY <1>2, <1>4, <2>1
<1> QED  BY <1>1, <1>3, <1>4

(* A review that was asked for is settled with a diff that keeps what was
   offered, whichever place it is for. *)
LEMMA SettleOffered ==
  ASSUME DeliveryIInv, stage = "asking", NEW d \in Diff, Settle(at, d),
         UNCHANGED <<given, verifyVars>>, offered' = <<>>,
         dropped' \in SUBSET File, dropped \subseteq dropped',
         twice' \in SUBSET File, twice \subseteq twice',
         concatenated' \in SUBSET Place, concatenated \subseteq concatenated',
         concatenated' \subseteq concatenated \cup {at},
         \A a \in DOMAIN offered : \A f \in File : offered[a][f] > 0 =>
           d[f] > 0 \/ f \in dropped' \/ (f \in Quoted /\ concatenated' = concatenated),
         \A f \in File : d[f] > 1 => f \in twice' \/ at \in concatenated'
  PROVE  DeliveryIInv'
<1>1. PICK A : /\ IsFiniteSet(A) /\ offered \in [A -> Diff]
               /\ at \in todo => A = {t \in Task : Hint[t] = at /\ work[t] # Empty} /\ \A t \in A : offered[t] = work[t]
               /\ at = Cross => A = Delivering /\ \A s \in A : offered[s] = merged_diff[s]
  BY OfferedOK
<1>2. DOMAIN offered = A /\ A # {} /\ ~PassedOn(at)  BY <1>1 DEF DeliveryIInv, StageOK
<1>5. concatenated' = concatenated => at \notin concatenated'
  <2>1. at \in todo \/ at = Cross  BY OfferedOK
  <2>2. at \notin MergedSandboxes /\ (at = Cross => MergedSandboxes \subseteq Sandbox)
    BY <2>1, OfferedOK DEF MergedSandboxes
  <2> QED  BY <2>1, <2>2 DEF DeliveryIInv, ReviewsOK
<1>3. CASE at \in todo /\ at # Cross
  <2>1. A = {t \in Task : Hint[t] = at /\ work[t] # Empty} /\ \A t \in A : offered[t] = work[t]
    BY <1>1, <1>3
  <2>2. d # None  OBVIOUS
  <2>3. \A t \in Task, f \in File : Hint[t] = at /\ work[t][f] > 0 =>
          \/ d # None /\ d[f] > 0
          \/ f \in dropped'
          \/ f \in Quoted /\ ~(PassedOn(at) \/ at \in concatenated')
    <3> TAKE t \in Task, f \in File
    <3> HAVE Hint[t] = at /\ work[t][f] > 0
    <3>1. t \in A  BY <2>1, WorkOffered
    <3> QED  BY <1>2, <1>5, <2>1, <2>2, <3>1
  <2>4. \E t \in Task : Hint[t] = at /\ work[t] # Empty  BY <1>2, <1>3, <2>1
  <2> QED  BY <1>3, <2>2, <2>3, <2>4, SettleSandbox
<1>4. CASE at = Cross /\ mode = "full"
  <2>1. A = Delivering /\ \A s \in A : offered[s] = merged_diff[s]  BY <1>1, <1>4
  <2>2. \A s \in Delivering, f \in File : merged_diff[s][f] > 0 =>
          \/ d[f] > 0
          \/ f \in dropped'
          \/ f \in Quoted /\ ~(PassedOn(Cross) \/ Cross \in concatenated')
    BY <1>2, <1>4, <1>5, <2>1
  <2> QED  BY <1>4, <2>2, SettleCross
<1> QED  BY <1>3, <1>4, OfferedOK

LEMMA AnswerIInv ==
  ASSUME DeliveryIInv, Answer
  PROVE  DeliveryIInv'
<1>1. /\ stage = "asking" /\ offered' = <<>> /\ UNCHANGED <<given, verifyVars, concatenated>>
  BY DEF Answer
<1> DEFINE read == Changes(offered)
<1>2. PICK answer \in [File -> Answers] :
        /\ Settle(at, Reviewed(read, answer))
        /\ dropped' = dropped \cup
             {f \in File : Entries(read, f) # {} /\ answer[f].drops > 0}
        /\ twice' = twice \cup
             {f \in File : answer[f].texts + answer[f].drops >
                            (IF f \in Conflicts(read) THEN 1 ELSE 0)}
  BY DEF Answer
<1> DEFINE d == Reviewed(read, answer)
<1>3. PICK A : IsFiniteSet(A) /\ offered \in [A -> Diff]  BY <1>1, OfferedOK
<1>10. /\ read \in [A -> Diff]
       /\ \A a \in A, f \in File : f \notin Quoted => read[a][f] = offered[a][f]
  BY <1>3, ChangesType
<1> HIDE DEF read
<1>4. /\ d \in Diff
      /\ \A f \in File : \A a \in A : read[a][f] > 0 =>
           d[f] > 0 \/ (Entries(read, f) # {} /\ answer[f].drops > 0)
      /\ \A f \in File : d[f] > 1 =>
           answer[f].texts + answer[f].drops > (IF f \in Conflicts(read) THEN 1 ELSE 0)
  BY <1>3, <1>10, ReviewedKeeps
<1>5. /\ dropped \in SUBSET File /\ twice \in SUBSET File /\ concatenated \in SUBSET Place
  BY DEF DeliveryIInv, DeliveryTypeOK
<1>6. \A a \in DOMAIN offered : \A f \in File : offered[a][f] > 0 =>
        d[f] > 0 \/ f \in dropped' \/ (f \in Quoted /\ concatenated' = concatenated)
  <2> SUFFICES ASSUME NEW a \in A, NEW f \in File, offered[a][f] > 0, f \notin Quoted
               PROVE  d[f] > 0 \/ f \in dropped'
    BY <1>1, <1>3
  <2>1. read[a][f] > 0  BY <1>10
  <2> HIDE DEF d
  <2> QED  BY <1>2, <1>4, <2>1
<1>7. \A f \in File : d[f] > 1 => f \in twice'  BY <1>2, <1>4
<1>8. dropped' \in SUBSET File /\ twice' \in SUBSET File /\ dropped \subseteq dropped' /\ twice \subseteq twice'
  BY <1>2, <1>5
<1>9. Settle(at, d)  BY <1>2
<1> HIDE DEF d
<1> QED  BY <1>1, <1>4, <1>5, <1>6, <1>7, <1>8, <1>9, SettleOffered

LEMMA GiveUpIInv ==
  ASSUME DeliveryIInv, stage = "asking", GiveUpReview, UNCHANGED <<given, verifyVars, dropped, twice>>
  PROVE  DeliveryIInv'
<1> DEFINE d == Concatenation(offered)
<1>1. /\ Settle(at, d) /\ offered' = <<>> /\ concatenated' = concatenated \cup {at}
  BY DEF GiveUpReview
<1>2. PICK A : IsFiniteSet(A) /\ offered \in [A -> Diff]  BY OfferedOK
<1>3. d \in Diff /\ \A f \in File : \A a \in A : offered[a][f] > 0 => d[f] > 0
  BY <1>2, ConcatenationType
<1>4. /\ dropped \in SUBSET File /\ twice \in SUBSET File /\ concatenated \in SUBSET Place
      /\ at \in Place
  BY OfferedOK DEF DeliveryIInv, DeliveryTypeOK, Place
<1>5. concatenated' \in SUBSET Place /\ concatenated \subseteq concatenated' /\ at \in concatenated'
  BY <1>1, <1>4
<1>6. \A a \in DOMAIN offered : \A f \in File : offered[a][f] > 0 => d[f] > 0  BY <1>2, <1>3
<1> HIDE DEF d
<1> QED  BY <1>1, <1>3, <1>4, <1>5, <1>6, SettleOffered

LEMMA AnswerFailsIInv ==
  ASSUME DeliveryIInv, AnswerFails
  PROVE  DeliveryIInv'
<1>1. stage = "asking" /\ UNCHANGED <<given, verifyVars, dropped, twice>>  BY DEF AnswerFails
<1>2. CASE attempts + 1 < MaxRetries
  <2>1. /\ attempts' = attempts + 1
        /\ UNCHANGED <<stage, at, todo, offered, merged_diff, final, concatenated>>
    BY <1>2 DEF AnswerFails
  <2>2. attempts \in 0..(MaxRetries - 1)  BY DEF DeliveryIInv, DeliveryTypeOK
  <2>3. attempts' \in 0..(MaxRetries - 1)  BY <1>2, <2>1, <2>2
  <2>4. DeliveryTypeOK'  BY <1>1, <2>1, <2>3 DEF DeliveryIInv, DeliveryTypeOK, given, verifyVars
  <2>5. /\ MergedSandboxes' = MergedSandboxes /\ Contributions(at)' = Contributions(at)
        /\ PassedOn(at)' <=> PassedOn(at)
    BY <1>1, <2>1 DEF MergedSandboxes, Contributions, PassedOn, given
  <2>6. WorkOK' /\ StageOK' /\ SandboxesExplained'
    BY <1>1, <2>1, <2>5
    DEF DeliveryIInv, WorkOK, StageOK, Verifying, SandboxesExplained, given, verifyVars
  <2>7. RoundsOK'  BY <1>1, <2>1, RoundsKept DEF given, verifyVars
  <2>8. SandboxesKeep' /\ ReviewsOK'  BY <1>1, <2>1, <2>5, SandboxesKept
  <2> QED  BY <1>1, <2>1, <2>4, <2>6, <2>7, <2>8 DEF DeliveryIInv, NothingLost, OneTextPerFile
<1>3. CASE ~(attempts + 1 < MaxRetries)
  <2>1. GiveUpReview  BY <1>3 DEF AnswerFails
  <2> QED  BY <1>1, <2>1, GiveUpIInv
<1> QED  BY <1>2, <1>3

LEMMA TakeSingleIInv ==
  ASSUME DeliveryIInv, TakeSingle
  PROVE  DeliveryIInv'
<1> DEFINE withDiff == {s \in Sandbox : merged_diff[s] # None}
<1>1. /\ stage = "cross" /\ mode = "standard" /\ stage' = "done"
      /\ final' = (IF withDiff = {} THEN Empty ELSE merged_diff[CHOOSE s \in withDiff : TRUE])
      /\ UNCHANGED <<given, at, todo, reviewVars, verifyVars>>
  BY DEF TakeSingle
<1>2. PICK h \in Sandbox : \A t \in Task : work[t] # Empty => Hint[t] = h
  BY <1>1 DEF DeliveryIInv, WorkOK
<1>3. withDiff \subseteq {h}  BY <1>2 DEF DeliveryIInv, SandboxesExplained
<1>4. merged_diff \in [Sandbox -> Diff \cup {None}]  BY DEF DeliveryIInv, DeliveryTypeOK
<1>5. \/ withDiff = {} /\ final' = Empty
      \/ withDiff = {h} /\ merged_diff[h] \in Diff /\ final' = merged_diff[h]
  <2>1. CASE withDiff = {}  BY <1>1, <2>1
  <2>2. CASE withDiff # {}
    <3>1. withDiff = {h}  BY <1>3, <2>2
    <3>2. (CHOOSE s \in withDiff : TRUE) = h  BY <3>1
    <3>3. merged_diff[h] \in Diff  BY <1>4, <3>1
    <3> HIDE DEF withDiff
    <3> QED  BY <1>1, <2>2, <3>1, <3>2, <3>3
  <2> QED  BY <2>1, <2>2
<1>6. Empty \in Diff  BY DEF Empty, Diff
<1>7. final' \in Diff  BY <1>5, <1>6
<1>8. DeliveryTypeOK'
  BY <1>1, <1>7 DEF DeliveryIInv, DeliveryTypeOK, given, reviewVars, verifyVars
<1>9. MergedSandboxes = Sandbox /\ MergedSandboxes' = Sandbox  BY <1>1 DEF MergedSandboxes
<1>10. WorkOK' /\ StageOK' /\ SandboxesExplained'
  BY <1>1, <1>9
  DEF DeliveryIInv, WorkOK, StageOK, Verifying, SandboxesExplained, given, reviewVars
<1>14. SandboxesKeep' /\ ReviewsOK'  BY <1>1, <1>9, SandboxesKept DEF reviewVars
<1>11. NothingLost'
  <2> SUFFICES ASSUME NEW t \in Task, NEW f \in File, work[t][f] > 0, f \notin dropped,
                      f \in Quoted => Raw(Hint[t])'
               PROVE  final'[f] > 0
    BY <1>1 DEF NothingLost, given, reviewVars
  <2>1. Hint[t] \in Sandbox  OBVIOUS
  <2>4. Raw(Hint[t])' <=> Raw(Hint[t])  BY <1>1, RawSandbox DEF Raw, reviewVars
  <2>2. merged_diff[Hint[t]] # None /\ merged_diff[Hint[t]][f] > 0
    BY <1>9, <2>1, <2>4 DEF DeliveryIInv, SandboxesKeep
  <2>3. Hint[t] \in withDiff  BY <2>1, <2>2
  <2> QED  BY <1>3, <1>5, <2>2, <2>3
<1>12. OneTextPerFile'
  <2> SUFFICES ASSUME NEW f \in File, final'[f] > 1
               PROVE  f \in twice \/ (Cardinality(Delivering) = 1 /\ Delivering \subseteq concatenated)
    <3>1. Delivering' = Delivering  BY <1>1 DEF Delivering, reviewVars
    <3> QED  BY <1>1, <3>1 DEF OneTextPerFile, reviewVars
  <2>1. withDiff = {h} /\ final' = merged_diff[h] /\ merged_diff[h] \in Diff
    <3>1. Empty[f] = 0  BY DEF Empty
    <3> QED  BY <1>5, <3>1
  <2>2. f \in twice \/ h \in concatenated  BY <2>1 DEF DeliveryIInv, SandboxesExplained
  <2>3. merged_diff[h][f] > 0  BY <2>1 DEF Diff
  <2>4. h \in Delivering /\ Delivering \subseteq withDiff
    BY <2>1, <2>3, MergedOffered DEF Delivering, IsDiff
  <2>5. Delivering = {h}  BY <2>1, <2>4
  <2>6. Cardinality(Delivering) = 1  BY <2>5, FS_Singleton
  <2> QED  BY <2>2, <2>5, <2>6
<1>13. RoundsOK'  BY <1>1, RoundsKept DEF given, verifyVars
<1> QED  BY <1>8, <1>10, <1>11, <1>12, <1>13, <1>14 DEF DeliveryIInv

----------------------------------------------------------------------------
(* The verification, which hands a diff back as it got it. *)

LEMMA VerifiedIInv ==
  ASSUME DeliveryIInv, Verifying, NEW st \in Status, NEW d, d = merged_diff[at] \/ d = Delivered,
         Verified(st, d),
         UNCHANGED <<given, offered, attempts, dropped, twice, concatenated, final>>
  PROVE  DeliveryIInv'
<1>1. at \in todo /\ IsDiff(merged_diff[at]) /\ current \in {merged_diff[at], Empty}
  BY DEF DeliveryIInv, StageOK
<1>2. d = merged_diff[at]  BY <1>1 DEF Delivered
<1>3. merged_diff \in [Sandbox -> Diff \cup {None}] /\ todo \subseteq Sandbox
  BY DEF DeliveryIInv, DeliveryTypeOK
<1>4. merged_diff' = merged_diff  BY <1>1, <1>2, <1>3 DEF Verified
<1>5. /\ status' = [status EXCEPT ![at] = st] /\ todo' = todo \ {at}
      /\ stage' = (IF todo = {at} THEN "cross" ELSE "verify") /\ at' = None
      /\ plan' = {} /\ round' = 0 /\ failing' = {} /\ unfixed' = {} /\ current' = Empty
  BY DEF Verified
<1>6. Empty \in Diff /\ 0 \in Nat  BY DEF Empty, Diff
<1>7. status' \in [Sandbox -> Status]  BY <1>5 DEF DeliveryIInv, DeliveryTypeOK
<1>8. DeliveryTypeOK'
  <2>1. todo' \subseteq Sandbox /\ stage' \in {"verify", "cross"}  BY <1>3, <1>5
  <2>2. (\E who \in (SUBSET Task) \cup (SUBSET Sandbox) : offered \in [who -> Diff])'
    BY DEF DeliveryIInv, DeliveryTypeOK
  <2> QED  BY <1>4, <1>5, <1>6, <1>7, <2>1, <2>2 DEF DeliveryIInv, DeliveryTypeOK, given
<1>9. MergedSandboxes = Sandbox /\ MergedSandboxes' = Sandbox  BY <1>5 DEF MergedSandboxes, Verifying
<1>10. WorkOK' /\ StageOK'  BY <1>5 DEF DeliveryIInv, WorkOK, StageOK, Verifying, given
<1>11. SandboxesExplained'  BY <1>4 DEF DeliveryIInv, SandboxesExplained, given
<1>12. stage' # "done" /\ stage # "done"  BY <1>5 DEF Verifying
<1>14. SandboxesKeep' /\ ReviewsOK'  BY <1>4, <1>9, <1>12, SandboxesKept
<1>13. RoundsOK'
  <2>1. LastRound' \in Nat  BY DEF LastRound
  <2> QED  BY <1>5, <2>1 DEF RoundsOK
<1> QED  BY <1>8, <1>10, <1>11, <1>12, <1>13, <1>14 DEF DeliveryIInv, NothingLost, OneTextPerFile

(* A step within the verification of one sandbox. *)
LEMMA VerifyingIInv ==
  ASSUME DeliveryIInv, stage \in {"verify", "plan", "run", "fix"},
         UNCHANGED <<given, reviewVars, status, final>>,
         stage' \in {"verify", "plan", "run", "fix", "cross"},
         at' \in Place \cup {None}, todo' \subseteq Sandbox,
         plan' \subseteq VF, failing' \subseteq plan', unfixed' \subseteq failing',
         round' \in Nat, current' \in Diff,
         Verifying' => /\ at' \in todo' /\ IsDiff(merged_diff[at'])
                       /\ current' \in {merged_diff[at'], Empty},
         round' <= LastRound, stage' = "fix" => round' < LastRound,
         failing' # {} => stage' = "fix"
  PROVE  DeliveryIInv'
<1>1. DeliveryTypeOK'
  <2>1. (\E who \in (SUBSET Task) \cup (SUBSET Sandbox) : offered \in [who -> Diff])'
    BY DEF DeliveryIInv, DeliveryTypeOK, reviewVars
  <2> QED  BY <2>1 DEF DeliveryIInv, DeliveryTypeOK, given, reviewVars
<1>2. MergedSandboxes = Sandbox /\ MergedSandboxes' = Sandbox  BY DEF MergedSandboxes
<1>3. WorkOK'  BY DEF DeliveryIInv, WorkOK, given
<1>4. StageOK'  BY DEF StageOK, reviewVars
<1>5. SandboxesKeep' /\ ReviewsOK' /\ SandboxesExplained'
  <2>1. SandboxesKeep' /\ ReviewsOK'  BY <1>2, SandboxesKept DEF reviewVars
  <2>2. SandboxesExplained'  BY DEF DeliveryIInv, SandboxesExplained, given, reviewVars
  <2> QED  BY <2>1, <2>2
<1>6. RoundsOK'
  <2>1. LastRound' = LastRound  BY DEF LastRound, given
  <2> QED  BY <2>1 DEF RoundsOK
<1> QED  BY <1>1, <1>3, <1>4, <1>5, <1>6 DEF DeliveryIInv, NothingLost, OneTextPerFile

LEMMA StartVerificationIInv ==
  ASSUME DeliveryIInv, NEW s \in Sandbox, StartVerification(s)
  PROVE  DeliveryIInv'
<1>1. /\ stage = "verify" /\ s \in todo
      /\ UNCHANGED <<given, reviewVars, plan, round, failing, unfixed, status, final>>
  BY DEF StartVerification
<1>2. /\ at \in Place \cup {None} /\ todo \subseteq Sandbox
      /\ merged_diff[s] \in Diff \cup {None} /\ current \in Diff
      /\ plan \subseteq VF /\ failing \subseteq plan /\ unfixed \subseteq failing
      /\ round \in Nat
  BY DEF DeliveryIInv, DeliveryTypeOK
<1>5. round <= LastRound /\ failing = {}  BY <1>1 DEF DeliveryIInv, RoundsOK
<1>3. CASE IsDiff(merged_diff[s])
  <2>1. stage' = "plan" /\ at' = s /\ current' = merged_diff[s] /\ todo' = todo
    BY <1>3 DEF StartVerification
  <2>2. current' \in Diff  BY <1>2, <1>3, <2>1 DEF IsDiff
  <2>3. at' \in Place  BY <2>1 DEF Place
  <2>4. /\ at' \in todo' /\ IsDiff(merged_diff[at']) /\ current' \in {merged_diff[at'], Empty}
    BY <1>1, <1>3, <2>1
  <2> QED  BY <1>1, <1>2, <2>1, <2>2, <2>3, <2>4, <1>5, VerifyingIInv
<1>4. CASE ~IsDiff(merged_diff[s])
  <2>1. /\ todo' = todo \ {s} /\ stage' = (IF todo = {s} THEN "cross" ELSE "verify")
        /\ at' = at /\ current' = current
    BY <1>4 DEF StartVerification
  <2>2. ~Verifying' /\ stage' \in {"verify", "cross"} /\ todo' \subseteq Sandbox
    BY <1>2, <2>1 DEF Verifying
  <2> QED  BY <1>1, <1>2, <2>1, <2>2, <1>5, VerifyingIInv
<1> QED  BY <1>3, <1>4

LEMMA PlanIInv ==
  ASSUME DeliveryIInv, Plan
  PROVE  DeliveryIInv'
<1>1. stage = "plan" /\ UNCHANGED <<given, offered, attempts, dropped, twice, concatenated, final>>
  BY DEF Plan
<1>2. Verifying /\ {"Failed", "NotStarted"} \subseteq Status  BY <1>1 DEF Verifying, Status
<1>3. CASE Verified("Failed", merged_diff[at])  BY <1>1, <1>2, <1>3, VerifiedIInv
<1>4. ASSUME NEW vfs \in SUBSET VF,
             IF vfs = {} \/ LastRound = 0
             THEN Verified("NotStarted", Delivered)
             ELSE /\ plan' = vfs /\ round' = 1 /\ stage' = "run"
                  /\ UNCHANGED <<at, todo, merged_diff, failing, unfixed, current, status>>
      PROVE  DeliveryIInv'
  <2>1. CASE vfs = {} \/ LastRound = 0
    <3>1. Verified("NotStarted", Delivered)  BY <1>4, <2>1
    <3> QED  BY <1>1, <1>2, <3>1, VerifiedIInv
  <2>2. CASE ~(vfs = {} \/ LastRound = 0)
    <3>1. /\ plan' = vfs /\ round' = 1 /\ stage' = "run"
          /\ UNCHANGED <<at, todo, merged_diff, failing, unfixed, current, status>>
      BY <1>4, <2>2
    <3>2. failing = {} /\ unfixed = {}
      BY <1>1 DEF DeliveryIInv, DeliveryTypeOK, RoundsOK
    <3>3. at \in todo /\ IsDiff(merged_diff[at]) /\ current \in {merged_diff[at], Empty}
      BY <1>2 DEF DeliveryIInv, StageOK
    <3>4. /\ at \in Place \cup {None} /\ todo \subseteq Sandbox /\ current \in Diff
      BY DEF DeliveryIInv, DeliveryTypeOK
    <3>5. round' <= LastRound /\ round' \in Nat  BY <2>2, <3>1 DEF LastRound
    <3>6. UNCHANGED reviewVars  BY <1>1, <3>1 DEF reviewVars
    <3>7. /\ plan' \subseteq VF /\ failing' \subseteq plan' /\ unfixed' \subseteq failing' /\ failing' = {}
      BY <1>4, <3>1, <3>2
    <3> QED  BY <1>1, <3>1, <3>3, <3>4, <3>5, <3>6, <3>7, VerifyingIInv
  <2> QED  BY <2>1, <2>2
<1> QED  BY <1>1, <1>3, <1>4 DEF Plan

LEMMA RunRoundIInv ==
  ASSUME DeliveryIInv, RunRound
  PROVE  DeliveryIInv'
<1> DEFINE failed == {vf \in plan : ~Passes(vf)}
           st == DetermineStatus(plan \ failed, failed, round)
<1>1. stage = "run" /\ UNCHANGED <<given, offered, attempts, dropped, twice, concatenated, final>>
  BY DEF RunRound
<1>2. Verifying  BY <1>1 DEF Verifying
<1>3. CASE failed = {} \/ round = LastRound
  <2>1. Verified(st, Delivered)  BY <1>3 DEF RunRound
  <2>2. st \in Status  BY DEF DetermineStatus, Status
  <2> HIDE DEF st
  <2> QED  BY <1>1, <1>2, <2>1, <2>2, VerifiedIInv
<1>4. CASE ~(failed = {} \/ round = LastRound)
  <2>1. /\ failing' = failed /\ unfixed' = failed /\ stage' = "fix"
        /\ UNCHANGED <<at, todo, merged_diff, plan, round, current, status>>
    BY <1>4 DEF RunRound
  <2>2. failed \subseteq plan  OBVIOUS
  <2> HIDE DEF failed
  <2>3. at \in todo /\ IsDiff(merged_diff[at]) /\ current \in {merged_diff[at], Empty}
    BY <1>2 DEF DeliveryIInv, StageOK
  <2>4. /\ at \in Place \cup {None} /\ todo \subseteq Sandbox /\ current \in Diff
        /\ plan \subseteq VF /\ round \in Nat
    BY DEF DeliveryIInv, DeliveryTypeOK
  <2>5. round < LastRound
    <3>1. round <= LastRound /\ round # LastRound  BY <1>4 DEF DeliveryIInv, RoundsOK
    <3>2. LastRound \in Nat  BY DEF LastRound
    <3> QED  BY <2>4, <3>1, <3>2
  <2>6. round' < LastRound /\ round' <= LastRound
    <3>1. LastRound \in Nat  BY DEF LastRound
    <3> QED  BY <2>1, <2>4, <2>5, <3>1
  <2>7. UNCHANGED reviewVars  BY <1>1, <2>1 DEF reviewVars
  <2> QED  BY <1>1, <2>1, <2>2, <2>3, <2>4, <2>6, <2>7, VerifyingIInv
<1> QED  BY <1>3, <1>4

LEMMA FixIInv ==
  ASSUME DeliveryIInv, NEW vf \in VF, Fix(vf)
  PROVE  DeliveryIInv'
<1>1. /\ stage = "fix" /\ vf \in unfixed /\ unfixed' = unfixed \ {vf}
      /\ current' \in {current, Empty}
      /\ IF unfixed = {vf}
         THEN stage' = "run" /\ round' = round + 1 /\ failing' = {}
         ELSE UNCHANGED <<stage, round, failing>>
      /\ UNCHANGED <<given, at, todo, reviewVars, plan, status, final>>
  BY DEF Fix
<1>2. Verifying  BY <1>1 DEF Verifying
<1>3. at \in todo /\ IsDiff(merged_diff[at]) /\ current \in {merged_diff[at], Empty}
  BY <1>2 DEF DeliveryIInv, StageOK
<1>4. /\ at \in Place \cup {None} /\ todo \subseteq Sandbox /\ current \in Diff
      /\ plan \subseteq VF /\ round \in Nat /\ failing \subseteq plan /\ unfixed \subseteq failing
  BY DEF DeliveryIInv, DeliveryTypeOK
<1>5. round < LastRound /\ LastRound \in Nat  BY <1>1 DEF DeliveryIInv, RoundsOK, LastRound
<1>6. /\ round' \in Nat /\ round' <= LastRound /\ (stage' = "fix" => round' < LastRound)
  <2>1. CASE unfixed = {vf}  BY <1>1, <1>4, <1>5, <2>1
  <2>2. CASE unfixed # {vf}
    <3>1. round' = round  BY <1>1, <2>2
    <3> QED  BY <1>4, <1>5, <3>1
  <2> QED  BY <2>1, <2>2
<1>7. /\ stage' \in {"run", "fix"} /\ (failing' # {} => stage' = "fix")
      /\ failing' \subseteq plan' /\ unfixed' \subseteq failing' /\ plan' \subseteq VF
  BY <1>1, <1>4
<1>8. current' \in {merged_diff[at], Empty} /\ current' \in Diff
  BY <1>1, <1>3, <1>4 DEF Empty, Diff
<1> QED  BY <1>1, <1>3, <1>4, <1>6, <1>7, <1>8, VerifyingIInv

LEMMA VerifyTimeoutIInv ==
  ASSUME DeliveryIInv, VerifyTimeout
  PROVE  DeliveryIInv'
<1>1. "TimedOut" \in Status  BY DEF Status
<1> QED  BY <1>1, VerifiedIInv DEF VerifyTimeout, Verifying

LEMMA DeliveryNextIInv == DeliveryIInv /\ [DeliveryNext]_deliveryVars => DeliveryIInv'
<1> SUFFICES ASSUME DeliveryIInv, [DeliveryNext]_deliveryVars PROVE DeliveryIInv'
  OBVIOUS
<1>1. ASSUME NEW p \in Place, Review(p) PROVE DeliveryIInv'  BY <1>1, ReviewIInv
<1>2. CASE Answer  BY <1>2, AnswerIInv
<1>3. CASE AnswerFails  BY <1>3, AnswerFailsIInv
<1>4. CASE ReviewTimeout  BY <1>4, GiveUpIInv DEF ReviewTimeout
<1>5. CASE TakeSingle  BY <1>5, TakeSingleIInv
<1>6. ASSUME NEW s \in Sandbox, StartVerification(s) PROVE DeliveryIInv'
  BY <1>6, StartVerificationIInv
<1>7. CASE Plan  BY <1>7, PlanIInv
<1>8. CASE RunRound  BY <1>8, RunRoundIInv
<1>9. ASSUME NEW vf \in VF, Fix(vf) PROVE DeliveryIInv'  BY <1>9, FixIInv
<1>10. CASE VerifyTimeout  BY <1>10, VerifyTimeoutIInv
<1>11. CASE UNCHANGED deliveryVars
  <2>1. UNCHANGED <<given, stage, at, todo, reviewVars, verifyVars, final>>
    BY <1>11 DEF deliveryVars
  <2>2. DeliveryTypeOK'
    BY <2>1 DEF DeliveryIInv, DeliveryTypeOK, given, reviewVars, verifyVars
  <2>3. MergedSandboxes' = MergedSandboxes /\ Contributions(at)' = Contributions(at) /\ LastRound' = LastRound
        /\ Delivering' = Delivering /\ (PassedOn(at)' <=> PassedOn(at))
    BY <2>1 DEF MergedSandboxes, Contributions, LastRound, Delivering, PassedOn, given, reviewVars
  <2>4. WorkOK' /\ SandboxesKeep' /\ ReviewsOK' /\ SandboxesExplained'
    <3>1. WorkOK' /\ SandboxesExplained'
      BY <2>1, <2>3 DEF DeliveryIInv, WorkOK, SandboxesExplained, given, reviewVars
    <3> QED  BY <2>1, <2>3, <3>1, SandboxesKept DEF reviewVars
  <2>7. \A t \in Task : (Raw(Hint[t])' <=> Raw(Hint[t])) /\ (Raw(Cross)' <=> Raw(Cross))
    <3>1. Contributions(Cross)' = Contributions(Cross)  BY <2>1 DEF Contributions, reviewVars
    <3>2. Raw(Cross)' <=> Raw(Cross)  BY <2>1, <3>1 DEF Raw, PassedOn, given, reviewVars
    <3>3. \A t \in Task : Raw(Hint[t])' <=> Raw(Hint[t])  BY <2>1, RawSandbox DEF Raw, reviewVars
    <3> QED  BY <3>2, <3>3
  <2>5. StageOK' /\ RoundsOK'
    BY <2>1, <2>3 DEF DeliveryIInv, StageOK, RoundsOK, Verifying, given, reviewVars, verifyVars
  <2>6. NothingLost' /\ OneTextPerFile'
    BY <2>1, <2>3, <2>7 DEF DeliveryIInv, NothingLost, OneTextPerFile, given, reviewVars
  <2> QED  BY <2>2, <2>4, <2>5, <2>6 DEF DeliveryIInv
<1> QED  BY <1>1, <1>2, <1>3, <1>4, <1>5, <1>6, <1>7, <1>8, <1>9, <1>10, <1>11 DEF DeliveryNext

(* At every moment of layers 5 to 7 each sandbox whose contributions are
   merged has every file its agents changed and no decision dropped, and a
   diff under verification is handed back as it came, whatever its fixes make
   of the refreshed one. *)
THEOREM DeliveryInvariance == DeliverySpec => []DeliveryIInv
<1> QED  BY DeliveryInitIInv, DeliveryNextIInv, PTL DEF DeliverySpec

(* What an agent has changed is in the diff that is delivered, or a model
   decided to drop it, or git quotes its path and a review that went well could
   not read it: failed and timed-out reviews, verifications that are given up
   and refreshed diffs that are empty lose nothing, in both modes, for any
   number of sandboxes, agents, files, rounds and retries. *)
THEOREM DeliveredWork == DeliverySpec => []NothingLost
<1>1. DeliveryIInv => NothingLost  BY DEF DeliveryIInv
<1> QED  BY <1>1, DeliveryInvariance, PTL

(* A file is delivered with two texts only where a review that saw both was
   given up or a model spoke of it more than it was asked to. *)
THEOREM DeliveredOnce == DeliverySpec => []OneTextPerFile
<1>1. DeliveryIInv => OneTextPerFile  BY DEF DeliveryIInv
<1> QED  BY <1>1, DeliveryInvariance, PTL

(* A verification, its timeouts and its fixes leave the reviewed diff as it
   was: a sandbox delivers what its agents did before it was verified. *)
THEOREM VerificationKeepsDiff == DeliverySpec => ReviewedIsKept
<1>1. ASSUME DeliveryIInv, [DeliveryNext]_deliveryVars
      PROVE  [(stage \in {"verify", "plan", "run", "fix"}) => merged_diff' = merged_diff]_deliveryVars
  <2> SUFFICES ASSUME DeliveryNext, stage \in {"verify", "plan", "run", "fix"}
               PROVE  merged_diff' = merged_diff
    BY <1>1
  <2>1. ASSUME NEW st, NEW d, Verifying, Verified(st, d), d = merged_diff[at] \/ d = Delivered
        PROVE  merged_diff' = merged_diff
    <3>1. current \in {merged_diff[at], Empty} /\ at \in todo
      BY <1>1, <2>1 DEF DeliveryIInv, StageOK
    <3>2. d = merged_diff[at]  BY <2>1, <3>1 DEF Delivered
    <3>3. merged_diff \in [Sandbox -> Diff \cup {None}]  BY <1>1 DEF DeliveryIInv, DeliveryTypeOK
    <3> QED  BY <2>1, <3>2, <3>3 DEF Verified
  <2>2. CASE Plan  BY <2>1, <2>2 DEF Plan, Verifying
  <2>3. CASE RunRound  BY <2>1, <2>3 DEF RunRound, Verifying
  <2>4. CASE VerifyTimeout  BY <2>1, <2>4 DEF VerifyTimeout, Verifying
  <2>5. CASE \E s \in Sandbox : StartVerification(s)  BY <2>5 DEF StartVerification, reviewVars
  <2>6. CASE \E vf \in VF : Fix(vf)  BY <2>6 DEF Fix, reviewVars
  <2>7. ~(\E p \in Place : Review(p)) /\ ~Answer /\ ~AnswerFails /\ ~ReviewTimeout /\ ~TakeSingle
    BY DEF Review, Answer, AnswerFails, ReviewTimeout, TakeSingle
  <2> QED  BY <2>2, <2>3, <2>4, <2>5, <2>6, <2>7 DEF DeliveryNext
<1> QED  BY <1>1, DeliveryInvariance, PTL DEF DeliverySpec, ReviewedIsKept

(* The request of a verification command names its container as the sandbox,
   which agentd answers with an error that has no exit code. *)
LEMMA NonePasses == \A vf : ~Passes(vf)
<1> SUFFICES ASSUME NEW vf PROVE ~Passes(vf)
  OBVIOUS
<1>1. Request(ContainerId).sandbox \notin Sandbox  BY DEF Request
<1>2. Response(Request(ContainerId), vf) = [status |-> "error"]  BY <1>1 DEF Response
<1>3. ExitCode([status |-> "error"]) = -1
  <2>1. "exit_code" \notin DOMAIN [status |-> "error"]  OBVIOUS
  <2> QED  BY <2>1 DEF ExitCode
<1> QED  BY <1>2, <1>3 DEF Passes

(* Whatever the commands of a plan do, no sandbox is reported as "Passed": at
   most as partly verified, as failed, as timed out or as not verified. *)
THEOREM NoSandboxPasses == DeliverySpec => []NeverPassed
<1>1. DeliveryInit => NeverPassed  BY DEF DeliveryInit, NeverPassed
<1>2. ASSUME DeliveryIInv, NeverPassed, [DeliveryNext]_deliveryVars PROVE NeverPassed'
  <2>1. status \in [Sandbox -> Status]  BY <1>2 DEF DeliveryIInv, DeliveryTypeOK
  <2>2. ASSUME NEW st, NEW d, Verified(st, d), st # "Passed" PROVE NeverPassed'
    BY <1>2, <2>1, <2>2 DEF Verified, NeverPassed
  <2>3. CASE Plan
    <3>1. CASE UNCHANGED status  BY <1>2, <3>1 DEF NeverPassed
    <3>2. CASE ~UNCHANGED status
      <4>1. Verified("Failed", merged_diff[at]) \/ Verified("NotStarted", Delivered)
        BY <2>3, <3>2 DEF Plan
      <4> QED  BY <2>2, <4>1
    <3> QED  BY <3>1, <3>2
  <2>4. CASE RunRound
    <3> DEFINE failed == {vf \in plan : ~Passes(vf)}
               st == DetermineStatus(plan \ failed, failed, round)
    <3>1. failed = plan  BY NonePasses
    <3>2. st # "Passed"
      <4>1. (plan \ failed) \cup failed = {} \/ failed # {}  BY <3>1
      <4> HIDE DEF failed
      <4> QED  BY <4>1 DEF DetermineStatus
    <3>3. Verified(st, Delivered) \/ UNCHANGED status  BY <2>4 DEF RunRound
    <3> HIDE DEF st
    <3> QED  BY <1>2, <2>2, <3>2, <3>3 DEF NeverPassed
  <2>5. CASE VerifyTimeout  BY <2>2, <2>5 DEF VerifyTimeout
  <2>6. CASE UNCHANGED status  BY <1>2, <2>6 DEF NeverPassed
  <2>7. DeliveryNext => Plan \/ RunRound \/ VerifyTimeout \/ UNCHANGED status
    BY DEF DeliveryNext, Review, Answer, AnswerFails, ReviewTimeout, TakeSingle, StartVerification,
           Fix, verifyVars
  <2> QED  BY <1>2, <2>3, <2>4, <2>5, <2>6, <2>7 DEF deliveryVars, verifyVars
<1> QED  BY <1>1, <1>2, DeliveryInvariance, PTL DEF DeliverySpec
=============================================================================
