----------------------------- MODULE WorkerPool -----------------------------
(***************************************************************************)
(* Layer 4 of the agentd orchestrator: the workers that pop tasks, borrow  *)
(* a container for each, run the agent and report (new_orchestrator.rs),   *)
(* with the circuit breaker of each sandbox (health.rs) and the pool of    *)
(* sleeping containers (sandbox_topology.rs).  run_standard has the same   *)
(* loop with a shorter limit and no poller to wait for.                    *)
(*                                                                         *)
(* The dispatcher is TaskLifecycle, which Scheduler implements: a report   *)
(* finishes its task in one step, and the cascade and the unlock loop that *)
(* follow are the location "settle".                                       *)
(***************************************************************************)
EXTENDS Integers, Topology

CONSTANTS
  TaskId, Graphs,
  Worker,
  Container,   \* ids agentd may give out; bounds the containers created
  Threshold    \* consecutive failures that open a circuit

ASSUME PoolAssumption ==
  /\ Task \subseteq TaskId
  /\ Threshold \in Nat \ {0}
  /\ None \notin Task \cup Container

VARIABLES
  deps, phase,     \* the dispatcher
  pc, scan, found, \* each worker's loop: where, at which sandbox, any task yet
  task, container, \* what it works on, and in
  breaker,         \* circuit_breakers; cold: the recovery timeout has passed
  exists,          \* the containers agentd keeps
  awake,           \* the containers an agent is registered for (containers)
  pool,            \* sleeping_containers
  heartbeats,      \* containers whose agent is tracked
  applied,         \* tasks whose diff was offered to the sandbox layer
  results,         \* sandbox_agent_results
  orch,            \* the orchestrator waiting for the workers
  timedOut,
  merged           \* the results it goes on to merge

taskVars == <<deps, phase>>
loopVars == <<pc, scan, found, task, container>>
poolVars == <<exists, awake, pool, heartbeats>>
orchVars == <<orch, timedOut, merged>>
vars == <<taskVars, loopVars, breaker, poolVars, applied, results, orchVars>>

Tasks == INSTANCE TaskLifecycle

Location ==
  {"scan", "check", "probe", "wake", "create", "init", "start", "execute", "apply",
   "report", "settle", "settleErr", "recordOk", "recordErr", "forget", "push", "sleep",
   "asleep", "exited"}

Circuit == {"closed", "open", "halfOpen"}

TypeOK ==
  /\ deps \in Graphs /\ phase \in [Task -> Tasks!Phase]
  /\ pc \in [Worker -> Location]
  /\ scan \in [Worker -> 1..(Len(Sandboxes) + 1)]
  /\ found \in [Worker -> BOOLEAN]
  /\ task \in [Worker -> Task \cup {None}]
  /\ container \in [Worker -> Container \cup {None}]
  /\ breaker \in [Sandbox -> [state : Circuit, failures : Nat, cold : BOOLEAN]]
  /\ exists \subseteq Container /\ awake \subseteq Container /\ heartbeats \subseteq Container
  /\ pool \in [Sandbox -> Seq(Container)]
  /\ applied \subseteq Task /\ results \subseteq Task /\ merged \subseteq Task
  /\ orch \in {"waiting", "joined", "counted", "cleaned", "merging"}
  /\ timedOut \in BOOLEAN

Init ==
  /\ Tasks!Init
  /\ pc = [w \in Worker |-> "scan"]
  /\ scan = [w \in Worker |-> 1]
  /\ found = [w \in Worker |-> FALSE]
  /\ task = [w \in Worker |-> None]
  /\ container = [w \in Worker |-> None]
  /\ breaker = [s \in Sandbox |-> [state |-> "closed", failures |-> 0, cold |-> FALSE]]
  /\ exists = {} /\ awake = {} /\ heartbeats = {}
  /\ pool = [s \in Sandbox |-> <<>>]
  /\ applied = {} /\ results = {} /\ merged = {}
  /\ orch = "waiting" /\ timedOut = FALSE

----------------------------------------------------------------------------
(* The sandbox a worker's scan is at. *)
At(w) == Sandboxes[scan[w]]

(* A variant: skipped tasks left out of the count. *)
ResolvedNoSkips == {t \in Task : phase[t] \in {"completed", "failed"}}

(* Tasks accounted for: the three counts of get_stats together. *)
Resolved == {t \in Task : phase[t] \in {"completed", "failed", "skipped"}}

Goto(w, loc) == pc' = [pc EXCEPT ![w] = loc]

(* continue: on to the next sandbox, whatever became of the task. *)
Continue(w) ==
  /\ Goto(w, "scan")
  /\ scan' = [scan EXCEPT ![w] = @ + 1]
  /\ task' = [task EXCEPT ![w] = None]
  /\ container' = [container EXCEPT ![w] = None]
  /\ UNCHANGED found

Stay == UNCHANGED <<scan, found, task, container>>

(* get_ready_task finds a task of this sandbox. *)
GetReadyTask(w) ==
  /\ pc[w] = "scan" /\ scan[w] <= Len(Sandboxes)
  /\ \E t \in Task : /\ Hint[t] = At(w)
                     /\ Tasks!Start(t)
                     /\ task' = [task EXCEPT ![w] = t]
  /\ found' = [found EXCEPT ![w] = TRUE]
  /\ Goto(w, "check")
  /\ UNCHANGED <<deps, scan, container, breaker, poolVars, applied, results, orchVars>>

(* Or its queue is empty: nothing is ready, or an unlock loop is on its way. *)
NoneReady(w) ==
  /\ pc[w] = "scan" /\ scan[w] <= Len(Sandboxes)
  /\ \/ \A t \in Task : Hint[t] = At(w) => ~(/\ phase[t] = "pending"
                                             /\ \A d \in deps[t] : d \in Task /\ phase[d] = "completed")
     \/ \E v \in Worker : pc[v] = "settle"
  /\ scan' = [scan EXCEPT ![w] = @ + 1]
  /\ UNCHANGED <<taskVars, pc, found, task, container, breaker, poolVars, applied, results,
                 orchVars>>

(* The end of a scan: leave when every task is accounted for, else again. *)
EndScan(w) ==
  /\ pc[w] = "scan" /\ scan[w] = Len(Sandboxes) + 1
  /\ IF ~found[w] /\ Cardinality(Resolved) >= Cardinality(Task)
     THEN Goto(w, "exited") /\ UNCHANGED <<scan, found>>
     ELSE /\ scan' = [scan EXCEPT ![w] = 1]
          /\ found' = [found EXCEPT ![w] = FALSE]
          /\ UNCHANGED pc
  /\ UNCHANGED <<taskVars, task, container, breaker, poolVars, applied, results, orchVars>>

----------------------------------------------------------------------------
(* health.rs *)

(* is_sandbox_healthy.  Under the read guard: a closed or half-open circuit
   lets the task through, an open one turns it away until it has cooled. *)
CheckCircuit(w) ==
  /\ pc[w] = "check"
  /\ LET cb == breaker[At(w)]
     IN \/ cb.state # "open" /\ Goto(w, "wake") /\ Stay
        \/ cb.state = "open" /\ cb.cold /\ Goto(w, "probe") /\ Stay
        \/ cb.state = "open" /\ ~cb.cold /\ Continue(w)
  /\ UNCHANGED <<taskVars, breaker, poolVars, applied, results, orchVars>>

(* Under the write guard taken after it; true whatever is found there. *)
Probe(w) ==
  /\ pc[w] = "probe"
  /\ breaker' = IF breaker[At(w)].state = "open" /\ breaker[At(w)].cold
                THEN [breaker EXCEPT ![At(w)].state = "halfOpen"]
                ELSE breaker
  /\ Goto(w, "wake") /\ Stay
  /\ UNCHANGED <<taskVars, poolVars, applied, results, orchVars>>

(* recovery_timeout_secs after the last failure; longer than the instant
   between the two guards of a probe. *)
Cool(s) ==
  /\ breaker[s].state = "open" /\ ~breaker[s].cold
  /\ \A w \in Worker : pc[w] = "probe" => At(w) # s
  /\ breaker' = [breaker EXCEPT ![s].cold = TRUE]
  /\ UNCHANGED <<taskVars, loopVars, poolVars, applied, results, orchVars>>

(* Variants of record_success: a circuit closed from half-open only, and a
   success that takes one failure back. *)
RecordHealthWhen(w, closes(_), less(_)) ==
  /\ \/ /\ pc[w] = "recordOk"
        /\ breaker' = [breaker EXCEPT ![At(w)].failures = less(@),
                                     ![At(w)].state = IF closes(@) THEN "closed" ELSE @]
     \/ /\ pc[w] = "recordErr"
        /\ LET n == breaker[At(w)].failures + 1
           IN breaker' = [breaker EXCEPT ![At(w)] =
                            [state |-> IF n >= Threshold THEN "open" ELSE @.state,
                             failures |-> n, cold |-> FALSE]]
  /\ Goto(w, "forget") /\ Stay
  /\ UNCHANGED <<taskVars, poolVars, applied, results, orchVars>>
RecordHealthHalfOpenOnly(w) ==
  RecordHealthWhen(w, LAMBDA st : st = "halfOpen", LAMBDA n : 0)
RecordHealthOneLess(w) ==
  RecordHealthWhen(w, LAMBDA st : TRUE, LAMBDA n : n - 1)

(* record_success and record_failure *)
RecordHealth(w) ==
  /\ \/ /\ pc[w] = "recordOk"
        /\ breaker' = [breaker EXCEPT ![At(w)].failures = 0, ![At(w)].state = "closed"]
     \/ /\ pc[w] = "recordErr"
        /\ LET n == breaker[At(w)].failures + 1
           IN breaker' = [breaker EXCEPT ![At(w)] =
                            [state |-> IF n >= Threshold THEN "open" ELSE @.state,
                             failures |-> n, cold |-> FALSE]]
  /\ Goto(w, "forget") /\ Stay
  /\ UNCHANGED <<taskVars, poolVars, applied, results, orchVars>>

----------------------------------------------------------------------------
(* sandbox_topology.rs *)

(* A variant: v.first() for v.remove(0). *)
WakeContainerPeeks(w) ==
  /\ pc[w] = "wake"
  /\ LET s == At(w)
     IN IF pool[s] # <<>>
        THEN /\ awake' = awake \cup {Head(pool[s])}
             /\ container' = [container EXCEPT ![w] = Head(pool[s])]
             /\ Goto(w, "start")
        ELSE Goto(w, "create") /\ UNCHANGED <<awake, container>>
  /\ UNCHANGED <<taskVars, scan, found, task, breaker, exists, pool, heartbeats, applied,
                 results, orchVars>>

(* wake_or_create_agent_layer takes the oldest sleeper, if there is one. *)
WakeContainer(w) ==
  /\ pc[w] = "wake"
  /\ LET s == At(w)
     IN IF pool[s] # <<>>
        THEN /\ pool' = [pool EXCEPT ![s] = Tail(@)]
             /\ awake' = awake \cup {Head(pool[s])}
             /\ container' = [container EXCEPT ![w] = Head(pool[s])]
             /\ Goto(w, "start")
        ELSE Goto(w, "create") /\ UNCHANGED <<pool, awake, container>>
  /\ UNCHANGED <<taskVars, scan, found, task, breaker, exists, heartbeats, applied, results,
                 orchVars>>

(* create_agent_layer: agentd makes a container, under an id that is free (it
   does not matter which), and it is registered; or the request fails, and the
   popped task is given up with it. *)
CreateContainer(w) ==
  /\ pc[w] = "create"
  /\ \/ /\ Container \ exists # {}
        /\ LET c == CHOOSE c \in Container \ exists : TRUE
           IN /\ exists' = exists \cup {c}
              /\ awake' = awake \cup {c}
              /\ container' = [container EXCEPT ![w] = c]
        /\ Goto(w, "init")
        /\ UNCHANGED <<scan, found, task>>
     \/ Continue(w) /\ UNCHANGED <<exists, awake>>
  /\ UNCHANGED <<taskVars, breaker, pool, heartbeats, applied, results, orchVars>>

(* The base commit that diffs are taken against, made over the socket; a
   failure leaves the container registered and the task given up. *)
InitRepo(w) ==
  /\ pc[w] = "init"
  /\ \/ Goto(w, "start") /\ Stay
     \/ Continue(w)
  /\ UNCHANGED <<taskVars, breaker, poolVars, applied, results, orchVars>>

(* sleep_agent_layer unregisters the agent, cleans the workspace over the
   socket, and only then gives the container to the pool. *)
SleepContainer(w) ==
  /\ pc[w] = "sleep"
  /\ awake' = awake \ {container[w]}
  /\ Goto(w, "asleep") /\ Stay
  /\ UNCHANGED <<taskVars, breaker, exists, pool, heartbeats, applied, results, orchVars>>

(* The loop over the sandboxes is left by break: back to its start. *)
PoolContainer(w) ==
  /\ pc[w] = "asleep"
  /\ pool' = [pool EXCEPT ![At(w)] = Append(@, container[w])]
  /\ Goto(w, "scan")
  /\ scan' = [scan EXCEPT ![w] = 1]
  /\ found' = [found EXCEPT ![w] = FALSE]
  /\ task' = [task EXCEPT ![w] = None]
  /\ container' = [container EXCEPT ![w] = None]
  /\ UNCHANGED <<taskVars, breaker, exists, awake, heartbeats, applied, results, orchVars>>

----------------------------------------------------------------------------
(* One task, from its first heartbeat to its report. *)

StartTask(w) ==
  /\ pc[w] = "start"
  /\ heartbeats' = heartbeats \cup {container[w]}
  /\ Goto(w, "execute") /\ Stay
  /\ UNCHANGED <<taskVars, breaker, exists, awake, pool, applied, results, orchVars>>

(* A variant: a success reported before its diff is applied. *)
ExecuteOkReportsFirst(w) ==
  /\ pc[w] = "execute"
  /\ \/ Goto(w, "apply") /\ phase' = [phase EXCEPT ![task[w]] = "completed"]
     \/ Goto(w, "report") /\ UNCHANGED phase
  /\ Stay
  /\ UNCHANGED <<deps, breaker, poolVars, applied, results, orchVars>>

(* execute_task returns a result. *)
ExecuteOk(w) ==
  /\ pc[w] = "execute"
  /\ Goto(w, "apply") \/ Goto(w, "report")
  /\ Stay
  /\ UNCHANGED <<taskVars, breaker, poolVars, applied, results, orchVars>>

(* Or an error: the failure is reported, nothing else is cleared up. *)
ExecuteErr(w) ==
  /\ pc[w] = "execute"
  /\ phase' = [phase EXCEPT ![task[w]] = "failed"]
  /\ Goto(w, "settleErr") /\ Stay
  /\ UNCHANGED <<deps, breaker, poolVars, applied, results, orchVars>>

(* Or it panics (AgentRun's Panic), and the worker with it: nobody looks at
   what a worker's handle yields. *)
ExecutePanics(w) ==
  /\ pc[w] = "execute"
  /\ Goto(w, "exited")
  /\ task' = [task EXCEPT ![w] = None]
  /\ container' = [container EXCEPT ![w] = None]
  /\ UNCHANGED <<taskVars, scan, found, breaker, poolVars, applied, results, orchVars>>

(* The diff of a success, if it has one, is offered to the sandbox layer before
   the report; whether it applies is logged and forgotten. *)
ApplyDiff(w) ==
  /\ pc[w] = "apply"
  /\ applied' = applied \cup {task[w]}
  /\ Goto(w, "report") /\ Stay
  /\ UNCHANGED <<taskVars, breaker, poolVars, results, orchVars>>

(* handle_task_completion *)
Report(w) ==
  /\ pc[w] = "report"
  /\ phase' = [phase EXCEPT ![task[w]] =
                 IF task[w] \in applied THEN "completed" ELSE "failed"]
  /\ Goto(w, "settle") /\ Stay
  /\ UNCHANGED <<deps, breaker, poolVars, applied, results, orchVars>>

(* Its cascade: some dependent of what failed or was skipped is skipped. *)
Cascade(w) ==
  /\ pc[w] \in {"settle", "settleErr"}
  /\ \E t \in Task : Tasks!Skip(t)
  /\ UNCHANGED <<deps, loopVars, breaker, poolVars, applied, results, orchVars>>

(* handle_task_completion returns. *)
Settled(w) ==
  /\ \A t \in Task : phase[t] = "pending" =>
        \A d \in deps[t] \cap Task : phase[d] \notin {"failed", "skipped"}
  /\ \/ /\ pc[w] = "settle"
        /\ Goto(w, IF phase[task[w]] = "completed" THEN "recordOk" ELSE "recordErr")
        /\ Stay
     \/ pc[w] = "settleErr" /\ Continue(w)
  /\ UNCHANGED <<taskVars, breaker, poolVars, applied, results, orchVars>>

(* remove_agent *)
ForgetAgent(w) ==
  /\ pc[w] = "forget"
  /\ heartbeats' = heartbeats \ {container[w]}
  /\ Goto(w, "push") /\ Stay
  /\ UNCHANGED <<taskVars, breaker, exists, awake, pool, applied, results, orchVars>>

(* The result is filed for the merge, after the scheduler has counted it. *)
PushResult(w) ==
  /\ pc[w] = "push"
  /\ results' = results \cup {task[w]}
  /\ Goto(w, "sleep") /\ Stay
  /\ UNCHANGED <<taskVars, breaker, poolVars, applied, orchVars>>

----------------------------------------------------------------------------
(* The orchestrator. *)

(* A variant: only the poller is awaited. *)
JoinNobody ==
  /\ orch = "waiting"
  /\ orch' = "joined"
  /\ UNCHANGED <<timedOut, merged>>

(* Every worker's handle is awaited, or thirty minutes pass. *)
JoinWorkers ==
  /\ orch = "waiting"
  /\ \A w \in Worker : pc[w] = "exited"
  /\ orch' = "joined"
  /\ UNCHANGED <<timedOut, merged>>

Timeout ==
  /\ orch = "waiting"
  /\ orch' = "joined" /\ timedOut' = TRUE
  /\ UNCHANGED merged

(* stats_handle.await: the poller ends when the counts add up. *)
AwaitStats ==
  /\ orch = "joined"
  /\ Cardinality(Resolved) >= Cardinality(Task)
  /\ orch' = "counted"
  /\ UNCHANGED <<timedOut, merged>>

Asleep == {c \in Container : \E s \in Sandbox : \E i \in DOMAIN pool[s] : pool[s][i] = c}

(* cleanup_sleeping_containers empties the pool and destroys what was in it;
   a request that fails is logged and forgotten. *)
Cleanup ==
  /\ orch = "counted"
  /\ orch' = "cleaned"
  /\ pool' = [s \in Sandbox |-> <<>>]
  /\ \E refused \in SUBSET Asleep : exists' = refused \cup (exists \ Asleep)
  /\ UNCHANGED <<awake, heartbeats, timedOut, merged>>

ReadResults ==
  /\ orch = "cleaned"
  /\ orch' = "merging"
  /\ merged' = results
  /\ UNCHANGED timedOut

Orchestrate ==
  /\ \/ (JoinWorkers \/ Timeout \/ AwaitStats \/ ReadResults) /\ UNCHANGED poolVars
     \/ Cleanup
  /\ UNCHANGED <<taskVars, loopVars, breaker, applied, results>>

----------------------------------------------------------------------------
Work(w) ==
  \/ GetReadyTask(w) \/ NoneReady(w) \/ EndScan(w)
  \/ CheckCircuit(w) \/ Probe(w) \/ RecordHealth(w)
  \/ WakeContainer(w) \/ CreateContainer(w) \/ InitRepo(w)
  \/ StartTask(w) \/ ExecuteOk(w) \/ ExecuteErr(w) \/ ExecutePanics(w)
  \/ ApplyDiff(w) \/ Report(w)
  \/ Cascade(w) \/ Settled(w) \/ ForgetAgent(w) \/ PushResult(w)
  \/ SleepContainer(w) \/ PoolContainer(w)

Next ==
  \/ \E w \in Worker : Work(w)
  \/ \E s \in Sandbox : Cool(s)
  \/ Orchestrate

Spec == Init /\ [][Next]_vars

(* Every tokio task makes progress, an agent's run included, and time passes:
   the orchestrator's timer fires and circuits cool. *)
FairSpec ==
  /\ Spec
  /\ \A w \in Worker : WF_vars(Work(w))
  /\ \A s \in Sandbox : WF_vars(Cool(s))
  /\ WF_vars(Orchestrate)

----------------------------------------------------------------------------
(* Properties *)

(* Where container c is: in a worker's hands, between sleep_agent_layer's
   locks included, or at a place of some sandbox's pool. *)
Users(c) == {w \in Worker : container[w] = c}
Places(c) == {x \in Sandbox \X (1..Cardinality(Container)) :
                x[2] \in DOMAIN pool[x[1]] /\ pool[x[1]][x[2]] = c}

(* Two agents never work in one container, and a container in use is neither
   asleep in the pool nor destroyed, although waking, sleeping and the final
   cleanup take the maps' locks one after the other. *)
ContainerExclusive ==
  \A c \in Container :
    /\ Cardinality(Users(c)) + Cardinality(Places(c)) <= 1
    /\ Users(c) # {} => c \in exists

(* When a task runs, the diffs of all it depends on have been offered to the
   sandbox layer: no report overtakes the diff it stands for. *)
DependenciesApplied ==
  \A w \in Worker : pc[w] = "execute" => deps[task[w]] \subseteq applied

(* A circuit is open or half-open only for as long as Threshold failures in a
   row stand uncorrected, however probes and reports interleave. *)
CircuitTracksFailures ==
  \A s \in Sandbox : breaker[s].state = "closed" <=> breaker[s].failures < Threshold

(* Unless the wait was cut short, the merge is given the work of every
   completed task, and no container sleeps on unowned. *)
MergeIsComplete ==
  orch = "merging" /\ ~timedOut =>
    /\ {t \in Task : phase[t] = "completed"} \subseteq merged
    /\ \A s \in Sandbox : pool[s] = <<>>

(* Tasks popped and then dropped, with their worker or without it: the
   scheduler waits for a report of theirs. *)
Lost == {t \in Task : phase[t] = "running" /\ \A w \in Worker : task[w] # t}

(* The pool comes to its end or has dropped a task that it had popped. *)
DrainsOrLoses == <>(orch = "merging" \/ Lost # {})

(* Every run of the pool ends: a task that cannot be given to an agent is
   reported, so that its dependents are skipped, and failing that the workers
   are waited for at most thirty minutes. *)
PoolDrains == <>(orch = "merging")

----------------------------------------------------------------------------
(* The inductive invariant. *)

(* The locations of a worker with a task in hand: before it has a container
   and since; before it reports and since; and while the result of a report
   is on its way to the merge. *)
Idle       == {"scan", "exited"}
Inside     == {"init", "start", "execute", "apply", "report", "settle", "settleErr",
               "recordOk", "recordErr", "forget", "push", "sleep", "asleep"}
Unreported == {"check", "probe", "wake", "create", "init", "start", "execute", "apply",
               "report"}
Filing     == {"settle", "recordOk", "recordErr", "forget", "push"}

(* What a worker holds follows from where it is, and no task is in the hands
   of two. *)
HandsOK ==
  /\ \A w \in Worker :
       /\ task[w] = None <=> pc[w] \in Idle
       /\ container[w] = None <=> pc[w] \notin Inside
       /\ pc[w] \notin Idle => scan[w] <= Len(Sandboxes)
  /\ \A v, w \in Worker : task[v] = task[w] /\ task[w] # None => v = w

(* A task in hand runs until it is reported; it started after what it depends
   on, and a completed one has its diff behind it and its result on the way. *)
ReportsOK ==
  /\ \A w \in Worker :
       /\ pc[w] \in Unreported => phase[task[w]] = "running"
       /\ pc[w] \notin Unreported \cup Idle => phase[task[w]] \in {"completed", "failed"}
       /\ pc[w] = "settleErr" => phase[task[w]] = "failed"
  /\ \A t \in Task :
       /\ phase[t] = "running" => \A d \in deps[t] : d \in Task /\ phase[d] = "completed"
       /\ phase[t] = "completed" =>
            /\ t \in applied
            /\ t \in results \/ \E w \in Worker : task[w] = t /\ pc[w] \in Filing

(* Every container is agentd's, and with one worker or at one place. *)
ContainersOK ==
  /\ \A w \in Worker : container[w] # None => container[w] \in exists
  /\ \A v, w \in Worker : container[v] = container[w] /\ container[w] # None => v = w
  /\ \A s \in Sandbox : \A i \in DOMAIN pool[s] :
       pool[s][i] \in exists /\ \A w \in Worker : container[w] # pool[s][i]
  /\ \A s, r \in Sandbox : \A i \in DOMAIN pool[s], j \in DOMAIN pool[r] :
       pool[s][i] = pool[r][j] => s = r /\ i = j

(* A wait that was not cut short saw every worker leave. *)
OrchestratorOK ==
  ~timedOut =>
    /\ orch # "waiting" => \A w \in Worker : pc[w] = "exited"
    /\ orch \in {"cleaned", "merging"} => \A s \in Sandbox : pool[s] = <<>>
    /\ orch = "merging" => {t \in Task : phase[t] = "completed"} \subseteq merged

IInv == TypeOK /\ HandsOK /\ ReportsOK /\ ContainersOK /\ CircuitTracksFailures /\ OrchestratorOK

(* The dispatcher's side of a step of the pool is a step of TaskLifecycle. *)
DrivesLifecycle == Tasks!Spec
=============================================================================
