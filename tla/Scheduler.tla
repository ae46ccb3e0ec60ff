----------------------------- MODULE Scheduler -----------------------------
(***************************************************************************)
(* Layer 3 of the agentd orchestrator: the event-driven task dispatcher    *)
(* (agentd/src/orchestration/scheduler.rs), driven by the concurrent       *)
(* workers of Layer 4 that pop a task, run it and report its outcome.      *)
(*                                                                         *)
(* Every field of the Rust struct sits behind a tokio RwLock of its own,   *)
(* so one handler is a series of critical sections that other workers      *)
(* interleave with.  A critical section is one action here.  The write     *)
(* guard on ready_queues that unlock_dependents keeps over its whole loop  *)
(* is the variable queueGuard.                                             *)
(***************************************************************************)
EXTENDS Integers, Sequences, FiniteSets, Functions

CONSTANTS
  TaskId,     \* every id a dependency list can name
  Task,       \* the ids of the tasks in the graph
  Graphs,     \* the dependency functions the planner may hand over
  Sandbox,    \* the sandboxes, "default" among them
  Hint,       \* sandbox_hints, completed with "default"
  Worker,     \* the tokio tasks of the agent pool
  None        \* no task, no worker

ASSUME SchedulerAssumption ==
  /\ IsFiniteSet(TaskId)
  /\ Task \subseteq TaskId
  /\ Graphs \subseteq [Task -> SUBSET TaskId]
  /\ Hint \in [Task -> Sandbox]
  /\ None \notin TaskId \cup Worker

VARIABLES
  deps,        \* task_graph: the tasks each task waits for, never changed
  dep_counter, \* dependencies not yet completed, an AtomicUsize per task
  ready_queues,
  running,
  completed,
  failed,
  skipped,
  results,
  pc,          \* where each worker is in its current handler
  task,        \* the task id each worker's handler works on
  todo,        \* ids a cascade (to_skip) or an unlock loop has still to visit
  item,        \* the id that cascade or loop is at
  queueGuard   \* the worker whose unlock loop holds ready_queues for writing

schedVars == <<deps, dep_counter, ready_queues, running, completed, failed,
               skipped, results>>
callVars  == <<pc, task, todo, item, queueGuard>>
vars      == <<schedVars, callVars>>

----------------------------------------------------------------------------
(* Where a worker can be: holding a task it has not yet recorded as over,
   skipping the dependents of a failure, or unlocking those of a success. *)

Holding   == {"claimed", "executing", "storeOk", "storeErr", "markOk", "markErr"}
Skipping  == {"skip", "skipDecide", "skipInsert", "skipPurge"}
Unlocking == {"unlockWait", "unlock", "unlockCount"}
Location  == {"idle", "exited"} \cup Holding \cup Skipping \cup Unlocking

(* dependents: the reverse of the dependency map. *)
Dependents(t) == {u \in Task : t \in deps[u]}

(* A task that some set has recorded as over. *)
Terminal(t) == t \in completed \cup failed \cup skipped

(* What skip_dependents asks of a task before it records it as skipped. *)
ShouldSkip(t) == deps[t] \cap (failed \cup skipped) # {}

Queued(t) == \E s \in Sandbox : t \in Range(ready_queues[s])

(* retain(|id| id != t) *)
Without(q, t) ==
  IF t \in Range(q) THEN SelectSeq(q, LAMBDA u : u # t) ELSE q

(* get_stats: the tasks accounted for, counted set by set. *)
Resolved == Cardinality(completed) + Cardinality(failed) + Cardinality(skipped)

TypeOK ==
  /\ deps \in Graphs
  /\ dep_counter \in [Task -> Nat]
  /\ ready_queues \in [Sandbox -> Seq(Task)]
  /\ running \subseteq Task
  /\ completed \subseteq Task
  /\ failed \subseteq Task
  /\ skipped \subseteq Task
  /\ results \in [Task -> {"none", "ok", "error"}]
  /\ pc \in [Worker -> Location]
  /\ task \in [Worker -> Task \cup {None}]
  /\ todo \in [Worker -> SUBSET Task]
  /\ item \in [Worker -> Task \cup {None}]
  /\ queueGuard \in Worker \cup {None}

----------------------------------------------------------------------------
(* Scheduler::new enqueues the tasks without dependencies in task order;   *)
(* the graph does not fix that order, so any order of them is a start.     *)
InitialQueues(d) ==
  {rq \in [Sandbox -> UNION {[1..n -> Task] : n \in 0..Cardinality(Task)}] :
     \A s \in Sandbox : /\ Range(rq[s]) = {t \in Task : d[t] = {} /\ Hint[t] = s}
                        /\ IsInjective(rq[s])}

Init ==
  /\ deps \in Graphs
  /\ dep_counter = [t \in Task |-> Cardinality(deps[t])]
  /\ ready_queues \in InitialQueues(deps)
  /\ running = {} /\ completed = {} /\ failed = {} /\ skipped = {}
  /\ results = [t \in Task |-> "none"]
  /\ pc = [w \in Worker |-> "idle"]
  /\ task = [w \in Worker |-> None]
  /\ todo = [w \in Worker |-> {}]
  /\ item = [w \in Worker |-> None]
  /\ queueGuard = None

----------------------------------------------------------------------------
(* Dispatch. *)

Goto(w, loc) == pc' = [pc EXCEPT ![w] = loc]

(* A handler returns and its worker is free again. *)
Return(w) ==
  /\ Goto(w, "idle")
  /\ task' = [task EXCEPT ![w] = None]

(* Variants of the actions below with the mistakes the properties are there to
   catch.  None of them is part of Next. *)

(* get_ready_task with front() for pop_front(). *)
GetReadyTaskPeeks(w, s) ==
  /\ pc[w] = "idle"
  /\ queueGuard = None
  /\ ready_queues[s] # <<>>
  /\ task' = [task EXCEPT ![w] = Head(ready_queues[s])]
  /\ Goto(w, "claimed")
  /\ UNCHANGED <<schedVars, todo, item, queueGuard>>

(* A failure that unlocks its dependents as a success does. *)
MarkFailedUnlocks(w) ==
  /\ pc[w] = "markErr"
  /\ failed' = failed \cup {task[w]}
  /\ todo' = [todo EXCEPT ![w] = Dependents(task[w])]
  /\ Goto(w, "unlockWait")
  /\ UNCHANGED <<deps, dep_counter, ready_queues, running, completed, skipped, results,
                 task, item, queueGuard>>

(* A cascade that stops at the direct dependents. *)
SkipPurgeNoCascade(w) ==
  /\ pc[w] = "skipPurge"
  /\ queueGuard = None
  /\ ready_queues' = [s \in Sandbox |-> Without(ready_queues[s], item[w])]
  /\ item' = [item EXCEPT ![w] = None]
  /\ Goto(w, "skip")
  /\ UNCHANGED <<deps, dep_counter, running, completed, failed, skipped, results,
                 task, todo, queueGuard>>

(* A fetch_sub whose previous value is judged by ready; with again, the loop
   comes back to the dependent it has counted. *)
UnlockCountWhen(w, ready(_), again) ==
  LET t == item[w]
      s == Hint[t]
  IN  /\ pc[w] = "unlockCount"
      /\ dep_counter' = [dep_counter EXCEPT ![t] = @ - 1]
      /\ ready_queues' = IF ready(dep_counter[t])
                         THEN [ready_queues EXCEPT ![s] = Append(@, t)]
                         ELSE ready_queues
      /\ todo' = IF again THEN todo ELSE [todo EXCEPT ![w] = @ \ {t}]
      /\ item' = [item EXCEPT ![w] = None]
      /\ Goto(w, "unlock")
      /\ UNCHANGED <<deps, running, completed, failed, skipped, results,
                     task, queueGuard>>
UnlockCountTwice(w)   == UnlockCountWhen(w, LAMBDA n : n = 1, TRUE)
UnlockCountEarly(w)   == UnlockCountWhen(w, LAMBDA n : n >= 1, FALSE)
UnlockCountNewVal(w)  == UnlockCountWhen(w, LAMBDA n : n = 0, FALSE)

(* Workers that leave when nothing is queued and the rest is in flight. *)
ExitWhenInFlight(w) ==
  /\ pc[w] = "idle"
  /\ Resolved + Cardinality(running) >= Cardinality(Task)
  /\ Goto(w, "exited")
  /\ UNCHANGED <<schedVars, task, todo, item, queueGuard>>

----------------------------------------------------------------------------
(* get_ready_task: pop the front of one sandbox's queue under its guard. *)
GetReadyTask(w, s) ==
  /\ pc[w] = "idle"
  /\ queueGuard = None
  /\ ready_queues[s] # <<>>
  /\ ready_queues' = [ready_queues EXCEPT ![s] = Tail(@)]
  /\ task' = [task EXCEPT ![w] = Head(ready_queues[s])]
  /\ Goto(w, "claimed")
  /\ UNCHANGED <<deps, dep_counter, running, completed, failed, skipped, results,
                 todo, item, queueGuard>>

(* mark_task_started *)
MarkTaskStarted(w) ==
  /\ pc[w] = "claimed"
  /\ running' = running \cup {task[w]}
  /\ Goto(w, "executing")
  /\ UNCHANGED <<deps, dep_counter, ready_queues, completed, failed, skipped, results,
                 task, todo, item, queueGuard>>

----------------------------------------------------------------------------
(* handle_task_completion: running, then results, then failed or completed. *)

(* The agent ended one way or the other; its report leaves running first. *)
LeaveRunning(w) ==
  /\ pc[w] = "executing"
  /\ running' = running \ {task[w]}
  /\ \/ Goto(w, "storeOk")
     \/ Goto(w, "storeErr")
  /\ UNCHANGED <<deps, dep_counter, ready_queues, completed, failed, skipped, results,
                 task, todo, item, queueGuard>>

StoreResult(w) ==
  /\ \/ /\ pc[w] = "storeOk"
        /\ results' = [results EXCEPT ![task[w]] = "ok"]
        /\ Goto(w, "markOk")
     \/ /\ pc[w] = "storeErr"
        /\ results' = [results EXCEPT ![task[w]] = "error"]
        /\ Goto(w, "markErr")
  /\ UNCHANGED <<deps, dep_counter, ready_queues, running, completed, failed, skipped,
                 task, todo, item, queueGuard>>

(* The failed set, then into skip_dependents with the direct dependents. *)
MarkFailed(w) ==
  /\ pc[w] = "markErr"
  /\ failed' = failed \cup {task[w]}
  /\ todo' = [todo EXCEPT ![w] = Dependents(task[w])]
  /\ Goto(w, "skip")
  /\ UNCHANGED <<deps, dep_counter, ready_queues, running, completed, skipped, results,
                 task, item, queueGuard>>

(* The completed set, then into unlock_dependents, which has nothing to do
   and takes no guard for a task nobody depends on. *)
MarkCompleted(w) ==
  /\ pc[w] = "markOk"
  /\ completed' = completed \cup {task[w]}
  /\ todo' = [todo EXCEPT ![w] = Dependents(task[w])]
  /\ IF Dependents(task[w]) = {} THEN Return(w)
                                 ELSE Goto(w, "unlockWait") /\ UNCHANGED task
  /\ UNCHANGED <<deps, dep_counter, ready_queues, running, failed, skipped, results,
                 item, queueGuard>>

----------------------------------------------------------------------------
(* skip_dependents.  to_skip is a queue in the code; a set here, visited in
   any order. *)

(* Pop an id; drop it when some set holds it already. *)
SkipPop(w) ==
  /\ pc[w] = "skip"
  /\ \E t \in todo[w] :
       /\ todo' = [todo EXCEPT ![w] = @ \ {t}]
       /\ IF Terminal(t) THEN UNCHANGED <<pc, item>>
                         ELSE Goto(w, "skipDecide") /\ item' = [item EXCEPT ![w] = t]
  /\ UNCHANGED <<schedVars, task, queueGuard>>

SkipDone(w) ==
  /\ pc[w] = "skip"
  /\ todo[w] = {}
  /\ Return(w)
  /\ UNCHANGED <<schedVars, todo, item, queueGuard>>

(* should_skip, read under guards taken anew. *)
SkipDecide(w) ==
  /\ pc[w] = "skipDecide"
  /\ IF ShouldSkip(item[w])
     THEN Goto(w, "skipInsert") /\ UNCHANGED item
     ELSE Goto(w, "skip") /\ item' = [item EXCEPT ![w] = None]
  /\ UNCHANGED <<schedVars, task, todo, queueGuard>>

SkipInsert(w) ==
  /\ pc[w] = "skipInsert"
  /\ skipped' = skipped \cup {item[w]}
  /\ Goto(w, "skipPurge")
  /\ UNCHANGED <<deps, dep_counter, ready_queues, running, completed, failed, results,
                 task, todo, item, queueGuard>>

(* Take the id out of every ready queue, then cascade to its dependents. *)
SkipPurge(w) ==
  /\ pc[w] = "skipPurge"
  /\ queueGuard = None
  /\ ready_queues' = [s \in Sandbox |-> Without(ready_queues[s], item[w])]
  /\ todo' = [todo EXCEPT ![w] = @ \cup Dependents(item[w])]
  /\ item' = [item EXCEPT ![w] = None]
  /\ Goto(w, "skip")
  /\ UNCHANGED <<deps, dep_counter, running, completed, failed, skipped, results,
                 task, queueGuard>>

----------------------------------------------------------------------------
(* unlock_dependents, under one write guard on ready_queues. *)

UnlockBegin(w) ==
  /\ pc[w] = "unlockWait"
  /\ queueGuard = None
  /\ queueGuard' = w
  /\ Goto(w, "unlock")
  /\ UNCHANGED <<schedVars, task, todo, item>>

(* Next dependent: leave a failed or skipped one alone. *)
UnlockCheck(w) ==
  /\ pc[w] = "unlock"
  /\ \E t \in todo[w] :
       IF t \in failed \cup skipped
       THEN todo' = [todo EXCEPT ![w] = @ \ {t}] /\ UNCHANGED <<pc, item>>
       ELSE /\ item' = [item EXCEPT ![w] = t]
            /\ Goto(w, "unlockCount")
            /\ UNCHANGED todo
  /\ UNCHANGED <<schedVars, task, queueGuard>>

(* fetch_sub, and enqueue on the step that takes the counter from 1 to 0. *)
UnlockCount(w) ==
  LET t == item[w]
      s == Hint[t]
  IN  /\ pc[w] = "unlockCount"
      /\ dep_counter' = [dep_counter EXCEPT ![t] = @ - 1]
      /\ ready_queues' = IF dep_counter[t] = 1
                         THEN [ready_queues EXCEPT ![s] = Append(@, t)]
                         ELSE ready_queues
      /\ todo' = [todo EXCEPT ![w] = @ \ {t}]
      /\ item' = [item EXCEPT ![w] = None]
      /\ Goto(w, "unlock")
      /\ UNCHANGED <<deps, running, completed, failed, skipped, results,
                     task, queueGuard>>

UnlockEnd(w) ==
  /\ pc[w] = "unlock"
  /\ todo[w] = {}
  /\ queueGuard' = None
  /\ Return(w)
  /\ UNCHANGED <<schedVars, todo, item>>

----------------------------------------------------------------------------
(* A worker that found every queue empty reads get_stats and leaves when the
   counts add up to the total. *)
Exit(w) ==
  /\ pc[w] = "idle"
  /\ Resolved >= Cardinality(Task)
  /\ Goto(w, "exited")
  /\ UNCHANGED <<schedVars, task, todo, item, queueGuard>>

Step(w) ==
  \/ \E s \in Sandbox : GetReadyTask(w, s)
  \/ MarkTaskStarted(w)
  \/ LeaveRunning(w)
  \/ StoreResult(w)
  \/ MarkFailed(w)
  \/ MarkCompleted(w)
  \/ SkipPop(w)
  \/ SkipDone(w)
  \/ SkipDecide(w)
  \/ SkipInsert(w)
  \/ SkipPurge(w)
  \/ UnlockBegin(w)
  \/ UnlockCheck(w)
  \/ UnlockCount(w)
  \/ UnlockEnd(w)
  \/ Exit(w)

Next == \E w \in Worker : Step(w)

Spec == Init /\ [][Next]_vars

(* tokio polls every worker whose step is enabled. *)
FairSpec == Spec /\ \A w \in Worker : WF_vars(Step(w))

----------------------------------------------------------------------------
(* Properties *)

(* Worker w has popped task t and not yet recorded how it ended. *)
Holds(w, t) == pc[w] \in Holding /\ task[w] = t

(* A task some worker was or will be given to run. *)
Dispatched(t) == Queued(t) \/ t \in completed \cup failed \/ \E w \in Worker : Holds(w, t)

(* A task that is queued, held by a worker, or completed has had every one of
   its dependencies completed, however completions, failures and the counters
   they decrement interleave (unlock_dependents, get_ready_task). *)
DispatchedAfterDeps == \A t \in Task : Dispatched(t) => deps[t] \subseteq completed

(* A task is enqueued once and run once: it is never in two places among the
   ready queues, the workers' hands and the three sets of finished tasks. *)
SoleHolder == \A t \in Task : \A w, v \in Worker : Holds(w, t) /\ Holds(v, t) => w = v
QueuedOnce ==
  \A r, s \in Sandbox :
    \A i \in DOMAIN ready_queues[r], j \in DOMAIN ready_queues[s] :
      ready_queues[r][i] = ready_queues[s][j] => r = s /\ i = j
QueuedNotTaken == \A t \in Task : Queued(t) => ~Terminal(t) /\ \A w \in Worker : ~Holds(w, t)
HeldNotTerminal == \A t \in Task : \A w \in Worker : Holds(w, t) => ~Terminal(t)
OutcomesDisjoint ==
  completed \cap failed = {} /\ completed \cap skipped = {} /\ failed \cap skipped = {}
DispatchedOnce ==
  SoleHolder /\ QueuedOnce /\ QueuedNotTaken /\ HeldNotTerminal /\ OutcomesDisjoint

(* A worker leaves the pool only when nothing is queued, held or blocked: the
   sum of the three counts it compares with the total counts every task once. *)
ExitOnlyWhenResolved ==
  (\E w \in Worker : pc[w] = "exited") => \A t \in Task : Terminal(t)

(* No dependency of a task leads back to it, and every id it names exists. *)
Reaches(S) ==
  LET grow[n \in Nat] == IF n = 0 THEN S
                         ELSE grow[n-1] \cup UNION {deps[t] : t \in grow[n-1] \cap Task}
  IN grow[Cardinality(Task)]
WellFormed == \A t \in Task : deps[t] \subseteq Task /\ t \notin Reaches(deps[t])

(* On a well-formed graph every task ends completed, failed or skipped and
   every worker leaves the pool (handle_task_completion, get_stats). *)
EveryTaskResolved ==
  WellFormed => <>(/\ \A t \in Task : Terminal(t)
                   /\ \A w \in Worker : pc[w] = "exited")

(* On any graph, all that depends on a failure, directly or not, is skipped in
   the end, although several cascades may run at once and each leaves alone
   what another has taken (skip_dependents). *)
FailureSkipsDependents ==
  \A t, u \in Task : t \in failed /\ t \in Reaches(deps[u]) ~> u \in skipped

(* What the dispatcher promises: TaskLifecycle, under this mapping. *)
phase ==
  [t \in Task |-> CASE t \in completed -> "completed"
                    [] t \in failed    -> "failed"
                    [] t \in skipped   -> "skipped"
                    [] \E w \in Worker : Holds(w, t) -> "running"
                    [] OTHER -> "pending"]
Lifecycle == INSTANCE TaskLifecycle
ImplementsLifecycle == Lifecycle!Spec

----------------------------------------------------------------------------
(* The inductive invariant. *)

(* What each handler knows of its locals between two critical sections. *)
LocalsOK(w) ==
  /\ pc[w] \in Holding \cup Skipping \cup Unlocking => task[w] \in Task
  /\ pc[w] \in {"skipDecide", "skipInsert", "skipPurge"} => item[w] \in Task
  /\ pc[w] = "skipInsert" => ShouldSkip(item[w])
  /\ pc[w] = "skipPurge" => item[w] \in skipped
  /\ pc[w] \in Unlocking => task[w] \in completed /\ todo[w] \subseteq Dependents(task[w])
  /\ pc[w] = "unlockCount" => item[w] \in todo[w]

(* The dependencies of t that its counter still has to count: not completed,
   or completed with an unlock loop on its way to t. *)
Uncounted(t) ==
  {d \in deps[t] : \/ d \notin completed
                   \/ \E w \in Worker : pc[w] \in Unlocking /\ task[w] = d /\ t \in todo[w]}

CounterCounts == \A t \in Task : dep_counter[t] >= Cardinality(Uncounted(t))

DispatchedAtZero == \A t \in Task : Dispatched(t) => dep_counter[t] = 0

SkippedForCause == \A t \in skipped : ShouldSkip(t)

SoleUnlocker ==
  \A w, v \in Worker :
    pc[w] \in Unlocking /\ pc[v] \in Unlocking /\ task[w] = task[v] => w = v

IInv ==
  /\ TypeOK
  /\ \A w \in Worker : LocalsOK(w)
  /\ CounterCounts
  /\ DispatchedAtZero
  /\ DispatchedAfterDeps
  /\ DispatchedOnce
  /\ SkippedForCause
  /\ SoleUnlocker

----------------------------------------------------------------------------
(* What the cascades amount to, however many run at once. *)

(* S holds all that depends on a failure or on a task of S. *)
ClosedUnderFailure(S) == \A t \in Task : deps[t] \cap (failed \cup S) # {} => t \in S

(* While no cascade is at work the skipped tasks are the least such set; in the
   midst of one they are at least part of it. *)
SkippedExactly ==
  /\ \A S \in SUBSET Task : ClosedUnderFailure(S) => skipped \subseteq S
  /\ (\A w \in Worker : pc[w] \notin Skipping) => ClosedUnderFailure(skipped)

(* The cascade of w has still to come to t, or is at it, or has just skipped a
   dependency of it. *)
ToSkip(w, t) ==
  /\ pc[w] \in Skipping
  /\ \/ t \in todo[w]
     \/ pc[w] \in {"skipDecide", "skipInsert"} /\ item[w] = t
     \/ pc[w] = "skipPurge" /\ item[w] \in deps[t]

(* A cascade that leaves a task alone leaves it to nobody, or to another. *)
SkippedOrToSkip ==
  \A t \in Task : ShouldSkip(t) => t \in skipped \/ \E w \in Worker : ToSkip(w, t)

----------------------------------------------------------------------------
(* What the workers leave when nothing is under way. *)

(* Every id a list names is a task, and any set of tasks has one that waits for
   none of the set: no cycle. *)
Grounded ==
  /\ \A t \in Task : deps[t] \subseteq Task
  /\ \A S \in (SUBSET Task) \ {{}} : \E t \in S : deps[t] \cap S = {}

AtRest ==
  /\ \A w \in Worker : pc[w] \in {"idle", "exited"}
  /\ \A s \in Sandbox : ready_queues[s] = <<>>

(* When nobody is at work and nothing is queued, the counts add up: no completion
   failed to reach a counter, no counter came to zero without its task being
   queued, no cascade left a task for nobody to skip. *)
NothingStuck == Grounded /\ AtRest => Resolved = Cardinality(Task)

(* A counter has counted all that was announced to it, unless its task is
   skipped: unlock_dependents leaves such a one alone. *)
CountersExact == \A t \in Task \ skipped : dep_counter[t] = Cardinality(Uncounted(t))

ZeroIsDispatched == \A t \in Task \ skipped : dep_counter[t] = 0 => Dispatched(t)

----------------------------------------------------------------------------
(* What the workers have ahead. *)

(* The cascade of w has a reason for each task that it is to visit: should_skip
   never tells it to leave one alone. *)
CascadesAreDue ==
  \A w \in Worker : pc[w] \in Skipping =>
    /\ task[w] \in failed
    /\ \A t \in todo[w] : ShouldSkip(t)
    /\ pc[w] = "skipDecide" => ShouldSkip(item[w])

(* The tasks that are still to be given out or skipped, those that the cascade
   of w is about to skip left out. *)
StillPending(w) ==
  {t \in Task : phase[t] = "pending"}
    \ (IF pc[w] \in {"skipDecide", "skipInsert", "skipPurge"} THEN {item[w]} ELSE {})

HandlerRank ==
  [claimed |-> 6, executing |-> 5, storeOk |-> 4, storeErr |-> 4, markOk |-> 3, markErr |-> 3,
   unlockWait |-> 2, unlock |-> 1, unlockCount |-> 1,
   skip |-> 1, skipDecide |-> 1, skipInsert |-> 1, skipPurge |-> 1, idle |-> 0, exited |-> 0]

(* The visits of the loop that w is in, a purge being worth as many as it may
   add. *)
LoopAhead(w) ==
  2 * Cardinality(todo[w])
    + (CASE pc[w] = "skipDecide" -> 2 * Cardinality(Task) + 3
         [] pc[w] = "skipInsert" -> 2 * Cardinality(Task) + 2
         [] pc[w] = "skipPurge"  -> 2 * Cardinality(Task) + 1
         [] pc[w] \in {"unlock", "idle"} -> 1
         [] OTHER -> 0)

WorkerAhead(w) == <<Cardinality(StillPending(w)), HandlerRank[pc[w]], LoopAhead(w)>>

Below(a, b) == \E i \in 1..3 : a[i] < b[i] /\ \A j \in 1..(i - 1) : a[j] = b[j]

(* Each step of a worker shortens what it has ahead, and lengthens it for no
   other: neither a cascade nor the tasks it takes go on for ever. *)
NearerToRest ==
  [][\A w \in Worker : \/ Below(WorkerAhead(w)', WorkerAhead(w))
                       \/ ~Step(w) /\ WorkerAhead(w)' = WorkerAhead(w)]_vars
=============================================================================
