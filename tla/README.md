# MowisAI in TLA+

MowisAI lets language models build software with teams of agents. It does so twice
over: **agentd**, a daemon with a seven-layer orchestrator over containers, and
**MowisAI OS**, a host program with a conductor, a captain and crews, and an executor
inside a virtual machine; a **desktop application** drives the second from its windows.
The first two share no code; all of them start many tasks that share maps, queues, locks
and a workspace, and most of what can go wrong lies in how those tasks overlap. These
modules model that part: who runs which task and when, who waits for whom, what each
actor is told about the others, and what is left of the work when something fails.

All paths below are relative to `src/`.

## 1. Inventory

| component | state | operations | interacts with |
|---|---|---|---|
| task scheduler, `agentd/src/orchestration/scheduler.rs` | ready queues per sandbox, a counter of open dependencies per task, `running`, `completed`, `failed`, `skipped`, `results`, each behind a lock of its own | `get_ready_task`, `mark_task_started`, `handle_task_completion` with `skip_dependents` or `unlock_dependents`, `get_stats` | called by every worker and by the stats poller |
| agent pool, `new_orchestrator.rs`, `health.rs`, `sandbox_topology.rs` | workers, circuit breakers, registered and sleeping containers, results per sandbox | scan, pop, wake or create a container, run the agent, apply its diff, report, record health, file the result, sleep; join, clean up | scheduler, agentd's socket, merge |
| merge and verification, `merge_reviewer.rs`, `verification.rs`, `new_orchestrator.rs` | contributions per sandbox, merged diffs, rounds, statuses | detect conflicts, have a model decide, retry, fall back to concatenation; plan, run and fix in rounds; review again across sandboxes | the pool's results; agentd for its commands and fixes |
| one agent's execution, `agent_execution.rs`, `checkpoint.rs`, `provider_client.rs` | conversation, attempt, checkpoint log, snapshots on disk | rounds of model and tool calls, snapshot after a call, restore and try again, capture the diff | a worker; agentd |
| agentd's daemon, `socket_server.rs`, `sandbox.rs`, with its clients `socket_client.rs` and `orchestration/mod.rs` | backlog, a fast and a slow lane with workers, sandboxes and containers, subscribers; a pool of connections | accept, classify, queue, execute, answer; submit, write, read, time out, send again | every part of agentd; orchestrations it runs call it themselves |
| planner and modes, hub agents, tools, terminal UI | none shared with the above | a model's JSON becomes a graph; wrappers of commands | feed the scheduler |
| captain, `mowis-orchestration/src/captain.rs` | waves, handles, completed, failed | load, sort, run waves, verdict | spawns crews; spawned by conductor or front end |
| crew, `crew.rs` | budgets, written files, recent calls | ask the model, refuse or run its tool calls, summarise | shares the workspace with its siblings |
| conductor, critic, `conductor.rs`, `critic.rs` | conversation, current plan, plans on disk | classify, draft, converse, dispatch a build, patch, announce | models, captains, event bus |
| front ends, `mowis-host/src/main.rs`, `tui/app.rs` | the plan up for approval, what a subscriber has seen | chat, autonomous run, full-screen terminal | conductor, captains of their own, event bus |
| desktop application, `mowis-desktop/src-tauri/src/` | current session, sessions, the conductor in `orch_session` behind a lock, `desktop-state.json` | start, load, stop and clear a session, send a message, consume events, save | command loop, one task per message, conductor |
| host transport, `mowis-host/src/transport/mod.rs` | table of calls in flight, next id, one channel per call | `call`, `call_streaming`, read loop, `wait_for_executor` | executor |
| guest executor, `mowis-executor/src/server.rs` | map of sandboxes and overlays | one task per request | transport |
| virtual machine, launcher, command line | processes | start, stop, show | input and output |

`PROJECT.json` lists these components with what is modelled of each, and the hazards line
by line. What is hard, in a few words: locks taken one at a time where a decision needs
several; counts that must add up for anyone to stop; tasks popped and then dropped;
requests sent again that were executed, or executed after they were given up; attempts
repeated from a snapshot that may not be whole; reviews by a model that answers anything;
budgets that count the wrong thing; builds dispatched twice; an event bus that may lose
the one event somebody waits for; a lock held while a model thinks; a connection that dies
under a call.

What would make each component correct:

- scheduler: dependencies first, once per task, counts that agree, every task resolved,
  failure spreads to all that depends on it, no deadlock among handlers;
- pool: one agent per container, a dependency's diff before its dependents run, breakers
  that follow the failures, no completed work missing at the merge, an end to every run;
- merge and verification: nothing an agent changed is lost, no file comes out twice, by
  whichever of the many ways out of a review, and what is lost all the same is accounted
  for;
- one agent: work that was answered survives a restore, the diff tells all of it and
  nothing that was not asked for, an end;
- daemon: at most one execution for each time a request is sent, no container that nobody
  knows of, an answer or an error for every caller whoever holds the workers;
- captain and crew: waves in order, budgets respected, a verdict that is true, an end;
- conductor and front ends: a reply that says what was dispatched, plans named only when
  they are on disk, one build at a time, every message answered unless the conductor
  panics, output of a build that completed;
- desktop: a message reaches the conductor of its own session, one conductor is at work
  at a time, every message comes to its end and gives up the lock;
- transport and executor: each call gets its own answer, and comes to an end.

## 2. Modules

```
TaskLifecycle  <--implements-- Scheduler
      ^                        SchedulerLocks   (the same handlers, lock by lock)
      '--- built over --- WorkerPool  ... its results go to ...  Delivery
                               '---------- Topology ---------------'
Rpc            <--implements-- Daemon
      '--- its promise, used by --- AgentRun
Crew <-- Captain        Conductor <-- Session        Executor <-- Transport        Desktop
```

Each module M that is run has an MCM that gives its constants values. The theorems about
M are in MProofs: SchedulerProofs (with those about SchedulerLocks), AgentRunProofs,
DaemonProofs, CaptainProofs (with Crew's), SessionProofs (with Conductor's),
TransportProofs (with Executor's) and DesktopProofs; OrchestratorProofs has those about
WorkerPool and Delivery. A module states its inductive invariant at its end, as `IInv`
(`LocksIInv`, `DeliveryIInv`), a conjunction of named parts.

**Topology** has what WorkerPool and Delivery share: tasks, sandboxes, hints.

**TaskLifecycle** is the abstract specification of the dispatcher: a task is pending,
running, then completed or failed; or it is skipped because a dependency failed or was
skipped; it starts after its dependencies completed.

**Scheduler** is `scheduler.rs` with every critical section an action: a handler is a
worker's `pc` moving from section to section, with the locals it carries (`task`, `todo`,
`item`) and whatever other workers do in between. `unlock_dependents` holds
`ready_queues` for its whole loop (`queueGuard`). Queues, counters and the outcome sets
keep the code's names. The refinement mapping `phase` reads a task's phase off those sets
and the workers' hands.

**SchedulerLocks** keeps only the locks: which guards each block of a handler takes, in
which order, and tokio's write-preferring, first-come queue, so that deadlock among the
handlers can be seen. It is separate because Scheduler takes each block whole.

**WorkerPool** is the worker loop of `new_orchestrator.rs` (and of `run_standard`, the
same loop), with the breakers, the containers asleep and awake, the poller and the end of
the run; an agent may succeed, fail, or panic and take its worker with it. It uses
TaskLifecycle's vocabulary for the dispatcher, one step per report, which Scheduler
justifies.

**Delivery** is what the orchestrator does with the pool's results: the review of each
sandbox's contributions, the rounds of verification, the review across sandboxes, in full
mode and in standard mode. A diff is, for each file, how many texts it has in it; so a text
that is lost and a file that comes out twice can be seen, and contents are left out. A
file is known by the path in its header. What a review works on is not the diff but what
`parse_unified_diff` finds in it (`Parsed`): the section of a file whose path git quotes
(`Quoted`) is not found, since its header does not begin with `diff --git a/`. A raw diff
that is passed on, or put in the place of a review that failed, still has it. A model's
answer is a member of `Answers`: how many texts it puts down for a file, and how
many of its decisions drop it.

**Rpc** is the abstract specification of a request to agentd: it is executed at most once
for each time it is sent, perhaps after its caller gave up, and only a request that was
executed is answered. **Daemon** implements it with the pooled client, the direct client,
the accept loop that reads each request inline, the two lanes and their workers; the
containers that `create_container` and `destroy_container` make and remove come with it. A
connection is a request and the number of its try. **AgentRun**, one agent's task, takes
Rpc's promise as the behaviour of its calls: a call fails or is answered, and a copy that
was given up may be executed later (`late`). Its state is the attempt, the checkpoint log,
the snapshots on disk and the effects in the two writable layers of the container. What a
model streams (`Answer`) is its calls and how many of them came in the last chunk that had
any, which is all that tells the providers' clients apart (`Taken`).

**Crew** is one agent's loop of MowisAI OS; **Captain** extends it with the topological
sort, the waves, the order in which handles are awaited and the verdict.

**Conductor** is `handle_user_message` with all its paths; **Session** extends it with the
three front ends, the subscriber of an autonomous run and the captains, each abstracted to
the time it works and the verdict it ends with. `BuildEnds`, checked of Captain, is what
justifies that abstraction. The critic is there only as the wait of an autonomous run,
which goes on with any verdict or with none. A turn ends with a reply or, if there is a
plan whose overview `truncate_str` cuts inside a character, with a panic (`turn` is
"panicked"): the chat's process is gone (`TurnLost`), the full-screen terminal has lost
its conductor's task, and the captains go on. `work` is what builds left in `.mowis-work`,
by how each of them ended, "earlier" for what an earlier run left there; `output` is what
an autonomous run copied out of it, and whether the copy stopped at an error (`cut`).

**Desktop** is the desktop application around a conductor: the commands of the interface,
the command loop, a task per message, the lock of `orch_session` as the queue it is, and
for each conductor the inbox it reads. What a conductor does with a message is one reply,
or, from its second message on, a panic; `MessageAnswered`, checked of Session, is what
justifies that. The reply itself is discarded (`bridge_loop.rs:203`): a message ends
"shown" if an event or an error told the user of it and "unshown" if nothing did.

**Executor** is the guest's side of one connection; **Transport** extends it with the
host's side and the boot. A request is its operation and the keys it looks up; the
operations that behave alike share a name (`ask`, `tool`, `status`). The requests that
MCTransport's clients make are those of the protocol; src/ itself sends `Ping`,
`CreateSandbox`, `Exec`, `DestroySandbox`, `UploadCodebase` and `InvokeToolAsAgent`.

Definitions whose comment begins "A variant" are plausible faults of the definition that
follows; no specification uses them. Substituting one shows that the property it belongs
to would notice.

## 3. Runs

| run | question | result |
|---|---|---|
| Scheduler | order, once, counts, skips, liveness, refinement of TaskLifecycle | holds |
| SchedulerLocks | can two failing workers, one that succeeds and the poller lock each other out? | they cannot |
| SchedulerLocksThree | and three failing workers with the poller? | **deadlock** (finding) |
| WorkerPool | containers, diffs, breakers, merge input; a run ends or has dropped a task | holds |
| WorkerPoolLost | does every run of the pool end? | **no**: a popped task is dropped (finding) |
| Delivery | is all work in the diff delivered, and each file once, with exceptions named? | holds, with the losses named below |
| AgentRun | does answered work survive restores, does the diff tell it, does the agent end? | holds |
| Daemon | refinement of Rpc, containers accounted for, every caller answered | holds |
| Captain | waves, budgets of calls, verdict, termination | holds |
| Session | reply true, plans on disk, output of a completed build, turns and autonomous runs end | holds |
| Transport | own answers, what is created is there, calls end | holds |
| Desktop | own conductor, one at work, every message settled | holds |

### What the findings show

- *SchedulerLocksThree.* `skip_dependents` takes `completed, skipped, failed` in one
  place and `failed, skipped` in another, as `unlock_dependents` and `get_stats` do. With
  a writer queued on each lock, a reader that holds `skipped` and one that holds `failed`
  wait for each other's writer.
- *WorkerPoolLost.* `continue` after a pop, with an open circuit or without a container,
  loses the task, and so does a worker that panics; the counts never add up, no worker
  leaves, and the poller, awaited without a limit, keeps the run past its thirty minutes.

### What some of the properties concede

Where the plain promise is not what the code keeps, the property names the exceptions, and
each is a real behaviour:

- `DrainsOrLoses`: the pool ends, or has dropped a task that it had popped.
- `OneTextPerFile`: a file comes out twice when the model spoke of it more than it was
  asked to, or when the last review that saw both texts was given up and the raw diffs
  were put one after the other.
- `NothingLost` excepts what a model decided to drop, and a file whose path git quotes,
  unless its raw diff reached the delivery: through a review that goes well such a file is
  lost, with no decision and no message (section 5).
- `Accounted`: a container nobody was told of comes from a `create_container` that was
  sent again, or given up.
- `WorkKept`: a restore takes answered work away only if it failed half way or was sent
  twice. `DiffExplained` lets a diff be empty: `git diff` may fail and nobody notices.
- `CompletedIsOver`: a crew that panicked counts neither as completed nor as failed.
- `OutputIsBuilt` does not say that the output is whole. The copy may have stopped at an
  error, and `.mowis-work` may have held files of earlier runs. What it says is that a
  build completed, and that, if the turn dispatched one captain only, nothing of a failed
  or unfinished build of this run is among what was copied.
- `MessageAnswered`: a turn with a plan in hand may end in the panic of `truncate_str`.
- `MessageSettled`: a message gives up the lock in the end; "unshown" is one of its ends.
- `CallAnswered` is about a link that stays up, or work that does not panic: the read loop
  leaves the table of calls as it is when the connection fails, and a call waits for ever.

### Bounds, and why they are enough

- *Scheduler*: four tasks in two sandboxes, three workers, 26 graphs: 24 acyclic ones with
  every shape of three tasks and a fourth that is free, ends a chain or joins two, one
  with a cycle, one with a dependency nobody declares. Joins of two completions,
  two cascades that meet, and a completion racing a cascade need four tasks and two or
  three workers. The theorems remove the bound for the central invariants.
- *SchedulerLocks*: three workers and the poller, at most two dependents visited
  (`MaxVisits`; one in the deadlock run). A handler holds at most two guards while it
  waits for a third, and the two orders the code takes them in, with a writer queued on
  either lock, meet among four parties; a further visit repeats the first.
- *WorkerPool*: three tasks (free, a chain, a join), two sandboxes, two workers, three
  containers, a threshold of one failure: two workers suffice to race on a pool, a
  breaker or the end of the run.
- *Delivery*: two tasks in one sandbox and one in another, two files and a third whose path
  git quotes, every choice of who changed what, up to the symmetry of the two tasks and of
  the two files. Two contributors in a sandbox and one beside it are the least that
  conflict in both reviews, and a second plain file the least that lets one sandbox bring
  a file with two texts and the other something else; an answer puts down a text, two or
  none, or drops the file. `MaxRounds` is 2 and `MaxRetries` 2 (each 3 in the code); one
  verification function, so that a round fails or passes.
- *AgentRun*: two calls that change `/workspace` and one that changes the container, three
  calls in all (`MaxCalls`), two rounds, one retry of a call and one of the attempt, one
  checkpoint kept (`Keep`, 50 in the code), so that pruning happens after the second; at
  most one late request at a time (`MaxLate`). Two providers: one whose stream keeps the
  last chunk's calls, one that keeps all.
- *Daemon*: an orchestration that creates and destroys a container, one other client, a
  subscriber; two tries (4 in the code), one pool worker, a queue of one, one fast and two
  slow workers, so that subscriber and orchestration together use up the slow lane. With
  more workers more of them are needed to do the same.
- *Captain*: seven plans of up to three tasks, with a cycle behind a task that can run, a
  dangling dependency and the empty plan; the crew's caps cut down to two rounds, two
  calls, two rounds' worth of tokens, two calls in an answer and one path. The caps in the
  code (8 rounds, 12 calls, 100,000 tokens) are compared in the same way.
- *Session*: three plans, three rounds (5 in the code), two `start_build` calls in an
  answer, five messages, all three front ends, a panic in any turn that has a plan, a copy
  that is cut or not, with and without files of an earlier run.
- *Transport*: the ping and three requests in flight, by two clients, out of eight kinds
  over one sandbox and one agent; enough for create, overlay and merge with another
  client's request at any point, and for any answer to overtake any other.
- *Desktop*: two sessions and three messages (`MaxTurns`), any number of stops with one
  at a time under way, from the click to the conductor's dropping: a message, one that
  overtakes it, and one that comes after a stop. Sessions are loaded and cleared while there
  may still be a message to send (`MoreTurns`); afterwards nothing reads the current
  session.

`CHECK_DEADLOCK FALSE` stands where the system really stops: all workers gone, a verdict
given, a session quit, a link down, every message answered. SchedulerLocks keeps the check
on: its workers always have another task.

The modules' type invariants are checked in the runs Scheduler, WorkerPool, AgentRun,
Daemon and Transport; those of Captain and Session are proved as part of their inductive
invariants, and Desktop's with its `IInv`.

### Fairness

Weak fairness only. Each spawned task (worker, crew, captain, read loop, request, turn,
conductor) is polled by tokio, and time passes for a recovery timeout or a deadline. That
a model answers, an agent returns and a command in a sandbox ends is assumed: the executor
runs commands without a limit of time, and a command that never ends has no answer. No
fairness on what a user types, on a client's making a call, on the link failing or on a
subscriber lagging. `Usage = {1}` in Captain is an assumption: with a provider that
reports no usage a crew whose calls are all refused runs for ever. `EveryTaskResolved` is
claimed of well-formed graphs only, since nothing validates the planner's graph. The
completion subscriber of an autonomous run is spawned before the prompt is handed to the
conductor, but subscribes in its own task (`main.rs:1071`, 1072): that tokio polls it
before the first captain, which takes several answers of a model to start, has come to an
end is assumed, so the model lets it miss a verdict by lagging only.

In Daemon only the clients' threads, the pool's workers and the orchestration are fair:
`CallerAnswered` owes nothing to agentd, which may be as slow as it likes, but to the
clients' timeouts. In AgentRun the agent's own steps are fair, and late requests are
executed whenever agentd pleases, or never. In Desktop the boot of a virtual machine for a
session in OS security mode is taken to end; its ping has no time limit.

## 4. Theorems

Each `...Proofs` module proves, from the named assumptions of its modules alone,
`Invariance` (`Spec => []IInv`), and from that the theorems of its component. Three theorems
have a hypothesis besides, which their component's run meets: two `AtMostTwoFail`, of
SchedulerLocks, and one of Captain that an answer never costs nothing (`0 \notin Usage`).
The assumptions say what kind of thing a constant is, that `None` is not one of the others,
and which sets are finite where something is counted; no bound of section 3 is among them.
A proof has one lemma per action, and one step in it per part of `IInv` that the action can
disturb; actions that touch little share a lemma (`QuietStepIInv`, `StayStep`, `HostMoves`,
`Kept`, `Again`...). Every `IInv` was also checked by TLC on its run's instance, as was each
property of the table that no run of section 3 lists.

| module | holds for any | theorems |
|---|---|---|
| SchedulerProofs, of Scheduler | finite set of ids, graphs over it (ill-formed ones included), sandboxes, workers | `TypeCorrect` (`TypeOK`: no counter wraps), `DependenciesFirst` (`DispatchedAfterDeps`), `AtMostOnce` (`DispatchedOnce`), `ExitSafe` (`ExitOnlyWhenResolved`), `SkippedAreReached` (`SkippedExactly`), `NothingLeftOver` (`NothingStuck`), `DispatcherProgresses` (`NearerToRest`), `DispatcherComesToRest`, `Refinement` (`ImplementsLifecycle`) |
| SchedulerProofs, of SchedulerLocks | workers, dependents to visit; for the last two, at most two workers that may fail | `LocksInvariance`, `RingTakesThree` (`RingsHaveThree`), `TwoFailuresDoNotLock` (`NoCircularWait`), `TwoFailuresGoOn` (`SomebodyGoesOn`) |
| OrchestratorProofs, of WorkerPool | tasks and graph, sandboxes, workers, containers, threshold | `TypeCorrect`, `ExclusiveContainers` (`ContainerExclusive`), `DiffsFirst` (`DependenciesApplied`), `CircuitsTrack` (`CircuitTracksFailures`), `CompleteMerge` (`MergeIsComplete`), `Refinement` (`DrivesLifecycle`) |
| OrchestratorProofs, of Delivery | tasks and sandboxes, files, answers, verification functions, rounds, retries | `DeliveryInvariance`, `DeliveredWork` (`NothingLost`), `DeliveredOnce` (`OneTextPerFile`), `VerificationKeepsDiff` (`ReviewedIsKept`), `NoSandboxPasses` (`NeverPassed`) |
| AgentRunProofs | tool calls, answers, rounds, attempts, retries, checkpoints kept | `TypeCorrect`, `AnsweredWorkKept` (`WorkKept`), `DiffsExplained` (`DiffExplained`), `AgentProgresses` (`NearerTheEnd`), `AgentComesToAnEnd` |
| DaemonProofs | calls, tries, pool, queue, lanes' workers | `TypeCorrect`, `ContainersAccounted` (`Accounted`), `CallersProgress` (`NearerTheReturn`), `Refinement` (`ImplementsRpc`) |
| CaptainProofs | finite set of ids, plans over it, budgets and answers | `TypeCorrect` (no in-degree below zero), `CallsAreBounded` (`CallsBounded`), `DependenciesFirst` (`StartedAfterDeps`), `CompletedMeansOver` (`CompletedIsOver`), `BuildProgresses` (`NearerTheVerdict`, of answers that cost something), `BuildComesToAnEnd` |
| SessionProofs | plans, rounds, calls in an answer, messages | `TypeCorrect`, `RepliesTell` (`ReplyTellsBuild`), `SavedFirst` (`PlansOnDisk`), `OutputBuilt` (`OutputIsBuilt`), `TurnsProgress` (`NearerTheReply`) |
| TransportProofs | clients and what they may ask, sandboxes, agents, number of calls | `TypeCorrect`, `OwnAnswers` (`AnswerIsOwn`), `CreatedStays` (`CreatedIsThere`) |
| DesktopProofs | sessions and number of messages | `AnsweredByOwn` (`MessageToOwn`), `SoleConductor` (`OneAtWork`) |

### Why the invariants are what they are

*Scheduler.* `DispatchedAfterDeps` and `DispatchedOnce` are not inductive: a step that
decrements a counter to zero enqueues a task because of a number, and nothing in the two
properties relates the number to the graph. `IInv` adds that relation, `CounterCounts`: a
task's counter is at least the number of its dependencies that are not completed or whose
unlock loop has not reached it (`Uncounted`). It is an inequality because the loop stops
counting for tasks it finds failed or skipped. To it come what each handler knows of its
locals between sections (`LocalsOK`), that a queued, held or finished task has its counter
at zero and its dependencies completed (`DispatchedAtZero`, `DispatchedAfterDeps`), that
a skipped task has a dependency that failed or was skipped (`SkippedForCause`), so that
it is never also enqueued, and that no completed task has two unlock loops at work
(`SoleUnlocker`), so that each decrement takes one dependency off what is left to count.
`ExitSafe` rests on a count too: the outcome sets are disjoint, so the three sizes add up
to the number of tasks only when together they are all of it (`CountsAddUp`), and they
never shrink (`OutcomesGrow`). `Refinement` shows `phase` to move as TaskLifecycle allows:
`MarkFailed`, `MarkCompleted`, `SkipInsert` and `GetReadyTask` each move one task's phase,
the other steps none.

Two more invariants say that the dispatcher's bookkeeping comes out even. `SkippedExactly`:
when no cascade is at work, the skipped tasks are the least set that failures reach, however
many cascades met on the way. A cascade leaves a task alone for three reasons (it is done,
it is skipped, another got there first), so what is kept is `SkippedOrToSkip`: a task that
ought to be skipped is so, or some worker still has it or a dependency of it in hand.
`NothingStuck`: when all workers are idle or gone and the queues are empty, the counts add
up, for any graph without cycles and dangling ids (`Grounded`). For this the inequality of
`CounterCounts` does not do: off the skipped tasks the counters are exact
(`CountersExact`), and one at zero has had its task queued (`ZeroIsDispatched`); a least
unresolved task then has no dependency left to count. It is the safety half of
`EveryTaskResolved`.

The other half needs no fairness either: workers cannot go on for ever. `WorkerAhead` is
what one has ahead, three numbers: the tasks that are still pending, its place in the
handler and the visits of the loop it is in. Each of its steps makes them smaller in the
lexicographic order, no other worker's makes them larger (`DispatcherProgresses`), and the
order is well-founded (`DispatcherComesToRest`). A cascade extends its own list, so its
visits alone do not go down; that a purge is paid for by a task that ceases to be pending
takes `CascadesAreDue`: every task on the list has a reason to be skipped, so `should_skip`
is never asked in vain. Graphs with cycles are no exception. What is left to fairness is
that a worker with something to do takes its step.

*SchedulerLocks.* A handler waits in one queue, of the lock it wants next (`LocksIInv`). In
a ring each member waits for a guard of the next, or behind it. Following the ring through
the orders the blocks take their locks in leaves no closed walk but one: a cascade that
checks a dependent (`completed, skipped, failed`), one that inserts one (`failed, skipped`)
and a worker that records a failure. All three are workers that failed, so two failures
cannot lock, and SchedulerLocksThree's trace is the only kind there is.

*Delivery.* `NothingLost` speaks of the end and the invariant of each sandbox that is
settled: a file some agent changed and nobody dropped has a text in its sandbox's merged
diff (`SandboxesKeep`), unless its path is quoted and the sandbox's raw diffs were not
taken; and one with more than one text has a reason (`SandboxesExplained`). What a review
was asked about is what it was offered, and a contribution that is passed on never asks
(`ReviewsOK`). The review across sandboxes repeats the argument one level up.
What was changed must also survive the verification, which hands back the diff it was
given: `StageOK`, and `VerificationKeepsDiff` as an action property. `NoSandboxPasses` is a
consequence of what agentd makes of the container's id, so it stands and falls with that
(section 5).

*WorkerPool.* Where a worker's loop is determines what it holds (`HandsOK`) and what the
dispatcher thinks of its task (`ReportsOK`); every container is agentd's and with one
worker or at one place in the pool (`ContainersOK`); and a wait that was not cut short saw
every worker leave (`OrchestratorOK`), so that nobody sleeps a container or files a result
behind its back. `ReportsOK` says of a completed task that its diff has been applied and
its result is filed or in a worker's hands, from which both `DependenciesApplied` and
`MergeIsComplete` follow. `DrivesLifecycle` is proved step by step, and complements
Scheduler's `ImplementsLifecycle`: the one lives up to TaskLifecycle, the other uses it
as it may be used.

*AgentRun.* That a restore keeps answered work is a fact about a moment long before it:
when the call was checkpointed, `upper` was copied. `SnapshotOK` carries it: between that
moment and the next call's effect, what was worked is in `/workspace` or in the last
snapshot, if it is there. A late copy of a request changes layers and snapshots under the
agent's hands, so `LateOK` says what it can be: a call counted as unsure, a snapshot with
a number that was given out (which only grows or becomes the upper layer), a restore that
is known to disturb. `PrunedKeeps` is the lemma about the log: pruning leaves its last
entry the last. That the agent ends is a liveness property, but its reason is not: `Ahead`
is what it has still to do, seven numbers of which the attempts left come first and the
tries of a call last. Each step of the agent makes it smaller in the lexicographic order
and a late request does not change it (`AgentProgresses`), and the order is well-founded
(`AgentComesToAnEnd`). Weak fairness of the agent's step then gives `AgentEnds`.

*Daemon.* Each try has a connection of its own, which is in one place of one queue at most
(`QueuesOK`), and a caller at "writing" or "reading" is at its latest (`ClientOK`); the
history counts of Rpc are the numbers of connections that were taken and answered
(`HistoryOK`), the link between the counters of the abstract specification and the
concrete state. The refinement then shows that no request is begun more often than it was
sent, whichever of its connections are late. `Accounted` follows from `ContainersOK`. That a
caller returns is its own doing: the tries it has left and its place in one make a number
(`CallerAhead`) that each of its steps lessens and nobody else's changes, so that
`CallersProgress` bounds its steps by `4 * Tries + 6`.

*Captain and Crew.* `DegreeCounts` ties the numbers of the topological sort to the graph
(an in-degree is the number of dependencies that are in no wave), `WavesOK` puts each
dependency in a wave before its dependents', and `RunOK` says of each task of a sorted plan
that it is still to be started, awaited, or its end is recorded. A crew's calls are bounded
by the budget and what is left of the answer at hand (`CallsOK`), since the budget is
compared between answers only. The end of a build has a measure too: the captain's is its
stage, the tasks to sort, the waves, the crews to start and those to await; a crew's the
tokens left, the calls of the answer at hand and its place in the round. A crew whose calls
are all refused is ended by its tokens alone, so `BuildProgresses` supposes that an answer
costs something. With 0 in `Usage` TLC refutes `NearerTheVerdict`.

*Session and Conductor.* `ReplyTellsBuild` speaks of a turn that is over, so `TurnOK`,
`DispatchOK` and `ApprovedOK` follow one under way: an answer that dispatches ends the
rounds, and no path to a plan that is proposed, patched or refused passes a dispatch.
`OutputIsBuilt` needs that in an autonomous run with one captain its end is the last thing
at work (`AutonomousOK`), and that until then the directory holds nothing but an earlier
run's files (`WorkOK`). A panic needs a plan in hand, and an autonomous run, of one
message, has none (`TurnOK`, `AutonomousOK`). A turn takes at most two steps a round, the model's answer and its
calls; what captains and front ends do between them makes it no longer, and a panic ends
it (`TurnsProgress`).

*Transport and Executor.* `IdsOK` and `OnceOK` say that an id is one call's for good and
its request in one place: on the wire, with one task of the guest, or over; `OwnOK` that
whatever travels under the id is of that call's request. `CreatedIsThere` follows a success
from the map to the caller (`Succeeds`), unless a request for the end of the same key
overlaps it, in which case the creation is contested; `KindsOK` and `TasksOK` say that only
a command has output before its end, so that one line is the answer to a creation.

*Desktop.* Both properties rest on the lock: a turn that waits for its conductor has it
(`SentHolds`), and a conductor has no message, in hand or in its inbox, but that turn's
(`ConductorOK`). A stop takes the lock before it drops the conductor, so none is dropped in
the middle of a message. A conductor that was replaced may still be there, with an empty
inbox.

### What stays with TLC

Every safety invariant, action property and refinement that a run checks is proved.

- Liveness stays with TLC (`EveryTaskResolved`, `FailureSkipsDependents`, `DrainsOrLoses`,
  `AgentEnds`, `CallerAnswered`, `BuildEnds`, `MessageAnswered`, `AutonomousRunEnds`,
  `CallAnswered`, `MessageSettled`, and the two it refutes): arguments from fairness and
  ENABLED are out of the prover's reach. `Reaches`, the closure two of them use, would need
  induction over data besides. `NothingLeftOver`, `DispatcherComesToRest`,
  `SkippedAreReached`, `TwoFailuresGoOn`, `AgentComesToAnEnd`, `CallersProgress`,
  `BuildComesToAnEnd` and `TurnsProgress` are the parts of those arguments that need no
  fairness. They say that a measure is of natural numbers, goes down with each step and is
  in a well-founded order; that behaviours therefore end is the meaning of the three.
- `NoCircularWait` without `AtMostTwoFail` is false: see SchedulerLocksThree.

## 5. What is not modelled, and why

- handlers nothing calls: `handle_task_failure`, `retry_task`, the idle agents of the
  scheduler, `destroy_agent_layer`, the mailbox Captain, the merger of overlays, the
  digest, `handle_critic_verdict`, and `merge_worker.rs`, which only simulations run;
- prompts, parsing, HTTP clients, rendering: their results appear as choices;
- agentd's other requests (channels, buckets, memory, images, policies, configuration) and
  its restart: nothing of them is recovered, and no handler waits for another;
- plans in which two tasks have one id: a plan is a function of its ids in Captain. In the
  code `Plan::validate` (`plan.rs:214`) would refuse them and is never called, the sort
  joins them, and `find` (`captain.rs:542`) runs the first: the other is dropped without a
  word, and a plan that is reported completed has not run it;
- the critic's own work: its verdicts change nothing that a front end does;
- the executor's sandboxes on disk, the fields of the protocol's payloads, an answer to a
  line that does not parse;
- of the desktop application, what becomes of events and `desktop-state.json` (with them
  the state space is far beyond what a run can enumerate), and its soft sandboxes.

Observed while reading, and not the subject of a run:

- *scheduler and pool.* A half-open circuit lets every task through, where `health.rs:15`
  speaks of one request; the planner's sandbox hints are not checked against the topology;
  `create_agent_layer` leaves its container registered when its git setup fails;
  `apply_diff_to_sandbox` never changes the sandbox, so a task does not see its
  dependencies' work, and `capture_sandbox_diff`, from a fresh container, is always empty
  or an error; diffs include the user's uncommitted changes.
- *merge.* git puts a path with quotes, control or, unless `core.quotePath` is off, other
  than ASCII characters in quotes: `diff --git "a/..." "b/..."`. `strip_prefix("diff --git
  a/")` (`merge_reviewer.rs:227`) does not match, `parse_single_file_diff` returns `None`
  (154) and `parse_unified_diff` drops the section (137). A file with such a path is
  therefore lost in each review that parses it and does not fail, though no decision
  dropped it and `merge_reviewer.rs:107` speaks of any "standard unified git diff".
  `Parsed` is this. Such headers come from `git diff` in a container
  (`agent_execution.rs:602`, `sandbox_topology.rs:429`); the diff that
  `sandbox_topology.rs` composes itself from captured files (606) writes every path bare.
  That `rfind(" b/")` (230) cuts a path that itself contains ` b/`, so that two such files
  may share a name, is left out.
- *verification.* `execute_vf` sends the container's id as the sandbox
  (`verification.rs:561`, "container acts as sandbox for socket"), which agentd does not
  know (`socket_server.rs:764`), and reads the exit code from the top level of the answer
  (600), where `handle_request` puts a `result`: every command fails, so a sandbox ends
  PartiallyVerified or Failed whatever its code does. `Request`, `Response` and `ExitCode`
  of Delivery say the same.
- *one agent.* `/workspace` is an overlay of its own, and a restore copies the container's
  `upper` only, so the work is never taken back; a restore removes the upper directory
  of a mounted overlay, and one that fails half way leaves part of it while the attempt
  goes on; `capture_git_diff` adds `2>&1` and then looks for "fatal" in stderr, so a
  failing `git diff` is an empty diff and a success; a final failure leaves its
  checkpoints behind; the Gemini stream keeps the last chunk's calls only; streamed
  arguments cut short become `{}`; `with_retry` is documented to retry on 429 and 5xx, and
  `is_retryable_status` is never called; the preview cut at byte 200
  (`agent_execution.rs:439`) panics inside a character.
- *daemon.* Subscribers that reconnect use up the slow lane, although
  `socket_client.rs:22` says "never let the client outrun the server"; events reach
  subscribers of the same process only; `send_event` writes with the list of connections
  locked and no timeout; a silent connection blocks the accept loop for thirty seconds;
  the direct client compares error texts in lower case where its comment
  (`orchestration/mod.rs:1256`) says "no string matching", so such write errors are not
  retried, and its 60 s are shorter than the 300 s a command may take, so the command is
  sent again while it runs; `validate_request` rejects `send_input` and
  `interactive_status`, which are handled; `create_sandbox` registers a sandbox before its
  backend is there; a tool runs unlocked while its container may be destroyed; `set_config`
  loads, changes and saves without a lock.
- *crew and captain.* `round_count` counts messages the crew never pushes (`crew.rs:12`,
  91), so the cap of rounds is never reached; `truncate` (`summaries.rs:298`) can panic
  inside a multi-byte character, and a crew that panics is counted neither as completed nor
  as failed (`captain.rs:604`); crews of one wave share a workspace and the last writer of
  a file wins; the dependents of a failed crew are still run; a tier without a model leaves
  crews running after PlanFailed; a path is noted as written even when the write failed.
- *conductor and front ends.* Two `start_build` calls in one answer, or a turn after a
  dispatch, or the chat's approval of a build already dispatched, put two captains in one
  workspace (`conductor.rs:425`, 434, 218). `truncate_str` (920) slices at byte 200: when
  the classifier quotes the overview of the current plan (553) and the cut falls inside a
  character, the turn panics without a reply. A chat's process dies of it; in the
  full-screen terminal the task of the conductor does (`app.rs:211`), and from then on each
  line is answered "Failed to send to conductor" (727); in the desktop the turn in progress
  and later ones come to an error; captains go on. An autonomous run sends one message and
  has no plan then. The copy of an autonomous run's output stops at its first error
  (`main.rs:1211`-1230), with part of the files copied, and the directory is removed all
  the same (1114); `.mowis-work` is not emptied when a run begins (954), so what a failed
  run left is copied with the next one's work. After a failed turn, a hot patch or a failed
  announcement, the user's messages are sent to the model as its own (354).
- *transport.* The read loop ends and leaves the table of calls as it is
  (`transport/mod.rs:147`), and a waiting call keeps its own channel open through that
  table, so the ping of a boot may never be answered; nobody in src/ sends
  `CreateAgentOverlay`, so tools run as an agent over the transport always answer with an
  error; `CreateSandbox` under an id in use replaces the sandbox, where
  `mowis-protocol/src/lib.rs:147` says the guest may override the id; an overlay that is
  replaced removes the directory its successor uses, which is keyed by the agent alone.
- *desktop.* `start_session` sends the prompt and `main.js:740` sends it again, so every
  first prompt is handled twice, and if the second turn gets the lock first the session
  works in a directory of its own instead of the repository; after a stop the conductor
  has ended but stays in `orch_session`, so each later message of that session fails; a
  stop waits for the running turn, and the command loop with it; the soft sandbox is
  destroyed before the lock is taken, under the turn that works in it; a captain goes on
  after its conductor is dropped; a completed stop turns "stopped" into "done" and running
  tasks into complete ones; a chat reply never completes a session, where
  `bridge_loop.rs:206` says it does; a turn's reply is discarded (203), on the ground that
  "Events already flowed" (205) and that it "is already emitted to the bus"
  (`orch_bridge.rs:298`), which is not so of an error that the conductor returns (302), a
  patch or an empty answer: the user is shown nothing of them (`MessageSettled` counts them
  as "unshown"); tasks are added under their task's id and updated
  under their agent's; events of an older session are filed under the current one;
  current session, messages and tasks are read and set under separate locks; of two saves
  that overlap the second removes `desktop-state.json` (`state.rs:160`).

## 6. Plan

Done, in this order: Scheduler with TaskLifecycle and its proofs, SchedulerLocks,
WorkerPool, Crew and Captain, Conductor and Session, Executor and Transport, Delivery,
Rpc and Daemon, AgentRun, Desktop.

Then the proofs, in the order of their modules: the safety of each component and the
refinements; Delivery, for which the texts of a file are counted rather than listed, so
that no fold is needed; the lock order; what cascades and counters leave behind; measures
for the loops that end (agent, build, turn, caller, dispatcher). A further extension could
find those of the connection's calls and of the worker pool.

Next modules, if a later extension calls for them: overlays on disk in the executor (base,
upper and merged directories, over Executor's map), and the desktop's state file.
