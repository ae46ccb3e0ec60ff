------------------------------ MODULE Captain ------------------------------
(***************************************************************************)
(* The build of one plan (mowis-orchestration/src/captain.rs,              *)
(* SimpleCaptain, dispatched by execute_start_build of conductor.rs): the  *)
(* captain sorts the task graph into waves, starts the crews of a wave,    *)
(* awaits them in the order it started them, and gives its verdict after   *)
(* the last wave.  The crews are those of Crew.                            *)
(***************************************************************************)
EXTENDS Crew, Sequences

CONSTANTS
  TaskId,   \* every id a dependency list can name
  Plans     \* the task graphs of the plans: from tasks to their dependencies

ASSUME CaptainAssumption ==
  /\ IsFiniteSet(TaskId) /\ Task \subseteq TaskId
  /\ \A d \in Plans : /\ DOMAIN d \subseteq Task
                      /\ \A t \in DOMAIN d : d[t] \subseteq TaskId

VARIABLES
  deps,       \* the plan's task graph
  captain,    \* where the captain is
  degree,     \* in_degree
  remaining,  \* tasks the sort has not yet put in a wave
  waves,      \* the waves not yet run, the first being the one at work
  toStart,    \* tasks of that wave whose crews are not yet started
  handles,    \* crews of that wave not yet awaited, in the order they started
  completed, failed,
  verdict     \* the event that tells how the build ended

captainVars == <<deps, captain, degree, remaining, waves, toStart, handles,
                 completed, failed, verdict>>
vars == <<crewVars, captainVars>>

Node == DOMAIN deps
Wave == SUBSET Node

TypeOK ==
  /\ CrewTypeOK
  /\ deps \in Plans
  /\ captain \in {"start", "sort", "crews", "await", "ended"}
  /\ degree \in [Node -> Nat]
  /\ remaining \subseteq Node
  /\ waves \in Seq(Wave)
  /\ toStart \subseteq Node
  /\ handles \in Seq(Node)
  /\ completed \subseteq Node /\ failed \subseteq Node
  /\ verdict \in {"none", "PlanCompleted", "PlanFailed"}

Init ==
  /\ CrewInit
  /\ deps \in Plans
  /\ captain = "start"
  /\ degree = [t \in Node |-> Cardinality(deps[t])]
  /\ remaining = Node
  /\ waves = <<>> /\ handles = <<>>
  /\ toStart = {} /\ completed = {} /\ failed = {}
  /\ verdict = "none"

----------------------------------------------------------------------------
(* The build ends with event v. *)
EndBuild(v) == captain' = "ended" /\ verdict' = v

Awaited == UNCHANGED <<crewVars, deps>>

(* Plan::load fails, or the plan has no tasks, or the captain starts. *)
StartBuild ==
  /\ captain = "start"
  /\ \/ EndBuild("PlanFailed")
     \/ Node # {} /\ captain' = "sort" /\ UNCHANGED verdict
  /\ UNCHANGED <<degree, remaining, waves, toStart, handles, completed, failed>>
  /\ Awaited

(* topological_sort, one wave a step: the tasks whose in-degree is zero leave,
   and take the edges to their dependents with them.  Without such a task the
   sort gives up on a cycle, which a dependency on an unknown task is too. *)
NextWave == {t \in remaining : degree[t] = 0}

(* A variant: an edge too many taken from the dependents. *)
SortWaveTooFar ==
  /\ captain = "sort" /\ remaining # {} /\ NextWave # {}
  /\ waves' = Append(waves, NextWave)
  /\ remaining' = remaining \ NextWave
  /\ degree' = [t \in Node |-> IF deps[t] \cap NextWave # {} THEN 0 ELSE degree[t]]
  /\ UNCHANGED <<captain, toStart, handles, completed, failed, verdict>>
  /\ Awaited

SortWave ==
  /\ captain = "sort" /\ remaining # {} /\ NextWave # {}
  /\ waves' = Append(waves, NextWave)
  /\ remaining' = remaining \ NextWave
  /\ degree' = [t \in Node |-> degree[t] - Cardinality(deps[t] \cap NextWave)]
  /\ UNCHANGED <<captain, toStart, handles, completed, failed, verdict>>
  /\ Awaited

SortEnds ==
  /\ captain = "sort"
  /\ \/ /\ remaining = {}
        /\ captain' = "crews"
        /\ toStart' = Head(waves)
        /\ UNCHANGED verdict
     \/ remaining # {} /\ NextWave = {} /\ EndBuild("PlanFailed") /\ UNCHANGED toStart
  /\ UNCHANGED <<degree, remaining, waves, handles, completed, failed>>
  /\ Awaited

(* The crew of one task of the wave is spawned, the tasks in any order. *)
StartCrew(t) ==
  /\ captain = "crews" /\ t \in toStart
  /\ Goes(t, "round")
  /\ handles' = Append(handles, t)
  /\ toStart' = toStart \ {t}
  /\ captain' = IF toStart = {t} THEN "await" ELSE captain
  /\ UNCHANGED <<batch, calls, tokens, written, recent,
                 deps, degree, remaining, waves, completed, failed, verdict>>

(* No model is configured for the task's tier: run returns, and the crews it
   has spawned are left to themselves. *)
ConfigError ==
  /\ captain = "crews"
  /\ EndBuild("PlanFailed")
  /\ UNCHANGED <<degree, remaining, waves, toStart, handles, completed, failed>>
  /\ Awaited

(* A variant: a select over the handles that stops at the first crew to end. *)
AwaitFirst ==
  /\ captain = "await"
  /\ \E i \in DOMAIN handles :
       /\ crew[handles[i]] \in Ended
       /\ completed' = IF crew[handles[i]] = "done" THEN completed \cup {handles[i]} ELSE completed
       /\ failed' = IF crew[handles[i]] = "failed" THEN failed \cup {handles[i]} ELSE failed
  /\ handles' = <<>>
  /\ UNCHANGED <<captain, degree, remaining, waves, toStart, verdict>>
  /\ Awaited

(* The next handle is awaited.  A crew that panicked is logged. *)
AwaitCrew ==
  /\ captain = "await" /\ handles # <<>>
  /\ LET t == Head(handles)
     IN /\ crew[t] \in Ended
        /\ completed' = IF crew[t] = "done" THEN completed \cup {t} ELSE completed
        /\ failed' = IF crew[t] = "failed" THEN failed \cup {t} ELSE failed
  /\ handles' = Tail(handles)
  /\ UNCHANGED <<captain, degree, remaining, waves, toStart, verdict>>
  /\ Awaited

(* The wave has ended, well or not: on to the next, or to the verdict. *)
WaveEnds ==
  /\ captain = "await" /\ handles = <<>>
  /\ waves' = Tail(waves)
  /\ IF Len(waves) > 1
     THEN captain' = "crews" /\ toStart' = waves[2] /\ UNCHANGED verdict
     ELSE /\ EndBuild(IF failed = {} THEN "PlanCompleted" ELSE "PlanFailed")
          /\ UNCHANGED toStart
  /\ UNCHANGED <<degree, remaining, handles, completed, failed>>
  /\ Awaited

CaptainStep ==
  \/ StartBuild \/ SortWave \/ SortEnds \/ ConfigError \/ AwaitCrew \/ WaveEnds
  \/ \E t \in Task : StartCrew(t)

Work(c) == CrewStep(c) /\ UNCHANGED captainVars

Next == CaptainStep \/ \E c \in Task : Work(c)

Spec == Init /\ [][Next]_vars

(* tokio polls the captain and every crew; a request to a model ends with an
   answer, an error or the client's timeout, a tool call with a result. *)
FairSpec == Spec /\ WF_vars(CaptainStep) /\ \A c \in Task : WF_vars(Work(c))

----------------------------------------------------------------------------
(* Properties *)

(* A crew is started after the crews of all the tasks its own depends on have
   ended and been awaited, in graphs of every shape the sort accepts
   (topological_sort, the waves of SimpleCaptain::run). *)
StartedAfterDeps ==
  \A t \in Node : crew[t] # "unborn" =>
    \A d \in deps[t] : /\ d \in Node /\ crew[d] \in Ended
                       /\ \A i \in DOMAIN handles : handles[i] # d

(* A build that is told complete has run every task of its plan, has no crew
   still at work in the workspace, and none that failed in any wave. *)
CompletedIsOver ==
  verdict = "PlanCompleted" =>
    \A t \in Node : crew[t] \in Ended \ {"failed"} /\ (crew[t] = "done" => t \in completed)

(* Every build ends with PlanCompleted or PlanFailed, and no crew runs on for
   ever, as long as the provider reports what each round used. *)
BuildEnds == <>(verdict # "none" /\ \A c \in Task : crew[c] \notin Active)

----------------------------------------------------------------------------
(* The inductive invariant. *)

(* in_degree counts the dependencies that are in no wave yet, which those that
   name no task never are. *)
Unsorted(t) == deps[t] \ (Node \ remaining)
DegreeCounts == \A t \in Node : degree[t] = Cardinality(Unsorted(t))

(* A sorted task has nothing but sorted dependencies, each in a wave before its
   own; waves that were run are gone. *)
WavesOK ==
  /\ \A i \in DOMAIN waves : waves[i] \subseteq Node \ remaining
  /\ \A i, j \in DOMAIN waves : i # j => waves[i] \cap waves[j] = {}
  /\ \A t \in Node \ remaining : \A d \in deps[t] :
       /\ d \in Node \ remaining
       /\ \A j \in DOMAIN waves : d \in waves[j] => \E i \in DOMAIN waves : i > j /\ t \in waves[i]

InWave(t) == \E i \in DOMAIN waves : t \in waves[i]
Later(t) == \E i \in DOMAIN waves : i > 1 /\ t \in waves[i]
Awaiting(t) == \E i \in DOMAIN handles : handles[i] = t
InFirst(t) == waves # <<>> /\ t \in waves[1]

Unrun == \A t \in Node : crew[t] = "unborn"

(* The crew of t has ended, and how is known to the captain. *)
Recorded(t) ==
  /\ crew[t] \in Ended
  /\ crew[t] = "done" => t \in completed
  /\ crew[t] = "failed" => t \in failed

(* Once all is sorted, a task is still to be started or awaited, or recorded. *)
RunOK ==
  /\ remaining = {}
  /\ \A t \in Node :
       /\ t \in toStart \/ Awaiting(t) => InFirst(t)
       /\ t \in toStart \/ Later(t) => crew[t] = "unborn"
       /\ t \notin toStart /\ ~Later(t) => Awaiting(t) \/ Recorded(t)

StageOK ==
  /\ captain \in {"start", "sort"} =>
       Unrun /\ handles = <<>> /\ \A t \in Node \ remaining : InWave(t)
  /\ captain = "sort" => Node # {}
  /\ captain \in {"crews", "await"} => RunOK /\ waves # <<>>
  /\ captain = "await" => toStart = {}
  /\ captain = "ended" => Unrun \/ RunOK
  /\ captain # "ended" => verdict = "none"
  /\ verdict = "PlanCompleted" => RunOK /\ waves = <<>> /\ toStart = {} /\ handles = <<>> /\ failed = {}

IInv ==
  /\ TypeOK
  /\ \A c \in Task : CallsOK(c)
  /\ DegreeCounts
  /\ WavesOK
  /\ StageOK

----------------------------------------------------------------------------
(* What a build has ahead. *)

CaptainRank == [start |-> 3, sort |-> 2, crews |-> 1, await |-> 1, ended |-> 0]

CrewRank ==
  [unborn |-> 4, tools |-> 3, summarize |-> 2, round |-> 1, done |-> 0, failed |-> 0, panicked |-> 0]

(* The captain: stages, tasks to sort, waves, and of the wave at work the crews
   to start and to await. *)
CaptainAhead ==
  <<CaptainRank[captain], Cardinality(remaining), Len(waves), Cardinality(toStart), Len(handles)>>

(* A crew: tokens, calls of the answer at hand, and how far it is with one. *)
CrewAhead(c) ==
  <<IF tokens[c] < TokenBudget THEN TokenBudget - tokens[c] ELSE 0, batch[c], CrewRank[crew[c]]>>

(* Of two sequences of n numbers, the first is the smaller in its first
   difference. *)
Below(n, a, b) == \E i \in 1..n : a[i] < b[i] /\ \A j \in 1..(i - 1) : a[j] = b[j]

(* Every step of a build shortens what the captain or a crew has ahead, and
   lengthens it for nobody. *)
NearerTheVerdict ==
  [][/\ \/ Below(5, CaptainAhead', CaptainAhead)
        \/ CaptainAhead' = CaptainAhead /\ \E c \in Task : Below(3, CrewAhead(c)', CrewAhead(c))
     /\ \A c \in Task : CrewAhead(c)' = CrewAhead(c) \/ Below(3, CrewAhead(c)', CrewAhead(c))]_vars
=============================================================================
