-------------------------- MODULE SchedulerProofs --------------------------
(***************************************************************************)
(* Theorems about the task dispatcher for every task graph, however ill    *)
(* formed, every placement over sandboxes and every number of workers.     *)
(***************************************************************************)
EXTENDS Scheduler, SchedulerLocks, FiniteSetTheorems, SequenceTheorems, WellFoundedInduction, TLAPS

USE SchedulerAssumption, LocksAssumption

(* Dependency lists name finitely many ids, so what is left to count of them
   has a cardinality, and a smaller rest a smaller one. *)
LEMMA UncountedFinite ==
  ASSUME TypeOK, NEW t \in Task
  PROVE  /\ IsFiniteSet(Uncounted(t))
         /\ Cardinality(Uncounted(t)) \in Nat
<1>1. deps[t] \subseteq TaskId  BY DEF TypeOK
<1>2. Uncounted(t) \subseteq TaskId  BY <1>1 DEF Uncounted
<1>3. IsFiniteSet(Uncounted(t))  BY <1>2, FS_Subset
<1>4. QED  BY <1>3, FS_CardinalityType

(* A step that decrements no counter preserves CounterCounts when it leaves
   no more to count than there was. *)
LEMMA CountersKept ==
  ASSUME TypeOK, CounterCounts, dep_counter' = dep_counter,
         \A t \in Task : Uncounted(t)' \subseteq Uncounted(t)
  PROVE  CounterCounts'
<1> SUFFICES ASSUME NEW t \in Task
             PROVE  dep_counter'[t] >= Cardinality(Uncounted(t)')
  BY DEF CounterCounts
<1>1. /\ IsFiniteSet(Uncounted(t))
      /\ Cardinality(Uncounted(t)) \in Nat
  BY UncountedFinite
<1>2. /\ Cardinality(Uncounted(t)') \in Nat
      /\ Cardinality(Uncounted(t)') <= Cardinality(Uncounted(t))
  BY <1>1, FS_Subset, FS_CardinalityType
<1>3. dep_counter[t] >= Cardinality(Uncounted(t)) /\ dep_counter[t] \in Nat
  BY DEF CounterCounts, TypeOK
<1>4. QED  BY <1>1, <1>2, <1>3

(* A counter at zero has counted every dependency of its task. *)
LEMMA ZeroMeansCompleted ==
  ASSUME TypeOK, NEW t \in Task, Cardinality(Uncounted(t)) <= 0
  PROVE  deps[t] \subseteq completed
<1>1. Uncounted(t) = {}  BY UncountedFinite, FS_EmptySet
<1>2. QED  BY <1>1 DEF Uncounted

----------------------------------------------------------------------------
(* The initial states. *)

LEMMA InitIInv == Init => IInv
<1> SUFFICES ASSUME Init PROVE IInv
  OBVIOUS
<1>1. \A t \in Task : IsFiniteSet(deps[t]) /\ Cardinality(deps[t]) \in Nat
  <2> TAKE t \in Task
  <2>1. deps[t] \subseteq TaskId  BY DEF Init
  <2> QED  BY <2>1, FS_Subset, FS_CardinalityType
<1>2. /\ ready_queues \in [Sandbox -> Seq(Task)]
      /\ \A s \in Sandbox : Range(ready_queues[s]) = {t \in Task : deps[t] = {} /\ Hint[t] = s}
      /\ \A s \in Sandbox : IsInjective(ready_queues[s])
  <2>1. Cardinality(Task) \in Nat  BY FS_Subset, FS_CardinalityType
  <2>2. UNION {[1..n -> Task] : n \in 0..Cardinality(Task)} \subseteq Seq(Task)
    BY <2>1, SeqDef
  <2> QED  BY <2>2 DEF Init, InitialQueues
<1>3. TypeOK
  BY <1>1, <1>2 DEF Init, TypeOK, Location
<1>4. \A w \in Worker : LocalsOK(w)
  BY DEF Init, LocalsOK, Holding, Skipping, Unlocking
<1>5. \A t \in Task : Uncounted(t) = deps[t]
  BY DEF Init, Uncounted
<1>6. CounterCounts
  BY <1>1, <1>5 DEF Init, CounterCounts
<1>7. \A t \in Task : Dispatched(t) => deps[t] = {}
  BY <1>2 DEF Init, Dispatched, Queued, Holds, Holding
<1>8. DispatchedAtZero
  BY <1>7, FS_EmptySet DEF Init, DispatchedAtZero
<1>9. DispatchedAfterDeps
  BY <1>7 DEF DispatchedAfterDeps
<1>10. DispatchedOnce
  <2>1. QueuedOnce
    <3> SUFFICES ASSUME NEW r \in Sandbox, NEW s \in Sandbox,
                        NEW i \in DOMAIN ready_queues[r], NEW j \in DOMAIN ready_queues[s],
                        ready_queues[r][i] = ready_queues[s][j]
                 PROVE  r = s /\ i = j
      BY DEF QueuedOnce
    <3>1. ready_queues[r][i] \in Range(ready_queues[r]) /\ ready_queues[s][j] \in Range(ready_queues[s])
      BY DEF Range
    <3>2. r = s  BY <1>2, <3>1
    <3> QED  BY <1>2, <3>2 DEF IsInjective
  <2> QED  BY <2>1 DEF Init, DispatchedOnce, SoleHolder, QueuedNotTaken, HeldNotTerminal,
                       OutcomesDisjoint, Holds, Holding, Terminal
<1>11. SkippedForCause
  BY DEF Init, SkippedForCause
<1>12. SoleUnlocker
  BY DEF Init, Unlocking, SoleUnlocker
<1> QED  BY <1>3, <1>4, <1>6, <1>8, <1>9, <1>10, <1>11, <1>12 DEF IInv

----------------------------------------------------------------------------
(* The steps. *)

(* What a step preserves that leaves the queues, the counters and the three
   sets alone and puts no task into a worker's hands. *)
LEMMA DispatchKept ==
  ASSUME IInv,
         UNCHANGED <<deps, dep_counter, ready_queues, completed, failed, skipped>>,
         \A v \in Worker, t \in Task : Holds(v, t)' => Holds(v, t)
  PROVE  DispatchedAtZero' /\ DispatchedAfterDeps' /\ DispatchedOnce' /\ SkippedForCause'
<1>1. \A t \in Task : Queued(t)' = Queued(t) /\ Terminal(t)' = Terminal(t)
  BY DEF Queued, Terminal
<1>2. \A t \in Task : Dispatched(t)' => Dispatched(t)
  BY <1>1 DEF Dispatched
<1>3. DispatchedOnce'
  BY <1>1 DEF IInv, DispatchedOnce, SoleHolder, QueuedOnce, QueuedNotTaken, HeldNotTerminal,
              OutcomesDisjoint
<1> QED  BY <1>2, <1>3 DEF IInv, DispatchedAtZero, DispatchedAfterDeps, SkippedForCause,
                            ShouldSkip

(* The steps that only move a handler along: the sets of finished tasks, the
   counters and the queues stay as they are. *)
LEMMA QuietStepIInv ==
  ASSUME IInv, NEW w \in Worker,
         \/ MarkTaskStarted(w) \/ LeaveRunning(w) \/ StoreResult(w)
         \/ SkipPop(w) \/ SkipDone(w) \/ SkipDecide(w)
         \/ UnlockBegin(w) \/ UnlockCheck(w) \/ UnlockEnd(w) \/ Exit(w)
  PROVE  IInv'
<1> USE DEF Goto, Return, schedVars, Holding, Skipping, Unlocking
<1>1. UNCHANGED <<deps, dep_counter, ready_queues, completed, failed, skipped>>
  BY DEF MarkTaskStarted, LeaveRunning, StoreResult, SkipPop, SkipDone, SkipDecide,
         UnlockBegin, UnlockCheck, UnlockEnd, Exit
<1>2. TypeOK'
  <2> TypeOK /\ LocalsOK(w)  BY DEF IInv
  <2> USE DEF TypeOK, Location, LocalsOK
  <2>1. CASE MarkTaskStarted(w)  BY <2>1 DEF MarkTaskStarted
  <2>2. CASE LeaveRunning(w)     BY <2>2 DEF LeaveRunning
  <2>3. CASE StoreResult(w)      BY <2>3 DEF StoreResult
  <2>4. CASE SkipPop(w)
    <3>1. PICK t \in todo[w] :
            /\ todo' = [todo EXCEPT ![w] = @ \ {t}]
            /\ \/ UNCHANGED <<pc, item>>
               \/ pc' = [pc EXCEPT ![w] = "skipDecide"] /\ item' = [item EXCEPT ![w] = t]
      BY <2>4 DEF SkipPop
    <3>2. t \in Task  OBVIOUS
    <3>3. todo' \in [Worker -> SUBSET Task]  BY <3>1
    <3>4. pc' \in [Worker -> Location]  BY <3>1
    <3>5. item' \in [Worker -> Task \cup {None}]
      <4>1. CASE item' = item  BY <4>1
      <4>2. CASE item' = [item EXCEPT ![w] = t]  BY <3>2, <4>2
      <4> QED  BY <3>1, <4>1, <4>2
    <3>6. UNCHANGED <<running, results, task, queueGuard>>  BY <2>4 DEF SkipPop
    <3> QED  BY <1>1, <3>3, <3>4, <3>5, <3>6
  <2>5. CASE SkipDone(w)         BY <2>5 DEF SkipDone
  <2>6. CASE SkipDecide(w)       BY <2>6 DEF SkipDecide
  <2>7. CASE UnlockBegin(w)      BY <2>7 DEF UnlockBegin
  <2>8. CASE UnlockCheck(w)
    <3>1. PICK t \in todo[w] :
            \/ todo' = [todo EXCEPT ![w] = @ \ {t}] /\ UNCHANGED <<pc, item>>
            \/ /\ item' = [item EXCEPT ![w] = t] /\ pc' = [pc EXCEPT ![w] = "unlockCount"]
               /\ UNCHANGED todo
      BY <2>8 DEF UnlockCheck
    <3>2. t \in Task  OBVIOUS
    <3>3. todo' \in [Worker -> SUBSET Task]
      <4>1. CASE todo' = todo  BY <4>1
      <4>2. CASE todo' = [todo EXCEPT ![w] = @ \ {t}]  BY <4>2
      <4> QED  BY <3>1, <4>1, <4>2
    <3>4. pc' \in [Worker -> Location]  BY <3>1
    <3>5. item' \in [Worker -> Task \cup {None}]
      <4>1. CASE item' = item  BY <4>1
      <4>2. CASE item' = [item EXCEPT ![w] = t]  BY <3>2, <4>2
      <4> QED  BY <3>1, <4>1, <4>2
    <3>6. UNCHANGED <<running, results, task, queueGuard>>  BY <2>8 DEF UnlockCheck
    <3> QED  BY <1>1, <3>3, <3>4, <3>5, <3>6
  <2>9. CASE UnlockEnd(w)        BY <2>9 DEF UnlockEnd
  <2>10. CASE Exit(w)            BY <2>10 DEF Exit
  <2> QED  BY <2>1, <2>2, <2>3, <2>4, <2>5, <2>6, <2>7, <2>8, <2>9, <2>10
<1>3. (\A v \in Worker : LocalsOK(v))'
  <2> TypeOK /\ \A v \in Worker : LocalsOK(v)  BY DEF IInv
  <2> USE DEF TypeOK, LocalsOK, ShouldSkip, Dependents
  <2>1. CASE MarkTaskStarted(w)  BY <2>1 DEF MarkTaskStarted
  <2>2. CASE LeaveRunning(w)     BY <2>2 DEF LeaveRunning
  <2>3. CASE StoreResult(w)      BY <2>3 DEF StoreResult
  <2>4. CASE SkipPop(w)          BY <2>4 DEF SkipPop
  <2>5. CASE SkipDone(w)         BY <2>5 DEF SkipDone
  <2>6. CASE SkipDecide(w)       BY <2>6 DEF SkipDecide
  <2>7. CASE UnlockBegin(w)      BY <2>7 DEF UnlockBegin
  <2>8. CASE UnlockCheck(w)
    <3>1. PICK t \in todo[w] :
            \/ todo' = [todo EXCEPT ![w] = @ \ {t}] /\ UNCHANGED <<pc, item>>
            \/ /\ item' = [item EXCEPT ![w] = t] /\ pc' = [pc EXCEPT ![w] = "unlockCount"]
               /\ UNCHANGED todo
      BY <2>8 DEF UnlockCheck
    <3>2. pc[w] = "unlock" /\ UNCHANGED task  BY <2>8 DEF UnlockCheck
    <3>3. CASE todo' = [todo EXCEPT ![w] = @ \ {t}] /\ UNCHANGED <<pc, item>>
      <4>1. \A v \in Worker : todo'[v] \subseteq todo[v]  BY <3>3
      <4> QED  BY <1>1, <3>2, <3>3, <4>1
    <3>4. CASE /\ item' = [item EXCEPT ![w] = t] /\ pc' = [pc EXCEPT ![w] = "unlockCount"]
               /\ UNCHANGED todo
      BY <1>1, <3>1, <3>2, <3>4
    <3> QED  BY <3>1, <3>3, <3>4
  <2>9. CASE UnlockEnd(w)        BY <2>9 DEF UnlockEnd
  <2>10. CASE Exit(w)            BY <2>10 DEF Exit
  <2> QED  BY <2>1, <2>2, <2>3, <2>4, <2>5, <2>6, <2>7, <2>8, <2>9, <2>10
<1> USE DEF MarkTaskStarted, LeaveRunning, StoreResult, SkipPop, SkipDone, SkipDecide,
            UnlockBegin, UnlockCheck, UnlockEnd, Exit
<1>4. CounterCounts'
  <2>1. \A t \in Task : Uncounted(t)' \subseteq Uncounted(t)
    BY DEF IInv, TypeOK, Uncounted
  <2> QED  BY <1>1, <2>1, CountersKept DEF IInv
<1>5. \A v \in Worker, t \in Task : Holds(v, t)' => Holds(v, t)
  BY DEF IInv, TypeOK, Holds
<1>6. SoleUnlocker'
  <2>1. \A v \in Worker : pc'[v] \in Unlocking =>
                            pc[v] \in Unlocking /\ task'[v] = task[v]
    BY DEF IInv, TypeOK
  <2> QED  BY <2>1 DEF IInv, SoleUnlocker
<1> QED  BY <1>1, <1>2, <1>3, <1>4, <1>5, <1>6, DispatchKept DEF IInv

(* Popping the front of a queue. *)
LEMMA PopFront ==
  ASSUME NEW q \in Seq(Task), q # <<>>
  PROVE  /\ Tail(q) \in Seq(Task)
         /\ 1 \in DOMAIN q /\ Head(q) = q[1] /\ Head(q) \in Task
         /\ \A i \in DOMAIN Tail(q) : i \in Nat \ {0} /\ i+1 \in DOMAIN q /\ Tail(q)[i] = q[i+1]
  OBVIOUS

LEMMA GetReadyTaskIInv ==
  ASSUME IInv, NEW w \in Worker, NEW s \in Sandbox, GetReadyTask(w, s)
  PROVE  IInv'
<1>1. /\ ready_queues[s] \in Seq(Task) /\ ready_queues[s] # <<>>
      /\ pc[w] = "idle" /\ pc' = [pc EXCEPT ![w] = "claimed"]
      /\ task' = [task EXCEPT ![w] = Head(ready_queues[s])]
      /\ ready_queues' = [ready_queues EXCEPT ![s] = Tail(@)]
      /\ UNCHANGED <<deps, dep_counter, running, completed, failed, skipped, results,
                     todo, item, queueGuard>>
  BY DEF IInv, TypeOK, GetReadyTask, Goto
<1>2. PICK t \in Task :
        /\ t = Head(ready_queues[s]) /\ t = ready_queues[s][1]
        /\ 1 \in DOMAIN ready_queues[s]
        /\ Tail(ready_queues[s]) \in Seq(Task)
        /\ \A i \in DOMAIN Tail(ready_queues[s]) :
             /\ i \in Nat \ {0} /\ i+1 \in DOMAIN ready_queues[s]
             /\ Tail(ready_queues[s])[i] = ready_queues[s][i+1]
  BY <1>1, PopFront
<1>3. TypeOK'
  BY <1>1, <1>2 DEF IInv, TypeOK, Location, Holding
(* Where an element of a queue was before. *)
<1>4. \A r \in Sandbox : \A i \in DOMAIN ready_queues'[r] :
        \E k \in DOMAIN ready_queues[r] : /\ ready_queues'[r][i] = ready_queues[r][k]
                                          /\ k = IF r = s THEN i + 1 ELSE i
                                          /\ i \in Nat \ {0}
  BY <1>1, <1>2 DEF IInv, TypeOK
<1>5. Queued(t) /\ ~Queued(t)' /\ \A u \in Task : Queued(u)' => Queued(u)
  <2>1. \A u \in Task : Queued(u)' => Queued(u)
    BY <1>4 DEF Queued, Range
  <2>2. Queued(t)
    BY <1>2 DEF Queued, Range
  <2>3. ~Queued(t)'
    <3> SUFFICES ASSUME NEW r \in Sandbox, NEW i \in DOMAIN ready_queues'[r],
                        ready_queues'[r][i] = t
                 PROVE  FALSE
      BY DEF Queued, Range
    <3>1. PICK k \in DOMAIN ready_queues[r] : /\ ready_queues[r][k] = ready_queues[s][1]
                                              /\ k = IF r = s THEN i + 1 ELSE i
                                              /\ i \in Nat \ {0}
      BY <1>2, <1>4
    <3>2. r = s /\ k = 1  BY <1>2, <3>1 DEF IInv, DispatchedOnce, QueuedOnce
    <3> QED  BY <3>1, <3>2
  <2> QED  BY <2>1, <2>2, <2>3
<1>6. \A v \in Worker, u \in Task : Holds(v, u)' <=> Holds(v, u) \/ (v = w /\ u = t)
  BY <1>1, <1>2 DEF IInv, TypeOK, Holds, Holding
<1>7. \A u \in Task : Terminal(u)' = Terminal(u)
  BY <1>1 DEF Terminal
<1>8. (\A v \in Worker : LocalsOK(v))'
  BY <1>1, <1>2 DEF IInv, TypeOK, LocalsOK, ShouldSkip, Dependents, Holding, Skipping, Unlocking
<1>9. CounterCounts'
  <2>1. \A u \in Task : Uncounted(u)' \subseteq Uncounted(u)
    BY <1>1 DEF IInv, TypeOK, Uncounted, Unlocking
  <2> QED  BY <1>1, <2>1, CountersKept DEF IInv
<1>10. \A u \in Task : Dispatched(u)' => Dispatched(u)
  BY <1>1, <1>5, <1>6 DEF Dispatched
<1>11. DispatchedAtZero' /\ DispatchedAfterDeps' /\ SkippedForCause'
  BY <1>1, <1>10 DEF IInv, DispatchedAtZero, DispatchedAfterDeps, SkippedForCause, ShouldSkip
<1>12. DispatchedOnce'
  <2>1. SoleHolder'
    BY <1>5, <1>6 DEF IInv, DispatchedOnce, SoleHolder, QueuedNotTaken
  <2>2. QueuedOnce'
    <3> SUFFICES ASSUME NEW r \in Sandbox, NEW q \in Sandbox,
                        NEW i \in DOMAIN ready_queues'[r], NEW j \in DOMAIN ready_queues'[q],
                        ready_queues'[r][i] = ready_queues'[q][j]
                 PROVE  r = q /\ i = j
      BY DEF QueuedOnce
    <3>1. PICK k \in DOMAIN ready_queues[r] : /\ ready_queues'[r][i] = ready_queues[r][k]
                                              /\ k = IF r = s THEN i + 1 ELSE i
                                              /\ i \in Nat \ {0}
      BY <1>4
    <3>2. PICK l \in DOMAIN ready_queues[q] : /\ ready_queues'[q][j] = ready_queues[q][l]
                                              /\ l = IF q = s THEN j + 1 ELSE j
                                              /\ j \in Nat \ {0}
      BY <1>4
    <3>3. ready_queues[r][k] = ready_queues[q][l]  BY <3>1, <3>2
    <3>4. QueuedOnce  BY DEF IInv, DispatchedOnce
    <3>5. r = q /\ k = l  BY <3>3, <3>4 DEF QueuedOnce
    <3> QED  BY <3>1, <3>2, <3>5
  <2>3. \A u \in Task : /\ Queued(u) => ~Terminal(u) /\ \A v \in Worker : ~Holds(v, u)
                        /\ \A v \in Worker : Holds(v, u) => ~Terminal(u)
    BY DEF IInv, DispatchedOnce, QueuedNotTaken, HeldNotTerminal
  <2>4. QueuedNotTaken'
    BY <1>5, <1>6, <1>7, <2>3 DEF QueuedNotTaken
  <2>5. HeldNotTerminal'
    BY <1>5, <1>6, <1>7, <2>3 DEF HeldNotTerminal
  <2>6. OutcomesDisjoint'
    BY <1>1 DEF IInv, DispatchedOnce, OutcomesDisjoint
  <2> QED  BY <2>1, <2>2, <2>4, <2>5, <2>6 DEF DispatchedOnce
<1>13. SoleUnlocker'
  BY <1>1 DEF IInv, TypeOK, SoleUnlocker, Unlocking
<1> QED  BY <1>3, <1>8, <1>9, <1>11, <1>12, <1>13 DEF IInv

LEMMA MarkFailedIInv ==
  ASSUME IInv, NEW w \in Worker, MarkFailed(w)
  PROVE  IInv'
<1>1. PICK t \in Task :
        /\ t = task[w] /\ Holds(w, t)
        /\ failed' = failed \cup {t}
        /\ todo' = [todo EXCEPT ![w] = Dependents(t)]
        /\ pc[w] = "markErr" /\ pc' = [pc EXCEPT ![w] = "skip"]
        /\ UNCHANGED <<deps, dep_counter, ready_queues, running, completed, skipped, results,
                       task, item, queueGuard>>
  BY DEF IInv, LocalsOK, MarkFailed, Goto, Holds, Holding
<1>2. TypeOK'
  BY <1>1 DEF IInv, TypeOK, Location, Holding, Skipping, Dependents
<1>3. /\ \A u \in Task : Queued(u)' = Queued(u)
      /\ \A u \in Task : Terminal(u)' <=> Terminal(u) \/ u = t
  BY <1>1 DEF Queued, Terminal
<1>4. \A v \in Worker, u \in Task : Holds(v, u)' => Holds(v, u) /\ u # t
  BY <1>1 DEF IInv, TypeOK, Holds, Holding, DispatchedOnce, SoleHolder
<1>5. (\A v \in Worker : LocalsOK(v))'
  BY <1>1 DEF IInv, TypeOK, LocalsOK, ShouldSkip, Dependents, Holding, Skipping, Unlocking
<1>6. CounterCounts'
  <2>1. \A u \in Task : Uncounted(u)' \subseteq Uncounted(u)
    BY <1>1 DEF IInv, TypeOK, Uncounted, Unlocking
  <2> QED  BY <1>1, <2>1, CountersKept DEF IInv
<1>7. \A u \in Task : Dispatched(u)' => Dispatched(u)
  BY <1>1, <1>3, <1>4 DEF Dispatched
<1>8. DispatchedAtZero' /\ DispatchedAfterDeps' /\ SkippedForCause'
  BY <1>1, <1>7 DEF IInv, DispatchedAtZero, DispatchedAfterDeps, SkippedForCause, ShouldSkip
<1>9. DispatchedOnce'
  <2>1. ~Terminal(t) /\ ~Queued(t)
    BY <1>1 DEF IInv, DispatchedOnce, HeldNotTerminal, QueuedNotTaken
  <2>2. SoleHolder' /\ QueuedOnce'
    BY <1>1, <1>4 DEF IInv, DispatchedOnce, SoleHolder, QueuedOnce
  <2>3. QueuedNotTaken' /\ HeldNotTerminal'
    BY <1>3, <1>4, <2>1 DEF IInv, DispatchedOnce, QueuedNotTaken, HeldNotTerminal
  <2>4. OutcomesDisjoint'
    BY <1>1, <2>1 DEF IInv, DispatchedOnce, OutcomesDisjoint, Terminal
  <2> QED  BY <2>2, <2>3, <2>4 DEF DispatchedOnce
<1>10. SoleUnlocker'
  BY <1>1 DEF IInv, TypeOK, SoleUnlocker, Unlocking
<1> QED  BY <1>2, <1>5, <1>6, <1>8, <1>9, <1>10 DEF IInv

LEMMA MarkCompletedIInv ==
  ASSUME IInv, NEW w \in Worker, MarkCompleted(w)
  PROVE  IInv'
<1>1. PICK t \in Task :
        /\ t = task[w] /\ Holds(w, t)
        /\ completed' = completed \cup {t}
        /\ todo' = [todo EXCEPT ![w] = Dependents(t)]
        /\ pc[w] = "markOk"
        /\ \/ /\ Dependents(t) = {} /\ pc' = [pc EXCEPT ![w] = "idle"]
              /\ task' = [task EXCEPT ![w] = None]
           \/ pc' = [pc EXCEPT ![w] = "unlockWait"] /\ task' = task
        /\ UNCHANGED <<deps, dep_counter, ready_queues, running, failed, skipped, results,
                       item, queueGuard>>
  BY DEF IInv, LocalsOK, MarkCompleted, Goto, Return, Holds, Holding
<1>2. TypeOK'
  <2>1. pc' \in [Worker -> Location] /\ task' \in [Worker -> Task \cup {None}]
    BY <1>1 DEF IInv, TypeOK, Location, Unlocking
  <2>2. todo' \in [Worker -> SUBSET Task]
    BY <1>1 DEF IInv, TypeOK, Dependents
  <2> QED  BY <1>1, <2>1, <2>2 DEF IInv, TypeOK
<1>3. /\ \A u \in Task : Queued(u)' = Queued(u)
      /\ \A u \in Task : Terminal(u)' <=> Terminal(u) \/ u = t
  BY <1>1 DEF Queued, Terminal
<1>4. \A v \in Worker, u \in Task : Holds(v, u)' => Holds(v, u) /\ u # t
  BY <1>1 DEF IInv, TypeOK, Holds, Holding, DispatchedOnce, SoleHolder
<1>5. ~Terminal(t) /\ ~Queued(t)
  BY <1>1 DEF IInv, DispatchedOnce, HeldNotTerminal, QueuedNotTaken
<1>6. (\A v \in Worker : LocalsOK(v))'
  <2>1. TypeOK /\ \A v \in Worker : LocalsOK(v)  BY DEF IInv
  <2>2. ASSUME NEW v \in Worker, v # w PROVE LocalsOK(v)'
    BY <1>1, <2>1, <2>2 DEF TypeOK, LocalsOK, ShouldSkip, Dependents
  <2>3. LocalsOK(w)'
    BY <1>1, <2>1 DEF TypeOK, LocalsOK, Dependents, Holding, Skipping, Unlocking
  <2> QED  BY <2>2, <2>3
<1>7. CounterCounts'
  <2>1. ASSUME NEW u \in Task, NEW d \in Uncounted(u)'
        PROVE  d \in Uncounted(u)
    <3>1. CASE d = t  BY <1>1, <1>5, <2>1, <3>1 DEF Uncounted, Terminal
    <3>2. CASE d # t
      BY <1>1, <2>1, <3>2 DEF IInv, TypeOK, Uncounted, Unlocking
    <3> QED  BY <3>1, <3>2
  <2> QED  BY <1>1, <2>1, CountersKept DEF IInv
<1>8. \A u \in Task : Dispatched(u)' => Dispatched(u)
  BY <1>1, <1>3, <1>4 DEF Dispatched
<1>9. DispatchedAtZero' /\ DispatchedAfterDeps' /\ SkippedForCause'
  BY <1>1, <1>8 DEF IInv, DispatchedAtZero, DispatchedAfterDeps, SkippedForCause, ShouldSkip
<1>10. DispatchedOnce'
  <2>1. SoleHolder' /\ QueuedOnce'
    BY <1>1, <1>4 DEF IInv, DispatchedOnce, SoleHolder, QueuedOnce
  <2>2. QueuedNotTaken' /\ HeldNotTerminal'
    BY <1>3, <1>4, <1>5 DEF IInv, DispatchedOnce, QueuedNotTaken, HeldNotTerminal
  <2>3. OutcomesDisjoint'
    BY <1>1, <1>5 DEF IInv, DispatchedOnce, OutcomesDisjoint, Terminal
  <2> QED  BY <2>1, <2>2, <2>3 DEF DispatchedOnce
<1>11. SoleUnlocker'
  <2>1. \A v \in Worker : pc[v] \in Unlocking => task[v] # t
    BY <1>5 DEF IInv, LocalsOK, Terminal
  <2>2. \A v \in Worker : v # w => pc'[v] = pc[v] /\ task'[v] = task[v]
    BY <1>1 DEF IInv, TypeOK
  <2>3. pc'[w] \in Unlocking => task'[w] = t
    BY <1>1 DEF IInv, TypeOK, Unlocking
  <2> QED  BY <2>1, <2>2, <2>3 DEF IInv, SoleUnlocker
<1> QED  BY <1>2, <1>6, <1>7, <1>9, <1>10, <1>11 DEF IInv

(* A worker about to skip t has seen a failed or skipped dependency of it, so
   t can be neither queued nor held nor finished: those it had completed. *)
LEMMA SkipInsertIInv ==
  ASSUME IInv, NEW w \in Worker, SkipInsert(w)
  PROVE  IInv'
<1>1. PICK t \in Task :
        /\ t = item[w] /\ ShouldSkip(t)
        /\ skipped' = skipped \cup {t}
        /\ pc[w] = "skipInsert" /\ pc' = [pc EXCEPT ![w] = "skipPurge"]
        /\ UNCHANGED <<deps, dep_counter, ready_queues, running, completed, failed, results,
                       task, todo, item, queueGuard>>
  BY DEF IInv, LocalsOK, SkipInsert, Goto
<1>2. ~Dispatched(t)
  <2>1. PICK d \in deps[t] : d \in failed \cup skipped
    BY <1>1 DEF ShouldSkip
  <2>2. d \notin completed
    BY <2>1 DEF IInv, DispatchedOnce, OutcomesDisjoint
  <2> QED  BY <2>1, <2>2 DEF IInv, DispatchedAfterDeps
<1>3. t \notin completed \cup failed /\ ~Queued(t) /\ \A v \in Worker : ~Holds(v, t)
  BY <1>2 DEF Dispatched
<1>4. TypeOK'
  BY <1>1 DEF IInv, TypeOK, Location, Skipping
<1>5. /\ \A u \in Task : Queued(u)' = Queued(u)
      /\ \A u \in Task : Terminal(u)' <=> Terminal(u) \/ u = t
  BY <1>1 DEF Queued, Terminal
<1>6. \A v \in Worker, u \in Task : Holds(v, u)' => Holds(v, u)
  BY <1>1 DEF IInv, TypeOK, Holds, Holding
<1>7. (\A v \in Worker : LocalsOK(v))'
  BY <1>1 DEF IInv, TypeOK, LocalsOK, ShouldSkip, Dependents, Holding, Skipping, Unlocking
<1>8. CounterCounts'
  <2>1. \A u \in Task : Uncounted(u)' \subseteq Uncounted(u)
    BY <1>1 DEF IInv, TypeOK, Uncounted, Unlocking
  <2> QED  BY <1>1, <2>1, CountersKept DEF IInv
<1>9. \A u \in Task : Dispatched(u)' => Dispatched(u)
  BY <1>1, <1>5, <1>6 DEF Dispatched
<1>10. DispatchedAtZero' /\ DispatchedAfterDeps'
  BY <1>1, <1>9 DEF IInv, DispatchedAtZero, DispatchedAfterDeps
<1>11. SkippedForCause'
  BY <1>1 DEF IInv, SkippedForCause, ShouldSkip
<1>12. DispatchedOnce'
  <2>1. SoleHolder' /\ QueuedOnce'
    BY <1>1, <1>6 DEF IInv, DispatchedOnce, SoleHolder, QueuedOnce
  <2>2. QueuedNotTaken' /\ HeldNotTerminal'
    BY <1>3, <1>5, <1>6 DEF IInv, DispatchedOnce, QueuedNotTaken, HeldNotTerminal
  <2>3. OutcomesDisjoint'
    BY <1>1, <1>3 DEF IInv, DispatchedOnce, OutcomesDisjoint
  <2> QED  BY <2>1, <2>2, <2>3 DEF DispatchedOnce
<1>13. SoleUnlocker'
  BY <1>1 DEF IInv, TypeOK, SoleUnlocker, Unlocking
<1> QED  BY <1>4, <1>7, <1>8, <1>10, <1>11, <1>12, <1>13 DEF IInv

(* The purge finds nothing to remove: a skipped task is in no queue. *)
LEMMA SkipPurgeIInv ==
  ASSUME IInv, NEW w \in Worker, SkipPurge(w)
  PROVE  IInv'
<1>1. PICK t \in Task :
        /\ t = item[w] /\ t \in skipped
        /\ ready_queues' = [s \in Sandbox |-> Without(ready_queues[s], t)]
        /\ todo' = [todo EXCEPT ![w] = @ \cup Dependents(t)]
        /\ item' = [item EXCEPT ![w] = None]
        /\ pc[w] = "skipPurge" /\ pc' = [pc EXCEPT ![w] = "skip"]
        /\ UNCHANGED <<deps, dep_counter, running, completed, failed, skipped, results,
                       task, queueGuard>>
  BY DEF IInv, LocalsOK, SkipPurge, Goto
<1>2. ready_queues' = ready_queues
  <2>1. ~Queued(t)
    BY <1>1 DEF IInv, DispatchedOnce, QueuedNotTaken, Terminal
  <2>2. \A s \in Sandbox : Without(ready_queues[s], t) = ready_queues[s]
    BY <2>1 DEF Queued, Without
  <2> QED  BY <1>1, <2>2 DEF IInv, TypeOK
<1>3. TypeOK'
  <2>1. todo' \in [Worker -> SUBSET Task]
    BY <1>1 DEF IInv, TypeOK, Dependents
  <2> QED  BY <1>1, <1>2, <2>1 DEF IInv, TypeOK, Location, Skipping
<1>4. (\A v \in Worker : LocalsOK(v))'
  BY <1>1 DEF IInv, TypeOK, LocalsOK, ShouldSkip, Dependents, Holding, Skipping, Unlocking
<1>5. CounterCounts'
  <2>1. \A u \in Task : Uncounted(u)' \subseteq Uncounted(u)
    BY <1>1 DEF IInv, TypeOK, Uncounted, Unlocking
  <2> QED  BY <1>1, <2>1, CountersKept DEF IInv
<1>6. \A v \in Worker, u \in Task : Holds(v, u)' => Holds(v, u)
  BY <1>1 DEF IInv, TypeOK, Holds, Holding
<1>7. SoleUnlocker'
  BY <1>1 DEF IInv, TypeOK, SoleUnlocker, Unlocking
<1> QED  BY <1>1, <1>2, <1>3, <1>4, <1>5, <1>6, <1>7, DispatchKept DEF IInv

(* The end of a queue. *)
LEMMA AppendBack ==
  ASSUME NEW q \in Seq(Task), NEW t \in Task
  PROVE  /\ Append(q, t) \in Seq(Task)
         /\ \A i \in DOMAIN Append(q, t) :
              \/ i \in DOMAIN q /\ Append(q, t)[i] = q[i]
              \/ i = Len(q) + 1 /\ i \notin DOMAIN q /\ Append(q, t)[i] = t
  OBVIOUS

(* The step that counts the completion of d for its dependent t.  The task
   becomes ready exactly when its counter leaves 1, and a counter never lags
   behind what is still to count. *)
LEMMA UnlockCountIInv ==
  ASSUME IInv, NEW w \in Worker, UnlockCount(w)
  PROVE  IInv'
<1>1. PICK t \in Task, d \in Task :
        /\ t = item[w] /\ d = task[w] /\ d \in completed /\ t \in todo[w]
        /\ d \in deps[t]
        /\ dep_counter' = [dep_counter EXCEPT ![t] = @ - 1]
        /\ ready_queues' = IF dep_counter[t] = 1
                           THEN [ready_queues EXCEPT ![Hint[t]] = Append(@, t)]
                           ELSE ready_queues
        /\ todo' = [todo EXCEPT ![w] = @ \ {t}]
        /\ item' = [item EXCEPT ![w] = None]
        /\ pc[w] = "unlockCount" /\ pc' = [pc EXCEPT ![w] = "unlock"]
        /\ UNCHANGED <<deps, running, completed, failed, skipped, results, task, queueGuard>>
  BY DEF IInv, LocalsOK, UnlockCount, Goto, Dependents, Unlocking
(* What is left to count of t loses d, and nothing of any other task's. *)
<1>2. /\ d \in Uncounted(t)
      /\ Uncounted(t)' \subseteq Uncounted(t) \ {d}
  <2>1. d \in Uncounted(t)
    BY <1>1 DEF Uncounted, Unlocking
  <2>2. ASSUME NEW v \in Worker, pc'[v] \in Unlocking, task'[v] = d, t \in todo'[v]
        PROVE  FALSE
    <3>1. v # w  BY <1>1, <2>2 DEF IInv, TypeOK
    <3>2. pc[v] \in Unlocking /\ task[v] = d /\ pc[w] \in Unlocking /\ task[w] = d
      BY <1>1, <2>2, <3>1 DEF IInv, TypeOK, Unlocking
    <3> QED  BY <3>1, <3>2 DEF IInv, SoleUnlocker
  <2>3. ASSUME NEW e \in Uncounted(t)' PROVE e \in Uncounted(t) /\ e # d
    <3>1. e \in Uncounted(t)
      BY <1>1, <2>3 DEF IInv, TypeOK, Uncounted, Unlocking
    <3>2. e # d
      BY <1>1, <2>2, <2>3 DEF Uncounted
    <3> QED  BY <3>1, <3>2
  <2> QED  BY <2>1, <2>3
<1>3. \A u \in Task : Uncounted(u)' \subseteq Uncounted(u)
  BY <1>1 DEF IInv, TypeOK, Uncounted, Unlocking
<1>4. /\ dep_counter[t] \in Nat /\ dep_counter[t] >= 1
      /\ Cardinality(Uncounted(t)') \in Nat
      /\ dep_counter[t] - 1 >= Cardinality(Uncounted(t)')
  <2>1. IsFiniteSet(Uncounted(t)) /\ Cardinality(Uncounted(t)) \in Nat
    BY UncountedFinite DEF IInv
  <2>2. /\ IsFiniteSet(Uncounted(t) \ {d})
        /\ Cardinality(Uncounted(t) \ {d}) = Cardinality(Uncounted(t)) - 1
    BY <1>2, <2>1, FS_RemoveElement
  <2>3. /\ Cardinality(Uncounted(t)') \in Nat
        /\ Cardinality(Uncounted(t)') <= Cardinality(Uncounted(t) \ {d})
    BY <1>2, <2>2, FS_Subset, FS_CardinalityType
  <2>4. dep_counter[t] \in Nat /\ dep_counter[t] >= Cardinality(Uncounted(t))
    BY DEF IInv, TypeOK, CounterCounts
  <2> QED  BY <2>1, <2>2, <2>3, <2>4
<1>5. ready_queues' \in [Sandbox -> Seq(Task)] /\ Hint[t] \in Sandbox
  <2>1. Hint[t] \in Sandbox  OBVIOUS
  <2>2. ready_queues \in [Sandbox -> Seq(Task)]  BY DEF IInv, TypeOK
  <2>3. Append(ready_queues[Hint[t]], t) \in Seq(Task)  BY <2>1, <2>2, AppendBack
  <2> QED  BY <1>1, <2>1, <2>2, <2>3
<1>6. TypeOK'
  <2>1. dep_counter' \in [Task -> Nat]
    BY <1>1, <1>4 DEF IInv, TypeOK
  <2>2. todo' \in [Worker -> SUBSET Task]
    BY <1>1 DEF IInv, TypeOK
  <2>3. pc' \in [Worker -> Location]
    BY <1>1 DEF IInv, TypeOK, Location, Unlocking
  <2>4. item' \in [Worker -> Task \cup {None}]
    BY <1>1 DEF IInv, TypeOK
  <2> QED  BY <1>1, <1>5, <2>1, <2>2, <2>3, <2>4 DEF IInv, TypeOK
<1>7. (\A v \in Worker : LocalsOK(v))'
  <2>1. TypeOK /\ \A v \in Worker : LocalsOK(v)  BY DEF IInv
  <2>2. ASSUME NEW v \in Worker, v # w PROVE LocalsOK(v)'
    <3>1. pc'[v] = pc[v] /\ todo'[v] = todo[v] /\ item'[v] = item[v]
      BY <1>1, <2>1, <2>2 DEF TypeOK
    <3> QED  BY <1>1, <2>1, <3>1 DEF LocalsOK, ShouldSkip, Dependents
  <2>3. LocalsOK(w)'
    <3>1. pc'[w] = "unlock" /\ todo'[w] \subseteq todo[w]
      BY <1>1, <2>1 DEF TypeOK
    <3> QED  BY <1>1, <2>1, <3>1 DEF LocalsOK, Dependents, Holding, Skipping, Unlocking
  <2> QED  BY <2>2, <2>3
<1>8. CounterCounts'
  <2> SUFFICES ASSUME NEW u \in Task
               PROVE  dep_counter'[u] >= Cardinality(Uncounted(u)')
    BY DEF CounterCounts
  <2>1. CASE u = t
    BY <1>1, <1>4, <2>1 DEF IInv, TypeOK
  <2>2. CASE u # t
    <3>1. IsFiniteSet(Uncounted(u)) /\ Cardinality(Uncounted(u)) \in Nat
      BY UncountedFinite DEF IInv
    <3>2. /\ Cardinality(Uncounted(u)') \in Nat
          /\ Cardinality(Uncounted(u)') <= Cardinality(Uncounted(u))
      BY <1>3, <3>1, FS_Subset, FS_CardinalityType
    <3>3. dep_counter'[u] = dep_counter[u] /\ dep_counter[u] \in Nat
      BY <1>1, <2>2 DEF IInv, TypeOK
    <3>4. dep_counter[u] >= Cardinality(Uncounted(u))
      BY DEF IInv, CounterCounts
    <3> QED  BY <3>1, <3>2, <3>3, <3>4
  <2> QED  BY <2>1, <2>2
<1>9. \A v \in Worker, u \in Task : Holds(v, u)' <=> Holds(v, u)
  BY <1>1 DEF IInv, TypeOK, Holds, Holding
(* A task still to be counted has not been dispatched, and is not skipped when
   nothing but d is missing. *)
<1>10. ~Dispatched(t)
  BY <1>4 DEF IInv, DispatchedAtZero
<1>11. /\ \A u \in Task : Queued(u)' => Queued(u) \/ (u = t /\ dep_counter[t] = 1)
       /\ \A u \in Task : Terminal(u)' = Terminal(u)
  <2>1. ASSUME NEW u \in Task, NEW s \in Sandbox, NEW i \in DOMAIN ready_queues'[s],
               ready_queues'[s][i] = u
        PROVE  Queued(u) \/ (u = t /\ dep_counter[t] = 1)
    <3>1. ready_queues[s] \in Seq(Task)  BY DEF IInv, TypeOK
    <3>2. CASE dep_counter[t] = 1 /\ s = Hint[t]
      <4>1. ready_queues'[s] = Append(ready_queues[s], t)
        BY <1>1, <1>5, <3>2 DEF IInv, TypeOK
      <4>2. \/ i \in DOMAIN ready_queues[s] /\ ready_queues[s][i] = u
            \/ u = t
        BY <2>1, <3>1, <4>1, AppendBack
      <4> QED  BY <3>2, <4>2 DEF Queued, Range
    <3>3. CASE ~(dep_counter[t] = 1 /\ s = Hint[t])
      <4>1. ready_queues'[s] = ready_queues[s]
        BY <1>1, <1>5, <3>3 DEF IInv, TypeOK
      <4> QED  BY <2>1, <4>1 DEF Queued, Range
    <3> QED  BY <3>2, <3>3
  <2>2. \A u \in Task : Queued(u)' => Queued(u) \/ (u = t /\ dep_counter[t] = 1)
    BY <2>1 DEF Queued, Range
  <2> QED  BY <1>1, <2>2 DEF Terminal
<1>12. dep_counter[t] = 1 => deps[t] \subseteq completed
  <2> SUFFICES ASSUME dep_counter[t] = 1 PROVE deps[t] \subseteq completed
    OBVIOUS
  <2>1. IsFiniteSet(Uncounted(t)) /\ IsFiniteSet(Uncounted(t)')
    BY <1>3, UncountedFinite, FS_Subset DEF IInv
  <2>2. Uncounted(t)' = {}
    BY <1>4, <2>1, FS_EmptySet
  <2> QED  BY <1>1, <2>2 DEF Uncounted
<1>13. dep_counter[t] = 1 => ~Terminal(t)
  <2>1. dep_counter[t] = 1 => ~ShouldSkip(t)
    BY <1>12 DEF ShouldSkip, IInv, DispatchedOnce, OutcomesDisjoint
  <2> QED  BY <1>10, <2>1 DEF Dispatched, Terminal, IInv, SkippedForCause
<1>14. \A u \in Task : Dispatched(u)' => Dispatched(u) \/ (u = t /\ dep_counter[t] = 1)
  BY <1>1, <1>9, <1>11 DEF Dispatched
<1>15. DispatchedAtZero'
  <2> SUFFICES ASSUME NEW u \in Task, Dispatched(u)' PROVE dep_counter'[u] = 0
    BY DEF DispatchedAtZero
  <2>1. CASE Dispatched(u)
    <3>1. u # t  BY <1>10, <2>1
    <3> QED  BY <1>1, <2>1, <3>1 DEF IInv, DispatchedAtZero, TypeOK
  <2>2. CASE u = t /\ dep_counter[t] = 1
    BY <1>1, <2>2 DEF IInv, TypeOK
  <2> QED  BY <1>14, <2>1, <2>2
<1>16. DispatchedAfterDeps' /\ SkippedForCause'
  BY <1>1, <1>12, <1>14 DEF IInv, DispatchedAfterDeps, SkippedForCause, ShouldSkip
<1>17. QueuedOnce'
  <2>1. CASE dep_counter[t] # 1
    BY <1>1, <2>1 DEF IInv, DispatchedOnce, QueuedOnce
  <2>2. CASE dep_counter[t] = 1
    <3>1. ~Queued(t)  BY <1>10 DEF Dispatched
    <3>2. \A s \in Sandbox : \A i \in DOMAIN ready_queues'[s] :
            \/ i \in DOMAIN ready_queues[s] /\ ready_queues'[s][i] = ready_queues[s][i]
               /\ ready_queues[s][i] # t
            \/ /\ s = Hint[t] /\ i = Len(ready_queues[s]) + 1
               /\ ready_queues'[s][i] = t
      <4> SUFFICES ASSUME NEW s \in Sandbox, NEW i \in DOMAIN ready_queues'[s]
                   PROVE  \/ i \in DOMAIN ready_queues[s] /\ ready_queues'[s][i] = ready_queues[s][i]
                             /\ ready_queues[s][i] # t
                          \/ /\ s = Hint[t] /\ i = Len(ready_queues[s]) + 1
                             /\ ready_queues'[s][i] = t
        OBVIOUS
      <4>1. \A j \in DOMAIN ready_queues[s] : ready_queues[s][j] # t
        BY <3>1 DEF Queued, Range
      <4>2. ready_queues[s] \in Seq(Task)  BY DEF IInv, TypeOK
      <4>3. CASE s = Hint[t]
        <5>1. ready_queues'[s] = Append(ready_queues[s], t)
          BY <1>1, <2>2, <4>3 DEF IInv, TypeOK
        <5> QED  BY <4>1, <4>2, <4>3, <5>1, AppendBack
      <4>4. CASE s # Hint[t]
        <5>1. ready_queues'[s] = ready_queues[s]
          BY <1>1, <2>2, <4>4 DEF IInv, TypeOK
        <5> QED  BY <4>1, <5>1
      <4> QED  BY <4>3, <4>4
    <3> QED  BY <3>2 DEF IInv, DispatchedOnce, QueuedOnce
  <2> QED  BY <2>1, <2>2
<1>18. DispatchedOnce'
  <2>1. SoleHolder'
    BY <1>9 DEF IInv, DispatchedOnce, SoleHolder
  <2>2. \A u \in Task : /\ Queued(u)' => ~Terminal(u) /\ \A v \in Worker : ~Holds(v, u)
                        /\ \A v \in Worker : Holds(v, u) => ~Terminal(u)
    BY <1>10, <1>11, <1>13 DEF IInv, DispatchedOnce, QueuedNotTaken, HeldNotTerminal, Dispatched
  <2>3. QueuedNotTaken' /\ HeldNotTerminal'
    BY <1>9, <1>11, <2>2 DEF QueuedNotTaken, HeldNotTerminal
  <2>4. OutcomesDisjoint'
    BY <1>1 DEF IInv, DispatchedOnce, OutcomesDisjoint
  <2> QED  BY <1>17, <2>1, <2>3, <2>4 DEF DispatchedOnce
<1>19. SoleUnlocker'
  BY <1>1 DEF IInv, TypeOK, SoleUnlocker, Unlocking
<1> QED  BY <1>6, <1>7, <1>8, <1>15, <1>16, <1>18, <1>19 DEF IInv

----------------------------------------------------------------------------
(* The theorems. *)

LEMMA StutterIInv == ASSUME IInv, UNCHANGED vars PROVE IInv'
<1>1. /\ UNCHANGED <<deps, dep_counter, ready_queues, running, completed, failed, skipped>>
      /\ UNCHANGED <<results, pc, task, todo, item, queueGuard>>
  BY DEF vars, schedVars, callVars
<1>2. TypeOK'
  BY <1>1 DEF IInv, TypeOK
<1>3. (\A v \in Worker : LocalsOK(v))'
  BY <1>1 DEF IInv, LocalsOK, ShouldSkip, Dependents
<1>4. CounterCounts'
  <2>1. \A u \in Task : Uncounted(u)' \subseteq Uncounted(u)
    BY <1>1 DEF Uncounted
  <2> QED  BY <1>1, <2>1, CountersKept DEF IInv
<1>5. \A v \in Worker, t \in Task : Holds(v, t)' => Holds(v, t)
  BY <1>1 DEF Holds
<1>6. SoleUnlocker'
  BY <1>1 DEF IInv, SoleUnlocker
<1> QED  BY <1>1, <1>2, <1>3, <1>4, <1>5, <1>6, DispatchKept DEF IInv

LEMMA NextIInv == IInv /\ [Next]_vars => IInv'
<1> SUFFICES ASSUME IInv, Next PROVE IInv'
  BY StutterIInv
<1>1. PICK w \in Worker : Step(w)  BY DEF Next
<1>2. CASE \E s \in Sandbox : GetReadyTask(w, s)  BY <1>2, GetReadyTaskIInv
<1>3. CASE MarkFailed(w)     BY <1>3, MarkFailedIInv
<1>4. CASE MarkCompleted(w)  BY <1>4, MarkCompletedIInv
<1>5. CASE SkipInsert(w)     BY <1>5, SkipInsertIInv
<1>6. CASE SkipPurge(w)      BY <1>6, SkipPurgeIInv
<1>7. CASE UnlockCount(w)    BY <1>7, UnlockCountIInv
<1>8. CASE \/ MarkTaskStarted(w) \/ LeaveRunning(w) \/ StoreResult(w)
           \/ SkipPop(w) \/ SkipDone(w) \/ SkipDecide(w)
           \/ UnlockBegin(w) \/ UnlockCheck(w) \/ UnlockEnd(w) \/ Exit(w)
  BY <1>8, QuietStepIInv
<1> QED  BY <1>1, <1>2, <1>3, <1>4, <1>5, <1>6, <1>7, <1>8 DEF Step

(* The inductive invariant: a counter never runs ahead of the completions that
   unlock loops have announced to it. *)
THEOREM Invariance == Spec => []IInv
BY InitIInv, NextIInv, PTL DEF Spec

(* Every variable keeps its type; in particular no AtomicUsize dependency
   counter is decremented below zero, where it would wrap around. *)
THEOREM TypeCorrect == Spec => []TypeOK
BY Invariance, PTL DEF IInv

(* No task is queued, run or completed before all of its dependencies. *)
THEOREM DependenciesFirst == Spec => []DispatchedAfterDeps
BY Invariance, PTL DEF IInv

(* No task is given to two workers, queued twice, or recorded as over in two
   ways. *)
THEOREM AtMostOnce == Spec => []DispatchedOnce
BY Invariance, PTL DEF IInv

----------------------------------------------------------------------------
(* Leaving the pool. *)

(* The three counts a worker adds up count no task twice. *)
LEMMA CountedOnce ==
  ASSUME TypeOK, OutcomesDisjoint
  PROVE  Resolved = Cardinality(completed \cup failed \cup skipped)
<1> DEFINE ended  == completed \cup failed
           all    == ended \cup skipped
<1>1. /\ IsFiniteSet(Task) /\ completed \subseteq Task /\ failed \subseteq Task
      /\ skipped \subseteq Task
  BY FS_Subset DEF TypeOK
<1>2. IsFiniteSet(completed) /\ IsFiniteSet(failed) /\ IsFiniteSet(skipped)
  BY <1>1, FS_Subset
<1>3. completed \cap failed = {} /\ ended \cap skipped = {}
  BY DEF OutcomesDisjoint
<1>4. /\ IsFiniteSet(ended)
      /\ Cardinality(ended) = Cardinality(completed) + Cardinality(failed)
  <2>1. /\ IsFiniteSet(ended)
        /\ Cardinality(ended) = Cardinality(completed) + Cardinality(failed)
                                  - Cardinality(completed \cap failed)
    BY <1>2, FS_Union
  <2>2. Cardinality(completed \cap failed) = 0  BY <1>3, FS_EmptySet
  <2>3. Cardinality(completed) \in Nat /\ Cardinality(failed) \in Nat
    BY <1>2, FS_CardinalityType
  <2> QED  BY <2>1, <2>2, <2>3
<1>5. Cardinality(all) = Resolved
  <2>1. Cardinality(all) = Cardinality(ended) + Cardinality(skipped)
                             - Cardinality(ended \cap skipped)
    BY <1>2, <1>4, FS_Union
  <2>2. Cardinality(ended \cap skipped) = 0  BY <1>3, FS_EmptySet
  <2>3. /\ Cardinality(completed) \in Nat /\ Cardinality(failed) \in Nat
        /\ Cardinality(skipped) \in Nat
    BY <1>2, FS_CardinalityType
  <2> QED  BY <1>4, <2>1, <2>2, <2>3 DEF Resolved
<1> QED  BY <1>5

(* So when their sum reaches the number of tasks every task is accounted for. *)
LEMMA CountsAddUp ==
  ASSUME TypeOK, OutcomesDisjoint, Resolved >= Cardinality(Task)
  PROVE  \A t \in Task : Terminal(t)
<1> DEFINE all == completed \cup failed \cup skipped
<1>1. IsFiniteSet(Task) /\ all \subseteq Task  BY FS_Subset DEF TypeOK
<1>2. Cardinality(all) = Resolved  BY CountedOnce
<1>3. all = Task
  <2>1. /\ Cardinality(all) <= Cardinality(Task)
        /\ Cardinality(Task) = Cardinality(all) => Task = all
    BY <1>1, FS_Subset
  <2>2. Cardinality(all) \in Nat /\ Cardinality(Task) \in Nat
    BY <1>1, FS_Subset, FS_CardinalityType
  <2> QED  BY <1>2, <2>1, <2>2
<1> QED  BY <1>3 DEF Terminal

(* A task that is over stays over, in the set it ended in. *)
LEMMA OutcomesGrow ==
  ASSUME [Next]_vars
  PROVE  completed \subseteq completed' /\ failed \subseteq failed' /\ skipped \subseteq skipped'
<1>1. CASE UNCHANGED vars  BY <1>1 DEF vars, schedVars
<1>2. CASE Next
  <2>1. PICK w \in Worker : Step(w)  BY <1>2 DEF Next
  <2> QED  BY <2>1 DEF Step, GetReadyTask, MarkTaskStarted, LeaveRunning, StoreResult,
             MarkFailed, MarkCompleted, SkipPop, SkipDone, SkipDecide, SkipInsert, SkipPurge,
             UnlockBegin, UnlockCheck, UnlockCount, UnlockEnd, Exit, schedVars
<1> QED  BY <1>1, <1>2

(* Only Exit takes a worker out of the pool. *)
LEMMA ExitOnly ==
  ASSUME TypeOK, [Next]_vars, NEW v \in Worker, pc[v] # "exited", pc'[v] = "exited"
  PROVE  Exit(v)
<1>1. CASE UNCHANGED vars  BY <1>1 DEF vars, callVars
<1>2. CASE Next
  <2>1. PICK w \in Worker : Step(w)  BY <1>2 DEF Next
  <2>2. pc \in [Worker -> Location]  BY DEF TypeOK
  <2>3. CASE Exit(w)  BY <2>2, <2>3 DEF Exit, Goto
  <2>4. CASE \/ (\E s \in Sandbox : GetReadyTask(w, s)) \/ MarkTaskStarted(w)
             \/ LeaveRunning(w) \/ StoreResult(w) \/ MarkFailed(w) \/ MarkCompleted(w)
             \/ SkipPop(w) \/ SkipDone(w) \/ SkipDecide(w)
    BY <2>2, <2>4 DEF GetReadyTask, MarkTaskStarted, LeaveRunning, StoreResult,
       MarkFailed, MarkCompleted, SkipPop, SkipDone, SkipDecide, Goto, Return
  <2>5. CASE \/ SkipInsert(w) \/ SkipPurge(w)
             \/ UnlockBegin(w) \/ UnlockCheck(w) \/ UnlockCount(w) \/ UnlockEnd(w)
    BY <2>2, <2>5 DEF SkipInsert, SkipPurge,
       UnlockBegin, UnlockCheck, UnlockCount, UnlockEnd, Goto, Return
  <2> QED  BY <2>1, <2>3, <2>4, <2>5 DEF Step
<1> QED  BY <1>1, <1>2

(* A worker leaves only when every task has ended or been skipped, and none
   comes back afterwards. *)
THEOREM ExitSafe == Spec => []ExitOnlyWhenResolved
<1>1. Init => ExitOnlyWhenResolved
  BY DEF Init, ExitOnlyWhenResolved
<1>2. IInv /\ ExitOnlyWhenResolved /\ [Next]_vars => ExitOnlyWhenResolved'
  <2> SUFFICES ASSUME IInv, ExitOnlyWhenResolved, [Next]_vars,
                      NEW v \in Worker, pc'[v] = "exited", NEW t \in Task
               PROVE  Terminal(t)'
    BY DEF ExitOnlyWhenResolved
  <2>1. Terminal(t) => Terminal(t)'  BY OutcomesGrow DEF Terminal
  <2>2. CASE pc[v] = "exited"  BY <2>1, <2>2 DEF ExitOnlyWhenResolved
  <2>3. CASE pc[v] # "exited"
    <3>1. Resolved >= Cardinality(Task)  BY <2>3, ExitOnly DEF IInv, Exit
    <3>2. Terminal(t)  BY <3>1, CountsAddUp DEF IInv, DispatchedOnce
    <3> QED  BY <2>1, <3>2
  <2> QED  BY <2>2, <2>3
<1> QED  BY <1>1, <1>2, Invariance, PTL DEF Spec

----------------------------------------------------------------------------
(* The dispatcher implements TaskLifecycle. *)

(* The phase of a task, read off the sets of finished tasks and the workers'
   hands, which name it at most once. *)
LEMMA PhaseOf ==
  ASSUME IInv, NEW t \in Task
  PROVE  /\ phase[t] = "completed" <=> t \in completed
         /\ phase[t] \in {"failed", "skipped"} <=> t \in failed \cup skipped
         /\ phase[t] = "running" <=> \E w \in Worker : Holds(w, t)
         /\ phase[t] = "pending" <=> ~Terminal(t) /\ \A w \in Worker : ~Holds(w, t)
<1>1. \A w \in Worker : Holds(w, t) => ~Terminal(t)
  BY DEF IInv, DispatchedOnce, HeldNotTerminal
<1>2. OutcomesDisjoint  BY DEF IInv, DispatchedOnce
<1>3. phase[t] = CASE t \in completed -> "completed"
                   [] t \in failed    -> "failed"
                   [] t \in skipped   -> "skipped"
                   [] \E w \in Worker : Holds(w, t) -> "running"
                   [] OTHER -> "pending"
  BY DEF phase
<1>4. CASE t \in completed  BY <1>1, <1>2, <1>3, <1>4 DEF Terminal, OutcomesDisjoint
<1>5. CASE t \in failed     BY <1>1, <1>2, <1>3, <1>5 DEF Terminal, OutcomesDisjoint
<1>6. CASE t \in skipped    BY <1>1, <1>2, <1>3, <1>6 DEF Terminal, OutcomesDisjoint
<1>7. CASE ~Terminal(t) /\ \E w \in Worker : Holds(w, t)
  BY <1>3, <1>7 DEF Terminal
<1>8. CASE ~Terminal(t) /\ \A w \in Worker : ~Holds(w, t)
  BY <1>3, <1>8 DEF Terminal
<1> QED  BY <1>4, <1>5, <1>6, <1>7, <1>8 DEF Terminal

(* A step that records no outcome and moves no task into or out of a worker's
   hands is a stutter of the lifecycle. *)
LEMMA PhaseKept ==
  ASSUME UNCHANGED <<deps, completed, failed, skipped>>,
         \A w \in Worker, t \in Task : Holds(w, t)' <=> Holds(w, t)
  PROVE  UNCHANGED Lifecycle!vars
<1>1. \A t \in Task : (\E w \in Worker : Holds(w, t)') <=> (\E w \in Worker : Holds(w, t))
  OBVIOUS
<1>2. phase' = phase  BY <1>1 DEF phase
<1> QED  BY <1>2 DEF Lifecycle!vars

(* A step that records the outcome of one task, or hands one task to a worker,
   moves the phase of that task. *)
LEMMA PhaseMoves ==
  ASSUME NEW t \in Task, NEW p,
         completed' \ {t} = completed \ {t},
         failed' \ {t} = failed \ {t},
         skipped' \ {t} = skipped \ {t},
         \A w \in Worker, u \in Task : u # t => (Holds(w, u)' <=> Holds(w, u)),
         phase'[t] = p
  PROVE  Lifecycle!Becomes(t, p)
<1>1. ASSUME NEW u \in Task, u # t PROVE phase'[u] = phase[u]
  <2>1. (\E w \in Worker : Holds(w, u)') <=> (\E w \in Worker : Holds(w, u))
    BY <1>1
  <2>2. /\ u \in completed' <=> u \in completed
        /\ u \in failed' <=> u \in failed
        /\ u \in skipped' <=> u \in skipped
    BY <1>1
  <2> QED  BY <2>1, <2>2 DEF phase
<1>2. phase = [u \in Task |-> phase[u]] /\ phase' = [u \in Task |-> phase'[u]]
  BY DEF phase
<1> QED  BY <1>1, <1>2 DEF Lifecycle!Becomes

(* The phase a step leaves a task in. *)
LEMMA PhaseAfter ==
  ASSUME IInv', NEW t \in Task
  PROVE  /\ t \in completed' => phase'[t] = "completed"
         /\ t \in failed' => phase'[t] = "failed"
         /\ t \in skipped' => phase'[t] = "skipped"
         /\ (\E w \in Worker : Holds(w, t)') => phase'[t] = "running"
<1>1. \A w \in Worker : Holds(w, t)' => t \notin completed' /\ t \notin failed' /\ t \notin skipped'
  BY DEF IInv, DispatchedOnce, HeldNotTerminal, Terminal
<1>2. /\ ~(t \in completed' /\ t \in failed')
      /\ ~(t \in completed' /\ t \in skipped')
      /\ ~(t \in failed' /\ t \in skipped')
  BY DEF IInv, DispatchedOnce, OutcomesDisjoint
<1>3. phase'[t] = CASE t \in completed' -> "completed"
                    [] t \in failed'    -> "failed"
                    [] t \in skipped'   -> "skipped"
                    [] \E w \in Worker : Holds(w, t)' -> "running"
                    [] OTHER -> "pending"
  BY DEF phase
<1> QED  BY <1>1, <1>2, <1>3

LEMMA GetReadyTaskRefines ==
  ASSUME IInv, IInv', NEW w \in Worker, NEW s \in Sandbox, GetReadyTask(w, s)
  PROVE  Lifecycle!Next
<1>1. PICK t \in Task :
        /\ t = Head(ready_queues[s]) /\ Queued(t)
        /\ pc[w] = "idle" /\ pc' = [pc EXCEPT ![w] = "claimed"]
        /\ task' = [task EXCEPT ![w] = t]
        /\ UNCHANGED <<deps, completed, failed, skipped>>
  <2>1. /\ ready_queues[s] \in Seq(Task) /\ ready_queues[s] # <<>>
        /\ pc[w] = "idle" /\ pc' = [pc EXCEPT ![w] = "claimed"]
        /\ task' = [task EXCEPT ![w] = Head(ready_queues[s])]
        /\ UNCHANGED <<deps, completed, failed, skipped>>
    BY DEF IInv, TypeOK, GetReadyTask, Goto
  <2>2. Head(ready_queues[s]) \in Range(ready_queues[s]) /\ Head(ready_queues[s]) \in Task
    BY <2>1, PopFront DEF Range
  <2> QED  BY <2>1, <2>2 DEF Queued
<1>2. \A v \in Worker, u \in Task : Holds(v, u)' <=> Holds(v, u) \/ (v = w /\ u = t)
  BY <1>1 DEF IInv, TypeOK, Holds, Holding
<1>3. ~Terminal(t) /\ \A v \in Worker : ~Holds(v, t)
  BY <1>1 DEF IInv, DispatchedOnce, QueuedNotTaken
<1>4. phase[t] = "pending"
  BY <1>3, PhaseOf
<1>5. \A d \in deps[t] : d \in Task /\ phase[d] = "completed"
  <2>1. deps[t] \subseteq completed
    BY <1>1 DEF IInv, DispatchedAfterDeps, Dispatched
  <2>2. completed \subseteq Task  BY DEF IInv, TypeOK
  <2> QED  BY <2>1, <2>2, PhaseOf
<1>6. phase'[t] = "running"
  BY <1>2, PhaseAfter
<1>7. Lifecycle!Becomes(t, "running")
  BY <1>1, <1>2, <1>6, PhaseMoves
<1> QED  BY <1>1, <1>4, <1>5, <1>7 DEF Lifecycle!Next, Lifecycle!Start

LEMMA MarkFailedRefines ==
  ASSUME IInv, IInv', NEW w \in Worker, MarkFailed(w)
  PROVE  Lifecycle!Next
<1>1. PICK t \in Task :
        /\ t = task[w] /\ Holds(w, t)
        /\ failed' = failed \cup {t}
        /\ pc[w] = "markErr" /\ pc' = [pc EXCEPT ![w] = "skip"]
        /\ UNCHANGED <<deps, completed, skipped, task>>
  BY DEF IInv, LocalsOK, MarkFailed, Goto, Holds, Holding
<1>2. \A v \in Worker, u \in Task : u # t => (Holds(v, u)' <=> Holds(v, u))
  BY <1>1 DEF IInv, TypeOK, Holds, Holding
<1>3. phase[t] = "running" /\ ~Terminal(t)
  BY <1>1, PhaseOf DEF IInv, DispatchedOnce, HeldNotTerminal
<1>4. phase'[t] = "failed"
  BY <1>1, PhaseAfter
<1>5. Lifecycle!Becomes(t, "failed")
  BY <1>1, <1>2, <1>4, PhaseMoves
<1> QED  BY <1>1, <1>3, <1>5 DEF Lifecycle!Next, Lifecycle!Finish

LEMMA MarkCompletedRefines ==
  ASSUME IInv, IInv', NEW w \in Worker, MarkCompleted(w)
  PROVE  Lifecycle!Next
<1>1. PICK t \in Task :
        /\ t = task[w] /\ Holds(w, t)
        /\ completed' = completed \cup {t}
        /\ pc[w] = "markOk"
        /\ \/ pc' = [pc EXCEPT ![w] = "idle"] /\ task' = [task EXCEPT ![w] = None]
           \/ pc' = [pc EXCEPT ![w] = "unlockWait"] /\ task' = task
        /\ UNCHANGED <<deps, failed, skipped>>
  BY DEF IInv, LocalsOK, MarkCompleted, Goto, Return, Holds, Holding
<1>2. \A v \in Worker, u \in Task : u # t => (Holds(v, u)' <=> Holds(v, u))
  BY <1>1 DEF IInv, TypeOK, Holds, Holding
<1>3. phase[t] = "running"
  BY <1>1, PhaseOf
<1>4. phase'[t] = "completed"
  BY <1>1, PhaseAfter
<1>5. Lifecycle!Becomes(t, "completed")
  BY <1>1, <1>2, <1>4, PhaseMoves
<1> QED  BY <1>1, <1>3, <1>5 DEF Lifecycle!Next, Lifecycle!Finish

(* Two cascades may have decided on the same task; the second to record it
   changes nothing. *)
LEMMA SkipInsertRefines ==
  ASSUME IInv, IInv', NEW w \in Worker, SkipInsert(w)
  PROVE  Lifecycle!Next \/ UNCHANGED Lifecycle!vars
<1>1. PICK t \in Task :
        /\ t = item[w] /\ ShouldSkip(t)
        /\ skipped' = skipped \cup {t}
        /\ pc[w] = "skipInsert" /\ pc' = [pc EXCEPT ![w] = "skipPurge"]
        /\ UNCHANGED <<deps, completed, failed, task>>
  BY DEF IInv, LocalsOK, SkipInsert, Goto
<1>2. \A v \in Worker, u \in Task : Holds(v, u)' <=> Holds(v, u)
  BY <1>1 DEF IInv, TypeOK, Holds, Holding
<1>3. CASE t \in skipped
  BY <1>1, <1>2, <1>3, PhaseKept
<1>4. CASE t \notin skipped
  <2>1. PICK d \in deps[t] : d \in failed \cup skipped
    BY <1>1 DEF ShouldSkip
  <2>2. d \in Task /\ d \notin completed
    BY <2>1 DEF IInv, TypeOK, DispatchedOnce, OutcomesDisjoint
  <2>3. ~Dispatched(t)
    BY <2>1, <2>2 DEF IInv, DispatchedAfterDeps
  <2>4. ~Terminal(t) /\ \A v \in Worker : ~Holds(v, t)
    BY <1>4, <2>3 DEF Dispatched, Terminal
  <2>5. phase[t] = "pending" /\ phase[d] \in {"failed", "skipped"}
    BY <2>1, <2>2, <2>4, PhaseOf
  <2>6. phase'[t] = "skipped"
    BY <1>1, PhaseAfter
  <2>7. Lifecycle!Becomes(t, "skipped")
    BY <1>1, <1>2, <2>6, PhaseMoves
  <2> QED  BY <1>1, <2>1, <2>2, <2>5, <2>7 DEF Lifecycle!Next, Lifecycle!Skip
<1> QED  BY <1>3, <1>4

(* All other steps leave every phase as it is. *)
LEMMA OtherStepRefines ==
  ASSUME IInv, NEW w \in Worker,
         \/ MarkTaskStarted(w) \/ LeaveRunning(w) \/ StoreResult(w)
         \/ SkipPop(w) \/ SkipDone(w) \/ SkipDecide(w) \/ SkipPurge(w)
         \/ UnlockBegin(w) \/ UnlockCheck(w) \/ UnlockCount(w) \/ UnlockEnd(w) \/ Exit(w)
  PROVE  UNCHANGED Lifecycle!vars
<1>1. UNCHANGED <<deps, completed, failed, skipped>>
  BY DEF MarkTaskStarted, LeaveRunning, StoreResult, SkipPop, SkipDone, SkipDecide, SkipPurge,
         UnlockBegin, UnlockCheck, UnlockCount, UnlockEnd, Exit, schedVars
<1>2. \A v \in Worker, t \in Task : Holds(v, t)' <=> Holds(v, t)
  <2> SUFFICES ASSUME NEW v \in Worker
               PROVE  \A t \in Task : Holds(v, t)' <=> Holds(v, t)
    OBVIOUS
  <2> pc \in [Worker -> Location] /\ task \in [Worker -> Task \cup {None}]
    BY DEF IInv, TypeOK
  <2> USE DEF Goto, Return, Holding, Holds, schedVars
  <2>1. CASE MarkTaskStarted(w) \/ LeaveRunning(w) \/ StoreResult(w)
    BY <2>1 DEF MarkTaskStarted, LeaveRunning, StoreResult
  <2>2. CASE SkipPop(w) \/ SkipDone(w) \/ SkipDecide(w) \/ SkipPurge(w)
    BY <2>2 DEF SkipPop, SkipDone, SkipDecide, SkipPurge
  <2>3. CASE UnlockBegin(w) \/ UnlockCheck(w) \/ UnlockCount(w) \/ UnlockEnd(w) \/ Exit(w)
    BY <2>3 DEF UnlockBegin, UnlockCheck, UnlockCount, UnlockEnd, Exit
  <2> QED  BY <2>1, <2>2, <2>3
<1> QED  BY <1>1, <1>2, PhaseKept

LEMMA StepRefines == IInv /\ IInv' /\ [Next]_vars => [Lifecycle!Next]_(Lifecycle!vars)
<1> SUFFICES ASSUME IInv, IInv', [Next]_vars PROVE Lifecycle!Next \/ UNCHANGED Lifecycle!vars
  OBVIOUS
<1>1. CASE UNCHANGED vars
  BY <1>1, PhaseKept DEF vars, schedVars, callVars, Holds
<1>2. CASE Next
  <2>1. PICK w \in Worker : Step(w)  BY <1>2 DEF Next
  <2>2. CASE \E s \in Sandbox : GetReadyTask(w, s)  BY <2>2, GetReadyTaskRefines
  <2>3. CASE MarkFailed(w)     BY <2>3, MarkFailedRefines
  <2>4. CASE MarkCompleted(w)  BY <2>4, MarkCompletedRefines
  <2>5. CASE SkipInsert(w)     BY <2>5, SkipInsertRefines
  <2>6. CASE \/ MarkTaskStarted(w) \/ LeaveRunning(w) \/ StoreResult(w)
             \/ SkipPop(w) \/ SkipDone(w) \/ SkipDecide(w) \/ SkipPurge(w)
             \/ UnlockBegin(w) \/ UnlockCheck(w) \/ UnlockCount(w) \/ UnlockEnd(w) \/ Exit(w)
    BY <2>6, OtherStepRefines
  <2> QED  BY <2>1, <2>2, <2>3, <2>4, <2>5, <2>6 DEF Step
<1> QED  BY <1>1, <1>2

(* The dispatcher, with its five locks and the windows between them, starts,
   ends and skips tasks as the lifecycle allows and in no other way. *)
THEOREM Refinement == Spec => ImplementsLifecycle
<1>1. Init => Lifecycle!Init
  <2> SUFFICES ASSUME Init PROVE Lifecycle!Init
    OBVIOUS
  <2>1. \A t \in Task, w \in Worker : ~Holds(w, t)  BY DEF Init, Holds, Holding
  <2>2. \A t \in Task : t \notin completed /\ t \notin failed /\ t \notin skipped
    BY DEF Init
  <2>3. phase = [t \in Task |-> "pending"]  BY <2>1, <2>2 DEF phase
  <2> QED  BY <2>3 DEF Init, Lifecycle!Init
<1> QED  BY <1>1, StepRefines, Invariance, PTL DEF Spec, ImplementsLifecycle, Lifecycle!Spec

----------------------------------------------------------------------------
(* What a failure skips. *)

(* A task that should be skipped can still be skipped or is skipped already: it
   was never dispatched. *)
LEMMA TerminalIsSkipped ==
  ASSUME IInv, NEW t \in Task, ShouldSkip(t), Terminal(t)
  PROVE  t \in skipped
<1>1. ~(deps[t] \subseteq completed)
  BY DEF ShouldSkip, IInv, DispatchedOnce, OutcomesDisjoint
<1> QED  BY <1>1 DEF Terminal, Dispatched, IInv, DispatchedAfterDeps

(* What a step does to the cascades of the workers that do not take it. *)
LEMMA OtherCascades ==
  ASSUME TypeOK, NEW w \in Worker, Step(w), NEW v \in Worker, v # w, NEW t \in Task, ToSkip(v, t)
  PROVE  ToSkip(v, t)'
<1>1. pc'[v] = pc[v] /\ todo'[v] = todo[v] /\ item'[v] = item[v] /\ deps' = deps
  <2> USE DEF TypeOK, Goto, Return, schedVars
  <2>1. CASE \/ (\E s \in Sandbox : GetReadyTask(w, s)) \/ MarkTaskStarted(w)
             \/ LeaveRunning(w) \/ StoreResult(w) \/ MarkFailed(w) \/ MarkCompleted(w) \/ Exit(w)
    BY <2>1 DEF GetReadyTask, MarkTaskStarted, LeaveRunning, StoreResult, MarkFailed,
       MarkCompleted, Exit
  <2>2. CASE SkipPop(w) \/ SkipDone(w) \/ SkipDecide(w) \/ SkipInsert(w) \/ SkipPurge(w)
    BY <2>2 DEF SkipPop, SkipDone, SkipDecide, SkipInsert, SkipPurge
  <2>3. CASE UnlockBegin(w) \/ UnlockCheck(w) \/ UnlockCount(w) \/ UnlockEnd(w)
    BY <2>3 DEF UnlockBegin, UnlockCheck, UnlockCount, UnlockEnd
  <2> QED  BY <2>1, <2>2, <2>3 DEF Step
<1> QED  BY <1>1 DEF ToSkip

(* The cascade that takes a step has dealt with t, or has still to come to it. *)
LEMMA OwnCascade ==
  ASSUME IInv, NEW w \in Worker, Step(w), NEW t \in Task, ToSkip(w, t), ShouldSkip(t)
  PROVE  t \in skipped' \/ ToSkip(w, t)'
<1> USE DEF ToSkip, Skipping, Goto, Return, schedVars
<1>0. TypeOK /\ LocalsOK(w) /\ pc[w] \in Skipping  BY DEF IInv
<1>1. CASE SkipPop(w)
  <2>1. PICK u \in todo[w] :
          /\ todo' = [todo EXCEPT ![w] = @ \ {u}]
          /\ IF Terminal(u) THEN UNCHANGED <<pc, item>>
             ELSE pc' = [pc EXCEPT ![w] = "skipDecide"] /\ item' = [item EXCEPT ![w] = u]
    BY <1>1 DEF SkipPop
  <2>2. pc[w] = "skip" /\ skipped' = skipped /\ deps' = deps /\ t \in todo[w]
    BY <1>1 DEF SkipPop
  <2>3. CASE t # u
    <3>1. t \in todo'[w]  BY <1>0, <2>1, <2>2, <2>3 DEF TypeOK
    <3>2. pc'[w] \in {"skip", "skipDecide"}  BY <1>0, <2>1, <2>2 DEF TypeOK
    <3> QED  BY <3>1, <3>2
  <2>4. CASE t = u /\ Terminal(u)
    BY <2>2, <2>4, TerminalIsSkipped
  <2>5. CASE t = u /\ ~Terminal(u)
    <3>1. pc'[w] = "skipDecide" /\ item'[w] = t  BY <1>0, <2>1, <2>5 DEF TypeOK
    <3> QED  BY <3>1
  <2> QED  BY <2>3, <2>4, <2>5
<1>2. CASE SkipDone(w)  BY <1>2 DEF SkipDone
<1>3. CASE SkipDecide(w)  BY <1>0, <1>3 DEF SkipDecide, TypeOK
<1>4. CASE SkipInsert(w)  BY <1>0, <1>4 DEF SkipInsert, TypeOK
<1>5. CASE SkipPurge(w)
  <2>1. /\ todo'[w] = todo[w] \cup Dependents(item[w]) /\ pc'[w] = "skip"
        /\ pc[w] = "skipPurge" /\ deps' = deps
    BY <1>0, <1>5 DEF SkipPurge, TypeOK
  <2> QED  BY <2>1 DEF Dependents
<1>6. CASE \/ (\E s \in Sandbox : GetReadyTask(w, s)) \/ MarkTaskStarted(w)
           \/ LeaveRunning(w) \/ StoreResult(w) \/ MarkFailed(w) \/ MarkCompleted(w)
  BY <1>0, <1>6 DEF GetReadyTask, MarkTaskStarted, LeaveRunning, StoreResult, MarkFailed,
     MarkCompleted
<1>7. CASE UnlockBegin(w) \/ UnlockCheck(w) \/ UnlockCount(w) \/ UnlockEnd(w) \/ Exit(w)
  BY <1>0, <1>7 DEF UnlockBegin, UnlockCheck, UnlockCount, UnlockEnd, Exit
<1> QED  BY <1>1, <1>2, <1>3, <1>4, <1>5, <1>6, <1>7 DEF Step

(* Who has newly to be skipped depends on a task that w has marked as failed,
   and is in its to_skip, or on one it has marked as skipped. *)
LEMMA NewCascade ==
  ASSUME IInv, NEW w \in Worker, Step(w), NEW t \in Task, ~ShouldSkip(t), ShouldSkip(t)'
  PROVE  ToSkip(w, t)'
<1> USE DEF ShouldSkip, ToSkip, Skipping, Goto, Return, schedVars
<1>0. TypeOK  BY DEF IInv
<1>1. CASE MarkFailed(w)
  BY <1>0, <1>1 DEF MarkFailed, Dependents, TypeOK
<1>2. CASE SkipInsert(w)
  BY <1>0, <1>2 DEF SkipInsert, TypeOK
<1>3. CASE ~MarkFailed(w) /\ ~SkipInsert(w)
  <2>1. UNCHANGED <<deps, failed, skipped>>
    BY <1>3 DEF Step, GetReadyTask, MarkTaskStarted, LeaveRunning, StoreResult, MarkCompleted,
       SkipPop, SkipDone, SkipDecide, SkipPurge, UnlockBegin, UnlockCheck, UnlockCount, UnlockEnd,
       Exit
  <2> QED  BY <2>1
<1> QED  BY <1>1, <1>2, <1>3

(* Cascades that run at once leave nobody behind: the id that one drops, because
   another has it or because nothing it depends on has failed so far, is skipped
   or has still to be visited. *)
LEMMA CascadesKeep ==
  ASSUME IInv, SkippedOrToSkip, [Next]_vars
  PROVE  SkippedOrToSkip'
<1>1. CASE UNCHANGED vars
  BY <1>1 DEF vars, schedVars, callVars, SkippedOrToSkip, ShouldSkip, ToSkip
<1>2. CASE Next
  <2>1. PICK w \in Worker : Step(w)  BY <1>2 DEF Next
  <2> SUFFICES ASSUME NEW t \in Task, ShouldSkip(t)'
               PROVE  t \in skipped' \/ \E v \in Worker : ToSkip(v, t)'
    BY DEF SkippedOrToSkip
  <2>2. CASE ~ShouldSkip(t)  BY <2>1, <2>2, NewCascade
  <2>3. CASE ShouldSkip(t)
    <3>1. CASE t \in skipped  BY <1>2, <3>1, OutcomesGrow
    <3>2. CASE ToSkip(w, t)  BY <2>1, <2>3, <3>2, OwnCascade
    <3>3. CASE \E v \in Worker \ {w} : ToSkip(v, t)
      <4>1. PICK v \in Worker \ {w} : ToSkip(v, t)  BY <3>3
      <4>2. v \in Worker /\ v # w  OBVIOUS
      <4> QED  BY <2>1, <4>1, <4>2, OtherCascades DEF IInv
    <3> QED  BY <2>3, <3>1, <3>2, <3>3 DEF SkippedOrToSkip
  <2> QED  BY <2>2, <2>3
<1> QED  BY <1>1, <1>2

(* Nothing is skipped that a failure does not reach. *)
SkippedAtMost == \A S \in SUBSET Task : ClosedUnderFailure(S) => skipped \subseteq S

LEMMA SkippedAtMostKept ==
  ASSUME IInv, SkippedAtMost, [Next]_vars
  PROVE  SkippedAtMost'
<1> SUFFICES ASSUME NEW S \in SUBSET Task, ClosedUnderFailure(S)'
             PROVE  skipped' \subseteq S
  BY DEF SkippedAtMost
<1>1. deps' = deps /\ failed \subseteq failed'
  <2>1. CASE UNCHANGED vars  BY <2>1 DEF vars, schedVars
  <2>2. CASE Next
    <3>1. PICK w \in Worker : Step(w)  BY <2>2 DEF Next
    <3>2. deps' = deps
      BY <3>1 DEF Step, GetReadyTask, MarkTaskStarted, LeaveRunning, StoreResult,
         MarkFailed, MarkCompleted, SkipPop, SkipDone, SkipDecide, SkipInsert, SkipPurge,
         UnlockBegin, UnlockCheck, UnlockCount, UnlockEnd, Exit, schedVars
    <3> QED  BY <2>2, <3>2, OutcomesGrow
  <2> QED  BY <2>1, <2>2
<1>2. ClosedUnderFailure(S)  BY <1>1 DEF ClosedUnderFailure
<1>3. skipped \subseteq S  BY <1>2 DEF SkippedAtMost
<1>4. CASE \E w \in Worker : SkipInsert(w)
  <2>1. PICK w \in Worker : SkipInsert(w)  BY <1>4
  <2>2. ShouldSkip(item[w]) /\ item[w] \in Task  BY <2>1 DEF SkipInsert, IInv, LocalsOK
  <2>3. item[w] \in S  BY <1>2, <1>3, <2>2 DEF ShouldSkip, ClosedUnderFailure
  <2> QED  BY <1>3, <2>1, <2>3 DEF SkipInsert
<1>5. CASE ~\E w \in Worker : SkipInsert(w)
  <2>1. skipped' = skipped
    BY <1>5 DEF Next, Step, GetReadyTask, MarkTaskStarted, LeaveRunning, StoreResult,
       MarkFailed, MarkCompleted, SkipPop, SkipDone, SkipDecide, SkipPurge,
       UnlockBegin, UnlockCheck, UnlockCount, UnlockEnd, Exit, schedVars, vars
  <2> QED  BY <1>3, <2>1
<1> QED  BY <1>4, <1>5

(* While no cascade is at work, the skipped tasks are those that a failure
   reaches and no others, for any graph and however many cascades have met
   (skip_dependents). *)
THEOREM SkippedAreReached == Spec => []SkippedExactly
<1>1. Init => SkippedAtMost /\ SkippedOrToSkip
  BY DEF Init, SkippedAtMost, SkippedOrToSkip, ShouldSkip
<1>2. IInv /\ SkippedAtMost /\ SkippedOrToSkip /\ [Next]_vars => SkippedAtMost' /\ SkippedOrToSkip'
  BY CascadesKeep, SkippedAtMostKept
<1>3. SkippedAtMost /\ SkippedOrToSkip => SkippedExactly
  BY DEF SkippedAtMost, SkippedOrToSkip, SkippedExactly, ClosedUnderFailure, ShouldSkip, ToSkip
<1> QED  BY <1>1, <1>2, <1>3, Invariance, PTL DEF Spec

----------------------------------------------------------------------------
(* What is left when nothing is under way. *)

(* Only recording a completion and the unlock loop touch what a counter has
   still to count, or the counters themselves. *)
LEMMA UncountedKept ==
  ASSUME IInv, NEW w \in Worker, Step(w),
         ~MarkCompleted(w), ~UnlockCheck(w), ~UnlockCount(w)
  PROVE  dep_counter' = dep_counter /\ \A t \in Task : Uncounted(t)' = Uncounted(t)
<1> USE DEF Goto, Return, schedVars, Unlocking
<1>0. TypeOK  BY DEF IInv
<1>1. UNCHANGED <<deps, dep_counter, completed>>
  BY DEF Step, GetReadyTask, MarkTaskStarted, LeaveRunning, StoreResult, MarkFailed,
     SkipPop, SkipDone, SkipDecide, SkipInsert, SkipPurge, UnlockBegin, UnlockEnd, Exit
<1>2. \A v \in Worker :
        \/ pc'[v] \in Unlocking /\ pc[v] \in Unlocking /\ task'[v] = task[v] /\ todo'[v] = todo[v]
        \/ pc'[v] \notin Unlocking /\ (pc[v] \in Unlocking => todo[v] = {})
  <2> USE DEF TypeOK
  <2>1. CASE \/ (\E s \in Sandbox : GetReadyTask(w, s)) \/ MarkTaskStarted(w) \/ LeaveRunning(w)
             \/ StoreResult(w) \/ MarkFailed(w) \/ Exit(w)
    BY <1>0, <2>1 DEF GetReadyTask, MarkTaskStarted, LeaveRunning, StoreResult, MarkFailed, Exit
  <2>2. CASE SkipPop(w) \/ SkipDone(w) \/ SkipDecide(w) \/ SkipInsert(w) \/ SkipPurge(w)
    BY <1>0, <2>2 DEF SkipPop, SkipDone, SkipDecide, SkipInsert, SkipPurge
  <2>3. CASE UnlockBegin(w) \/ UnlockEnd(w)
    BY <1>0, <2>3 DEF UnlockBegin, UnlockEnd
  <2> QED  BY <2>1, <2>2, <2>3 DEF Step
<1> HIDE DEF Unlocking
<1>3. \A t \in Task : Uncounted(t)' = Uncounted(t)
  BY <1>1, <1>2 DEF Uncounted
<1> QED  BY <1>1, <1>3

(* A completion is still to be counted until an unlock loop has been there. *)
LEMMA UncountedCompleted ==
  ASSUME IInv, NEW w \in Worker, MarkCompleted(w), NEW t \in Task
  PROVE  dep_counter'[t] = dep_counter[t] /\ Uncounted(t)' = Uncounted(t)
<1> DEFINE d == task[w]
<1>1. /\ d \in Task /\ completed' = completed \cup {d} /\ todo' = [todo EXCEPT ![w] = Dependents(d)]
      /\ \/ /\ Dependents(d) = {} /\ pc' = [pc EXCEPT ![w] = "idle"]
            /\ task' = [task EXCEPT ![w] = None]
         \/ pc' = [pc EXCEPT ![w] = "unlockWait"] /\ task' = task
      /\ UNCHANGED <<deps, dep_counter>> /\ pc[w] = "markOk"
  BY DEF IInv, LocalsOK, MarkCompleted, Goto, Return, Holding
<1>2. d \notin completed
  BY <1>1 DEF IInv, DispatchedOnce, HeldNotTerminal, Holds, Holding, Terminal
<1>3. \A v \in Worker \ {w} : pc'[v] = pc[v] /\ task'[v] = task[v] /\ todo'[v] = todo[v]
  BY <1>1 DEF IInv, TypeOK
<1>4. pc[w] \notin Unlocking
  BY <1>1 DEF Unlocking
<1>5. pc'[w] \in Unlocking => task'[w] = d
  BY <1>1 DEF IInv, TypeOK, Unlocking
<1>6. d \in deps[t] => pc'[w] \in Unlocking /\ task'[w] = d /\ t \in todo'[w]
  <2> SUFFICES ASSUME d \in deps[t]
               PROVE  pc'[w] \in Unlocking /\ task'[w] = d /\ t \in todo'[w]
    OBVIOUS
  <2>1. t \in Dependents(d)  BY DEF Dependents
  <2> QED  BY <1>1, <2>1 DEF IInv, TypeOK, Unlocking
<1> HIDE DEF d
<1>7. ASSUME NEW e \in deps[t] PROVE e \in Uncounted(t)' <=> e \in Uncounted(t)
  <2>1. CASE e = d  BY <1>1, <1>2, <1>6, <1>7, <2>1 DEF Uncounted
  <2>2. CASE e # d  BY <1>1, <1>3, <1>4, <1>5, <1>7, <2>2 DEF Uncounted
  <2> QED  BY <2>1, <2>2
<1> QED  BY <1>1, <1>7 DEF Uncounted

(* The loop leaves out a dependent that is skipped, and nobody else's counter. *)
LEMMA UncountedChecked ==
  ASSUME IInv, NEW w \in Worker, UnlockCheck(w), NEW u \in Task \ skipped
  PROVE  dep_counter'[u] = dep_counter[u] /\ Uncounted(u)' = Uncounted(u)
<1>1. PICK t \in todo[w] :
        IF t \in failed \cup skipped
        THEN todo' = [todo EXCEPT ![w] = @ \ {t}] /\ UNCHANGED <<pc, item>>
        ELSE /\ pc' = [pc EXCEPT ![w] = "unlockCount"] /\ UNCHANGED todo
  BY DEF UnlockCheck, Goto
<1>2. pc[w] = "unlock" /\ UNCHANGED <<deps, dep_counter, completed, task>>
  BY DEF UnlockCheck, schedVars
<1>3. t \in Task  BY DEF IInv, TypeOK
(* A failed task was dispatched with its counter at zero. *)
<1>4. t \notin failed
  <2>1. task[w] \in deps[t] /\ task[w] \in Uncounted(t)
    BY <1>2, <1>3 DEF IInv, LocalsOK, Unlocking, Dependents, Uncounted
  <2>2. Cardinality(Uncounted(t)) # 0 /\ Cardinality(Uncounted(t)) \in Nat
    BY <1>3, <2>1, UncountedFinite, FS_EmptySet DEF IInv
  <2>3. dep_counter[t] # 0
    BY <1>3, <2>2 DEF IInv, CounterCounts, TypeOK
  <2> QED  BY <1>3, <2>3 DEF IInv, DispatchedAtZero, Dispatched
<1>5. \A v \in Worker : /\ pc'[v] \in Unlocking <=> pc[v] \in Unlocking
                        /\ u \in todo'[v] <=> u \in todo[v]
  <2> TypeOK  BY DEF IInv
  <2>1. CASE t \in skipped
    <3>1. t # u /\ todo' = [todo EXCEPT ![w] = @ \ {t}] /\ pc' = pc  BY <1>1, <2>1
    <3> QED  BY <3>1 DEF TypeOK
  <2>2. CASE t \notin skipped
    BY <1>1, <1>2, <1>4, <2>2 DEF TypeOK, Unlocking
  <2> QED  BY <2>1, <2>2
<1> QED  BY <1>2, <1>5 DEF Uncounted

(* The step that counts the completion of d counts it for its item alone. *)
LEMMA UncountedCounted ==
  ASSUME IInv, NEW w \in Worker, UnlockCount(w), NEW u \in Task
  PROVE  \/ u # item[w] /\ dep_counter'[u] = dep_counter[u] /\ Uncounted(u)' = Uncounted(u)
         \/ /\ u = item[w] /\ dep_counter'[u] = dep_counter[u] - 1
            /\ task[w] \in Uncounted(u) /\ Uncounted(u)' = Uncounted(u) \ {task[w]}
<1> DEFINE t == item[w]
           d == task[w]
<1>1. /\ t \in Task /\ d \in Task /\ d \in completed /\ t \in todo[w] /\ d \in deps[t]
      /\ dep_counter' = [dep_counter EXCEPT ![t] = @ - 1]
      /\ todo' = [todo EXCEPT ![w] = @ \ {t}]
      /\ pc[w] = "unlockCount" /\ pc' = [pc EXCEPT ![w] = "unlock"]
      /\ UNCHANGED <<deps, completed, task>>
  BY DEF IInv, LocalsOK, UnlockCount, Goto, Dependents, Unlocking
<1> HIDE DEF t, d
<1>2. \A v \in Worker : /\ pc'[v] \in Unlocking <=> pc[v] \in Unlocking
                        /\ u \in todo'[v] <=> u \in todo[v] /\ ~(v = w /\ u = t)
  BY <1>1 DEF IInv, TypeOK, Unlocking
<1>3. CASE u # t
  <2>1. dep_counter'[u] = dep_counter[u]  BY <1>1, <1>3 DEF IInv, TypeOK
  <2> QED  BY <1>1, <1>2, <1>3, <2>1 DEF Uncounted, t
<1>4. CASE u = t
  <2>1. dep_counter'[u] = dep_counter[u] - 1  BY <1>1, <1>4 DEF IInv, TypeOK
  <2>2. pc[w] \in Unlocking /\ task[w] = d  BY <1>1 DEF Unlocking, d
  <2>3. d \in Uncounted(u)  BY <1>1, <1>4, <2>2 DEF Uncounted
  <2>4. \A v \in Worker \ {w} : ~(pc[v] \in Unlocking /\ task[v] = d)
    BY <2>2 DEF IInv, SoleUnlocker
  <2>5. Uncounted(u)' = Uncounted(u) \ {d}
    BY <1>1, <1>2, <1>4, <2>2, <2>4 DEF Uncounted
  <2> QED  BY <1>4, <2>1, <2>3, <2>5 DEF t, d
<1> QED  BY <1>3, <1>4

LEMMA CountersStayExact ==
  ASSUME IInv, CountersExact, [Next]_vars
  PROVE  CountersExact'
<1>1. CASE UNCHANGED vars
  <2>1. UNCHANGED <<deps, dep_counter, completed, skipped, pc, task, todo>>
    BY <1>1 DEF vars, schedVars, callVars
  <2>2. \A t \in Task : Uncounted(t)' = Uncounted(t)  BY <2>1 DEF Uncounted
  <2> QED  BY <2>1, <2>2 DEF CountersExact
<1>2. CASE Next
  <2>1. PICK w \in Worker : Step(w)  BY <1>2 DEF Next
  <2> SUFFICES ASSUME NEW u \in Task \ skipped'
               PROVE  dep_counter'[u] = Cardinality(Uncounted(u)')
    BY DEF CountersExact
  <2>2. u \in Task \ skipped  BY <1>2, OutcomesGrow
  <2>3. dep_counter[u] = Cardinality(Uncounted(u))  BY <2>2 DEF CountersExact
  <2>4. CASE UnlockCount(w)
    <3>1. CASE u # item[w]  BY <2>2, <2>3, <2>4, <3>1, UncountedCounted
    <3>2. CASE u = item[w]
      <4>1. /\ dep_counter'[u] = dep_counter[u] - 1
            /\ task[w] \in Uncounted(u) /\ Uncounted(u)' = Uncounted(u) \ {task[w]}
        BY <2>2, <2>4, <3>2, UncountedCounted
      <4>2. IsFiniteSet(Uncounted(u))  BY <2>2, UncountedFinite DEF IInv
      <4>3. Cardinality(Uncounted(u) \ {task[w]}) = Cardinality(Uncounted(u)) - 1
        BY <4>1, <4>2, FS_RemoveElement
      <4> HIDE DEF Uncounted
      <4> QED  BY <2>3, <4>1, <4>3
    <3> QED  BY <3>1, <3>2
  <2>5. CASE UnlockCheck(w)  BY <2>2, <2>3, <2>5, UncountedChecked
  <2>6. CASE MarkCompleted(w)  BY <2>2, <2>3, <2>6, UncountedCompleted
  <2>7. CASE ~MarkCompleted(w) /\ ~UnlockCheck(w) /\ ~UnlockCount(w)
    BY <2>1, <2>2, <2>3, <2>7, UncountedKept
  <2> QED  BY <2>4, <2>5, <2>6, <2>7
<1> QED  BY <1>1, <1>2

(* A task that was dispatched stays so: what leaves a queue is in a worker's
   hands, and what leaves those is over. *)
LEMMA DispatchedStays ==
  ASSUME IInv, NEW w \in Worker, Step(w), NEW u \in Task, Dispatched(u)
  PROVE  Dispatched(u)'
<1> USE DEF Goto, Return, schedVars
<1>0. TypeOK  BY DEF IInv
<1>1. CASE u \in completed \cup failed
  <2>1. Next  BY DEF Next
  <2> QED  BY <1>1, <2>1, OutcomesGrow DEF Dispatched
<1>2. CASE Queued(u)
  <2>0. PICK s \in Sandbox : u \in Range(ready_queues[s])  BY <1>2 DEF Queued
  <2>1. PICK i \in 1..Len(ready_queues[s]) : ready_queues[s][i] = u
    BY <1>0, <2>0 DEF Range, TypeOK
  <2>2. CASE \E r \in Sandbox : GetReadyTask(w, r)
    <3>1. PICK r \in Sandbox : GetReadyTask(w, r)  BY <2>2
    <3>2. /\ ready_queues[r] \in Seq(Task) /\ ready_queues[r] # <<>>
          /\ ready_queues' = [ready_queues EXCEPT ![r] = Tail(@)]
          /\ task' = [task EXCEPT ![w] = Head(ready_queues[r])]
          /\ pc' = [pc EXCEPT ![w] = "claimed"]
      BY <1>0, <3>1 DEF GetReadyTask, TypeOK
    <3>3. CASE s # r
      <4>1. ready_queues'[s] = ready_queues[s]  BY <1>0, <3>2, <3>3 DEF TypeOK
      <4>2. u \in Range(ready_queues'[s])  BY <1>0, <2>1, <4>1 DEF TypeOK, Range
      <4> QED  BY <4>2 DEF Queued, Dispatched
    <3>4. CASE s = r /\ i = 1
      <4>1. task'[w] = u /\ pc'[w] = "claimed"  BY <1>0, <2>1, <3>2, <3>4 DEF TypeOK
      <4> QED  BY <4>1 DEF Dispatched, Holds, Holding
    <3>5. CASE s = r /\ i # 1
      <4>1. /\ i - 1 \in DOMAIN Tail(ready_queues[r])
            /\ Tail(ready_queues[r])[i - 1] = u
        BY <2>1, <3>2, <3>5
      <4>2. ready_queues'[r] = Tail(ready_queues[r])  BY <1>0, <3>2 DEF TypeOK
      <4>3. u \in Range(ready_queues'[r])  BY <4>1, <4>2 DEF Range
      <4> QED  BY <4>3 DEF Queued, Dispatched
    <3> QED  BY <3>3, <3>4, <3>5
  <2>3. CASE UnlockCount(w)
    <3>1. Queued(u)'
      <4>1. ready_queues[s] \in Seq(Task)  BY <1>0 DEF TypeOK
      <4>2. item[w] \in Task  BY <2>3 DEF UnlockCount, IInv, LocalsOK, TypeOK, Unlocking
      <4>3. \/ ready_queues'[s] = ready_queues[s]
            \/ ready_queues'[s] = Append(ready_queues[s], item[w])
        BY <1>0, <2>3 DEF UnlockCount, TypeOK
      <4>4. i \in DOMAIN ready_queues'[s] /\ ready_queues'[s][i] = u
        BY <2>1, <4>1, <4>2, <4>3
      <4> QED  BY <4>4 DEF Queued, Range
    <3> QED  BY <3>1 DEF Dispatched
  <2>4. CASE SkipPurge(w)
    <3>1. item[w] \in skipped /\ item[w] \in Task  BY <2>4 DEF SkipPurge, IInv, LocalsOK
    <3>2. ~Queued(item[w])
      BY <3>1 DEF IInv, DispatchedOnce, QueuedNotTaken, Terminal
    <3>3. ready_queues'[s] = ready_queues[s]
      BY <2>4, <3>2 DEF SkipPurge, Queued, Without
    <3>4. u \in Range(ready_queues'[s])  BY <1>0, <2>1, <3>3 DEF TypeOK, Range
    <3> QED  BY <3>4 DEF Queued, Dispatched
  <2>5. CASE ready_queues' = ready_queues
    BY <1>2, <2>5 DEF Queued, Dispatched
  <2> QED
    BY <2>2, <2>3, <2>4, <2>5 DEF Step, MarkTaskStarted, LeaveRunning, StoreResult, MarkFailed,
       MarkCompleted, SkipPop, SkipDone, SkipDecide, SkipInsert, UnlockBegin, UnlockCheck,
       UnlockEnd, Exit
<1>3. CASE \E v \in Worker : Holds(v, u)
  <2>1. PICK v \in Worker : Holds(v, u)  BY <1>3
  <2>2. CASE v # w
    <3>1. pc'[v] = pc[v] /\ task'[v] = task[v]
      <4> USE <1>0, <2>2 DEF TypeOK
      <4>1. CASE \/ (\E s \in Sandbox : GetReadyTask(w, s)) \/ MarkTaskStarted(w)
                 \/ LeaveRunning(w) \/ StoreResult(w) \/ MarkFailed(w) \/ MarkCompleted(w)
                 \/ Exit(w)
        BY <4>1 DEF GetReadyTask, MarkTaskStarted, LeaveRunning, StoreResult, MarkFailed,
           MarkCompleted, Exit
      <4>2. CASE SkipPop(w) \/ SkipDone(w) \/ SkipDecide(w) \/ SkipInsert(w) \/ SkipPurge(w)
        BY <4>2 DEF SkipPop, SkipDone, SkipDecide, SkipInsert, SkipPurge
      <4>3. CASE UnlockBegin(w) \/ UnlockCheck(w) \/ UnlockCount(w) \/ UnlockEnd(w)
        BY <4>3 DEF UnlockBegin, UnlockCheck, UnlockCount, UnlockEnd
      <4> QED  BY <4>1, <4>2, <4>3 DEF Step
    <3> QED  BY <2>1, <3>1 DEF Holds, Dispatched
  <2>3. CASE v = w
    <3>1. pc[w] \in Holding /\ task[w] = u  BY <2>1, <2>3 DEF Holds
    <3>2. CASE MarkTaskStarted(w) \/ LeaveRunning(w) \/ StoreResult(w)
      <4>1. pc'[w] \in Holding /\ task'[w] = u
        BY <1>0, <3>1, <3>2 DEF MarkTaskStarted, LeaveRunning, StoreResult, TypeOK, Holding
      <4> QED  BY <4>1 DEF Holds, Dispatched
    <3>3. CASE MarkFailed(w)     BY <3>1, <3>3 DEF MarkFailed, Dispatched
    <3>4. CASE MarkCompleted(w)  BY <3>1, <3>4 DEF MarkCompleted, Dispatched
    <3> QED
      BY <3>1, <3>2, <3>3, <3>4 DEF Step, Holding, GetReadyTask, SkipPop, SkipDone, SkipDecide,
         SkipInsert, SkipPurge, UnlockBegin, UnlockCheck, UnlockCount, UnlockEnd, Exit
  <2> QED  BY <2>2, <2>3
<1> QED  BY <1>1, <1>2, <1>3 DEF Dispatched

LEMMA ZeroStaysDispatched ==
  ASSUME IInv, ZeroIsDispatched, [Next]_vars
  PROVE  ZeroIsDispatched'
<1>1. CASE UNCHANGED vars
  BY <1>1 DEF vars, schedVars, callVars, ZeroIsDispatched, Dispatched, Queued, Holds
<1>2. CASE Next
  <2>1. PICK w \in Worker : Step(w)  BY <1>2 DEF Next
  <2> SUFFICES ASSUME NEW u \in Task \ skipped', dep_counter'[u] = 0
               PROVE  Dispatched(u)'
    BY DEF ZeroIsDispatched
  <2>2. u \in Task \ skipped  BY <1>2, OutcomesGrow
  <2>3. CASE dep_counter[u] = 0
    BY <2>1, <2>2, <2>3, DispatchedStays DEF ZeroIsDispatched
  <2>4. CASE dep_counter[u] # 0
    <3>1. UnlockCount(w)
      BY <2>1, <2>2, <2>4, UncountedKept, UncountedChecked, UncountedCompleted
    <3>2. u = item[w] /\ dep_counter'[u] = dep_counter[u] - 1
      BY <2>2, <2>4, <3>1, UncountedCounted
    <3>3. dep_counter[u] = 1 /\ Hint[u] \in Sandbox
      BY <2>2, <3>2 DEF IInv, TypeOK
    <3>4. ready_queues'[Hint[u]] = Append(ready_queues[Hint[u]], u)
      BY <3>1, <3>2, <3>3 DEF UnlockCount, IInv, TypeOK
    <3>5. ready_queues[Hint[u]] \in Seq(Task)  BY <3>3 DEF IInv, TypeOK
    <3>6. u \in Range(ready_queues'[Hint[u]])
      <4>1. LET q == ready_queues[Hint[u]]
            IN Len(q) + 1 \in DOMAIN Append(q, u) /\ Append(q, u)[Len(q) + 1] = u
        BY <2>2, <3>5
      <4> QED  BY <3>4, <4>1 DEF Range
    <3> QED  BY <3>3, <3>6 DEF Queued, Dispatched
  <2> QED  BY <2>3, <2>4
<1> QED  BY <1>1, <1>2

(* When every worker is idle or gone and nothing is queued, no task of a graph
   without cycles and dangling ids is left over: a worker that finds nothing to
   do finds that the counts add up as well (get_stats), and may leave. *)
THEOREM NothingLeftOver == Spec => []NothingStuck
<1>1. Init => CountersExact /\ ZeroIsDispatched
  <2> SUFFICES ASSUME Init PROVE CountersExact /\ ZeroIsDispatched
    OBVIOUS
  <2>1. \A t \in Task : Uncounted(t) = deps[t]  BY DEF Init, Uncounted
  <2>2. CountersExact  BY <2>1 DEF Init, CountersExact
  <2>3. ASSUME NEW t \in Task, dep_counter[t] = 0 PROVE Dispatched(t)
    <3>1. IsFiniteSet(deps[t])
      <4>1. deps[t] \subseteq TaskId  BY DEF Init
      <4> QED  BY <4>1, FS_Subset
    <3>2. deps[t] = {}  BY <2>3, <3>1, FS_EmptySet DEF Init
    <3>3. t \in Range(ready_queues[Hint[t]]) /\ Hint[t] \in Sandbox
      BY <3>2 DEF Init, InitialQueues
    <3> QED  BY <3>3 DEF Dispatched, Queued
  <2> QED  BY <2>2, <2>3 DEF ZeroIsDispatched
<1>2. IInv /\ CountersExact /\ ZeroIsDispatched /\ [Next]_vars => CountersExact' /\ ZeroIsDispatched'
  BY CountersStayExact, ZeroStaysDispatched
<1>3. IInv /\ CountersExact /\ ZeroIsDispatched /\ SkippedExactly => NothingStuck
  <2> SUFFICES ASSUME IInv, CountersExact, ZeroIsDispatched, SkippedExactly, Grounded, AtRest
               PROVE  Resolved = Cardinality(Task)
    BY DEF NothingStuck
  <2>0. (\A t \in Task : Terminal(t)) => Resolved = Cardinality(Task)
    <3>1. HAVE \A t \in Task : Terminal(t)
    <3>2. completed \cup failed \cup skipped = Task  BY <3>1 DEF Terminal, IInv, TypeOK
    <3> QED  BY <3>2, CountedOnce DEF IInv, DispatchedOnce
  <2> SUFFICES ASSUME NEW t0 \in Task, ~Terminal(t0) PROVE FALSE
    BY <2>0
  <2> DEFINE over == {t \in Task : Terminal(t)}
  <2>1. PICK t \in Task \ over : deps[t] \cap (Task \ over) = {}
    <3>1. Task \ over \in (SUBSET Task) \ {{}}  OBVIOUS
    <3> QED  BY <3>1 DEF Grounded
  <2>2. t \in Task /\ ~Terminal(t) /\ deps[t] \subseteq Task  BY <2>1 DEF Grounded
  <2>3. \A d \in deps[t] : Terminal(d)  BY <2>1, <2>2
  <2>4. deps[t] \cap (failed \cup skipped) = {}
    <3>1. \A w \in Worker : pc[w] \notin Skipping  BY DEF AtRest, Skipping
    <3>2. ClosedUnderFailure(skipped)  BY <3>1 DEF SkippedExactly
    <3> QED  BY <2>2, <3>2 DEF ClosedUnderFailure, Terminal
  <2>5. deps[t] \subseteq completed  BY <2>3, <2>4 DEF Terminal
  <2>6. Uncounted(t) = {}
    <3>1. \A w \in Worker : pc[w] \notin Unlocking  BY DEF AtRest, Unlocking
    <3> QED  BY <2>5, <3>1 DEF Uncounted
  <2>7. dep_counter[t] = 0
    BY <2>2, <2>6, FS_EmptySet DEF CountersExact, Terminal
  <2>8. Dispatched(t)  BY <2>2, <2>7 DEF ZeroIsDispatched, Terminal
  <2>9. ~Queued(t)  BY DEF AtRest, Queued, Range
  <2>10. \A w \in Worker : ~Holds(w, t)  BY DEF AtRest, Holds, Holding
  <2> QED  BY <2>2, <2>8, <2>9, <2>10 DEF Dispatched, Terminal
<1> QED  BY <1>1, <1>2, <1>3, Invariance, SkippedAreReached, PTL DEF Spec

----------------------------------------------------------------------------
(* The dispatcher comes to rest. *)

(* What others leave alone: a worker's place and locals are its own. *)
LEMMA LocalsAreOwn ==
  ASSUME TypeOK, NEW w \in Worker, Step(w), NEW v \in Worker, v # w
  PROVE  UNCHANGED <<pc[v], task[v], todo[v], item[v], deps>>
<1> USE DEF TypeOK, Goto, Return, schedVars
<1>1. CASE \/ (\E s \in Sandbox : GetReadyTask(w, s)) \/ MarkTaskStarted(w)
           \/ LeaveRunning(w) \/ StoreResult(w) \/ MarkFailed(w) \/ MarkCompleted(w) \/ Exit(w)
  BY <1>1 DEF GetReadyTask, MarkTaskStarted, LeaveRunning, StoreResult, MarkFailed,
     MarkCompleted, Exit
<1>2. CASE SkipPop(w) \/ SkipDone(w) \/ SkipDecide(w) \/ SkipInsert(w) \/ SkipPurge(w)
  BY <1>2 DEF SkipPop, SkipDone, SkipDecide, SkipInsert, SkipPurge
<1>3. CASE UnlockBegin(w) \/ UnlockCheck(w) \/ UnlockCount(w) \/ UnlockEnd(w)
  BY <1>3 DEF UnlockBegin, UnlockCheck, UnlockCount, UnlockEnd
<1> QED  BY <1>1, <1>2, <1>3 DEF Step

(* What is due to be skipped stays so. *)
LEMMA DueStays ==
  ASSUME IInv, Next, NEW t \in Task, ShouldSkip(t)
  PROVE  ShouldSkip(t)'
<1>1. PICK w \in Worker : Step(w)  BY DEF Next
<1>2. deps' = deps
  BY <1>1 DEF Step, GetReadyTask, MarkTaskStarted, LeaveRunning, StoreResult,
     MarkFailed, MarkCompleted, SkipPop, SkipDone, SkipDecide, SkipInsert, SkipPurge,
     UnlockBegin, UnlockCheck, UnlockCount, UnlockEnd, Exit, schedVars
<1> QED  BY <1>2, OutcomesGrow DEF ShouldSkip

LEMMA CascadesStayDue ==
  ASSUME IInv, CascadesAreDue, [Next]_vars
  PROVE  CascadesAreDue'
<1>1. CASE UNCHANGED vars
  BY <1>1 DEF vars, schedVars, callVars, CascadesAreDue, ShouldSkip
<1>2. CASE Next
  <2>1. PICK w \in Worker : Step(w)  BY <1>2 DEF Next
  <2> SUFFICES ASSUME NEW v \in Worker, pc'[v] \in Skipping
               PROVE  /\ task'[v] \in failed'
                      /\ \A t \in todo'[v] : ShouldSkip(t)'
                      /\ pc'[v] = "skipDecide" => ShouldSkip(item[v])'
    BY DEF CascadesAreDue
  <2>2. TypeOK /\ failed \subseteq failed' /\ LocalsOK(v)  BY <1>2, OutcomesGrow DEF IInv
  <2>3. CASE v # w
    <3>1. UNCHANGED <<pc[v], task[v], todo[v], item[v]>>  BY <2>1, <2>2, <2>3, LocalsAreOwn
    <3>2. todo[v] \subseteq Task /\ (pc[v] = "skipDecide" => item[v] \in Task)
      BY <2>2 DEF TypeOK, LocalsOK
    <3>3. pc'[v] = "skipDecide" => ShouldSkip(item[v])
      BY <3>1 DEF CascadesAreDue
    <3>4. ASSUME pc'[v] = "skipDecide" PROVE ShouldSkip(item[v])'
      <4>1. item[v] \in Task /\ ShouldSkip(item[v]) /\ item'[v] = item[v]
        BY <3>1, <3>2, <3>3, <3>4
      <4> QED  BY <1>2, <4>1, DueStays DEF ShouldSkip
    <3> QED  BY <1>2, <2>2, <3>1, <3>2, <3>4, DueStays DEF CascadesAreDue
  <2>4. CASE v = w
    <3> USE DEF Goto, Return, schedVars, Skipping
    <3>1. CASE MarkFailed(w)
      <4>1. /\ task'[w] = task[w] /\ todo'[w] = Dependents(task[w]) /\ pc'[w] = "skip"
            /\ failed' = failed \cup {task[w]} /\ deps' = deps
        BY <2>2, <3>1 DEF MarkFailed, TypeOK
      <4> QED  BY <2>4, <4>1 DEF Dependents, ShouldSkip
    <3>2. CASE SkipPop(w)
      <4>1. PICK t \in todo[w] :
              /\ todo' = [todo EXCEPT ![w] = @ \ {t}]
              /\ UNCHANGED <<pc, item>> \/ item' = [item EXCEPT ![w] = t]
        BY <3>2 DEF SkipPop
      <4>2. pc[w] = "skip" /\ task' = task /\ UNCHANGED <<deps, failed, skipped>>
            /\ pc'[w] \in {"skip", "skipDecide"}
        BY <2>2, <3>2 DEF SkipPop, TypeOK
      <4>3. task[w] \in failed /\ \A u \in todo[w] : ShouldSkip(u)  BY <4>2 DEF CascadesAreDue
      <4>4. todo'[w] \subseteq todo[w]  BY <2>2, <4>1 DEF TypeOK
      <4>5. pc'[w] = "skipDecide" => item'[w] = t  BY <2>2, <4>1, <4>2 DEF TypeOK
      <4> QED  BY <2>4, <4>1, <4>2, <4>3, <4>4, <4>5 DEF ShouldSkip
    <3>3. CASE SkipDecide(w) \/ SkipInsert(w)
      <4>1. pc[w] \in Skipping /\ UNCHANGED <<deps, failed, task, todo>> /\ pc'[w] # "skipDecide"
        BY <2>2, <3>3 DEF SkipDecide, SkipInsert, TypeOK
      <4>2. todo[w] \subseteq Task  BY <2>2 DEF TypeOK
      <4> QED  BY <1>2, <2>4, <4>1, <4>2, DueStays DEF CascadesAreDue
    <3>4. CASE SkipPurge(w)
      <4>1. /\ pc[w] = "skipPurge" /\ UNCHANGED <<deps, failed, skipped, task>> /\ pc'[w] = "skip"
            /\ todo'[w] = todo[w] \cup Dependents(item[w])
        BY <2>2, <3>4 DEF SkipPurge, TypeOK
      <4>2. item[w] \in skipped  BY <2>2, <2>4, <4>1 DEF LocalsOK
      <4>3. task[w] \in failed /\ \A t \in todo[w] : ShouldSkip(t)  BY <4>1 DEF CascadesAreDue
      <4> QED  BY <2>4, <4>1, <4>2, <4>3 DEF Dependents, ShouldSkip
    <3>5. CASE \/ (\E s \in Sandbox : GetReadyTask(w, s)) \/ MarkTaskStarted(w)
               \/ LeaveRunning(w) \/ StoreResult(w) \/ MarkCompleted(w) \/ SkipDone(w) \/ Exit(w)
      <4>1. pc'[w] \notin Skipping
        BY <2>2, <3>5 DEF GetReadyTask, MarkTaskStarted, LeaveRunning, StoreResult, MarkCompleted,
           SkipDone, Exit, TypeOK
      <4> QED  BY <2>4, <4>1
    <3>6. CASE UnlockBegin(w) \/ UnlockCheck(w) \/ UnlockCount(w) \/ UnlockEnd(w)
      <4>1. pc'[w] \notin Skipping
        BY <2>2, <3>6 DEF UnlockBegin, UnlockCheck, UnlockCount, UnlockEnd, TypeOK
      <4> QED  BY <2>4, <4>1
    <3> QED  BY <2>1, <3>1, <3>2, <3>3, <3>4, <3>5, <3>6 DEF Step
  <2> QED  BY <2>3, <2>4
<1> QED  BY <1>1, <1>2

----------------------------------------------------------------------------
(* What is pending stays what it was, or less. *)

LEMMA PendingShrinks ==
  ASSUME IInv, IInv', Next, NEW t \in Task, phase'[t] = "pending"
  PROVE  phase[t] = "pending"
<1>1. Lifecycle!Next \/ UNCHANGED Lifecycle!vars  BY StepRefines
<1>2. ASSUME NEW u \in Task, NEW p, p # "pending", Lifecycle!Becomes(u, p)
      PROVE  phase[t] = "pending"
  <2>1. phase = [x \in Task |-> phase[x]]  BY DEF phase
  <2> QED  BY <1>2, <2>1 DEF Lifecycle!Becomes
<1>3. CASE Lifecycle!Next
  BY <1>2, <1>3 DEF Lifecycle!Next, Lifecycle!Start, Lifecycle!Finish, Lifecycle!Skip
<1>4. CASE UNCHANGED Lifecycle!vars  BY <1>4 DEF Lifecycle!vars
<1> QED  BY <1>1, <1>3, <1>4

LEMMA StillFinite ==
  ASSUME NEW w \in Worker, TypeOK
  PROVE  /\ IsFiniteSet(StillPending(w)) /\ Cardinality(StillPending(w)) \in Nat
         /\ IsFiniteSet(todo[w]) /\ Cardinality(todo[w]) \in Nat
         /\ IsFiniteSet(Task) /\ Cardinality(Task) \in Nat
<1>1. Task \subseteq TaskId /\ IsFiniteSet(TaskId)  OBVIOUS
<1>2. StillPending(w) \subseteq TaskId /\ todo[w] \subseteq TaskId  BY <1>1 DEF StillPending, TypeOK
<1> QED  BY <1>1, <1>2, FS_Subset, FS_CardinalityType

(* The parts one by one. *)
LEMMA AheadParts ==
  ASSUME NEW w
  PROVE  /\ WorkerAhead(w)[1] = Cardinality(StillPending(w))
         /\ WorkerAhead(w)[2] = HandlerRank[pc[w]] /\ WorkerAhead(w)[3] = LoopAhead(w)
         /\ WorkerAhead(w)'[1] = Cardinality(StillPending(w)')
         /\ WorkerAhead(w)'[2] = HandlerRank[pc'[w]] /\ WorkerAhead(w)'[3] = LoopAhead(w)'
BY DEF WorkerAhead

LEMMA AheadType ==
  ASSUME NEW w \in Worker, TypeOK
  PROVE  WorkerAhead(w) \in [1..3 -> Nat]
<1>1. HandlerRank[pc[w]] \in Nat  BY DEF TypeOK, Location, Holding, Skipping, Unlocking, HandlerRank
<1>2. LoopAhead(w) \in Nat  BY StillFinite DEF LoopAhead
<1>3. \A x, y, z \in Nat : <<x, y, z>> \in [1..3 -> Nat]  OBVIOUS
<1> QED  BY <1>1, <1>2, <1>3, StillFinite DEF WorkerAhead

(* Less pending; or as much, and further on; or as far, and with less of a loop
   to go. *)
LEMMA FewerPending ==
  ASSUME TypeOK, NEW w \in Worker, StillPending(w)' \subseteq StillPending(w),
         StillPending(w)' # StillPending(w)
  PROVE  Below(WorkerAhead(w)', WorkerAhead(w))
<1>1. /\ Cardinality(StillPending(w)') <= Cardinality(StillPending(w))
      /\ Cardinality(StillPending(w)') = Cardinality(StillPending(w))
           => StillPending(w)' = StillPending(w)
      /\ Cardinality(StillPending(w)') \in Nat /\ Cardinality(StillPending(w)) \in Nat
  BY StillFinite, FS_Subset, FS_CardinalityType
<1>2. WorkerAhead(w)'[1] < WorkerAhead(w)[1]  BY <1>1, AheadParts
<1> QED  BY <1>2 DEF Below

LEMMA RankOrLoop ==
  ASSUME TypeOK, NEW w \in Worker, StillPending(w)' \subseteq StillPending(w),
         \/ HandlerRank[pc'[w]] < HandlerRank[pc[w]]
         \/ HandlerRank[pc'[w]] = HandlerRank[pc[w]] /\ LoopAhead(w)' < LoopAhead(w)
  PROVE  Below(WorkerAhead(w)', WorkerAhead(w))
<1>1. CASE StillPending(w)' # StillPending(w)  BY <1>1, FewerPending
<1>2. CASE StillPending(w)' = StillPending(w)
  <2>1. WorkerAhead(w)'[1] = WorkerAhead(w)[1]  BY <1>2, AheadParts
  <2>2. CASE HandlerRank[pc'[w]] < HandlerRank[pc[w]]
    <3>1. WorkerAhead(w)'[2] < WorkerAhead(w)[2]  BY <2>2, AheadParts
    <3>2. \A j \in 1..(2 - 1) : WorkerAhead(w)'[j] = WorkerAhead(w)[j]  BY <2>1
    <3> QED  BY <3>1, <3>2 DEF Below
  <2>3. CASE HandlerRank[pc'[w]] = HandlerRank[pc[w]] /\ LoopAhead(w)' < LoopAhead(w)
    <3>1. WorkerAhead(w)'[3] < WorkerAhead(w)[3] /\ WorkerAhead(w)'[2] = WorkerAhead(w)[2]
      BY <2>3, AheadParts
    <3>2. \A j \in 1..(3 - 1) : WorkerAhead(w)'[j] = WorkerAhead(w)[j]  BY <2>1, <3>1
    <3> QED  BY <3>1, <3>2 DEF Below
  <2> QED  BY <2>2, <2>3
<1> QED  BY <1>1, <1>2

(* The steps of the others. *)
LEMMA OthersDoNotLengthen ==
  ASSUME IInv, IInv', NEW v \in Worker, Step(v), NEW w \in Worker, w # v
  PROVE  Below(WorkerAhead(w)', WorkerAhead(w)) \/ WorkerAhead(w)' = WorkerAhead(w)
<1>1. UNCHANGED <<pc[w], todo[w], item[w]>>  BY LocalsAreOwn DEF IInv
<1>2. Next  BY DEF Next
<1>3. StillPending(w)' \subseteq StillPending(w)  BY <1>1, <1>2, PendingShrinks DEF StillPending
<1>4. LoopAhead(w)' = LoopAhead(w)  BY <1>1 DEF LoopAhead
<1>5. CASE StillPending(w)' = StillPending(w)  BY <1>1, <1>4, <1>5 DEF WorkerAhead
<1> QED  BY <1>3, <1>5, FewerPending DEF IInv

----------------------------------------------------------------------------
(* A worker's own steps. *)

LEMMA PendingMeans ==
  ASSUME IInv, NEW t \in Task
  PROVE  phase[t] = "pending" <=> ~Terminal(t) /\ \A w \in Worker : ~Holds(w, t)
BY PhaseOf

(* What w has popped is not pending any more. *)
LEMMA GetIsNearer ==
  ASSUME IInv, IInv', NEW w \in Worker, NEW s \in Sandbox, GetReadyTask(w, s)
  PROVE  Below(WorkerAhead(w)', WorkerAhead(w))
<1>1. PICK t \in Task :
        /\ t = Head(ready_queues[s]) /\ Queued(t)
        /\ pc[w] = "idle" /\ pc'[w] = "claimed" /\ task'[w] = t
  <2>1. /\ ready_queues[s] \in Seq(Task) /\ ready_queues[s] # <<>>
        /\ pc[w] = "idle" /\ pc'[w] = "claimed" /\ task'[w] = Head(ready_queues[s])
    BY DEF IInv, TypeOK, GetReadyTask, Goto
  <2>2. Head(ready_queues[s]) \in Range(ready_queues[s]) /\ Head(ready_queues[s]) \in Task
    BY <2>1, PopFront DEF Range
  <2> QED  BY <2>1, <2>2 DEF Queued
<1>2. ~Terminal(t) /\ \A v \in Worker : ~Holds(v, t)
  BY <1>1 DEF IInv, DispatchedOnce, QueuedNotTaken
<1>3. phase[t] = "pending"  BY <1>2, PendingMeans
<1>4. Holds(w, t)'  BY <1>1 DEF Holds, Holding
<1>5. phase'[t] # "pending"  BY <1>4, PhaseAfter
<1>6. StillPending(w)' \subseteq StillPending(w)
  <2>1. Next  BY DEF Next, Step
  <2> QED  BY <1>1, <2>1, PendingShrinks DEF StillPending
<1>7. t \in StillPending(w) /\ t \notin StillPending(w)'
  BY <1>1, <1>3, <1>5 DEF StillPending
<1> QED  BY <1>6, <1>7, FewerPending DEF IInv

(* Nothing comes to what w has still pending but by a task that it lets go of. *)
LEMMA StillShrinks ==
  ASSUME IInv, IInv', Next, NEW w \in Worker,
         \/ pc[w] \notin {"skipDecide", "skipInsert", "skipPurge"}
         \/ pc[w] = "skipPurge"
         \/ pc'[w] \in {"skipDecide", "skipInsert", "skipPurge"} /\ item'[w] = item[w]
  PROVE  StillPending(w)' \subseteq StillPending(w)
<1>1. \A t \in Task : phase'[t] = "pending" => phase[t] = "pending"  BY PendingShrinks
<1>2. CASE pc[w] = "skipPurge"
  <2>1. item[w] \in skipped /\ item[w] \in Task  BY <1>2 DEF IInv, LocalsOK
  <2>2. phase[item[w]] # "pending"  BY <2>1, PendingMeans DEF Terminal
  <2> QED  BY <1>1, <1>2, <2>2 DEF StillPending
<1> QED  BY <1>1, <1>2 DEF StillPending

(* The straight part of a handler. *)
LEMMA ReportIsNearer ==
  ASSUME IInv, IInv', NEW w \in Worker,
         \/ MarkTaskStarted(w) \/ LeaveRunning(w) \/ StoreResult(w) \/ MarkFailed(w)
         \/ MarkCompleted(w) \/ SkipDone(w) \/ UnlockBegin(w) \/ UnlockEnd(w)
  PROVE  Below(WorkerAhead(w)', WorkerAhead(w))
<1>1. TypeOK /\ Next  BY DEF IInv, Next, Step
<1>2. /\ pc[w] \notin {"skipDecide", "skipInsert", "skipPurge"}
      /\ HandlerRank[pc'[w]] < HandlerRank[pc[w]]
  <2> USE <1>1 DEF TypeOK, Goto, Return, HandlerRank
  <2>1. CASE MarkTaskStarted(w)  BY <2>1 DEF MarkTaskStarted
  <2>2. CASE LeaveRunning(w)  BY <2>2 DEF LeaveRunning
  <2>3. CASE StoreResult(w)  BY <2>3 DEF StoreResult
  <2>4. CASE MarkFailed(w)  BY <2>4 DEF MarkFailed
  <2>5. CASE MarkCompleted(w)  BY <2>5 DEF MarkCompleted
  <2>6. CASE SkipDone(w)  BY <2>6 DEF SkipDone
  <2>7. CASE UnlockBegin(w) \/ UnlockEnd(w)  BY <2>7 DEF UnlockBegin, UnlockEnd
  <2> QED  BY <2>1, <2>2, <2>3, <2>4, <2>5, <2>6, <2>7
<1>3. StillPending(w)' \subseteq StillPending(w)  BY <1>1, <1>2, StillShrinks
<1> QED  BY <1>1, <1>2, <1>3, RankOrLoop

(* A task less to visit. *)
LEMMA TodoShrinks ==
  ASSUME TypeOK, NEW w \in Worker, NEW t \in todo[w], todo' = [todo EXCEPT ![w] = @ \ {t}]
  PROVE  Cardinality(todo'[w]) = Cardinality(todo[w]) - 1
<1>1. todo'[w] = todo[w] \ {t}  BY DEF TypeOK
<1> QED  BY <1>1, StillFinite, FS_RemoveElement

LEMMA PopIsNearer ==
  ASSUME IInv, IInv', CascadesAreDue, NEW w \in Worker, SkipPop(w)
  PROVE  Below(WorkerAhead(w)', WorkerAhead(w))
<1>1. TypeOK /\ Next /\ pc[w] = "skip"  BY DEF IInv, Next, Step, SkipPop
<1>2. StillPending(w)' \subseteq StillPending(w)  BY <1>1, StillShrinks
<1>3. PICK t \in todo[w] :
        /\ todo' = [todo EXCEPT ![w] = @ \ {t}]
        /\ IF Terminal(t) THEN UNCHANGED <<pc, item>>
           ELSE Goto(w, "skipDecide") /\ item' = [item EXCEPT ![w] = t]
  BY DEF SkipPop
<1>4. CASE Terminal(t)
  <2>1. pc'[w] = "skip" /\ Cardinality(todo'[w]) = Cardinality(todo[w]) - 1
    BY <1>1, <1>3, <1>4, TodoShrinks
  <2>2. Cardinality(todo[w]) \in Nat  BY <1>1, StillFinite
  <2>3. LoopAhead(w)' < LoopAhead(w)  BY <1>1, <2>1, <2>2 DEF LoopAhead
  <2> QED  BY <1>1, <1>2, <2>1, <2>3, RankOrLoop
<1>5. CASE ~Terminal(t)
  <2>1. t \in Task /\ ShouldSkip(t)  BY <1>1 DEF CascadesAreDue, Skipping, TypeOK
  <2>2. ~(deps[t] \subseteq completed)
    BY <2>1 DEF ShouldSkip, IInv, DispatchedOnce, OutcomesDisjoint
  <2>3. \A v \in Worker : ~Holds(v, t)
    BY <2>1, <2>2 DEF IInv, DispatchedAfterDeps, Dispatched
  <2>4. t \in StillPending(w)  BY <1>1, <1>5, <2>1, <2>3, PendingMeans DEF StillPending
  <2>5. pc'[w] = "skipDecide" /\ item'[w] = t  BY <1>1, <1>3, <1>5 DEF TypeOK, Goto
  <2>6. t \notin StillPending(w)'  BY <2>5 DEF StillPending
  <2> QED  BY <1>1, <1>2, <2>4, <2>6, FewerPending
<1> QED  BY <1>4, <1>5

(* A visit of skip_dependents: the task is marked, and its dependents are what
   the visit adds. *)
LEMMA VisitIsNearer ==
  ASSUME IInv, IInv', CascadesAreDue, NEW w \in Worker,
         SkipDecide(w) \/ SkipInsert(w) \/ SkipPurge(w)
  PROVE  Below(WorkerAhead(w)', WorkerAhead(w))
<1>1. TypeOK /\ Next  BY DEF IInv, Next, Step
<1>2. Cardinality(todo[w]) \in Nat /\ Cardinality(Task) \in Nat  BY <1>1, StillFinite
<1>3. CASE SkipDecide(w)
  <2>1. pc[w] = "skipDecide" /\ ShouldSkip(item[w])
    BY <1>3 DEF SkipDecide, CascadesAreDue, Skipping
  <2>2. pc'[w] = "skipInsert" /\ item' = item /\ todo' = todo
    BY <1>1, <1>3, <2>1 DEF SkipDecide, Goto, TypeOK
  <2>3. StillPending(w)' \subseteq StillPending(w)  BY <1>1, <2>2, StillShrinks
  <2>4. LoopAhead(w)' < LoopAhead(w)  BY <1>2, <2>1, <2>2 DEF LoopAhead
  <2>5. HandlerRank[pc'[w]] = HandlerRank[pc[w]]  BY <2>1, <2>2 DEF HandlerRank
  <2> QED  BY <1>1, <2>3, <2>4, <2>5, RankOrLoop
<1>4. CASE SkipInsert(w)
  <2>1. pc[w] = "skipInsert" /\ pc'[w] = "skipPurge" /\ item' = item /\ todo' = todo
    BY <1>1, <1>4 DEF SkipInsert, Goto, TypeOK
  <2>2. StillPending(w)' \subseteq StillPending(w)  BY <1>1, <2>1, StillShrinks
  <2>3. LoopAhead(w)' < LoopAhead(w)  BY <1>2, <2>1 DEF LoopAhead
  <2>4. HandlerRank[pc'[w]] = HandlerRank[pc[w]]  BY <2>1 DEF HandlerRank
  <2> QED  BY <1>1, <2>2, <2>3, <2>4, RankOrLoop
<1>5. CASE SkipPurge(w)
  <2>1. /\ pc[w] = "skipPurge" /\ pc'[w] = "skip"
        /\ todo'[w] = todo[w] \cup Dependents(item[w])
    BY <1>1, <1>5 DEF SkipPurge, Goto, TypeOK
  <2>2. StillPending(w)' \subseteq StillPending(w)  BY <1>1, <2>1, StillShrinks
  <2>3. Cardinality(todo'[w]) <= Cardinality(Task) /\ Cardinality(todo'[w]) \in Nat
    <3>1. todo'[w] \subseteq Task  BY <1>1, <2>1 DEF Dependents, TypeOK
    <3> QED  BY <1>1, <3>1, StillFinite, FS_Subset, FS_CardinalityType
  <2>4. LoopAhead(w)' < LoopAhead(w)  BY <1>2, <2>1, <2>3 DEF LoopAhead
  <2>5. HandlerRank[pc'[w]] = HandlerRank[pc[w]]  BY <2>1 DEF HandlerRank
  <2> QED  BY <1>1, <2>2, <2>4, <2>5, RankOrLoop
<1> QED  BY <1>3, <1>4, <1>5

(* And one of unlock_dependents, or the worker's leaving. *)
LEMMA UnlockIsNearer ==
  ASSUME IInv, IInv', NEW w \in Worker, UnlockCheck(w) \/ UnlockCount(w) \/ Exit(w)
  PROVE  Below(WorkerAhead(w)', WorkerAhead(w))
<1>1. TypeOK /\ LocalsOK(w) /\ Next  BY DEF IInv, Next, Step
<1>2. Cardinality(todo[w]) \in Nat  BY <1>1, StillFinite
<1>3. pc[w] \in {"unlock", "unlockCount", "idle"}  BY DEF UnlockCheck, UnlockCount, Exit
<1>4. StillPending(w)' \subseteq StillPending(w)  BY <1>1, <1>3, StillShrinks
<1>5. CASE UnlockCheck(w)
  <2>1. PICK t \in todo[w] :
          \/ todo' = [todo EXCEPT ![w] = @ \ {t}] /\ pc' = pc
          \/ pc' = [pc EXCEPT ![w] = "unlockCount"] /\ todo' = todo
    BY <1>5 DEF UnlockCheck, Goto
  <2>2. CASE todo' = [todo EXCEPT ![w] = @ \ {t}] /\ pc' = pc
    <3>1. Cardinality(todo'[w]) = Cardinality(todo[w]) - 1  BY <1>1, <2>2, TodoShrinks
    <3>2. LoopAhead(w)' < LoopAhead(w)  BY <1>2, <1>5, <2>2, <3>1 DEF LoopAhead, UnlockCheck
    <3> QED  BY <1>1, <1>4, <2>2, <3>2, RankOrLoop
  <2>3. CASE pc' = [pc EXCEPT ![w] = "unlockCount"] /\ todo' = todo
    <3>1. pc[w] = "unlock" /\ pc'[w] = "unlockCount"  BY <1>1, <1>5, <2>3 DEF UnlockCheck, TypeOK
    <3>2. LoopAhead(w)' < LoopAhead(w)  BY <1>2, <2>3, <3>1 DEF LoopAhead
    <3>3. HandlerRank[pc'[w]] = HandlerRank[pc[w]]  BY <3>1 DEF HandlerRank
    <3> QED  BY <1>1, <1>4, <3>2, <3>3, RankOrLoop
  <2> QED  BY <2>1, <2>2, <2>3
<1>6. CASE UnlockCount(w)
  <2>1. /\ pc[w] = "unlockCount" /\ pc'[w] = "unlock" /\ item[w] \in todo[w]
        /\ todo' = [todo EXCEPT ![w] = @ \ {item[w]}]
    BY <1>1, <1>6 DEF UnlockCount, Goto, TypeOK, LocalsOK
  <2>2. Cardinality(todo'[w]) = Cardinality(todo[w]) - 1  BY <1>1, <2>1, TodoShrinks
  <2>3. LoopAhead(w)' < LoopAhead(w)  BY <1>2, <2>1, <2>2 DEF LoopAhead
  <2>4. HandlerRank[pc'[w]] = HandlerRank[pc[w]]  BY <2>1 DEF HandlerRank
  <2> QED  BY <1>1, <1>4, <2>3, <2>4, RankOrLoop
<1>7. CASE Exit(w)
  <2>1. pc[w] = "idle" /\ pc'[w] = "exited" /\ todo' = todo
    BY <1>1, <1>7 DEF Exit, Goto, TypeOK
  <2>2. LoopAhead(w)' < LoopAhead(w)  BY <1>2, <2>1 DEF LoopAhead
  <2>3. HandlerRank[pc'[w]] = HandlerRank[pc[w]]  BY <2>1 DEF HandlerRank
  <2> QED  BY <1>1, <1>4, <2>2, <2>3, RankOrLoop
<1> QED  BY <1>5, <1>6, <1>7

(* Each step of a worker leaves less for it to do and no more for the others, for
   any graph, cyclic ones included, and any number of workers whose cascades and
   unlock loops overlap (get_ready_task, handle_task_completion). *)
THEOREM DispatcherProgresses == Spec => NearerToRest
<1> DEFINE P == \A w \in Worker : \/ Below(WorkerAhead(w)', WorkerAhead(w))
                                  \/ ~Step(w) /\ WorkerAhead(w)' = WorkerAhead(w)
<1>1. Init => CascadesAreDue  BY DEF Init, CascadesAreDue, Skipping
<1>2. IInv /\ IInv' /\ CascadesAreDue /\ [Next]_vars => CascadesAreDue' /\ [P]_vars
  <2>1. IInv /\ CascadesAreDue /\ [Next]_vars => CascadesAreDue'  BY CascadesStayDue
  <2>2. ASSUME IInv, IInv', CascadesAreDue, Next PROVE P
    <3> SUFFICES ASSUME NEW w \in Worker
                 PROVE  \/ Below(WorkerAhead(w)', WorkerAhead(w))
                        \/ ~Step(w) /\ WorkerAhead(w)' = WorkerAhead(w)
      OBVIOUS
    <3>1. ASSUME Step(w) PROVE Below(WorkerAhead(w)', WorkerAhead(w))
      <4>1. CASE \E s \in Sandbox : GetReadyTask(w, s)  BY <2>2, <4>1, GetIsNearer
      <4>2. CASE \/ MarkTaskStarted(w) \/ LeaveRunning(w) \/ StoreResult(w) \/ MarkFailed(w)
                 \/ MarkCompleted(w) \/ SkipDone(w) \/ UnlockBegin(w) \/ UnlockEnd(w)
        BY <2>2, <4>2, ReportIsNearer
      <4>3. CASE SkipPop(w)  BY <2>2, <4>3, PopIsNearer
      <4>4. CASE SkipDecide(w) \/ SkipInsert(w) \/ SkipPurge(w)  BY <2>2, <4>4, VisitIsNearer
      <4>5. CASE UnlockCheck(w) \/ UnlockCount(w) \/ Exit(w)  BY <2>2, <4>5, UnlockIsNearer
      <4> QED  BY <3>1, <4>1, <4>2, <4>3, <4>4, <4>5 DEF Step
    <3>2. CASE ~Step(w)
      <4>1. PICK v \in Worker : Step(v)  BY <2>2 DEF Next
      <4> QED  BY <2>2, <3>2, <4>1, OthersDoNotLengthen
    <3> QED  BY <3>1, <3>2
  <2> QED  BY <2>1, <2>2
<1>3. NearerToRest <=> [][P]_vars  BY DEF NearerToRest
<1> HIDE DEF P
<1> QED  BY <1>1, <1>2, <1>3, Invariance, PTL DEF Spec

WorkerMeasure == [1..3 -> Nat]
Less == {mn \in Nat \X Nat : mn[1] < mn[2]}

(* And what a worker has ahead cannot go down for ever: the dispatcher comes to
   rest after finitely many steps, with what NothingLeftOver says of that. *)
THEOREM DispatcherComesToRest ==
  /\ Spec => [](\A w \in Worker : WorkerAhead(w) \in WorkerMeasure)
  /\ IsWellFoundedOn({ab \in WorkerMeasure \X WorkerMeasure : Below(ab[1], ab[2])}, WorkerMeasure)
<1>1. IInv => \A w \in Worker : WorkerAhead(w) \in WorkerMeasure
  BY AheadType DEF IInv, WorkerMeasure
<1>2. Spec => [](\A w \in Worker : WorkerAhead(w) \in WorkerMeasure)
  BY <1>1, Invariance, PTL
<1>3. IsWellFoundedOn(LexProductOrdering(Less, Nat, 3), WorkerMeasure)
  <2>1. IsWellFoundedOn(Less, Nat)  BY NatLessThanWellFounded DEF OpToRel, Less
  <2> QED  BY <2>1, WFLexProductOrdering DEF WorkerMeasure
<1>4. {ab \in WorkerMeasure \X WorkerMeasure : Below(ab[1], ab[2])}
        \subseteq LexProductOrdering(Less, Nat, 3)
  BY DEF Below, WorkerMeasure, LexProductOrdering, Less
<1>5. IsWellFoundedOn({ab \in WorkerMeasure \X WorkerMeasure : Below(ab[1], ab[2])}, WorkerMeasure)
  BY <1>3, <1>4, IsWellFoundedOnSubrelation
<1> QED  BY <1>2, <1>5

----------------------------------------------------------------------------
(* The locks of the handlers. *)

Guard == [lock : Lock, mode : {"read", "write"}]

(* The order in which the blocks take their locks, one apart. *)
Rank == [ready_queues |-> 1, completed |-> 2, failed |-> 3, skipped |-> 4, running |-> 5]

LEMMA AcquiresType == \A s \in Section : Acquires[s] \in Seq(Guard) /\ Len(Acquires[s]) \in Nat \ {0}
<1>1. \A l \in Lock : Read(l) \in Guard /\ Write(l) \in Guard  BY DEF Guard, Read, Write
<1> HIDE DEF Guard
<1>2. \A g \in Guard : <<g>> \in Seq(Guard)  OBVIOUS
<1>3. \A g, h \in Guard : <<g, h>> \in Seq(Guard)  OBVIOUS
<1>4. \A g, h, i \in Guard : <<g, h, i>> \in Seq(Guard)  OBVIOUS
<1>5. \A g, h, i, j \in Guard : <<g, h, i, j>> \in Seq(Guard)  OBVIOUS
<1>6. {"ready_queues", "running", "completed", "failed", "skipped"} \subseteq Lock  BY DEF Lock
<1>7. /\ {Acquires["pop"], Acquires["start"], Acquires["leave"], Acquires["markOk"],
           Acquires["markErr"], Acquires["insert"], Acquires["purge"], Acquires["unlock"]} \subseteq Seq(Guard)
  BY <1>1, <1>2, <1>6 DEF Acquires
<1>8. {Acquires["stats"], Acquires["check"], Acquires["decide"], Acquires["visit"]} \subseteq Seq(Guard)
  BY <1>1, <1>3, <1>4, <1>5, <1>6 DEF Acquires
<1>9. \A s \in Section : Acquires[s] # <<>>  BY DEF Section, Acquires
<1>10. Section = {"pop", "stats", "start", "leave", "markOk", "markErr", "check", "decide", "insert",
                  "purge", "unlock", "visit"}
  BY DEF Section, Acquires
<1>11. \A s \in Section : Acquires[s] \in Seq(Guard)  BY <1>7, <1>8, <1>10
<1> QED  BY <1>9, <1>11

LEMMA WantedType ==
  ASSUME LocksIInv, NEW w \in Handler, ~Complete(w)
  PROVE  /\ taken[w] \in Nat /\ taken[w] + 1 \in 1..Len(Acquires[section[w]])
         /\ Wanted(w) \in Guard /\ Wanted(w).lock \in Lock
<1>1. /\ section[w] \in Section /\ taken[w] \in Nat /\ taken[w] <= Len(Acquires[section[w]])
  BY DEF LocksIInv, LocksTypeOK, SectionsOK
<1>2. Acquires[section[w]] \in Seq(Guard) /\ Len(Acquires[section[w]]) \in Nat  BY <1>1, AcquiresType
<1>3. taken[w] # Len(Acquires[section[w]])  BY DEF Complete
<1>4. taken[w] + 1 \in 1..Len(Acquires[section[w]])  BY <1>1, <1>2, <1>3
<1>5. Wanted(w) \in Guard
  <2> DEFINE q == Acquires[section[w]]
             n == taken[w] + 1
  <2>1. q \in Seq(Guard) /\ n \in 1..Len(q)  BY <1>2, <1>4
  <2> HIDE DEF q, n
  <2>2. q[n] \in Guard  BY <2>1
  <2> QED  BY <2>2 DEF q, n, Wanted
<1> QED  BY <1>1, <1>4, <1>5 DEF Guard

----------------------------------------------------------------------------
LEMMA LocksInitIInv == LocksInit => LocksIInv
<1> SUFFICES ASSUME LocksInit PROVE LocksIInv
  OBVIOUS
<1> USE DEF LocksInit
<1>1. {"stats", "leave"} \subseteq Section  BY DEF Section, Acquires
<1>2. LocksTypeOK  BY <1>1 DEF LocksTypeOK
<1>3. QueueOK  BY DEF QueueOK
<1>4. SectionsOK
  <2>1. section[Poller] = "stats"  BY DEF Handler
  <2>2. \A w \in Handler : taken[w] <= Len(Acquires[section[w]])  BY <1>1, AcquiresType
  <2>3. \A w \in Handler : section[w] \in {"stats", "leave"}  OBVIOUS
  <2> QED  BY <2>1, <2>2, <2>3 DEF SectionsOK, Cascade
<1> QED  BY <1>2, <1>3, <1>4 DEF LocksIInv

(* A worker that is through with its section goes on to the next one. *)
LEMMA EnterIInv ==
  ASSUME LocksIInv, NEW w \in Handler, NEW s \in Section, Enter(w, s),
         left' \in [Handler -> 0..MaxVisits], \A v \in Handler : v # w => left'[v] = left[v],
         w = Poller => s = "stats",
         s \in Cascade \cup {"markErr"} => w \in Agent /\ "markErr" \in Outcomes[w],
         s \in Cascade \cup {"unlock", "visit"} => left'[w] > 0
  PROVE  LocksIInv'
<1>1. /\ Complete(w) /\ queue' = queue
      /\ section' = [section EXCEPT ![w] = s] /\ taken' = [taken EXCEPT ![w] = 0]
  BY DEF Enter
<1>2. section \in [Handler -> Section] /\ taken \in [Handler -> Nat] /\ queue \in [Lock -> Seq(Handler)]
  BY DEF LocksIInv, LocksTypeOK
<1>3. \A v \in Handler : v # w =>
        section'[v] = section[v] /\ taken'[v] = taken[v] /\ (Complete(v)' <=> Complete(v)) /\ Wanted(v)' = Wanted(v)
  BY <1>1, <1>2 DEF Complete, Wanted
<1>4. LocksTypeOK'  BY <1>1, <1>2 DEF LocksTypeOK
<1>5. QueueOK'
  <2> SUFFICES ASSUME NEW l \in Lock, NEW i \in DOMAIN queue[l], NEW j \in DOMAIN queue[l]
               PROVE  /\ \E v : v = queue[l][i] /\ ~Complete(v)' /\ Wanted(v)'.lock = l
                      /\ queue[l][i] = queue[l][j] => i = j
    BY <1>1 DEF QueueOK, Complete, Wanted
  <2> PICK v : v = queue[l][i]  OBVIOUS
  <2>1. v \in Handler /\ ~Complete(v) /\ Wanted(v).lock = l /\ (queue[l][i] = queue[l][j] => i = j)
    BY <1>2 DEF LocksIInv, QueueOK
  <2>2. v # w  BY <1>1, <2>1
  <2> QED  BY <1>3, <2>1, <2>2
<1>6. SectionsOK'
  <2>1. section'[Poller] = "stats"
    BY <1>1, <1>2 DEF LocksIInv, SectionsOK, Handler
  <2>2. ASSUME NEW v \in Handler
        PROVE  /\ taken'[v] <= Len(Acquires[section'[v]])
               /\ section'[v] \in Cascade \cup {"markErr"} => v \in Agent /\ "markErr" \in Outcomes[v]
               /\ section'[v] \in Cascade \cup {"unlock", "visit"} => left'[v] > 0
    <3>1. CASE v = w
      <4>1. section'[v] = s /\ taken'[v] = 0  BY <1>1, <1>2, <3>1
      <4>2. 0 <= Len(Acquires[s])  BY AcquiresType
      <4> QED  BY <3>1, <4>1, <4>2
    <3>2. CASE v # w  BY <1>3, <3>2 DEF LocksIInv, SectionsOK
    <3> QED  BY <3>1, <3>2
  <2> QED  BY <2>1, <2>2 DEF SectionsOK
<1> QED  BY <1>4, <1>5, <1>6 DEF LocksIInv

(* One more guard is held. *)
LEMMA TakesType ==
  ASSUME LocksIInv, NEW w \in Handler, ~Complete(w), taken' = [taken EXCEPT ![w] = @ + 1],
         UNCHANGED <<section, left>>
  PROVE  /\ taken' \in [Handler -> Nat] /\ SectionsOK'
         /\ \A v \in Handler : v # w => (Complete(v)' <=> Complete(v)) /\ Wanted(v)' = Wanted(v)
<1>1. taken \in [Handler -> Nat] /\ section \in [Handler -> Section]
  BY DEF LocksIInv, LocksTypeOK
<1>2. taken[w] + 1 <= Len(Acquires[section[w]])  BY WantedType
<1>3. taken'[w] = taken[w] + 1 /\ \A v \in Handler : v # w => taken'[v] = taken[v]  BY <1>1
<1>4. SectionsOK'
  <2>1. \A v \in Handler : taken'[v] <= Len(Acquires[section[v]])
    BY <1>2, <1>3 DEF LocksIInv, SectionsOK
  <2> QED  BY <2>1 DEF LocksIInv, SectionsOK
<1> QED  BY <1>1, <1>3, <1>4 DEF Complete, Wanted

LEMMA AcquireIInv ==
  ASSUME LocksIInv, NEW w \in Handler, Acquire(w)
  PROVE  LocksIInv'
<1> DEFINE l == Wanted(w).lock
<1>1. ~Complete(w) /\ ~InQueue(w) /\ UNCHANGED <<section, left>>  BY DEF Acquire
<1>2. l \in Lock /\ queue \in [Lock -> Seq(Handler)]
  BY <1>1, WantedType DEF LocksIInv, LocksTypeOK
<1>3. CASE queue[l] = <<>> /\ Free(w)
  <2>1. taken' = [taken EXCEPT ![w] = @ + 1] /\ queue' = queue  BY <1>3 DEF Acquire
  <2>2. QueueOK'
    <3> SUFFICES ASSUME NEW m \in Lock, NEW i \in DOMAIN queue[m], NEW j \in DOMAIN queue[m]
                 PROVE  /\ \E v : v = queue[m][i] /\ ~Complete(v)' /\ Wanted(v)'.lock = m
                        /\ queue[m][i] = queue[m][j] => i = j
      BY <2>1 DEF QueueOK, Complete, Wanted
    <3> PICK v : v = queue[m][i]  OBVIOUS
    <3>1. v \in Handler /\ ~Complete(v) /\ Wanted(v).lock = m /\ (queue[m][i] = queue[m][j] => i = j)
      BY <1>2 DEF LocksIInv, QueueOK
    <3>2. v # w  BY <1>1 DEF InQueue
    <3> QED  BY <1>1, <2>1, <3>1, <3>2, TakesType
  <2> QED  BY <1>1, <2>1, <2>2, TakesType DEF LocksIInv, LocksTypeOK
<1>4. CASE ~(queue[l] = <<>> /\ Free(w))
  <2>1. queue' = [queue EXCEPT ![l] = Append(@, w)] /\ taken' = taken  BY <1>4 DEF Acquire
  <2>2. \A v : (Complete(v)' <=> Complete(v)) /\ Wanted(v)' = Wanted(v)
    <3>1. taken' = taken /\ section' = section  BY <1>1, <2>1
    <3> QED  BY <3>1 DEF Complete, Wanted
  <2>3. queue' \in [Lock -> Seq(Handler)]  BY <1>2, <2>1
  <2>4. QueueOK'
    <3> SUFFICES ASSUME NEW m \in Lock, NEW i \in DOMAIN queue'[m], NEW j \in DOMAIN queue'[m]
                 PROVE  /\ ~Complete(queue'[m][i]) /\ Wanted(queue'[m][i]).lock = m
                        /\ queue'[m][i] = queue'[m][j] => i = j
      BY <2>2 DEF QueueOK
    <3>1. CASE m # l
      <4>1. queue'[m] = queue[m]  BY <1>2, <2>1, <3>1
      <4> QED  BY <4>1 DEF LocksIInv, QueueOK
    <3>2. CASE m = l
      <4> DEFINE q == queue[l]
                 n == Len(q)
      <4>1. q \in Seq(Handler) /\ queue'[m] = Append(q, w) /\ n \in Nat  BY <1>2, <2>1, <3>2
      <4>2. \A k \in 1..n : ~Complete(q[k]) /\ Wanted(q[k]).lock = l /\ q[k] # w
                            /\ \A h \in 1..n : q[k] = q[h] => k = h
        <5>1. DOMAIN q = 1..n  BY <4>1
        <5> QED  BY <1>1, <1>2, <5>1 DEF LocksIInv, QueueOK, InQueue
      <4>3. ~Complete(w) /\ Wanted(w).lock = m  BY <1>1, <3>2
      <4> HIDE DEF q
      <4>4. /\ DOMAIN Append(q, w) = 1..(n + 1)
            /\ \A k \in 1..(n + 1) : Append(q, w)[k] = IF k = n + 1 THEN w ELSE q[k]
        BY <4>1
      <4>5. /\ i \in 1..(n + 1) /\ j \in 1..(n + 1)
            /\ queue'[m][i] = (IF i = n + 1 THEN w ELSE q[i])
            /\ queue'[m][j] = (IF j = n + 1 THEN w ELSE q[j])
        BY <4>1, <4>4
      <4>6. \A k \in 1..(n + 1) : k = n + 1 \/ k \in 1..n  BY <4>1
      <4> QED  BY <3>2, <4>2, <4>3, <4>5, <4>6
    <3> QED  BY <3>1, <3>2
  <2>5. SectionsOK' /\ LocksTypeOK'
    BY <1>1, <2>1, <2>3 DEF LocksIInv, SectionsOK, LocksTypeOK
  <2> QED  BY <2>4, <2>5 DEF LocksIInv
<1> QED  BY <1>3, <1>4

LEMMA GrantIInv ==
  ASSUME LocksIInv, NEW w \in Handler, Grant(w)
  PROVE  LocksIInv'
<1> DEFINE l == Wanted(w).lock
<1>1. /\ InQueue(w) /\ Head(queue[l]) = w /\ queue' = [queue EXCEPT ![l] = Tail(@)]
      /\ taken' = [taken EXCEPT ![w] = @ + 1] /\ UNCHANGED <<section, left>>
  BY DEF Grant
<1>2. queue \in [Lock -> Seq(Handler)]  BY DEF LocksIInv, LocksTypeOK
<1>3. PICK m \in Lock : \E i \in DOMAIN queue[m] : queue[m][i] = w  BY <1>1 DEF InQueue
<1>4. ~Complete(w) /\ m = l  BY <1>3 DEF LocksIInv, QueueOK
<1>5. l \in Lock /\ queue[l] # <<>>
  <2>1. queue[m] # <<>>  BY <1>3
  <2> QED  BY <1>3, <1>4, <2>1
<1>6. queue' \in [Lock -> Seq(Handler)]
  <2>1. Tail(queue[l]) \in Seq(Handler)  BY <1>2, <1>5
  <2> QED  BY <1>1, <1>2, <2>1
<1>7. QueueOK'
  <2> SUFFICES ASSUME NEW k \in Lock, NEW a \in DOMAIN queue'[k], NEW b \in DOMAIN queue'[k]
               PROVE  /\ \E v : v = queue'[k][a] /\ ~Complete(v)' /\ Wanted(v)'.lock = k
                      /\ queue'[k][a] = queue'[k][b] => a = b
    BY DEF QueueOK, Complete, Wanted
  <2>1. ASSUME NEW v \in Handler, v # w, ~Complete(v), Wanted(v).lock = k
        PROVE  ~Complete(v)' /\ Wanted(v)'.lock = k
    BY <1>1, <1>4, <2>1, TakesType
  <2>2. CASE k # l
    <3>1. queue'[k] = queue[k]  BY <1>1, <1>2, <2>2
    <3> PICK v : v = queue[k][a]  OBVIOUS
    <3>2. v \in Handler /\ ~Complete(v) /\ Wanted(v).lock = k /\ (queue[k][a] = queue[k][b] => a = b)
      BY <1>2, <3>1 DEF LocksIInv, QueueOK
    <3>3. v # w  BY <2>2, <3>2
    <3> QED  BY <2>1, <3>1, <3>2, <3>3
  <2>3. CASE k = l
    <3> DEFINE q == queue[l]
               n == Len(q)
    <3>1. q \in Seq(Handler) /\ q # <<>> /\ queue'[k] = Tail(q) /\ w = q[1]
      BY <1>1, <1>2, <1>5, <2>3
    <3>2. n \in Nat /\ n > 0 /\ DOMAIN q = 1..n  BY <3>1
    <3>3. \A h \in 1..n : q[h] \in Handler /\ ~Complete(q[h]) /\ Wanted(q[h]).lock = k
                          /\ \A g \in 1..n : q[h] = q[g] => h = g
      BY <1>2, <1>5, <2>3, <3>2 DEF LocksIInv, QueueOK
    <3> HIDE DEF q
    <3>4. DOMAIN Tail(q) = 1..(n - 1) /\ \A h \in 1..(n - 1) : Tail(q)[h] = q[h + 1]
      BY <3>1, <3>2
    <3>5. /\ a \in 1..(n - 1) /\ b \in 1..(n - 1) /\ queue'[k][a] = q[a + 1] /\ queue'[k][b] = q[b + 1]
          /\ a + 1 \in 1..n /\ b + 1 \in 1..n /\ 1 \in 1..n /\ a + 1 # 1
      BY <3>1, <3>2, <3>4
    <3>6. q[a + 1] # w  BY <3>1, <3>3, <3>5
    <3>7. q[a + 1] = q[b + 1] => a = b
      <4>1. q[a + 1] = q[b + 1] => a + 1 = b + 1  BY <3>3, <3>5
      <4> QED  BY <3>5, <4>1
    <3>8. PICK v : v = q[a + 1]  OBVIOUS
    <3>9. v \in Handler /\ ~Complete(v) /\ Wanted(v).lock = k /\ v # w  BY <3>3, <3>5, <3>6, <3>8
    <3>10. ~Complete(v)' /\ Wanted(v)'.lock = k  BY <2>1, <3>9
    <3> QED  BY <3>5, <3>7, <3>8, <3>10
  <2> QED  BY <2>2, <2>3
<1> QED  BY <1>1, <1>4, <1>6, <1>7, TakesType DEF LocksIInv, LocksTypeOK

LEMMA SectionNames ==
  Section = {"pop", "stats", "start", "leave", "markOk", "markErr", "check", "decide", "insert",
             "purge", "unlock", "visit"}
BY DEF Section, Acquires

LEMMA PollIInv ==
  ASSUME LocksIInv, NEW w \in Handler, Poll(w)
  PROVE  LocksIInv'
<1>1. left' = left /\ left \in [Handler -> 0..MaxVisits] /\ section[Poller] = "stats"
  BY DEF Poll, LocksIInv, LocksTypeOK, SectionsOK
<1>2. PICK s \in {"stats", "start", "pop", "leave"} : Enter(w, s) /\ (w = Poller => s = "stats")
  BY <1>1 DEF Poll
<1>3. s \in Section /\ s \notin Cascade \cup {"markErr", "unlock", "visit"}
  BY <1>2, SectionNames DEF Cascade
<1> QED  BY <1>1, <1>2, <1>3, EnterIInv

LEMMA ReportIInv ==
  ASSUME LocksIInv, NEW w \in Handler, Report(w)
  PROVE  LocksIInv'
<1>1. section[w] = "leave" /\ left' = left  BY DEF Report
<1>2. left \in [Handler -> 0..MaxVisits] /\ section[Poller] = "stats"
  BY DEF LocksIInv, LocksTypeOK, SectionsOK
<1>3. w \in Agent /\ w # Poller  BY <1>1, <1>2 DEF Handler
<1>4. PICK s \in Outcomes[w] : Enter(w, s)  BY DEF Report
<1>5. s \in {"markOk", "markErr"}  BY <1>3, <1>4
<1>6. s \in Section /\ s \notin Cascade \cup {"unlock", "visit"}  BY <1>5, SectionNames DEF Cascade
<1>7. s \in Cascade \cup {"markErr"} => "markErr" \in Outcomes[w]  BY <1>4, <1>5 DEF Cascade
<1> QED  BY <1>1, <1>2, <1>3, <1>4, <1>6, <1>7, EnterIInv

LEMMA BeginLoopIInv ==
  ASSUME LocksIInv, NEW w \in Handler, BeginLoop(w)
  PROVE  LocksIInv'
<1>1. PICK n \in 0..MaxVisits :
        /\ left' = [left EXCEPT ![w] = n]
        /\ \/ section[w] = "markErr" /\ Enter(w, IF n = 0 THEN "pop" ELSE "check")
           \/ section[w] = "markOk"  /\ Enter(w, IF n = 0 THEN "pop" ELSE "unlock")
  BY DEF BeginLoop
<1>2. left \in [Handler -> 0..MaxVisits] /\ section[Poller] = "stats"
  BY DEF LocksIInv, LocksTypeOK, SectionsOK
<1>3. left' \in [Handler -> 0..MaxVisits] /\ left'[w] = n /\ \A v \in Handler : v # w => left'[v] = left[v]
  BY <1>1, <1>2
<1>4. w # Poller  BY <1>1, <1>2
<1>5. section[w] \in Cascade \cup {"markErr"} => w \in Agent /\ "markErr" \in Outcomes[w]
  BY DEF LocksIInv, SectionsOK
<1>6. CASE n = 0
  <2>1. Enter(w, "pop") /\ "pop" \in Section /\ "pop" \notin Cascade \cup {"markErr", "unlock", "visit"}
    BY <1>1, <1>6, SectionNames DEF Cascade
  <2> QED  BY <1>3, <1>4, <2>1, EnterIInv
<1>7. CASE n > 0
  <2>1. CASE section[w] = "markErr"
    <3>1. Enter(w, "check") /\ "check" \in Section  BY <1>1, <1>7, <2>1, SectionNames
    <3> QED  BY <1>3, <1>4, <1>5, <1>7, <2>1, <3>1, EnterIInv
  <2>2. CASE section[w] = "markOk"
    <3>1. Enter(w, "unlock") /\ "unlock" \in Section /\ "unlock" \notin Cascade \cup {"markErr"}
      BY <1>1, <1>7, <2>2, SectionNames DEF Cascade
    <3> QED  BY <1>3, <1>4, <1>7, <3>1, EnterIInv
  <2> QED  BY <1>1, <2>1, <2>2
<1> QED  BY <1>6, <1>7

(* The loops that go on. *)
LEMMA LoopIInv ==
  ASSUME LocksIInv, NEW w \in Handler, NextVisit(w) \/ SkipVisited(w) \/ UnlockVisit(w)
  PROVE  LocksIInv'
<1>1. left \in [Handler -> 0..MaxVisits] /\ section[Poller] = "stats"
  BY DEF LocksIInv, LocksTypeOK, SectionsOK
<1>2. /\ section[w] \in Cascade \cup {"markErr"} => w \in Agent /\ "markErr" \in Outcomes[w]
      /\ section[w] \in Cascade \cup {"unlock", "visit"} => left[w] > 0
  BY DEF LocksIInv, SectionsOK
<1>3. section[w] \in Cascade \cup {"unlock", "visit"}
  BY DEF NextVisit, SkipVisited, UnlockVisit, Cascade
<1>4. w # Poller /\ left[w] > 0 /\ left[w] \in 0..MaxVisits
  BY <1>1, <1>2, <1>3 DEF Cascade
<1>5. ASSUME NEW s \in Section, Enter(w, s), left' = left,
             s \in Cascade \cup {"markErr"} => section[w] \in Cascade
      PROVE  LocksIInv'
  BY <1>1, <1>2, <1>4, <1>5, EnterIInv
<1>6. ASSUME NEW s \in Section, Enter(w, IF left[w] = 1 THEN "pop" ELSE s), left' = [left EXCEPT ![w] = @ - 1],
             s \in Cascade \cup {"markErr"} => section[w] \in Cascade
      PROVE  LocksIInv'
  <2>1. left[w] - 1 \in 0..MaxVisits  BY <1>4
  <2>2. left' \in [Handler -> 0..MaxVisits] /\ left'[w] = left[w] - 1
        /\ \A v \in Handler : v # w => left'[v] = left[v]
    BY <1>1, <1>6, <2>1
  <2>3. CASE left[w] = 1
    <3>1. Enter(w, "pop") /\ "pop" \in Section /\ "pop" \notin Cascade \cup {"markErr", "unlock", "visit"}
      BY <1>6, <2>3, SectionNames DEF Cascade
    <3> QED  BY <1>4, <2>2, <3>1, EnterIInv
  <2>4. CASE left[w] # 1
    <3>1. Enter(w, s)  BY <1>6, <2>4
    <3>2. left'[w] > 0  BY <1>4, <2>2, <2>4
    <3> QED  BY <1>2, <1>4, <1>6, <2>2, <3>1, <3>2, EnterIInv
  <2> QED  BY <2>3, <2>4
<1>7. CASE NextVisit(w)
  <2>1. "check" \in Section /\ section[w] \in Cascade  BY <1>7, SectionNames DEF NextVisit, Cascade
  <2> QED  BY <1>6, <1>7, <2>1 DEF NextVisit
<1>8. CASE SkipVisited(w)
  <2>1. PICK s \in {"decide", "insert", "purge"} : Enter(w, s) /\ left' = left
    BY <1>8 DEF SkipVisited
  <2>2. s \in Section /\ section[w] \in Cascade  BY <1>8, SectionNames DEF SkipVisited, Cascade
  <2> QED  BY <1>5, <2>1, <2>2
<1>9. CASE UnlockVisit(w)
  <2>1. "visit" \in Section /\ "visit" \notin Cascade \cup {"markErr"}  BY SectionNames DEF Cascade
  <2> QED  BY <1>5, <1>6, <1>9, <2>1 DEF UnlockVisit
<1> QED  BY <1>7, <1>8, <1>9

LEMMA LocksNextIInv == LocksIInv /\ [LocksNext]_lockVars => LocksIInv'
<1> SUFFICES ASSUME LocksIInv, [LocksNext]_lockVars PROVE LocksIInv'
  OBVIOUS
<1>1. ASSUME NEW w \in Handler, LockStep(w) PROVE LocksIInv'
  <2>1. CASE Acquire(w)  BY <2>1, AcquireIInv
  <2>2. CASE Grant(w)  BY <2>2, GrantIInv
  <2>3. CASE Poll(w)  BY <2>3, PollIInv
  <2>4. CASE Report(w)  BY <2>4, ReportIInv
  <2>5. CASE BeginLoop(w)  BY <2>5, BeginLoopIInv
  <2>6. CASE NextVisit(w) \/ SkipVisited(w) \/ UnlockVisit(w)  BY <2>6, LoopIInv
  <2> QED  BY <1>1, <2>1, <2>2, <2>3, <2>4, <2>5, <2>6 DEF LockStep
<1>2. CASE UNCHANGED lockVars
  BY <1>2 DEF lockVars, LocksIInv, LocksTypeOK, QueueOK, SectionsOK, Complete, Wanted
<1> QED  BY <1>1, <1>2 DEF LocksNext

(* Handlers wait in the queue of the lock they want next, once, whatever the
   number of workers and whichever of them fail. *)
THEOREM LocksInvariance == LocksSpec => []LocksIInv
<1> QED  BY LocksInitIInv, LocksNextIInv, PTL DEF LocksSpec

----------------------------------------------------------------------------
(* The order of the locks. *)

(* A block takes its locks in the order of Rank, but for the check of a
   dependent, which has skipped when it asks for failed. *)
LEMMA InOrder ==
  ASSUME LocksIInv, NEW w \in Handler, ~Complete(w), NEW g \in Guards(w)
  PROVE  \/ Rank[g.lock] < Rank[Wanted(w).lock]
         \/ section[w] = "check" /\ g = Read("skipped") /\ Wanted(w) = Read("failed")
<1> DEFINE s == section[w]
           k == taken[w]
<1>1. s \in Section /\ k \in Nat /\ k + 1 \in 1..Len(Acquires[s])
  BY WantedType DEF LocksIInv, LocksTypeOK
<1>2. \/ \E i \in 1..k : g = Acquires[s][i]
      \/ s = "visit" /\ g = Write("ready_queues")
  BY DEF Guards
<1>3. CASE s \in {"pop", "start", "leave", "markOk", "markErr", "insert", "purge", "unlock"}
  <2>1. Len(Acquires[s]) = 1  BY <1>3 DEF Acquires
  <2>2. k = 0  BY <1>1, <2>1
  <2>3. s # "visit"  BY <1>3
  <2> QED  BY <1>2, <2>2, <2>3
<1>4. CASE s = "stats"
  <2>1. Acquires[s] = <<Read("completed"), Read("failed"), Read("skipped"), Read("running")>>
    BY <1>4 DEF Acquires
  <2>2. k \in 0..3  BY <1>1, <2>1
  <2>3. PICK i \in 1..k : g = Acquires[s][i]  BY <1>2, <1>4
  <2> HIDE DEF s, k
  <2>4. k \in {1, 2, 3} /\ i \in {1, 2, 3} /\ i <= k  BY <2>2, <2>3
  <2>5. Wanted(w) = Acquires[s][k + 1]  BY DEF s, k, Wanted
  <2> QED  BY <2>1, <2>3, <2>4, <2>5 DEF Rank, Read
<1>5. CASE s = "check"
  <2>1. Acquires[s] = <<Read("completed"), Read("skipped"), Read("failed")>>
    BY <1>5 DEF Acquires
  <2>2. k \in 0..2  BY <1>1, <2>1
  <2>3. PICK i \in 1..k : g = Acquires[s][i]  BY <1>2, <1>5
  <2>4. Wanted(w) = Acquires[s][k + 1]  BY DEF Wanted
  <2> HIDE DEF k
  <2>5. k \in {1, 2} /\ i \in {1, 2} /\ i <= k  BY <2>2, <2>3
  <2> QED  BY <1>5, <2>1, <2>3, <2>4, <2>5 DEF Rank, Read
<1>6. CASE s = "decide"
  <2>1. Acquires[s] = <<Read("completed"), Read("failed"), Read("skipped")>>
    BY <1>6 DEF Acquires
  <2>2. k \in 0..2  BY <1>1, <2>1
  <2>3. PICK i \in 1..k : g = Acquires[s][i]  BY <1>2, <1>6
  <2>4. Wanted(w) = Acquires[s][k + 1]  BY DEF Wanted
  <2> HIDE DEF s, k
  <2>5. k \in {1, 2} /\ i \in {1, 2} /\ i <= k  BY <2>2, <2>3
  <2> QED  BY <2>1, <2>3, <2>4, <2>5 DEF Rank, Read
<1>7. CASE s = "visit"
  <2>1. Acquires[s] = <<Read("failed"), Read("skipped")>>  BY <1>7 DEF Acquires
  <2>2. k \in {0, 1}  BY <1>1, <2>1
  <2>3. Wanted(w) = Acquires[s][k + 1]  BY DEF Wanted
  <2> HIDE DEF s, k
  <2>4. g = Write("ready_queues") \/ (k = 1 /\ g = Acquires[s][1])  BY <1>2, <2>2
  <2> QED  BY <2>1, <2>2, <2>3, <2>4 DEF Rank, Read, Write
<1> QED  BY <1>1, <1>3, <1>4, <1>5, <1>6, <1>7, SectionNames

(* Who wants a lock for itself. *)
LEMMA Writers ==
  ASSUME LocksIInv, NEW w \in Handler, ~Complete(w), Wanted(w).mode = "write"
  PROVE  /\ Wanted(w).lock = "skipped" => section[w] = "insert"
         /\ Wanted(w).lock = "failed" => section[w] = "markErr"
<1> DEFINE s == section[w]
           k == taken[w]
<1>1. s \in Section /\ k \in Nat /\ k + 1 \in 1..Len(Acquires[s]) /\ Wanted(w) = Acquires[s][k + 1]
  BY WantedType DEF LocksIInv, LocksTypeOK, Wanted
<1> HIDE DEF s, k
<1>2. CASE s \in {"pop", "start", "leave", "markOk", "markErr", "insert", "purge", "unlock"}
  <2>1. Len(Acquires[s]) = 1  BY <1>2 DEF Acquires
  <2>2. Wanted(w) = Acquires[s][1]  BY <1>1, <2>1
  <2> QED  BY <1>2, <2>2 DEF Acquires, Write, s
<1>3. CASE s = "stats"
  <2>1. Acquires[s] = <<Read("completed"), Read("failed"), Read("skipped"), Read("running")>>
    BY <1>3 DEF Acquires
  <2> QED  BY <1>1, <2>1 DEF Read
<1>4. CASE s \in {"check", "decide"}
  <2>1. \/ Acquires[s] = <<Read("completed"), Read("skipped"), Read("failed")>>
        \/ Acquires[s] = <<Read("completed"), Read("failed"), Read("skipped")>>
    BY <1>4 DEF Acquires
  <2> QED  BY <1>1, <2>1 DEF Read
<1>5. CASE s = "visit"
  <2>1. Acquires[s] = <<Read("failed"), Read("skipped")>>  BY <1>5 DEF Acquires
  <2> QED  BY <1>1, <2>1 DEF Read
<1> QED  BY <1>1, <1>2, <1>3, <1>4, <1>5, SectionNames

(* Who holds failed and wants another lock only reads it. *)
LEMMA FailedRead ==
  ASSUME LocksIInv, NEW w \in Handler, ~Complete(w), NEW g \in Guards(w), g.lock = "failed"
  PROVE  g.mode = "read"
<1> DEFINE s == section[w]
           k == taken[w]
<1>1. s \in Section /\ k \in Nat /\ k + 1 \in 1..Len(Acquires[s])
  BY WantedType DEF LocksIInv, LocksTypeOK
<1>2. \/ \E i \in 1..k : g = Acquires[s][i]
      \/ s = "visit" /\ g = Write("ready_queues")
  BY DEF Guards
<1>3. PICK i \in 1..k : g = Acquires[s][i]  BY <1>2 DEF Write
<1> HIDE DEF s, k
<1>4. Len(Acquires[s]) # 1 /\ i \in 1..Len(Acquires[s])
  <2>1. Len(Acquires[s]) \in Nat  BY <1>1, AcquiresType
  <2>2. \A n \in Nat : k + 1 \in 1..n => n # 1 /\ i \in 1..n  BY <1>1, <1>3
  <2> QED  BY <1>1, <2>1, <2>2
<1>5. s \in {"stats", "check", "decide", "visit"}  BY <1>1, <1>4, SectionNames DEF Acquires
<1>6. Acquires[s] \in {<<Read("completed"), Read("failed"), Read("skipped"), Read("running")>>,
        <<Read("completed"), Read("skipped"), Read("failed")>>,
        <<Read("completed"), Read("failed"), Read("skipped")>>, <<Read("failed"), Read("skipped")>>}
  BY <1>5 DEF Acquires
<1>7. Acquires[s][i].mode = "read"  BY <1>4, <1>6 DEF Read
<1> QED  BY <1>3, <1>7

(* Some member of a ring is the first of its members in a queue. *)
LEMMA FirstInQueue ==
  ASSUME LocksIInv, NEW R \in SUBSET Handler, NEW l \in Lock,
         \E i \in DOMAIN queue[l] : queue[l][i] \in R
  PROVE  \E i \in DOMAIN queue[l] :
           queue[l][i] \in R /\ \A j \in DOMAIN queue[l] : j < i => queue[l][j] \notin R
<1> DEFINE n == Len(queue[l])
           I == {i \in 1..n : queue[l][i] \in R}
           T == {1..i : i \in I}
<1>1. queue[l] \in Seq(Handler)  BY DEF LocksIInv, LocksTypeOK
<1>2. n \in Nat /\ DOMAIN queue[l] = 1..n  BY <1>1
<1>3. I # {} /\ T # {}  BY <1>2
<1>4. T \subseteq FiniteSubsetsOf(Nat)
  <2> SUFFICES ASSUME NEW i \in I PROVE 1..i \in FiniteSubsetsOf(Nat)
    OBVIOUS
  <2>1. i \in Nat /\ 1..i \subseteq Nat  BY <1>2
  <2>2. IsFiniteSet(1..i)  BY <2>1, FS_Interval
  <2> QED  BY <2>1, <2>2 DEF FiniteSubsetsOf
<1>5. IsWellFoundedOn(StrictSubsetOrdering(Nat), FiniteSubsetsOf(Nat))
  BY FS_StrictSubsetOrderingWellFounded
<1>6. PICK m \in T : \A t \in T : <<t, m>> \notin StrictSubsetOrdering(Nat)
  <2> HIDE DEF T
  <2> QED  BY <1>3, <1>4, <1>5, WFMin
<1>7. PICK i \in I : m = 1..i  BY <1>6
<1>8. \A j \in I : ~(j < i)
  <2> SUFFICES ASSUME NEW j \in I, j < i PROVE FALSE
    OBVIOUS
  <2>1. i \in Nat /\ j \in Nat /\ i >= 1  BY <1>2
  <2>2. 1..j \subseteq 1..i /\ 1..j # 1..i
    <3>1. i \in 1..i /\ i \notin 1..j  BY <2>1
    <3> QED  BY <2>1, <3>1
  <2>3. 1..j \in SUBSET Nat /\ 1..i \in SUBSET Nat  BY <2>1
  <2>4. <<1..j, 1..i>> \in StrictSubsetOrdering(Nat)
    BY <2>2, <2>3 DEF StrictSubsetOrdering
  <2> QED  BY <1>6, <1>7, <2>4
<1> QED  BY <1>2, <1>8

(* It waits for another member that has the lock. *)
LEMMA FirstWaitsForHolder ==
  ASSUME LocksIInv, NEW R \in SUBSET Handler, NEW l \in Lock, NEW i \in DOMAIN queue[l],
         queue[l][i] \in R, \A j \in DOMAIN queue[l] : j < i => queue[l][j] \notin R,
         NEW w, w = queue[l][i], WaitsOn(w) \cap R # {}
  PROVE  \E v \in R : \E g \in Guards(v) : Excludes(g, Wanted(w))
<1>1. ~Complete(w) /\ Wanted(w).lock = l /\ InQueue(w)  BY DEF LocksIInv, QueueOK, InQueue
<1>2. queue[l] \in Seq(Handler)  BY DEF LocksIInv, LocksTypeOK
<1>3. PICK v \in R : v \in WaitsOn(w)  OBVIOUS
<1>4. \/ \E g \in Guards(v) : Excludes(g, Wanted(w))
      \/ \E j \in DOMAIN queue[l] : v = queue[l][j] /\ \A k \in 1..j : queue[l][k] # w
  BY <1>1, <1>3 DEF WaitsOn
<1>5. ASSUME NEW j \in DOMAIN queue[l], \A k \in 1..j : queue[l][k] # w PROVE queue[l][j] \notin R
  <2>1. i \in Nat /\ j \in Nat /\ i >= 1  BY <1>2
  <2>2. ~(i <= j)
    <3> SUFFICES ASSUME i <= j PROVE FALSE  OBVIOUS
    <3>1. i \in 1..j  BY <2>1
    <3> QED  BY <1>5, <3>1
  <2> QED  BY <2>1, <2>2
<1> QED  BY <1>4, <1>5

(* A ring is closed where the order is broken: by a check that has skipped and
   waits for failed, behind somebody who waits to record a failure, while an
   insert waits for skipped. *)
LEMMA RingsNeedThree ==
  ASSUME LocksIInv, NEW R \in SUBSET Handler, R # {}, \A w \in R : WaitsOn(w) \cap R # {}
  PROVE  \E a, b, c \in R : section[a] = "insert" /\ section[b] = "check" /\ section[c] = "markErr"
<1>1. ASSUME NEW w \in R
      PROVE  /\ ~Complete(w) /\ Wanted(w).lock \in Lock
             /\ \E i \in DOMAIN queue[Wanted(w).lock] : queue[Wanted(w).lock][i] = w
  <2>1. InQueue(w)  BY DEF WaitsOn
  <2>2. PICK l \in Lock : \E i \in DOMAIN queue[l] : queue[l][i] = w  BY <2>1 DEF InQueue
  <2>3. ~Complete(w) /\ Wanted(w).lock = l  BY <2>2 DEF LocksIInv, QueueOK
  <2> QED  BY <2>2, <2>3
<1> DEFINE r(w) == Rank[Wanted(w).lock]
<1>2. \A w \in R : r(w) \in {1, 2, 3, 4, 5}  BY <1>1 DEF Lock, Rank
<1>3. PICK x \in R : \A w \in R : r(w) <= r(x)
  <2> HIDE DEF r
  <2>1. CASE \E x \in R : r(x) = 5  BY <1>2, <2>1
  <2>2. CASE (\E x \in R : r(x) = 4) /\ \A x \in R : r(x) # 5  BY <1>2, <2>2
  <2>3. CASE (\E x \in R : r(x) = 3) /\ \A x \in R : r(x) \notin {4, 5}  BY <1>2, <2>3
  <2>4. CASE (\E x \in R : r(x) = 2) /\ \A x \in R : r(x) \notin {3, 4, 5}  BY <1>2, <2>4
  <2>5. CASE \A x \in R : r(x) = 1  BY <2>5
  <2> QED  BY <1>2, <2>1, <2>2, <2>3, <2>4, <2>5
<1> DEFINE l == Wanted(x).lock
<1>4. l \in Lock /\ \E i \in DOMAIN queue[l] : queue[l][i] \in R  BY <1>1, <1>3
<1>5. PICK i \in DOMAIN queue[l] :
        queue[l][i] \in R /\ \A j \in DOMAIN queue[l] : j < i => queue[l][j] \notin R
  BY <1>4, FirstInQueue
<1>6. PICK a \in R : a = queue[l][i]  BY <1>5
<1>7. ~Complete(a) /\ Wanted(a).lock = l  BY <1>4, <1>6 DEF LocksIInv, QueueOK
<1>8. PICK b \in R : \E g \in Guards(b) : Excludes(g, Wanted(a))
  <2> HIDE DEF l
  <2> QED  BY <1>4, <1>5, <1>6, FirstWaitsForHolder
<1>9. PICK g \in Guards(b) : Excludes(g, Wanted(a))  BY <1>8
<1>10. g.lock = l /\ "write" \in {g.mode, Wanted(a).mode}  BY <1>7, <1>9 DEF Excludes
<1>11. section[b] = "check" /\ g = Read("skipped") /\ Wanted(b) = Read("failed")
  <2>1. ~Complete(b) /\ b \in Handler  BY <1>1
  <2>2. Rank[g.lock] < Rank[Wanted(b).lock] \/ (section[b] = "check" /\ g = Read("skipped") /\ Wanted(b) = Read("failed"))
    BY <2>1, InOrder
  <2>3. r(b) <= r(x) /\ r(x) = Rank[g.lock] /\ r(b) \in {1, 2, 3, 4, 5} /\ r(x) \in {1, 2, 3, 4, 5}
    BY <1>2, <1>3, <1>10
  <2> QED  BY <2>2, <2>3
<1>12. section[a] = "insert"
  <2>1. Wanted(a).mode = "write" /\ Wanted(a).lock = "skipped"  BY <1>7, <1>10, <1>11 DEF Read
  <2> QED  BY <1>7, <2>1, Writers
<1>13. "failed" \in Lock /\ \E k \in DOMAIN queue["failed"] : queue["failed"][k] \in R
  BY <1>1, <1>11 DEF Read, Lock
<1>14. PICK k \in DOMAIN queue["failed"] :
         queue["failed"][k] \in R /\ \A j \in DOMAIN queue["failed"] : j < k => queue["failed"][j] \notin R
  BY <1>13, FirstInQueue
<1>15. PICK c \in R : c = queue["failed"][k]  BY <1>14
<1>16. ~Complete(c) /\ Wanted(c).lock = "failed"  BY <1>13, <1>15 DEF LocksIInv, QueueOK
<1>17. PICK d \in R : \E h \in Guards(d) : Excludes(h, Wanted(c))
  BY <1>13, <1>14, <1>15, FirstWaitsForHolder
<1>18. PICK h \in Guards(d) : Excludes(h, Wanted(c))  BY <1>17
<1>19. h.lock = "failed" /\ "write" \in {h.mode, Wanted(c).mode}  BY <1>16, <1>18 DEF Excludes
<1>20. h.mode = "read"  BY <1>1, <1>19, FailedRead
<1>21. Wanted(c).mode = "write"  BY <1>19, <1>20
<1>22. section[c] = "markErr"  BY <1>16, <1>21, Writers
<1> QED  BY <1>11, <1>12, <1>22

(* A ring of waiting handlers takes a cascade that checks a dependent, another
   that marks one and a worker that records a failure, all at once: nothing
   else the handlers do can lock them out, for any number of workers. *)
THEOREM RingTakesThree == LocksSpec => []RingsHaveThree
<1>1. LocksIInv => RingsHaveThree
  <2> SUFFICES ASSUME LocksIInv, NEW R \in SUBSET Handler, R # {}, \A w \in R : WaitsOn(w) \cap R # {}
               PROVE  {"check", "insert", "markErr"} \subseteq {section[w] : w \in R}
    BY DEF RingsHaveThree
  <2>1. PICK a, b, c \in R : section[a] = "insert" /\ section[b] = "check" /\ section[c] = "markErr"
    BY RingsNeedThree
  <2> QED  BY <2>1
<1> QED  BY <1>1, LocksInvariance, PTL

(* While no three workers can fail, no ring closes: any number of workers that
   succeed, of dependents and of tasks, and the poller, never lock each other
   out. *)
THEOREM TwoFailuresDoNotLock == AtMostTwoFail => (LocksSpec => []NoCircularWait)
<1> SUFFICES ASSUME AtMostTwoFail PROVE LocksSpec => []NoCircularWait
  OBVIOUS
<1>1. LocksIInv => NoCircularWait
  <2> SUFFICES ASSUME LocksIInv, NEW R \in SUBSET Handler, R # {}, \A w \in R : WaitsOn(w) \cap R # {}
               PROVE  FALSE
    BY DEF NoCircularWait
  <2>1. PICK a, b, c \in R : section[a] = "insert" /\ section[b] = "check" /\ section[c] = "markErr"
    BY RingsNeedThree
  <2>2. a # b /\ b # c /\ a # c  BY <2>1
  <2>3. \A w \in {a, b, c} : w \in Agent /\ "markErr" \in Outcomes[w]
    BY <2>1 DEF LocksIInv, SectionsOK, Cascade
  <2> QED  BY <2>2, <2>3 DEF AtMostTwoFail
<1> QED  BY <1>1, LocksInvariance, PTL

(* And somebody can always go on then. *)
THEOREM TwoFailuresGoOn == AtMostTwoFail => (LocksSpec => []SomebodyGoesOn)
<1> SUFFICES ASSUME AtMostTwoFail PROVE LocksSpec => []SomebodyGoesOn
  OBVIOUS
<1>1. LocksIInv /\ NoCircularWait => SomebodyGoesOn
  <2> SUFFICES ASSUME LocksIInv, NoCircularWait PROVE SomebodyGoesOn
    OBVIOUS
  <2>1. Handler \in (SUBSET Handler) \ {{}}  BY DEF Handler
  <2>2. PICK w \in Handler : WaitsOn(w) \cap Handler = {}  BY <2>1 DEF NoCircularWait
  <2>3. SUFFICES ASSUME InQueue(w) PROVE Head(queue[Wanted(w).lock]) = w /\ Free(w)
    BY DEF SomebodyGoesOn
  <2>4. PICK l \in Lock : \E i \in DOMAIN queue[l] : queue[l][i] = w  BY <2>3 DEF InQueue
  <2>5. Wanted(w).lock = l /\ queue[l] \in Seq(Handler)
    BY <2>4 DEF LocksIInv, QueueOK, LocksTypeOK
  <2>6. WaitsOn(w) = {v \in Handler \ {w} : \E g \in Guards(v) : Excludes(g, Wanted(w))}
          \cup {queue[l][i] : i \in {j \in DOMAIN queue[l] : \A k \in 1..j : queue[l][k] # w}}
    BY <2>3, <2>5 DEF WaitsOn
  <2>7. Free(w)  BY <2>2, <2>6 DEF Free
  <2>8. queue[l][1] = w
    <3>1. 1 \in DOMAIN queue[l] /\ queue[l][1] \in Handler  BY <2>4, <2>5
    <3>2. SUFFICES ASSUME queue[l][1] # w PROVE FALSE  OBVIOUS
    <3>3. \A k \in 1..1 : queue[l][k] # w  BY <3>2
    <3>4. queue[l][1] \in WaitsOn(w)  BY <2>6, <3>1, <3>3
    <3> QED  BY <2>2, <3>1, <3>4
  <2> QED  BY <2>4, <2>5, <2>7, <2>8
<1> QED  BY <1>1, TwoFailuresDoNotLock, LocksInvariance, PTL
==============================================================================
