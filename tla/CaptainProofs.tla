--------------------------- MODULE CaptainProofs ---------------------------
(***************************************************************************)
(* Theorems about the build of a plan, for task graphs of any shape and    *)
(* size and for any budgets.                                               *)
(***************************************************************************)
EXTENDS Captain, FiniteSetTheorems, WellFoundedInduction, TLAPS

USE CrewAssumption, CaptainAssumption

(* The tasks of a plan, and what they may depend on. *)
LEMMA PlanFinite ==
  ASSUME TypeOK
  PROVE  /\ Node \subseteq Task
         /\ \A t \in Node : IsFiniteSet(deps[t])
<1>1. DOMAIN deps \subseteq Task /\ \A t \in DOMAIN deps : deps[t] \subseteq TaskId
  BY DEF TypeOK
<1>2. \A t \in Node : IsFiniteSet(deps[t])  BY <1>1, FS_Subset DEF Node
<1> QED  BY <1>1, <1>2 DEF Node

LEMMA InitIInv == Init => IInv
<1> SUFFICES ASSUME Init PROVE IInv
  OBVIOUS
<1> USE DEF Init, CrewInit
<1>1. DOMAIN deps \subseteq Task /\ \A t \in Node : IsFiniteSet(deps[t]) /\ Cardinality(deps[t]) \in Nat
  <2>1. DOMAIN deps \subseteq Task /\ \A t \in DOMAIN deps : deps[t] \subseteq TaskId
    OBVIOUS
  <2> QED  BY <2>1, FS_Subset, FS_CardinalityType DEF Node
<1>2. CrewTypeOK  BY DEF CrewTypeOK
<1>3. TypeOK
  <2>1. degree \in [Node -> Nat]  BY <1>1
  <2>2. waves \in Seq(Wave) /\ handles \in Seq(Node)  OBVIOUS
  <2> QED  BY <1>2, <2>1, <2>2 DEF TypeOK
<1>4. \A c \in Task : CallsOK(c)  BY DEF CallsOK
<1>5. DegreeCounts
  <2>1. \A t \in Node : Unsorted(t) = deps[t]  BY DEF Unsorted
  <2> QED  BY <2>1 DEF DegreeCounts
<1>6. WavesOK  BY DEF WavesOK
<1>7. StageOK  BY <1>1 DEF StageOK, Unrun, Node
<1> QED  BY <1>3, <1>4, <1>5, <1>6, <1>7 DEF IInv

----------------------------------------------------------------------------
(* The crews. *)

(* A step of a crew moves that crew only, and only one that is at work. *)
LEMMA CrewMoves ==
  ASSUME CrewTypeOK, NEW c \in Task, CrewStep(c)
  PROVE  /\ crew[c] \in Active
         /\ \E x \in Active \cup Ended : crew' = [crew EXCEPT ![c] = x]
<1> USE DEF Goes, Active, Ended, NextCall
<1>1. CASE BudgetSpent(c)  BY <1>1 DEF BudgetSpent
<1>2. CASE AskModel(c)
  <2>1. PICK n \in 0..MaxBatch : Goes(c, IF n = 0 THEN "done" ELSE "tools")
    BY <1>2 DEF AskModel
  <2> QED  BY <1>2, <2>1 DEF AskModel
<1>3. CASE ModelError(c)  BY <1>3 DEF ModelError
<1>4. CASE Summarize(c)  BY <1>4 DEF Summarize
<1>5. ASSUME NEW call \in Call, BlockCall(c, call) \/ InvokeCall(c, call)
      PROVE  /\ crew[c] \in Active
             /\ \E x \in Active \cup Ended : crew' = [crew EXCEPT ![c] = x]
  BY <1>5 DEF BlockCall, InvokeCall
<1> QED  BY <1>1, <1>2, <1>3, <1>4, <1>5 DEF CrewStep

(* What a step of a crew does to its budgets. *)
LEMMA CrewCounts ==
  ASSUME CrewTypeOK, NEW c \in Task, CallsOK(c), CrewStep(c)
  PROVE  /\ batch' = [batch EXCEPT ![c] = batch'[c]] /\ batch'[c] \in 0..MaxBatch
         /\ calls' = [calls EXCEPT ![c] = calls'[c]] /\ calls'[c] \in Nat
         /\ tokens' \in [Task -> Nat]
         /\ written' \in [Task -> SUBSET Path]
         /\ recent' \in [Task -> SUBSET Call]
         /\ CallsOK(c)'
<1>1. /\ batch \in [Task -> 0..MaxBatch] /\ calls \in [Task -> Nat] /\ tokens \in [Task -> Nat]
      /\ written \in [Task -> SUBSET Path] /\ recent \in [Task -> SUBSET Call]
      /\ crew \in [Task -> {"unborn"} \cup Active \cup Ended]
      /\ batch[c] \in Int /\ calls[c] \in Nat
  BY DEF CrewTypeOK
<1> USE DEF Goes, NextCall, CallsOK
<1>2. CASE BudgetSpent(c)  BY <1>1, <1>2 DEF BudgetSpent
<1>3. CASE AskModel(c)
  <2>1. PICK n \in 0..MaxBatch :
          batch' = [batch EXCEPT ![c] = n] /\ Goes(c, IF n = 0 THEN "done" ELSE "tools")
    BY <1>3 DEF AskModel
  <2>2. tokens' \in [Task -> Nat]  BY <1>1, <1>3 DEF AskModel
  <2>3. calls[c] < MaxCalls  BY <1>3 DEF AskModel, InBudget
  <2>4. crew'[c] = IF n = 0 THEN "done" ELSE "tools"  BY <1>1, <2>1
  <2>5. CallsOK(c)'
    BY <1>1, <1>3, <2>1, <2>3, <2>4 DEF AskModel
  <2> QED  BY <1>1, <1>3, <2>1, <2>2, <2>5 DEF AskModel
<1>4. CASE ModelError(c)  BY <1>1, <1>4 DEF ModelError
<1>5. CASE Summarize(c)  BY <1>1, <1>5 DEF Summarize
<1>6. ASSUME NEW call \in Call, BlockCall(c, call)
      PROVE  /\ batch' = [batch EXCEPT ![c] = batch'[c]] /\ batch'[c] \in 0..MaxBatch
             /\ UNCHANGED <<calls, tokens, written, recent>>
             /\ CallsOK(c)'
  BY <1>1, <1>6 DEF BlockCall
<1>7. ASSUME NEW call \in Call, InvokeCall(c, call)
      PROVE  /\ batch' = [batch EXCEPT ![c] = batch'[c]] /\ batch'[c] \in 0..MaxBatch
             /\ calls' = [calls EXCEPT ![c] = calls'[c]] /\ calls'[c] \in Nat
             /\ UNCHANGED tokens
             /\ written' \in [Task -> SUBSET Path]
             /\ recent' \in [Task -> SUBSET Call]
             /\ CallsOK(c)'
  <2>1. call.path \in Path  BY <1>7 DEF Call
  <2>2. written' \in [Task -> SUBSET Path] /\ recent' \in [Task -> SUBSET Call] /\ UNCHANGED tokens
    BY <1>1, <1>7, <2>1 DEF InvokeCall
  <2>3. calls' = [calls EXCEPT ![c] = calls[c] + 1] /\ crew[c] = "tools"
    BY <1>7 DEF InvokeCall
  <2>4. \/ batch' = [batch EXCEPT ![c] = @ - 1] /\ crew'[c] = IF batch[c] = 1 THEN "round" ELSE "tools"
        \/ batch' = batch /\ crew'[c] = "summarize"
    BY <1>1, <1>7 DEF InvokeCall
  <2> QED  BY <1>1, <2>2, <2>3, <2>4
<1> QED  BY <1>1, <1>2, <1>3, <1>4, <1>5, <1>6, <1>7 DEF CrewStep

LEMMA WorkIInv ==
  ASSUME IInv, NEW c \in Task, Work(c)
  PROVE  IInv'
<1>1. UNCHANGED <<deps, captain, degree, remaining, waves, toStart, handles, completed, failed, verdict>>
  BY DEF Work, captainVars
<1>2. CrewTypeOK /\ CallsOK(c) /\ CrewStep(c)  BY DEF IInv, TypeOK, Work
<1>3. PICK x \in Active \cup Ended : crew[c] \in Active /\ crew' = [crew EXCEPT ![c] = x]
  BY <1>2, CrewMoves
<1>4. CrewTypeOK'
  BY <1>2, <1>3, CrewCounts DEF CrewTypeOK
<1>5. TypeOK'
  <2>1. Node' = Node /\ Wave' = Wave  BY <1>1 DEF Node, Wave
  <2> QED  BY <1>1, <1>4, <2>1 DEF IInv, TypeOK
<1>6. ASSUME NEW e \in Task PROVE CallsOK(e)'
  <2>1. CASE e = c  BY <1>2, <2>1, CrewCounts
  <2>2. CASE e # c
    <3>1. crew'[e] = crew[e] /\ batch'[e] = batch[e] /\ calls'[e] = calls[e]
      BY <1>2, <1>3, <2>2, CrewCounts DEF CrewTypeOK
    <3> QED  BY <3>1 DEF IInv, CallsOK
  <2> QED  BY <2>1, <2>2
<1>7. DegreeCounts'  BY <1>1 DEF IInv, DegreeCounts, Unsorted, Node
<1>8. WavesOK'  BY <1>1 DEF IInv, WavesOK, Node
<1>9. Node' = Node /\ Node \subseteq Task  BY <1>1, PlanFinite DEF IInv, Node
<1>10. \A t \in Node : /\ crew[t] = "unborn" => crew'[t] = "unborn"
                       /\ crew[t] \in Ended => crew'[t] = crew[t]
  BY <1>2, <1>3, <1>9 DEF CrewTypeOK, Active, Ended
<1>11. \A t \in Node : /\ Recorded(t) => Recorded(t)'
                       /\ Later(t)' <=> Later(t)
                       /\ Awaiting(t)' <=> Awaiting(t)
                       /\ InFirst(t)' <=> InFirst(t)
                       /\ InWave(t)' <=> InWave(t)
  BY <1>1, <1>10 DEF Recorded, Later, Awaiting, InFirst, InWave
<1>12. RunOK => RunOK'  BY <1>1, <1>9, <1>10, <1>11 DEF RunOK
<1>13. Unrun => Unrun'  BY <1>9, <1>10 DEF Unrun
<1>14. StageOK'  BY <1>1, <1>9, <1>11, <1>12, <1>13 DEF IInv, StageOK
<1> QED  BY <1>5, <1>6, <1>7, <1>8, <1>14 DEF IInv

----------------------------------------------------------------------------
(* The captain. *)

(* A step that leaves the crews and the plan alone leaves these as they were. *)
LEMMA AwaitedKeeps ==
  ASSUME IInv, Awaited
  PROVE  /\ Node' = Node /\ Wave' = Wave
         /\ CrewTypeOK'
         /\ \A c \in Task : CallsOK(c)'
         /\ deps' \in Plans
         /\ Unrun => Unrun'
<1>1. UNCHANGED crewVars /\ deps' = deps  BY DEF Awaited
<1>2. Node' = Node /\ Wave' = Wave  BY <1>1 DEF Node, Wave
<1>3. CrewTypeOK'  BY <1>1 DEF IInv, TypeOK, CrewTypeOK, crewVars
<1>4. \A c \in Task : CallsOK(c)'  BY <1>1 DEF IInv, CallsOK, crewVars
<1>5. Unrun => Unrun'  BY <1>1, <1>2 DEF Unrun, crewVars
<1> QED  BY <1>1, <1>2, <1>3, <1>4, <1>5 DEF IInv, TypeOK

LEMMA StartBuildIInv ==
  ASSUME IInv, StartBuild
  PROVE  IInv'
<1>1. UNCHANGED <<deps, degree, remaining, waves, toStart, handles, completed, failed, crew>>
  BY DEF StartBuild, Awaited, crewVars
<1>2. Node' = Node /\ Wave' = Wave /\ CrewTypeOK' /\ (\A c \in Task : CallsOK(c)') /\ deps' \in Plans
      /\ (Unrun => Unrun')
  BY AwaitedKeeps DEF StartBuild
<1>3. captain = "start" /\ verdict = "none"  BY DEF StartBuild, IInv, StageOK
<1>4. \/ captain' = "ended" /\ verdict' = "PlanFailed"
      \/ Node # {} /\ captain' = "sort" /\ verdict' = "none"
  BY <1>3 DEF StartBuild, EndBuild
<1>5. TypeOK'  BY <1>1, <1>2, <1>4 DEF IInv, TypeOK
<1>6. DegreeCounts' /\ WavesOK'  BY <1>1, <1>2 DEF IInv, DegreeCounts, Unsorted, WavesOK
<1>7. StageOK'
  <2>1. Unrun /\ handles = <<>> /\ \A t \in Node \ remaining : InWave(t)
    BY <1>3 DEF IInv, StageOK
  <2>2. \A t : InWave(t)' <=> InWave(t)  BY <1>1 DEF InWave
  <2> QED  BY <1>1, <1>2, <1>4, <2>1, <2>2 DEF StageOK
<1> QED  BY <1>2, <1>5, <1>6, <1>7 DEF IInv

(* A wave is sorted: what is left of a task's dependencies is counted anew, and
   the dependencies of the wave's own tasks are in waves before it. *)
LEMMA SortWaveIInv ==
  ASSUME IInv, SortWave
  PROVE  IInv'
<1> DEFINE N == NextWave
<1>1. /\ captain = "sort" /\ waves' = Append(waves, N) /\ remaining' = remaining \ N
      /\ degree' = [t \in Node |-> degree[t] - Cardinality(deps[t] \cap N)]
      /\ UNCHANGED <<captain, toStart, handles, completed, failed, verdict>>
      /\ UNCHANGED <<deps, crew>>
  BY DEF SortWave, Awaited, crewVars
<1>2. Node' = Node /\ Wave' = Wave /\ CrewTypeOK' /\ (\A c \in Task : CallsOK(c)') /\ deps' \in Plans
      /\ (Unrun => Unrun')
  BY AwaitedKeeps DEF SortWave
<1>3. N \subseteq remaining /\ remaining \subseteq Node /\ \A t \in N : degree[t] = 0
  BY DEF NextWave, IInv, TypeOK
<1>4. \A t \in Node : Unsorted(t)' = Unsorted(t) \ N /\ deps[t] \cap N = Unsorted(t) \cap N
  BY <1>1, <1>2, <1>3 DEF Unsorted
<1>5. \A t \in Node : IsFiniteSet(Unsorted(t))
  BY PlanFinite, FS_Subset DEF IInv, Unsorted
<1> HIDE DEF N
<1>6. DegreeCounts' /\ degree' \in [Node -> Nat]
  <2>1. ASSUME NEW t \in Node
        PROVE  degree'[t] = Cardinality(Unsorted(t)') /\ degree'[t] \in Nat
    <3>1. Cardinality(Unsorted(t) \ N) = Cardinality(Unsorted(t)) - Cardinality(Unsorted(t) \cap N)
      BY <1>5, FS_Difference
    <3>2. Cardinality(Unsorted(t) \ N) \in Nat
      BY <1>5, FS_Difference, FS_CardinalityType
    <3>3. degree[t] = Cardinality(Unsorted(t))  BY DEF IInv, DegreeCounts
    <3> QED  BY <1>1, <1>4, <3>1, <3>2, <3>3
  <2>2. DegreeCounts'  BY <1>2, <2>1 DEF DegreeCounts
  <2> QED  BY <1>1, <2>1, <2>2
<1>7. ASSUME NEW t \in N PROVE \A d \in deps[t] : d \in Node \ remaining
  <2>1. Cardinality(Unsorted(t)) = 0  BY <1>3 DEF IInv, DegreeCounts
  <2>2. Unsorted(t) = {}  BY <1>3, <1>5, <2>1, FS_EmptySet
  <2> QED  BY <2>2 DEF Unsorted
<1>8. /\ waves \in Seq(Wave) /\ N \in Wave
      /\ DOMAIN waves' = DOMAIN waves \cup {Len(waves) + 1} /\ Len(waves) \in Nat
      /\ waves'[Len(waves) + 1] = N
      /\ \A i \in DOMAIN waves : waves'[i] = waves[i] /\ i < Len(waves) + 1 /\ i \in Nat
  <2>1. waves \in Seq(Wave)  BY DEF IInv, TypeOK
  <2>2. N \in Wave  BY <1>3 DEF Wave
  <2> QED  BY <1>1, <2>1, <2>2
<1>9. TypeOK'
  <2>1. waves' \in Seq(Wave)'  BY <1>1, <1>2, <1>8
  <2> QED  BY <1>1, <1>2, <1>3, <1>6, <2>1 DEF IInv, TypeOK
<1>10. WavesOK'
  <2>1. WavesOK  BY DEF IInv
  <2>2. \A i \in DOMAIN waves' : waves'[i] \subseteq Node \ remaining'
    BY <1>1, <1>3, <1>8, <2>1 DEF WavesOK
  <2>3. \A i, j \in DOMAIN waves' : i # j => waves'[i] \cap waves'[j] = {}
    BY <1>3, <1>8, <2>1 DEF WavesOK
  <2>4. ASSUME NEW t \in Node \ remaining', NEW d \in deps[t]
        PROVE  /\ d \in Node \ remaining'
               /\ \A j \in DOMAIN waves' : d \in waves'[j] =>
                    \E i \in DOMAIN waves' : i > j /\ t \in waves'[i]
    <3>1. CASE t \in N
      <4>1. d \in Node \ remaining /\ d \notin N  BY <1>3, <1>7, <3>1
      <4> QED  BY <1>1, <1>8, <3>1, <4>1
    <3>2. CASE t \notin N
      <4>1. t \in Node \ remaining  BY <1>1, <3>2
      <4>2. d \in Node \ remaining /\ d \notin N  BY <1>3, <2>1, <4>1 DEF WavesOK
      <4>3. \A j \in DOMAIN waves : d \in waves[j] => \E i \in DOMAIN waves : i > j /\ t \in waves[i]
        BY <2>1, <4>1 DEF WavesOK
      <4> QED  BY <1>1, <1>8, <4>2, <4>3
    <3> QED  BY <3>1, <3>2
  <2> QED  BY <1>1, <1>2, <2>2, <2>3, <2>4 DEF WavesOK
<1>11. StageOK'
  <2>1. Unrun /\ handles = <<>> /\ Node # {} /\ verdict = "none" /\ \A t \in Node \ remaining : InWave(t)
    BY <1>1 DEF IInv, StageOK
  <2>2. \A t \in Node \ remaining' : InWave(t)'
    <3>1. \A t \in Node \ remaining : InWave(t)'  BY <1>8, <2>1 DEF InWave
    <3>2. \A t \in N : InWave(t)'  BY <1>8 DEF InWave
    <3> QED  BY <1>1, <3>1, <3>2
  <2> QED  BY <1>1, <1>2, <2>1, <2>2 DEF StageOK
<1> QED  BY <1>2, <1>6, <1>9, <1>10, <1>11 DEF IInv

(* All is sorted: every task is of the first wave or a later one. *)
LEMMA SortEndsIInv ==
  ASSUME IInv, SortEnds
  PROVE  IInv'
<1>1. UNCHANGED <<deps, degree, remaining, waves, handles, completed, failed, crew>>
  BY DEF SortEnds, Awaited, crewVars
<1>2. Node' = Node /\ Wave' = Wave /\ CrewTypeOK' /\ (\A c \in Task : CallsOK(c)') /\ deps' \in Plans
      /\ (Unrun => Unrun')
  BY AwaitedKeeps DEF SortEnds
<1>3. Unrun /\ handles = <<>> /\ Node # {} /\ verdict = "none" /\ \A t \in Node \ remaining : InWave(t)
  BY DEF SortEnds, IInv, StageOK
<1>4. DegreeCounts' /\ WavesOK'  BY <1>1, <1>2 DEF IInv, DegreeCounts, Unsorted, WavesOK
<1>5. waves \in Seq(Wave)  BY DEF IInv, TypeOK
<1>6. CASE remaining = {} /\ captain' = "crews" /\ toStart' = Head(waves) /\ UNCHANGED verdict
  <2>1. \A t \in Node : InWave(t)  BY <1>3, <1>6
  <2>2. waves # <<>> /\ Head(waves) = waves[1] /\ waves[1] \in Wave /\ 1 \in DOMAIN waves
    BY <1>3, <1>5, <2>1 DEF InWave
  <2>3. toStart' \subseteq Node /\ toStart' = waves[1]  BY <1>6, <2>2 DEF Wave
  <2>4. TypeOK'  BY <1>1, <1>2, <1>3, <1>6, <2>3 DEF IInv, TypeOK
  <2>5. ASSUME NEW t \in Node
        PROVE  /\ (t \in toStart \/ Awaiting(t) => InFirst(t))'
               /\ crew'[t] = "unborn"
               /\ t \in toStart' \/ Later(t)'
    <3>1. ~Awaiting(t)'  BY <1>1, <1>3 DEF Awaiting
    <3>2. t \in toStart' => InFirst(t)'  BY <1>1, <2>2, <2>3 DEF InFirst
    <3>3. PICK i \in DOMAIN waves : t \in waves[i]  BY <2>1 DEF InWave
    <3>4. i = 1 \/ i > 1  BY <1>5, <3>3
    <3>5. t \in toStart' \/ Later(t)'  BY <1>1, <2>3, <3>3, <3>4 DEF Later
    <3> QED  BY <1>1, <1>3, <3>1, <3>2, <3>5 DEF Unrun
  <2>6. RunOK'  BY <1>1, <1>2, <1>6, <2>5 DEF RunOK
  <2>7. StageOK'  BY <1>1, <1>3, <1>6, <2>2, <2>6 DEF StageOK
  <2> QED  BY <1>2, <1>4, <2>4, <2>7 DEF IInv
<1>7. CASE captain' = "ended" /\ verdict' = "PlanFailed" /\ UNCHANGED toStart
  <2>1. TypeOK'  BY <1>1, <1>2, <1>7 DEF IInv, TypeOK
  <2>2. StageOK'  BY <1>2, <1>3, <1>7 DEF StageOK
  <2> QED  BY <1>2, <1>4, <2>1, <2>2 DEF IInv
<1> QED  BY <1>6, <1>7 DEF SortEnds, EndBuild

LEMMA ConfigErrorIInv ==
  ASSUME IInv, ConfigError
  PROVE  IInv'
<1>1. UNCHANGED <<deps, degree, remaining, waves, toStart, handles, completed, failed, crew>>
      /\ captain = "crews" /\ captain' = "ended" /\ verdict' = "PlanFailed"
  BY DEF ConfigError, EndBuild, Awaited, crewVars
<1>2. Node' = Node /\ Wave' = Wave /\ CrewTypeOK' /\ (\A c \in Task : CallsOK(c)') /\ deps' \in Plans
  BY AwaitedKeeps DEF ConfigError
<1>3. TypeOK'  BY <1>1, <1>2 DEF IInv, TypeOK
<1>4. DegreeCounts' /\ WavesOK'  BY <1>1, <1>2 DEF IInv, DegreeCounts, Unsorted, WavesOK
<1>5. RunOK'
  <2>1. RunOK  BY <1>1 DEF IInv, StageOK
  <2> QED  BY <1>1, <1>2, <2>1 DEF RunOK, Awaiting, InFirst, Later, Recorded
<1>6. StageOK'  BY <1>1, <1>5 DEF StageOK
<1> QED  BY <1>2, <1>3, <1>4, <1>6 DEF IInv

(* The crew is of the wave at work, so of no later one. *)
LEMMA StartCrewIInv ==
  ASSUME IInv, NEW t \in Task, StartCrew(t)
  PROVE  IInv'
<1>1. /\ captain = "crews" /\ t \in toStart
      /\ crew' = [crew EXCEPT ![t] = "round"]
      /\ handles' = Append(handles, t) /\ toStart' = toStart \ {t}
      /\ captain' = IF toStart = {t} THEN "await" ELSE captain
      /\ UNCHANGED <<batch, calls, tokens, written, recent, deps, degree, remaining,
                     waves, completed, failed, verdict>>
  BY DEF StartCrew, Goes
<1>2. Node' = Node /\ Wave' = Wave /\ Node \subseteq Task /\ t \in Node /\ handles \in Seq(Node)
  BY <1>1, PlanFinite DEF IInv, TypeOK, Node, Wave
<1>3. RunOK /\ waves # <<>> /\ verdict = "none"  BY <1>1 DEF IInv, StageOK
<1>4. crew \in [Task -> {"unborn"} \cup Active \cup Ended]  BY DEF IInv, TypeOK, CrewTypeOK
<1>5. TypeOK'
  <2>1. CrewTypeOK'  BY <1>1, <1>4 DEF IInv, TypeOK, CrewTypeOK, Active
  <2>2. handles' \in Seq(Node')  BY <1>1, <1>2
  <2> QED  BY <1>1, <1>2, <2>1, <2>2 DEF IInv, TypeOK
<1>6. ASSUME NEW c \in Task PROVE CallsOK(c)'
  <2>1. CallsOK(c)  BY DEF IInv
  <2>2. crew'[c] = IF c = t THEN "round" ELSE crew[c]  BY <1>1, <1>4
  <2> QED  BY <1>1, <2>1, <2>2 DEF CallsOK
<1>7. DegreeCounts' /\ WavesOK'  BY <1>1, <1>2 DEF IInv, DegreeCounts, Unsorted, WavesOK
<1>8. InFirst(t) /\ ~Later(t)
  <2>1. InFirst(t)  BY <1>1, <1>2, <1>3 DEF RunOK
  <2>2. waves \in Seq(Wave)  BY DEF IInv, TypeOK
  <2>3. 1 \in DOMAIN waves /\ t \in waves[1]  BY <2>1, <2>2 DEF InFirst
  <2>4. ~Later(t)  BY <2>2, <2>3 DEF IInv, WavesOK, Later
  <2> QED  BY <2>1, <2>4
<1>9. DOMAIN handles' = DOMAIN handles \cup {Len(handles) + 1} /\ handles'[Len(handles) + 1] = t
      /\ \A i \in DOMAIN handles : handles'[i] = handles[i]
  BY <1>1, <1>2
<1>10. RunOK'
  <2>1. ASSUME NEW x \in Node
        PROVE  /\ x \in toStart' \/ Awaiting(x)' => InFirst(x)'
               /\ x \in toStart' \/ Later(x)' => crew'[x] = "unborn"
               /\ x \notin toStart' /\ ~Later(x)' => Awaiting(x)' \/ Recorded(x)'
    <3>1. (InFirst(x)' <=> InFirst(x)) /\ (Later(x)' <=> Later(x))  BY <1>1 DEF InFirst, Later
    <3>2. CASE x = t
      <4>1. Awaiting(x)'  BY <1>9, <3>2 DEF Awaiting
      <4> QED  BY <1>1, <1>8, <3>1, <3>2, <4>1
    <3>3. CASE x # t
      <4>1. Awaiting(x)' <=> Awaiting(x)  BY <1>9, <3>3 DEF Awaiting
      <4>2. Recorded(x) => Recorded(x)'  BY <1>1, <1>2, <1>4, <3>3 DEF Recorded
      <4>3. crew'[x] = crew[x]  BY <1>1, <1>4, <3>3
      <4> QED  BY <1>1, <1>3, <3>1, <3>3, <4>1, <4>2, <4>3 DEF RunOK
    <3> QED  BY <3>2, <3>3
  <2> QED  BY <1>1, <1>2, <1>3, <2>1 DEF RunOK
<1>11. StageOK'  BY <1>1, <1>3, <1>10 DEF StageOK
<1> QED  BY <1>5, <1>6, <1>7, <1>11 DEF IInv

LEMMA AwaitCrewIInv ==
  ASSUME IInv, AwaitCrew
  PROVE  IInv'
<1> DEFINE t == Head(handles)
<1>1. /\ captain = "await" /\ handles # <<>> /\ crew[t] \in Ended
      /\ completed' = IF crew[t] = "done" THEN completed \cup {t} ELSE completed
      /\ failed' = IF crew[t] = "failed" THEN failed \cup {t} ELSE failed
      /\ handles' = Tail(handles)
      /\ UNCHANGED <<captain, degree, remaining, waves, toStart, verdict, deps, crew>>
  BY DEF AwaitCrew, Awaited, crewVars
<1>2. Node' = Node /\ Wave' = Wave /\ CrewTypeOK' /\ (\A c \in Task : CallsOK(c)') /\ deps' \in Plans
  BY AwaitedKeeps DEF AwaitCrew
<1>3. RunOK /\ waves # <<>> /\ toStart = {} /\ verdict = "none"  BY <1>1 DEF IInv, StageOK
<1>4. handles \in Seq(Node) /\ t \in Node /\ handles' \in Seq(Node)  BY <1>1 DEF IInv, TypeOK
<1>5. t = handles[1] /\ 1 \in DOMAIN handles
      /\ \A i \in DOMAIN handles : i # 1 => i - 1 \in DOMAIN handles' /\ handles'[i - 1] = handles[i]
  BY <1>1, <1>4
<1>6. \A i \in DOMAIN handles' : i + 1 \in DOMAIN handles /\ handles'[i] = handles[i + 1]
  BY <1>1, <1>4
<1> HIDE DEF t
<1>7. TypeOK'  BY <1>1, <1>2, <1>4 DEF IInv, TypeOK
<1>8. DegreeCounts' /\ WavesOK'  BY <1>1, <1>2 DEF IInv, DegreeCounts, Unsorted, WavesOK
<1>9. RunOK'
  <2>1. ASSUME NEW x \in Node
        PROVE  /\ Awaiting(x)' => InFirst(x)'
               /\ Later(x)' => crew'[x] = "unborn"
               /\ ~Later(x)' => Awaiting(x)' \/ Recorded(x)'
    <3>1. (InFirst(x)' <=> InFirst(x)) /\ (Later(x)' <=> Later(x))  BY <1>1 DEF InFirst, Later
    <3>2. Awaiting(x)' => Awaiting(x)  BY <1>6 DEF Awaiting
    <3>3. Recorded(x) => Recorded(x)'  BY <1>1 DEF Recorded
    <3>4. Awaiting(x) => Awaiting(x)' \/ Recorded(x)'
      <4>1. SUFFICES ASSUME NEW i \in DOMAIN handles, handles[i] = x
                     PROVE  Awaiting(x)' \/ Recorded(x)'
        BY DEF Awaiting
      <4>2. CASE i = 1  BY <1>1, <1>5, <4>1, <4>2 DEF Recorded
      <4>3. CASE i # 1  BY <1>5, <4>1, <4>3 DEF Awaiting
      <4> QED  BY <4>2, <4>3
    <3> QED  BY <1>1, <1>3, <3>1, <3>2, <3>3, <3>4 DEF RunOK
  <2> QED  BY <1>1, <1>2, <1>3, <2>1 DEF RunOK
<1>10. StageOK'  BY <1>1, <1>3, <1>9 DEF StageOK
<1> QED  BY <1>2, <1>7, <1>8, <1>10 DEF IInv

(* The next wave is the first now, and all before it is recorded. *)
LEMMA WaveEndsIInv ==
  ASSUME IInv, WaveEnds
  PROVE  IInv'
<1>1. /\ captain = "await" /\ handles = <<>> /\ waves' = Tail(waves)
      /\ UNCHANGED <<degree, remaining, handles, completed, failed, deps, crew>>
  BY DEF WaveEnds, Awaited, crewVars
<1>2. Node' = Node /\ Wave' = Wave /\ CrewTypeOK' /\ (\A c \in Task : CallsOK(c)') /\ deps' \in Plans
  BY AwaitedKeeps DEF WaveEnds
<1>3. RunOK /\ waves # <<>> /\ toStart = {} /\ verdict = "none"  BY <1>1 DEF IInv, StageOK
<1>4. waves \in Seq(Wave)  BY DEF IInv, TypeOK
<1>5. waves' \in Seq(Wave)
      /\ \A i \in DOMAIN waves' : i \in Nat \ {0} /\ i + 1 \in DOMAIN waves /\ waves'[i] = waves[i + 1]
  BY <1>1, <1>3, <1>4
<1>6. \A i \in DOMAIN waves : i > 1 => i \in Nat /\ i - 1 \in DOMAIN waves' /\ waves'[i - 1] = waves[i]
  BY <1>1, <1>3, <1>4
<1>7. DegreeCounts'  BY <1>1, <1>2 DEF IInv, DegreeCounts, Unsorted
<1>8. WavesOK'
  <2>1. WavesOK  BY DEF IInv
  <2>2. \A i \in DOMAIN waves' : waves'[i] \subseteq Node \ remaining  BY <1>5, <2>1 DEF WavesOK
  <2>3. \A i, j \in DOMAIN waves' : i # j => waves'[i] \cap waves'[j] = {}
    BY <1>5, <2>1 DEF WavesOK
  <2>4. ASSUME NEW t \in Node \ remaining, NEW d \in deps[t]
        PROVE  /\ d \in Node \ remaining
               /\ \A j \in DOMAIN waves' : d \in waves'[j] =>
                    \E i \in DOMAIN waves' : i > j /\ t \in waves'[i]
    <3>1. d \in Node \ remaining  BY <2>1 DEF WavesOK
    <3>2. SUFFICES ASSUME NEW j \in DOMAIN waves', d \in waves'[j]
                   PROVE  \E i \in DOMAIN waves' : i > j /\ t \in waves'[i]
      BY <3>1
    <3>3. j \in Nat \ {0} /\ j + 1 \in DOMAIN waves /\ d \in waves[j + 1]  BY <1>5, <3>2
    <3>4. PICK i \in DOMAIN waves : i > j + 1 /\ t \in waves[i]  BY <2>1, <3>3 DEF WavesOK
    <3>5. i \in Nat  BY <1>4, <3>4
    <3>6. i - 1 \in DOMAIN waves' /\ i - 1 > j /\ t \in waves'[i - 1]
      BY <1>6, <3>3, <3>4, <3>5
    <3> QED  BY <3>6
  <2> QED  BY <1>1, <1>2, <2>2, <2>3, <2>4 DEF WavesOK
<1>9. ASSUME NEW x \in Node PROVE ~Awaiting(x)' /\ ~Awaiting(x)
  BY <1>1 DEF Awaiting
<1>10. ASSUME NEW x \in Node PROVE ~Later(x) => Recorded(x)'
  <2>1. ~Later(x) => Recorded(x)  BY <1>3, <1>9 DEF RunOK
  <2> QED  BY <1>1, <2>1 DEF Recorded
<1>11. CASE Len(waves) > 1
  <2>1. captain' = "crews" /\ toStart' = waves[2] /\ verdict' = "none"
    BY <1>3, <1>11 DEF WaveEnds
  <2>2. waves' # <<>> /\ waves'[1] = waves[2] /\ 2 \in DOMAIN waves /\ waves[2] \in Wave
    BY <1>1, <1>4, <1>11
  <2>3. TypeOK'
    <3>1. toStart' \subseteq Node  BY <2>1, <2>2 DEF Wave
    <3> QED  BY <1>1, <1>2, <1>5, <2>1, <3>1 DEF IInv, TypeOK
  <2>4. ASSUME NEW x \in Node
        PROVE  /\ x \in toStart' => InFirst(x)'
               /\ x \in toStart' \/ Later(x)' => crew'[x] = "unborn"
               /\ x \notin toStart' /\ ~Later(x)' => Recorded(x)'
    <3>1. x \in toStart' \/ Later(x)' <=> Later(x)
      <4>1. x \in toStart' => Later(x)  BY <2>1, <2>2 DEF Later
      <4>2. Later(x)' => Later(x)
        <5>1. SUFFICES ASSUME NEW i \in DOMAIN waves', i > 1, x \in waves'[i] PROVE Later(x)
          BY DEF Later
        <5>2. i + 1 \in DOMAIN waves /\ i + 1 > 1 /\ x \in waves[i + 1]  BY <1>5, <5>1
        <5> QED  BY <5>2 DEF Later
      <4>3. Later(x) => x \in toStart' \/ Later(x)'
        <5>1. SUFFICES ASSUME NEW i \in DOMAIN waves, i > 1, x \in waves[i]
                       PROVE  x \in toStart' \/ Later(x)'
          BY DEF Later
        <5>2. i = 2 \/ i > 2  BY <1>6, <5>1
        <5>3. CASE i = 2  BY <2>1, <5>1, <5>3
        <5>4. CASE i > 2
          <6>1. i - 1 \in DOMAIN waves' /\ i - 1 > 1 /\ x \in waves'[i - 1]  BY <1>6, <5>1, <5>4
          <6> QED  BY <6>1 DEF Later
        <5> QED  BY <5>2, <5>3, <5>4
      <4> QED  BY <4>1, <4>2, <4>3
    <3>2. Later(x) => crew[x] = "unborn"  BY <1>3 DEF RunOK
    <3>3. x \in toStart' => InFirst(x)'  BY <2>1, <2>2 DEF InFirst
    <3> QED  BY <1>1, <1>10, <3>1, <3>2, <3>3
  <2>5. RunOK'
    <3>1. remaining' = {}  BY <1>1, <1>3 DEF RunOK
    <3> QED  BY <1>2, <1>9, <2>4, <3>1 DEF RunOK
  <2>6. StageOK'  BY <2>1, <2>2, <2>5 DEF StageOK
  <2> QED  BY <1>2, <1>7, <1>8, <2>3, <2>6 DEF IInv
<1>12. CASE ~(Len(waves) > 1)
  <2>1. /\ captain' = "ended" /\ toStart' = {}
        /\ verdict' = IF failed = {} THEN "PlanCompleted" ELSE "PlanFailed"
    BY <1>3, <1>12 DEF WaveEnds, EndBuild
  <2>2. Len(waves) = 1
    <3>1. waves # <<>>  BY <1>3
    <3>2. Len(waves) \in Nat /\ Len(waves) # 0  BY <1>4, <3>1
    <3> QED  BY <1>12, <3>2
  <2>3. waves' = <<>>  BY <1>1, <1>4, <2>2
  <2>4. TypeOK'  BY <1>1, <1>2, <1>5, <2>1 DEF IInv, TypeOK
  <2>5. ASSUME NEW x \in Node PROVE ~Later(x) /\ ~Later(x)'
    BY <1>4, <2>2, <2>3 DEF Later
  <2>6. RunOK'
    <3>1. remaining' = {}  BY <1>1, <1>3 DEF RunOK
    <3> QED  BY <1>2, <1>9, <1>10, <2>1, <2>5, <3>1 DEF RunOK
  <2>7. StageOK'  BY <1>1, <2>1, <2>3, <2>6 DEF StageOK
  <2> QED  BY <1>2, <1>7, <1>8, <2>4, <2>7 DEF IInv
<1> QED  BY <1>11, <1>12

----------------------------------------------------------------------------
(* The theorems. *)

(* The inductive invariant: degrees, waves, handles and results fit together
   (topological_sort and the waves of SimpleCaptain::run). *)
THEOREM Invariance == Spec => []IInv
<1>1. Init => IInv  BY InitIInv
<1>2. IInv /\ [Next]_vars => IInv'
  <2> SUFFICES ASSUME IInv, [Next]_vars PROVE IInv'
    OBVIOUS
  <2>1. CASE StartBuild  BY <2>1, StartBuildIInv
  <2>2. CASE SortWave  BY <2>2, SortWaveIInv
  <2>3. CASE SortEnds  BY <2>3, SortEndsIInv
  <2>4. CASE ConfigError  BY <2>4, ConfigErrorIInv
  <2>5. CASE AwaitCrew  BY <2>5, AwaitCrewIInv
  <2>6. CASE WaveEnds  BY <2>6, WaveEndsIInv
  <2>7. ASSUME NEW t \in Task, StartCrew(t) PROVE IInv'  BY <2>7, StartCrewIInv
  <2>8. ASSUME NEW c \in Task, Work(c) PROVE IInv'  BY <2>8, WorkIInv
  <2>9. CASE UNCHANGED vars
    <3>1. Awaited /\ UNCHANGED captainVars  BY <2>9 DEF vars, Awaited, captainVars
    <3>2. UNCHANGED <<deps, captain, degree, remaining, waves, toStart, handles, completed,
                      failed, verdict, crew>>
      BY <2>9 DEF vars, crewVars, captainVars
    <3>3. Node' = Node /\ Wave' = Wave /\ CrewTypeOK' /\ (\A c \in Task : CallsOK(c)')
          /\ (Unrun => Unrun')
      BY <3>1, AwaitedKeeps
    <3>4. TypeOK'  BY <3>2, <3>3 DEF IInv, TypeOK
    <3>5. DegreeCounts' /\ WavesOK'  BY <3>2, <3>3 DEF IInv, DegreeCounts, Unsorted, WavesOK
    <3>6. RunOK => RunOK'
      BY <3>2, <3>3 DEF RunOK, Awaiting, InFirst, Later, Recorded
    <3>7. StageOK'
      <4>1. \A t : InWave(t)' <=> InWave(t)  BY <3>2 DEF InWave
      <4> QED  BY <3>2, <3>3, <3>6, <4>1 DEF IInv, StageOK
    <3> QED  BY <3>3, <3>4, <3>5, <3>7 DEF IInv
  <2> QED
    BY <2>1, <2>2, <2>3, <2>4, <2>5, <2>6, <2>7, <2>8, <2>9 DEF Next, CaptainStep
<1> QED  BY <1>1, <1>2, PTL DEF Spec

(* Every variable keeps its type; in particular an in-degree, an unsigned
   integer in topological_sort, never goes below zero. *)
THEOREM TypeCorrect == Spec => []TypeOK
<1>1. IInv => TypeOK  BY DEF IInv
<1> QED  BY <1>1, Invariance, PTL

(* No crew makes MAX_TOOL_CALLS calls and a whole answer more (the budgets at
   the head of Crew::run's loop). *)
THEOREM CallsAreBounded == Spec => []CallsBounded
<1>1. IInv => CallsBounded  BY DEF IInv, CallsOK, CallsBounded
<1> QED  BY <1>1, Invariance, PTL

(* A crew is started when those it depends on have ended and been awaited: the
   order topological_sort gives and SimpleCaptain::run keeps to. *)
THEOREM DependenciesFirst == Spec => []StartedAfterDeps
<1>1. IInv => StartedAfterDeps
  <2> SUFFICES ASSUME IInv, NEW t \in Node, crew[t] # "unborn", NEW d \in deps[t]
               PROVE  /\ d \in Node /\ crew[d] \in Ended
                      /\ \A i \in DOMAIN handles : handles[i] # d
    BY DEF StartedAfterDeps
  <2>1. RunOK
    <3>1. ~Unrun  BY DEF Unrun
    <3> QED  BY <3>1 DEF IInv, StageOK, TypeOK
  <2>2. ~Later(t) /\ remaining = {}  BY <2>1 DEF RunOK
  <2>3. /\ d \in Node
        /\ \A j \in DOMAIN waves : d \in waves[j] => \E i \in DOMAIN waves : i > j /\ t \in waves[i]
    BY <2>2 DEF IInv, WavesOK
  <2>4. waves \in Seq(Wave)  BY DEF IInv, TypeOK
  <2>5. \A j \in DOMAIN waves : d \notin waves[j]
    <3>1. SUFFICES ASSUME NEW j \in DOMAIN waves, d \in waves[j] PROVE FALSE
      OBVIOUS
    <3>2. PICK i \in DOMAIN waves : i > j /\ t \in waves[i]  BY <2>3, <3>1
    <3>3. i > 1  BY <2>4, <3>2
    <3> QED  BY <2>2, <3>2, <3>3 DEF Later
  <2>6. ~InFirst(d) /\ ~Later(d)  BY <2>4, <2>5 DEF InFirst, Later
  <2>7. d \notin toStart /\ ~Awaiting(d) /\ Recorded(d)  BY <2>1, <2>3, <2>6 DEF RunOK
  <2> QED  BY <2>3, <2>7 DEF Recorded, Awaiting
<1> QED  BY <1>1, Invariance, PTL

(* PlanCompleted is sent when every task has run and none has failed (the
   verdict after the last wave of SimpleCaptain::run). *)
THEOREM CompletedMeansOver == Spec => []CompletedIsOver
<1>1. IInv => CompletedIsOver
  <2> SUFFICES ASSUME IInv, verdict = "PlanCompleted", NEW t \in Node
               PROVE  crew[t] \in Ended \ {"failed"} /\ (crew[t] = "done" => t \in completed)
    BY DEF CompletedIsOver
  <2>1. RunOK /\ waves = <<>> /\ toStart = {} /\ handles = <<>> /\ failed = {}
    BY DEF IInv, StageOK
  <2>2. ~Later(t) /\ ~Awaiting(t)  BY <2>1 DEF Later, Awaiting
  <2>3. Recorded(t)  BY <2>1, <2>2 DEF RunOK
  <2> QED  BY <2>1, <2>3 DEF Recorded
<1> QED  BY <1>1, Invariance, PTL

----------------------------------------------------------------------------
(* The end of a build. *)

LEMMA BelowAt ==
  ASSUME NEW n \in Nat, NEW a, NEW b, NEW i \in 1..n,
         a[i] < b[i], \A j \in 1..(i - 1) : a[j] = b[j]
  PROVE  Below(n, a, b)
BY DEF Below

(* n numbers, and the order that compares two of them at their first
   difference. *)
Measure(n) == [1..n -> Nat]
Less == {mn \in Nat \X Nat : mn[1] < mn[2]}
BelowPairs(n) == {ab \in Measure(n) \X Measure(n) : Below(n, ab[1], ab[2])}

LEMMA BelowIsWellFounded ==
  ASSUME NEW n \in Nat
  PROVE  IsWellFoundedOn(BelowPairs(n), Measure(n))
<1>1. IsWellFoundedOn(Less, Nat)  BY NatLessThanWellFounded DEF OpToRel, Less
<1>2. IsWellFoundedOn(LexProductOrdering(Less, Nat, n), Measure(n))
  BY <1>1, WFLexProductOrdering DEF Measure
<1>3. BelowPairs(n) \subseteq LexProductOrdering(Less, Nat, n)
  BY DEF BelowPairs, Below, Measure, LexProductOrdering, Less
<1> QED  BY <1>2, <1>3, IsWellFoundedOnSubrelation

LEMMA NodeFinite ==
  ASSUME TypeOK, NEW S \in SUBSET Node
  PROVE  IsFiniteSet(S) /\ Cardinality(S) \in Nat
<1>1. Node \subseteq TaskId  BY PlanFinite
<1> QED  BY <1>1, FS_Subset, FS_CardinalityType

LEMMA CaptainAheadParts ==
  /\ CaptainAhead[1] = CaptainRank[captain] /\ CaptainAhead[2] = Cardinality(remaining)
  /\ CaptainAhead[3] = Len(waves) /\ CaptainAhead[4] = Cardinality(toStart)
  /\ CaptainAhead[5] = Len(handles)
BY DEF CaptainAhead

LEMMA CaptainAheadPartsNext ==
  /\ CaptainAhead'[1] = CaptainRank[captain'] /\ CaptainAhead'[2] = Cardinality(remaining')
  /\ CaptainAhead'[3] = Len(waves') /\ CaptainAhead'[4] = Cardinality(toStart')
  /\ CaptainAhead'[5] = Len(handles')
BY DEF CaptainAhead

LEMMA CaptainAheadType ==
  ASSUME TypeOK
  PROVE  CaptainAhead \in Measure(5)
<1>1. CaptainRank[captain] \in Nat  BY DEF TypeOK, CaptainRank
<1>2. Cardinality(remaining) \in Nat /\ Cardinality(toStart) \in Nat  BY NodeFinite DEF TypeOK
<1>3. Len(waves) \in Nat /\ Len(handles) \in Nat  BY DEF TypeOK
<1>4. \A a, b, c, d, e \in Nat : <<a, b, c, d, e>> \in [1..5 -> Nat]  OBVIOUS
<1> QED  BY <1>1, <1>2, <1>3, <1>4 DEF CaptainAhead, Measure

LEMMA CrewAheadType ==
  ASSUME CrewTypeOK, NEW c \in Task
  PROVE  CrewAhead(c) \in Measure(3)
<1>1. CrewRank[crew[c]] \in Nat  BY DEF CrewTypeOK, CrewRank, Active, Ended
<1>2. batch[c] \in Nat  BY DEF CrewTypeOK
<1>3. (IF tokens[c] < TokenBudget THEN TokenBudget - tokens[c] ELSE 0) \in Nat
  BY DEF CrewTypeOK
<1>4. \A x, y, z \in Nat : <<x, y, z>> \in [1..3 -> Nat]  OBVIOUS
<1> QED  BY <1>1, <1>2, <1>3, <1>4 DEF CrewAhead, Measure

(* A stage that is over, or a task less to sort, to await... *)
LEMMA StageIsNearer ==
  ASSUME CaptainRank[captain'] < CaptainRank[captain]
  PROVE  Below(5, CaptainAhead', CaptainAhead)
<1>1. CaptainAhead'[1] < CaptainAhead[1] /\ \A j \in 1..(1 - 1) : CaptainAhead'[j] = CaptainAhead[j]
  BY CaptainAheadParts, CaptainAheadPartsNext
<1> QED  BY <1>1, BelowAt

LEMMA SortIsNearer ==
  ASSUME TypeOK, SortWave
  PROVE  Below(5, CaptainAhead', CaptainAhead)
<1>1. remaining' \subseteq remaining /\ remaining' # remaining /\ captain' = captain
  BY DEF SortWave, NextWave
<1>2. Cardinality(remaining') < Cardinality(remaining)
  <2>1. IsFiniteSet(remaining)  BY NodeFinite DEF TypeOK
  <2>2. Cardinality(remaining') <= Cardinality(remaining) /\ (Cardinality(remaining') = Cardinality(remaining) => remaining' = remaining)
    BY <1>1, <2>1, FS_Subset
  <2>3. Cardinality(remaining) \in Nat /\ Cardinality(remaining') \in Nat
    BY <1>1, NodeFinite DEF TypeOK
  <2> QED  BY <1>1, <2>2, <2>3
<1>3. CaptainAhead'[2] < CaptainAhead[2] /\ \A j \in 1..(2 - 1) : CaptainAhead'[j] = CaptainAhead[j]
  BY <1>1, <1>2, CaptainAheadParts, CaptainAheadPartsNext
<1> QED  BY <1>3, BelowAt

LEMMA StartIsNearer ==
  ASSUME TypeOK, NEW t \in Task, StartCrew(t)
  PROVE  Below(5, CaptainAhead', CaptainAhead)
<1>1. /\ CaptainRank[captain'] = CaptainRank[captain] /\ UNCHANGED <<remaining, waves>>
      /\ t \in toStart /\ toStart' = toStart \ {t}
  BY DEF StartCrew, CaptainRank
<1>2. IsFiniteSet(toStart) /\ Cardinality(toStart) \in Nat  BY NodeFinite DEF TypeOK
<1>3. Cardinality(toStart') = Cardinality(toStart) - 1  BY <1>1, <1>2, FS_RemoveElement
<1>4. CaptainAhead'[4] < CaptainAhead[4]  BY <1>2, <1>3, CaptainAheadParts, CaptainAheadPartsNext
<1>5. \A j \in 1..(4 - 1) : CaptainAhead'[j] = CaptainAhead[j]
  <2>1. /\ CaptainAhead'[1] = CaptainAhead[1] /\ CaptainAhead'[2] = CaptainAhead[2]
        /\ CaptainAhead'[3] = CaptainAhead[3]
    BY <1>1, CaptainAheadParts, CaptainAheadPartsNext
  <2>2. \A j \in 1..(4 - 1) : j = 1 \/ j = 2 \/ j = 3  OBVIOUS
  <2> QED  BY <2>1, <2>2
<1> QED  BY <1>4, <1>5, BelowAt

LEMMA AwaitIsNearer ==
  ASSUME TypeOK, AwaitCrew
  PROVE  Below(5, CaptainAhead', CaptainAhead)
<1>1. handles \in Seq(Node) /\ handles # <<>> /\ handles' = Tail(handles)
      /\ UNCHANGED <<captain, remaining, waves, toStart>>
  BY DEF AwaitCrew, TypeOK
<1>2. Len(handles') < Len(handles)  BY <1>1
<1>3. CaptainAhead'[5] < CaptainAhead[5]  BY <1>2, CaptainAheadParts, CaptainAheadPartsNext
<1>4. \A j \in 1..(5 - 1) : CaptainAhead'[j] = CaptainAhead[j]
  <2>1. /\ CaptainAhead'[1] = CaptainAhead[1] /\ CaptainAhead'[2] = CaptainAhead[2]
        /\ CaptainAhead'[3] = CaptainAhead[3] /\ CaptainAhead'[4] = CaptainAhead[4]
    BY <1>1, CaptainAheadParts, CaptainAheadPartsNext
  <2>2. \A j \in 1..(5 - 1) : j = 1 \/ j = 2 \/ j = 3 \/ j = 4  OBVIOUS
  <2> QED  BY <2>1, <2>2
<1> QED  BY <1>3, <1>4 DEF Below

LEMMA WaveIsNearer ==
  ASSUME IInv, WaveEnds
  PROVE  Below(5, CaptainAhead', CaptainAhead)
<1>1. CASE Len(waves) > 1
  <2>1. /\ captain = "await" /\ captain' = "crews" /\ waves' = Tail(waves) /\ UNCHANGED remaining
        /\ waves \in Seq(Wave)
    BY <1>1 DEF WaveEnds, IInv, TypeOK
  <2>2. Len(waves') < Len(waves)  BY <1>1, <2>1
  <2>3. CaptainAhead'[3] < CaptainAhead[3]  BY <2>2, CaptainAheadParts, CaptainAheadPartsNext
  <2>4. CaptainRank[captain'] = CaptainRank[captain]  BY <2>1 DEF CaptainRank
  <2>5. \A j \in 1..(3 - 1) : CaptainAhead'[j] = CaptainAhead[j]
    BY <2>1, <2>4, CaptainAheadParts, CaptainAheadPartsNext
  <2> QED  BY <2>3, <2>5, BelowAt
<1>2. CASE ~(Len(waves) > 1)
  BY <1>2, StageIsNearer DEF WaveEnds, EndBuild, CaptainRank
<1> QED  BY <1>1, <1>2

LEMMA CaptainIsNearer ==
  ASSUME IInv, CaptainStep
  PROVE  Below(5, CaptainAhead', CaptainAhead)
<1>1. CASE StartBuild \/ SortEnds \/ ConfigError
  BY <1>1, StageIsNearer DEF StartBuild, SortEnds, ConfigError, EndBuild, CaptainRank
<1>2. TypeOK  BY DEF IInv
<1> QED  BY <1>1, <1>2, SortIsNearer, StartIsNearer, AwaitIsNearer, WaveIsNearer DEF CaptainStep

(* A crew that is started, and one that goes on. *)
LEMMA CrewAheadParts ==
  ASSUME NEW c
  PROVE  /\ CrewAhead(c)[1] = (IF tokens[c] < TokenBudget THEN TokenBudget - tokens[c] ELSE 0)
         /\ CrewAhead(c)[2] = batch[c] /\ CrewAhead(c)[3] = CrewRank[crew[c]]
         /\ CrewAhead(c)'[1] = (IF tokens'[c] < TokenBudget THEN TokenBudget - tokens'[c] ELSE 0)
         /\ CrewAhead(c)'[2] = batch'[c] /\ CrewAhead(c)'[3] = CrewRank[crew'[c]]
BY DEF CrewAhead

LEMMA RankIsNearer ==
  ASSUME NEW c, tokens'[c] = tokens[c], batch'[c] = batch[c], CrewRank[crew'[c]] < CrewRank[crew[c]]
  PROVE  Below(3, CrewAhead(c)', CrewAhead(c))
<1>1. CrewAhead(c)'[3] < CrewAhead(c)[3] /\ \A j \in 1..(3 - 1) : CrewAhead(c)'[j] = CrewAhead(c)[j]
  BY CrewAheadParts
<1> QED  BY <1>1 DEF Below

LEMMA NextCallIsNearer ==
  ASSUME CrewTypeOK, NEW c \in Task, NextCall(c), tokens'[c] = tokens[c]
  PROVE  Below(3, CrewAhead(c)', CrewAhead(c))
<1>1. batch[c] \in Nat /\ batch'[c] = batch[c] - 1  BY DEF NextCall, CrewTypeOK
<1>2. CrewAhead(c)'[2] < CrewAhead(c)[2]  BY <1>1, CrewAheadParts
<1>3. \A j \in 1..(2 - 1) : CrewAhead(c)'[j] = CrewAhead(c)[j]  BY CrewAheadParts
<1> QED  BY <1>2, <1>3, BelowAt

(* An answer of the model costs something, if its provider says so. *)
LEMMA AskIsNearer ==
  ASSUME CrewTypeOK, 0 \notin Usage, NEW c \in Task, AskModel(c)
  PROVE  Below(3, CrewAhead(c)', CrewAhead(c))
<1>1. PICK u \in Usage : tokens' = [tokens EXCEPT ![c] = @ + u]  BY DEF AskModel
<1>2. u \in Nat /\ u # 0 /\ tokens[c] \in Nat /\ tokens[c] < TokenBudget /\ TokenBudget \in Nat
  BY <1>1 DEF AskModel, InBudget, CrewTypeOK
<1>3. tokens'[c] = tokens[c] + u  BY <1>1 DEF CrewTypeOK
<1>4. CrewAhead(c)'[1] < CrewAhead(c)[1]  BY <1>2, <1>3, CrewAheadParts
<1> QED  BY <1>4, BelowAt

LEMMA CrewIsNearer ==
  ASSUME CrewTypeOK, 0 \notin Usage, NEW c \in Task, CrewStep(c)
  PROVE  Below(3, CrewAhead(c)', CrewAhead(c))
<1>1. CASE BudgetSpent(c) \/ ModelError(c)
  <2>1. tokens'[c] = tokens[c] /\ batch'[c] = batch[c]  BY <1>1 DEF BudgetSpent, ModelError
  <2>2. crew[c] = "round" /\ crew'[c] \in {"done", "failed"}
    BY <1>1 DEF BudgetSpent, ModelError, Goes, CrewTypeOK
  <2> QED  BY <2>1, <2>2, RankIsNearer DEF CrewRank
<1>2. CASE AskModel(c)  BY <1>2, AskIsNearer
<1>3. CASE Summarize(c)
  <2>1. CASE NextCall(c)  BY <1>3, <2>1, NextCallIsNearer DEF Summarize
  <2>2. CASE Goes(c, "panicked") /\ UNCHANGED batch
    <3>1. crew[c] = "summarize" /\ crew'[c] = "panicked"  BY <1>3, <2>2 DEF Summarize, Goes, CrewTypeOK
    <3> QED  BY <1>3, <2>2, <3>1, RankIsNearer DEF Summarize, CrewRank
  <2> QED  BY <1>3, <2>1, <2>2 DEF Summarize
<1>4. ASSUME NEW call \in Call, BlockCall(c, call) \/ InvokeCall(c, call)
      PROVE  Below(3, CrewAhead(c)', CrewAhead(c))
  <2>1. tokens'[c] = tokens[c]  BY <1>4 DEF BlockCall, InvokeCall
  <2>2. CASE NextCall(c)  BY <2>1, <2>2, NextCallIsNearer
  <2>3. CASE Goes(c, "summarize") /\ UNCHANGED batch /\ crew[c] = "tools"
    <3>1. crew'[c] = "summarize"  BY <2>3 DEF Goes, CrewTypeOK
    <3> QED  BY <2>1, <2>3, <3>1, RankIsNearer DEF CrewRank
  <2> QED  BY <1>4, <2>2, <2>3 DEF BlockCall, InvokeCall
<1> QED  BY <1>1, <1>2, <1>3, <1>4 DEF CrewStep

(* The other crews have what they had. *)
LEMMA OtherCrewsKeep ==
  ASSUME CrewTypeOK, NEW c \in Task, CrewStep(c), NEW e \in Task, e # c
  PROVE  CrewAhead(e)' = CrewAhead(e)
<1>1. crew'[e] = crew[e]  BY CrewMoves DEF CrewTypeOK
<1>2. UNCHANGED <<batch[e], tokens[e]>>
  <2>1. CASE AskModel(c)  BY <2>1 DEF AskModel, CrewTypeOK
  <2>2. CASE BudgetSpent(c) \/ ModelError(c) \/ Summarize(c)
    BY <2>2 DEF BudgetSpent, ModelError, Summarize, NextCall, CrewTypeOK
  <2>3. ASSUME NEW call \in Call, BlockCall(c, call) \/ InvokeCall(c, call)
        PROVE  UNCHANGED <<batch[e], tokens[e]>>
    BY <2>3 DEF BlockCall, InvokeCall, NextCall, CrewTypeOK
  <2> QED  BY <2>1, <2>2, <2>3 DEF CrewStep
<1> QED  BY <1>1, <1>2 DEF CrewAhead

(* And so have all when the captain moves, but for the one it starts. *)
LEMMA CaptainLengthensNone ==
  ASSUME IInv, CaptainStep, NEW c \in Task
  PROVE  CrewAhead(c)' = CrewAhead(c) \/ Below(3, CrewAhead(c)', CrewAhead(c))
<1>1. CASE UNCHANGED crewVars  BY <1>1 DEF crewVars, CrewAhead
<1>2. ASSUME NEW t \in Task, StartCrew(t)
      PROVE  CrewAhead(c)' = CrewAhead(c) \/ Below(3, CrewAhead(c)', CrewAhead(c))
  <2>1. UNCHANGED <<batch, tokens>> /\ crew' = [crew EXCEPT ![t] = "round"]
    BY <1>2 DEF StartCrew, Goes
  <2>2. CASE c # t  BY <2>1, <2>2 DEF CrewAhead, IInv, TypeOK, CrewTypeOK
  <2>3. CASE c = t
    <3>1. crew[t] = "unborn"  BY <1>2 DEF StartCrew, IInv, TypeOK, StageOK, RunOK
    <3>2. crew'[t] = "round"  BY <2>1 DEF IInv, TypeOK, CrewTypeOK
    <3> QED  BY <2>1, <2>3, <3>1, <3>2, RankIsNearer DEF CrewRank
  <2> QED  BY <2>2, <2>3
<1> QED
  BY <1>1, <1>2 DEF CaptainStep, StartBuild, SortWave, SortEnds, ConfigError, AwaitCrew, WaveEnds, Awaited

(* Every step of a build, the captain's or a crew's, brings its end nearer and
   puts nobody's off, for any plan and budgets, provided that the model's provider
   reports some use for each answer (SimpleCaptain::run, CrewAgent::run). *)
THEOREM BuildProgresses == 0 \notin Usage => (Spec => NearerTheVerdict)
<1> SUFFICES ASSUME 0 \notin Usage PROVE Spec => NearerTheVerdict
  OBVIOUS
<1> DEFINE Step ==
      /\ \/ Below(5, CaptainAhead', CaptainAhead)
         \/ CaptainAhead' = CaptainAhead /\ \E c \in Task : Below(3, CrewAhead(c)', CrewAhead(c))
      /\ \A c \in Task : CrewAhead(c)' = CrewAhead(c) \/ Below(3, CrewAhead(c)', CrewAhead(c))
<1>1. IInv /\ [Next]_vars => [Step]_vars
  <2> SUFFICES ASSUME IInv, Next PROVE Step
    OBVIOUS
  <2>1. CASE CaptainStep  BY <2>1, CaptainIsNearer, CaptainLengthensNone
  <2>2. ASSUME NEW c \in Task, Work(c) PROVE Step
    <3>1. CrewTypeOK /\ CrewStep(c)  BY <2>2 DEF IInv, TypeOK, Work
    <3>2. CaptainAhead' = CaptainAhead  BY <2>2 DEF Work, captainVars, CaptainAhead
    <3>3. Below(3, CrewAhead(c)', CrewAhead(c))  BY <3>1, CrewIsNearer
    <3>4. \A e \in Task : e # c => CrewAhead(e)' = CrewAhead(e)  BY <3>1, OtherCrewsKeep
    <3> QED  BY <3>2, <3>3, <3>4
  <2> QED  BY <2>1, <2>2 DEF Next
<1>2. NearerTheVerdict <=> [][Step]_vars  BY DEF NearerTheVerdict
<1> HIDE DEF Step
<1> QED  BY <1>1, <1>2, Invariance, PTL DEF Spec

(* And there is no getting nearer for ever: what the captain has ahead is always
   five natural numbers, what a crew has three, and neither goes down without an
   end. *)
THEOREM BuildComesToAnEnd ==
  /\ Spec => [](CaptainAhead \in Measure(5) /\ \A c \in Task : CrewAhead(c) \in Measure(3))
  /\ IsWellFoundedOn(BelowPairs(5), Measure(5)) /\ IsWellFoundedOn(BelowPairs(3), Measure(3))
<1>1. IInv => CaptainAhead \in Measure(5) /\ \A c \in Task : CrewAhead(c) \in Measure(3)
  BY CaptainAheadType, CrewAheadType DEF IInv, TypeOK
<1>2. Spec => [](CaptainAhead \in Measure(5) /\ \A c \in Task : CrewAhead(c) \in Measure(3))
  BY <1>1, Invariance, PTL
<1> QED  BY <1>2, BelowIsWellFounded
=============================================================================
