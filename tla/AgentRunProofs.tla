--------------------------- MODULE AgentRunProofs ---------------------------
(***************************************************************************)
(* Theorems about the run of one agent, for any tool calls, answers of the *)
(* model, numbers of rounds, attempts and retries, and checkpoints kept.   *)
(***************************************************************************)
EXTENDS AgentRun, SequenceTheorems, WellFoundedInduction, TLAPS

USE AgentRunAssumption

Entry == [tool : Tool, snap : Nat \cup {None}]

----------------------------------------------------------------------------
(* What TypeOK says, variable by variable. *)
LEMMA TypeParts ==
  ASSUME IInv
  PROVE  /\ attempt \in Nat /\ attempt >= 1 /\ attempt <= Tier2 + 1
         /\ round \in Nat /\ round >= 1 /\ round <= MaxRounds + 1
         /\ todo \in Seq(Tool) /\ tries \in 0..Tier1
         /\ log \in Seq(Entry) /\ Len(log) \in Nat
         /\ nextId \in Nat /\ DOMAIN snaps \subseteq Nat
BY DEF IInv, TypeOK, Entry

(* The calls that a streamed answer comes to. *)
LEMMA TakenCalls ==
  ASSUME NEW p \in Provider, NEW a \in Answers
  PROVE  Taken(p, a) \in Seq(Tool)
<1>1. a \in Answer  BY DEF AgentRunAssumption
<1>2. PICK s \in Seq(Tool) : s = a.calls  BY <1>1 DEF Answer
<1>3. a.last \in Nat /\ a.last <= Len(s) /\ (s # <<>> => a.last # 0)  BY <1>1, <1>2 DEF Answer
<1>4. CASE p = "gemini"
  <2> DEFINE n == Len(s)
             m == n - a.last + 1
  <2>1. Taken(p, a) = SubSeq(s, m, n)  BY <1>2, <1>4 DEF Taken
  <2>2. CASE s = <<>>
    <3>1. n = 0 /\ a.last = 0  BY <1>3, <2>2
    <3>2. m = 1 /\ n = 0  BY <3>1
    <3>3. SubSeq(s, 1, 0) \in Seq(Tool)  BY <2>2, SubSeqProperties
    <3> QED  BY <2>1, <3>2, <3>3
  <2>3. CASE s # <<>>
    <3>1. n \in Nat /\ m \in 1..n + 1 /\ n \in m - 1..n  BY <1>3, <2>3
    <3> QED  BY <2>1, <3>1, SubSeqProperties
  <2> QED  BY <2>2, <2>3
<1>5. CASE p # "gemini"  BY <1>2, <1>5 DEF Taken
<1> QED  BY <1>4, <1>5

(* prune leaves the last of the checkpoints, Keep of them at most. *)
LEMMA PrunedKeeps ==
  ASSUME NEW l \in Seq(Entry), l # <<>>
  PROVE  /\ Pruned(l) \in Seq(Entry) /\ Pruned(l) # <<>> /\ Len(Pruned(l)) <= Keep
         /\ Pruned(l)[Len(Pruned(l))] = l[Len(l)]
<1> DEFINE n == Len(l)
           m == n - Keep + 1
<1>1. n \in Nat /\ n >= 1 /\ Keep \in Nat /\ Keep >= 1  OBVIOUS
<1>2. CASE n > Keep
  <2>1. PICK q : q = SubSeq(l, m, n)  OBVIOUS
  <2>2. Pruned(l) = q  BY <1>2, <2>1 DEF Pruned
  <2>3. m \in Int /\ n \in Int /\ m >= 1 /\ m <= n /\ n - m + 1 = Keep  BY <1>1, <1>2
  <2>4. \A i \in m..n : l[i] \in Entry  BY <2>3
  <2> HIDE DEF m, n
  <2>5. /\ q \in Seq(Entry) /\ Len(q) = Keep
        /\ \A i \in 1..Keep : q[i] = l[m + i - 1]
    BY <2>1, <2>3, <2>4, SubSeqProperties
  <2>6. m + Keep - 1 = n /\ Keep \in 1..Keep  BY <1>1, <2>3
  <2>7. q[Keep] = l[n]  BY <2>5, <2>6
  <2>8. q # <<>>  BY <1>1, <2>5
  <2>9. Len(q) <= Keep /\ q[Len(q)] = l[n]  BY <1>1, <2>5, <2>7
  <2> QED  BY <2>2, <2>5, <2>8, <2>9 DEF n
<1>3. CASE ~(n > Keep)  BY <1>1, <1>3 DEF Pruned
<1> QED  BY <1>2, <1>3

----------------------------------------------------------------------------
(* The agent's answer and its end. *)

LEMMA InitIInv == Init => IInv
<1> SUFFICES ASSUME Init PROVE IInv
  OBVIOUS
<1> USE DEF Init
<1>1. TypeOK
  <2>1. todo \in Seq(Tool) /\ log \in Seq(Entry) /\ Len(log) = 0  OBVIOUS
  <2>2. attempt \in 1..(Tier2 + 1) /\ round \in 1..(MaxRounds + 1) /\ tries \in 0..Tier1
    OBVIOUS
  <2>3. Len(log) <= Keep + attempt /\ Len(log) <= Keep + attempt - 1
    <3>1. Keep \in Nat /\ attempt = 1  OBVIOUS
    <3> QED  BY <2>1, <3>1
  <2>4. DOMAIN snaps = {}  OBVIOUS
  <2> QED  BY <2>1, <2>2, <2>3, <2>4 DEF TypeOK, Entry
<1>2. BoundsOK /\ LateOK /\ WorkspaceOK /\ WorkKept /\ DiffExplained
  BY DEF BoundsOK, LateOK, WorkspaceOK, WorkKept, DiffExplained
<1>3. SnapshotOK  BY DEF SnapshotOK
<1> QED  BY <1>1, <1>2, <1>3 DEF IInv

(* An attempt fails. *)
LEMMA Aborts ==
  ASSUME IInv, stage # "done", Abort
  PROVE  /\ stage' \in {"failed", "done"} /\ (stage' = "failed" => attempt <= Tier2)
         /\ result' \in Result \cup {None} /\ (stage' # "done" => result' = None)
         /\ (result' # None => ~result'.success)
<1>1. result = None  BY DEF IInv, BoundsOK
<1>2. CASE attempt <= Tier2  BY <1>1, <1>2 DEF Abort
<1>3. CASE ~(attempt <= Tier2)
  <2>1. stage' = "done" /\ result' = [success |-> FALSE, diff |-> {}]  BY <1>3 DEF Abort, End
  <2> QED  BY <2>1 DEF Result
<1> QED  BY <1>2, <1>3

(* The agent goes on, or ends, without a change to its container or its log. *)
LEMMA Kept ==
  ASSUME IInv, stage # "done", UNCHANGED <<attempt, log, nextId, layers, late, history>>,
         snaps' = snaps \/ DOMAIN snaps' = {},
         stage' \in {"call", "diff", "failed", "done"},
         stage' = "failed" => attempt <= Tier2,
         stage' = "call" => round <= MaxRounds /\ todo' # <<>>,
         stage' \in {"call", "failed"} => stage = "think",
         round' = round, tries' = tries, todo' \in Seq(Tool),
         result' \in Result \cup {None}, stage' # "done" => result' = None,
         result' # None /\ result'.success /\ result'.diff # {} => result'.diff = workspace
  PROVE  IInv'
<1>1. UNCHANGED <<workspace, upper, worked, unsure, disturbed>>  BY DEF layers, history
<1>2. TypeOK'
  <2>1. /\ DOMAIN snaps' \subseteq 0..nextId'
        /\ \A i \in DOMAIN snaps' : snaps'[i] \subseteq Tool
    BY DEF IInv, TypeOK
  <2> QED  BY <1>1, <2>1 DEF IInv, TypeOK
<1>3. BoundsOK'  BY DEF BoundsOK
<1>4. LateOK'  BY <1>1 DEF IInv, LateOK
<1>5. SnapshotOK'
  <2>1. LastSnapshot' = LastSnapshot  BY DEF LastSnapshot
  <2> QED  BY <1>1, <2>1 DEF IInv, SnapshotOK
<1>6. WorkspaceOK' /\ WorkKept'  BY <1>1 DEF IInv, WorkspaceOK, WorkKept
<1>7. DiffExplained'  BY <1>1 DEF IInv, WorkspaceOK, DiffExplained
<1> QED  BY <1>2, <1>3, <1>4, <1>5, <1>6, <1>7 DEF IInv

LEMMA ThinkIInv == IInv /\ Think => IInv'
<1> SUFFICES ASSUME IInv, Think PROVE IInv'
  OBVIOUS
<1>1. /\ stage = "think" /\ round' = round /\ tries' = tries
      /\ UNCHANGED <<attempt, log, nextId, layers, late, history>>
  BY DEF Think
<1>2. round \in Nat /\ MaxRounds \in Nat /\ todo \in Seq(Tool) /\ result = None
  BY <1>1, TypeParts DEF IInv, BoundsOK
<1>3. CASE round > MaxRounds
  <2>1. /\ stage' = "done" /\ result' = [success |-> FALSE, diff |-> {}]
        /\ snaps' = [i \in {} |-> {}] /\ todo' = todo
    BY <1>3 DEF Think, End
  <2>2. result' \in Result /\ ~result'.success /\ DOMAIN snaps' = {}  BY <2>1 DEF Result
  <2> QED  BY <1>1, <1>2, <2>1, <2>2, Kept
<1>4. CASE ~(round > MaxRounds)
  <2>1. snaps' = snaps /\ round <= MaxRounds  BY <1>2, <1>4 DEF Think
  <2>2. CASE Abort /\ UNCHANGED todo
    <3>1. /\ stage' \in {"failed", "done"} /\ (stage' = "failed" => attempt <= Tier2)
          /\ result' \in Result \cup {None} /\ (stage' # "done" => result' = None)
          /\ (result' # None => ~result'.success)
      BY <1>1, <2>2, Aborts
    <3> QED  BY <1>1, <1>2, <2>1, <2>2, <3>1, Kept
  <2>3. ASSUME NEW p \in Provider, NEW a \in Answers, todo' = Taken(p, a),
               stage' = (IF todo' = <<>> THEN "diff" ELSE "call"), UNCHANGED result
        PROVE  IInv'
    <3>1. todo' \in Seq(Tool)  BY <2>3, TakenCalls
    <3>2. stage' \in {"diff", "call"} /\ (stage' = "call" => todo' # <<>>)  BY <2>3
    <3> QED  BY <1>1, <1>2, <2>1, <2>3, <3>1, <3>2, Kept
  <2> QED  BY <1>4, <2>2, <2>3 DEF Think
<1> QED  BY <1>3, <1>4

LEMMA CaptureDiffIInv == IInv /\ CaptureDiff => IInv'
<1> SUFFICES ASSUME IInv, CaptureDiff PROVE IInv'
  OBVIOUS
<1>1. /\ stage = "diff" /\ stage' = "done" /\ snaps' = [i \in {} |-> {}]
      /\ round' = round /\ todo' = todo /\ tries' = tries
      /\ UNCHANGED <<attempt, log, nextId, layers, late, history>>
  BY DEF CaptureDiff, End
<1>2. PICK d \in {workspace, {}} : result' = [success |-> TRUE, diff |-> d]
  BY DEF CaptureDiff, End
<1>3. /\ result' \in Result /\ result'.diff = d
      /\ DOMAIN snaps' = {}
  <2>1. d \subseteq Tool  BY DEF IInv, TypeOK
  <2> QED  BY <1>1, <1>2, <2>1 DEF Result
<1>4. todo \in Seq(Tool)  BY TypeParts
<1> QED  BY <1>1, <1>2, <1>3, <1>4, Kept

LEMMA PanicIInv == IInv /\ Panic => IInv'
<1> SUFFICES ASSUME IInv, Panic PROVE IInv'
  OBVIOUS
<1>1. /\ stage = "snapshot" /\ stage' = "done" /\ snaps' = snaps /\ result' = result
      /\ round' = round /\ todo' = todo /\ tries' = tries
      /\ UNCHANGED <<attempt, log, nextId, layers, late, history>>
  BY DEF Panic
<1>2. todo \in Seq(Tool) /\ result = None  BY <1>1, TypeParts DEF IInv, BoundsOK
<1> QED  BY <1>1, <1>2, Kept

----------------------------------------------------------------------------
(* A tool call. *)

(* The call that the agent is at. *)
LEMMA AtCall ==
  ASSUME IInv, stage \in {"call", "snapshot"}
  PROVE  /\ todo # <<>> /\ Head(todo) \in Tool /\ Tail(todo) \in Seq(Tool) /\ round <= MaxRounds
         /\ Len(todo) \in Nat /\ (Len(todo) # 1 => Tail(todo) # <<>>)
         /\ Len(log) <= Keep + attempt - 1 /\ result = None
<1>1. todo \in Seq(Tool) /\ todo # <<>>  BY TypeParts DEF IInv, BoundsOK
<1>2. Len(Tail(todo)) = Len(todo) - 1  BY <1>1
<1>3. Len(todo) # 1 => Tail(todo) # <<>>
  <2>1. Len(<<>>) = 0  OBVIOUS
  <2>2. Len(todo) \in Nat  BY <1>1
  <2>3. PICK q : q = Tail(todo)  OBVIOUS
  <2>4. q = <<>> => Len(q) = 0  BY <2>1
  <2> QED  BY <1>2, <2>2, <2>3, <2>4
<1>4. Head(todo) \in Tool /\ Tail(todo) \in Seq(Tool) /\ Len(todo) \in Nat  BY <1>1
<1>5. Len(log) <= Keep + attempt - 1 /\ round <= MaxRounds /\ result = None
  BY DEF IInv, TypeOK, BoundsOK
<1> QED  BY <1>1, <1>3, <1>4, <1>5

LEMMA CallAnsweredIInv == IInv /\ CallAnswered => IInv'
<1> SUFFICES ASSUME IInv, CallAnswered PROVE IInv'
  OBVIOUS
<1> DEFINE t == Head(todo)
<1>1. /\ stage = "call" /\ stage' = "snapshot" /\ tries' = 0
      /\ UNCHANGED <<attempt, round, todo, log, nextId, snaps, result, disturbed>>
      /\ \/ Effect(t) /\ worked' = worked \cup {t}
         \/ UNCHANGED <<workspace, upper, worked>>
      /\ \/ late' = late /\ unsure' = unsure
         \/ late' = late \cup {<<"tool", t>>} /\ unsure' \in {unsure, unsure \cup {t}}
            /\ (late' # late => unsure' = unsure \cup {t})
  BY DEF CallAnswered, layers, Leaves
<1>2. t \in Tool  BY <1>1, AtCall
<1>3. /\ todo # <<>> /\ round <= MaxRounds /\ Len(log) <= Keep + attempt - 1 /\ result = None
  BY <1>1, AtCall
<1> HIDE DEF t
<1>4. /\ workspace \subseteq workspace' /\ upper \subseteq upper' /\ worked \subseteq worked'
      /\ worked' \subseteq worked \cup (workspace' \cup upper')
      /\ workspace' \subseteq workspace \cup worked'
      /\ worked' \cap Inside \subseteq worked \cup workspace'
      /\ workspace' \subseteq Tool /\ upper' \subseteq Tool /\ worked' \subseteq Tool
  BY <1>1, <1>2 DEF Effect, IInv, TypeOK
<1>5. /\ late' \subseteq Late /\ unsure' \subseteq Tool /\ unsure \subseteq unsure'
  <2>1. <<"tool", t>> \in Late  BY <1>2 DEF Late
  <2> QED  BY <1>1, <1>2, <2>1 DEF IInv, TypeOK
<1>6. TypeOK'
  <2>1. /\ stage' \in {"think", "call", "snapshot", "diff", "failed", "done"}
        /\ attempt' \in 1..(Tier2 + 1) /\ round' \in 1..(MaxRounds + 1)
        /\ todo' \in Seq(Tool) /\ tries' \in 0..Tier1
    <3>1. Tier1 \in Nat  OBVIOUS
    <3> QED  BY <1>1, <3>1 DEF IInv, TypeOK
  <2>2. /\ log' \in Seq([tool : Tool, snap : Nat \cup {None}])
        /\ Len(log') <= Keep + attempt'
        /\ stage' \in {"think", "call"} => Len(log') <= Keep + attempt' - 1
    BY <1>1 DEF IInv, TypeOK
  <2>3. /\ nextId' \in Nat /\ DOMAIN snaps' \subseteq 0..nextId'
        /\ \A i \in DOMAIN snaps' : snaps'[i] \subseteq Tool
        /\ result' \in Result \cup {None} /\ disturbed' \in BOOLEAN
    BY <1>1 DEF IInv, TypeOK
  <2> QED  BY <1>4, <1>5, <2>1, <2>2, <2>3 DEF TypeOK
<1>7. BoundsOK'  BY <1>1, <1>3 DEF BoundsOK
<1>8. LateOK'
  <2>1. CASE late' = late  BY <1>1, <1>5, <2>1 DEF IInv, LateOK
  <2>2. CASE late' # late
    <3>1. late' = late \cup {<<"tool", t>>} /\ t \in unsure'  BY <1>1, <2>2
    <3> QED  BY <1>1, <1>5, <3>1 DEF IInv, LateOK
  <2> QED  BY <2>1, <2>2
<1>9. SnapshotOK'  BY <1>1 DEF SnapshotOK
<1>10. WorkspaceOK'  BY <1>4, <1>5 DEF IInv, WorkspaceOK
<1>11. WorkKept'  BY <1>1, <1>4 DEF IInv, WorkKept
<1>12. DiffExplained'  BY <1>1, <1>3 DEF DiffExplained
<1> QED  BY <1>6, <1>7, <1>8, <1>9, <1>10, <1>11, <1>12 DEF IInv

LEMMA CallFailsIInv == IInv /\ CallFails => IInv'
<1> SUFFICES ASSUME IInv, CallFails PROVE IInv'
  OBVIOUS
<1> DEFINE t == Head(todo)
<1>1. /\ stage = "call" /\ late' \in {late, late \cup {<<"tool", t>>}}
      /\ unsure' = unsure \cup {t}
      /\ UNCHANGED <<attempt, round, todo, log, nextId, snaps, workspace, upper, worked, disturbed>>
  BY DEF CallFails, Leaves, layers
<1>2. t \in Tool  BY <1>1, AtCall
<1>3. /\ todo # <<>> /\ round <= MaxRounds /\ Len(log) <= Keep + attempt - 1 /\ result = None
  BY <1>1, AtCall
<1>4. /\ stage' \in {"call", "failed", "done"} /\ (stage' = "failed" => attempt <= Tier2)
      /\ result' \in Result \cup {None} /\ (stage' # "done" => result' = None)
      /\ (result' # None => ~result'.success) /\ tries' \in 0..Tier1
  <2>1. tries \in 0..Tier1 /\ Tier1 \in Nat  BY TypeParts
  <2>2. CASE tries < Tier1
    <3>1. tries' = tries + 1 /\ stage' = stage /\ result' = result  BY <2>2 DEF CallFails
    <3> QED  BY <1>1, <1>3, <2>1, <2>2, <3>1
  <2>3. CASE ~(tries < Tier1)
    <3>1. tries' = 0 /\ Abort  BY <2>3 DEF CallFails
    <3>2. tries' \in 0..Tier1  BY <2>1, <3>1
    <3> QED  BY <1>1, <3>1, <3>2, Aborts
  <2> QED  BY <2>2, <2>3
<1> HIDE DEF t
<1>5. late' \subseteq Late
  <2>1. <<"tool", t>> \in Late  BY <1>2 DEF Late
  <2> QED  BY <1>1, <2>1 DEF IInv, TypeOK
<1>6. TypeOK'  BY <1>1, <1>2, <1>3, <1>4, <1>5 DEF IInv, TypeOK
<1>7. BoundsOK'  BY <1>1, <1>3, <1>4 DEF BoundsOK
<1>8. LateOK'  BY <1>1 DEF IInv, LateOK
<1>9. SnapshotOK'
  <2>1. LastSnapshot' = LastSnapshot  BY <1>1 DEF LastSnapshot
  <2> QED  BY <1>1, <2>1 DEF IInv, SnapshotOK
<1>10. WorkspaceOK' /\ WorkKept'  BY <1>1 DEF IInv, WorkspaceOK, WorkKept
<1>11. DiffExplained'  BY <1>4 DEF DiffExplained
<1> QED  BY <1>6, <1>7, <1>8, <1>9, <1>10, <1>11 DEF IInv

----------------------------------------------------------------------------
(* A checkpoint. *)

(* The directories there are once the call's own has been written: numbered, and
   the one for this call, if it was taken, has all of the upper layer. *)
LEMMA Directories ==
  ASSUME IInv, NEW taken \in BOOLEAN, NEW dirs,
         dirs = IF taken THEN Copied(nextId)
                ELSE [j \in DOMAIN snaps \cup {nextId} |-> IF j = nextId THEN {} ELSE snaps[j]]
  PROVE  /\ DOMAIN dirs \subseteq 0..(nextId + 1)
         /\ \A j \in DOMAIN dirs : dirs[j] \subseteq Tool
         /\ taken => nextId \in DOMAIN dirs /\ upper \subseteq dirs[nextId]
<1>1. nextId \in Nat /\ DOMAIN snaps \subseteq 0..nextId  BY TypeParts DEF IInv, TypeOK
<1>2. upper \subseteq Tool /\ \A j \in DOMAIN snaps : snaps[j] \subseteq Tool
  BY DEF IInv, TypeOK
<1>3. DOMAIN dirs = DOMAIN snaps \cup {nextId}  BY DEF Copied
<1>4. DOMAIN dirs \subseteq 0..(nextId + 1)  BY <1>1, <1>3
<1>5. \A j \in DOMAIN dirs : dirs[j] \subseteq Tool  BY <1>2, <1>3 DEF Copied
<1>6. taken => nextId \in DOMAIN dirs /\ upper \subseteq dirs[nextId]
  BY <1>3 DEF Copied
<1> QED  BY <1>4, <1>5, <1>6

(* The log with the call's checkpoint, pruned or not, ends in that checkpoint. *)
LEMMA Logged ==
  ASSUME IInv, stage = "snapshot", NEW entry \in Entry, NEW full, full = Append(log, entry)
  PROVE  /\ full \in Seq(Entry) /\ full # <<>>
         /\ Len(full) <= Keep + attempt /\ full[Len(full)] = entry
         /\ Pruned(full) \in Seq(Entry) /\ Pruned(full) # <<>>
         /\ Len(Pruned(full)) <= Keep /\ Pruned(full)[Len(Pruned(full))] = entry
<1>1. log \in Seq(Entry) /\ Keep \in Nat /\ attempt \in Nat  BY TypeParts
<1>2. Len(log) <= Keep + attempt - 1  BY AtCall
<1>3. /\ full \in Seq(Entry) /\ Len(full) = Len(log) + 1 /\ full[Len(full)] = entry
  BY <1>1
<1>4. Len(log) \in Nat  BY <1>1
<1>5. full # <<>>
  <2>1. Len(<<>>) = 0  OBVIOUS
  <2> QED  BY <1>3, <1>4, <2>1
<1>6. Len(full) <= Keep + attempt  BY <1>1, <1>2, <1>3, <1>4
<1> QED  BY <1>3, <1>5, <1>6, PrunedKeeps

LEMMA CheckpointIInv == IInv /\ Checkpoint => IInv'
<1> SUFFICES ASSUME IInv, Checkpoint PROVE IInv'
  OBVIOUS
<1>1. /\ stage = "snapshot" /\ late' \in {late, late \cup {<<"snapshot", nextId>>}}
      /\ nextId' = nextId + 1
      /\ UNCHANGED <<attempt, tries, workspace, upper, worked, unsure, disturbed>>
  BY DEF Checkpoint, Leaves, layers, history
<1>2. PICK taken \in BOOLEAN :
        LET entry == [tool |-> Head(todo), snap |-> PathOf(nextId, taken)]
            full == Append(log, entry)
            dirs == IF taken THEN Copied(nextId)
                    ELSE [j \in DOMAIN snaps \cup {nextId} |->
                            IF j = nextId THEN {} ELSE snaps[j]]
            gone == Snapshots(full) \ Snapshots(Pruned(full))
        IN \/ /\ log' = full /\ snaps' = dirs
              /\ Abort /\ UNCHANGED <<todo, round>>
           \/ /\ log' = Pruned(full)
              /\ snaps' = [j \in DOMAIN dirs \ gone |-> dirs[j]]
              /\ CallDone \/ (Abort /\ UNCHANGED <<todo, round>>)
  BY DEF Checkpoint
<1>3. PICK entry : entry = [tool |-> Head(todo), snap |-> PathOf(nextId, taken)]  OBVIOUS
<1>4. PICK full : full = Append(log, entry)  OBVIOUS
<1>5. PICK dirs : dirs = IF taken THEN Copied(nextId)
                         ELSE [j \in DOMAIN snaps \cup {nextId} |->
                                 IF j = nextId THEN {} ELSE snaps[j]]
  OBVIOUS
<1>6. PICK gone : gone = Snapshots(full) \ Snapshots(Pruned(full))  OBVIOUS
<1>7. \/ log' = full /\ snaps' = dirs /\ Abort /\ UNCHANGED <<todo, round>>
      \/ /\ log' = Pruned(full) /\ snaps' = [j \in DOMAIN dirs \ gone |-> dirs[j]]
         /\ CallDone \/ (Abort /\ UNCHANGED <<todo, round>>)
  BY <1>2, <1>3, <1>4, <1>5, <1>6
<1>8. /\ nextId \in Nat /\ Keep \in Nat /\ attempt \in Nat /\ attempt >= 1 /\ round \in Nat
      /\ MaxRounds \in Nat /\ todo \in Seq(Tool)
  BY TypeParts
<1>9. entry \in Entry /\ entry.snap = (IF taken THEN nextId ELSE None)
  BY <1>1, <1>3, <1>8, AtCall DEF Entry, PathOf
<1>10. /\ full \in Seq(Entry) /\ full # <<>>
       /\ Len(full) <= Keep + attempt /\ full[Len(full)] = entry
       /\ Pruned(full) \in Seq(Entry) /\ Pruned(full) # <<>>
       /\ Len(Pruned(full)) <= Keep /\ Pruned(full)[Len(Pruned(full))] = entry
  BY <1>1, <1>4, <1>9, Logged
<1>11. /\ DOMAIN dirs \subseteq 0..nextId'
       /\ \A j \in DOMAIN dirs : dirs[j] \subseteq Tool
       /\ taken => nextId \in DOMAIN dirs /\ upper \subseteq dirs[nextId]
  BY <1>1, <1>5, Directories
<1>12. /\ DOMAIN snaps' \subseteq DOMAIN dirs
       /\ \A j \in DOMAIN snaps' : snaps'[j] = dirs[j]
  BY <1>7
<1>13. /\ log' \in Seq(Entry) /\ log' # <<>> /\ log'[Len(log')] = entry
       /\ Len(log') <= Keep + attempt
  <2>1. Keep <= Keep + attempt /\ Len(Pruned(full)) \in Nat  BY <1>8, <1>10
  <2> QED  BY <1>7, <1>8, <1>10, <2>1
<1>14. /\ stage' \in {"think", "call", "failed", "done"}
       /\ (stage' = "failed" => attempt <= Tier2)
       /\ result' \in Result \cup {None} /\ (stage' # "done" => result' = None)
       /\ (result' # None => ~result'.success)
       /\ todo' \in Seq(Tool) /\ round' \in 1..(MaxRounds + 1)
       /\ (stage' = "call" => todo' # <<>> /\ round' <= MaxRounds)
       /\ (stage' \in {"think", "call"} => Len(log') <= Keep)
  <2>1. /\ Tail(todo) \in Seq(Tool) /\ (Len(todo) # 1 => Tail(todo) # <<>>)
        /\ round <= MaxRounds /\ result = None
    BY <1>1, AtCall
  <2>2. CASE Abort /\ UNCHANGED <<todo, round>>
    <3>1. /\ stage' \in {"failed", "done"} /\ (stage' = "failed" => attempt <= Tier2)
          /\ result' \in Result \cup {None} /\ (stage' # "done" => result' = None)
          /\ (result' # None => ~result'.success)
      BY <1>1, <2>2, Aborts
    <3>2. round' \in 1..(MaxRounds + 1)  BY <2>2 DEF IInv, TypeOK
    <3> QED  BY <1>8, <2>2, <3>1, <3>2
  <2>3. CASE log' = Pruned(full) /\ CallDone
    <3>1. todo' = Tail(todo) /\ result' = result  BY <2>3 DEF CallDone
    <3>2. \/ stage' = "think" /\ round' = round + 1
          \/ stage' = "call" /\ round' = round /\ Len(todo) # 1
      BY <2>3 DEF CallDone
    <3>3. round' \in 1..(MaxRounds + 1)
      <4>1. round \in 1..(MaxRounds + 1)  BY DEF IInv, TypeOK
      <4> QED  BY <1>8, <2>1, <3>2, <4>1
    <3>4. Len(log') <= Keep  BY <1>10, <2>3
    <3> QED  BY <2>1, <3>1, <3>2, <3>3, <3>4
  <2> QED  BY <1>7, <2>2, <2>3
<1>15. late' \subseteq Late
  <2>1. <<"snapshot", nextId>> \in Late  BY <1>8 DEF Late
  <2> QED  BY <1>1, <2>1 DEF IInv, TypeOK
<1>16. TypeOK'
  <2>1. nextId' \in Nat /\ DOMAIN snaps' \subseteq 0..nextId'
        /\ \A j \in DOMAIN snaps' : snaps'[j] \subseteq Tool
    BY <1>1, <1>8, <1>11, <1>12
  <2>2. stage' \in {"think", "call"} => Len(log') <= Keep + attempt' - 1
    <3>1. Len(log') \in Nat  BY <1>13
    <3> QED  BY <1>1, <1>8, <1>14, <3>1
  <2>3. Len(log') <= Keep + attempt'  BY <1>1, <1>13
  <2>4. log' \in Seq([tool : Tool, snap : Nat \cup {None}])  BY <1>13 DEF Entry
  <2>5. /\ attempt' \in 1..(Tier2 + 1) /\ tries' \in 0..Tier1
        /\ workspace' \subseteq Tool /\ upper' \subseteq Tool
        /\ worked' \subseteq Tool /\ unsure' \subseteq Tool /\ disturbed' \in BOOLEAN
    BY <1>1 DEF IInv, TypeOK
  <2> QED  BY <1>14, <1>15, <2>1, <2>2, <2>3, <2>4, <2>5 DEF TypeOK
<1>17. BoundsOK'  BY <1>1, <1>14 DEF BoundsOK
<1>18. LateOK'
  <2>1. \A op \in late : op[1] = "snapshot" => op[2] \in Nat /\ op[2] < nextId
    BY DEF IInv, TypeOK, LateOK, Late
  <2>2. \A op \in late : op[1] = "snapshot" => op[2] < nextId'
    BY <1>1, <1>8, <2>1
  <2>3. nextId < nextId'  BY <1>1, <1>8
  <2> QED  BY <1>1, <2>2, <2>3 DEF IInv, LateOK
<1>19. SnapshotOK'
  <2>1. LastSnapshot' = entry.snap  BY <1>13 DEF LastSnapshot
  <2>2. CASE taken
    <3>1. LastSnapshot' = nextId  BY <1>9, <2>1, <2>2
    <3>2. LastSnapshot' \in DOMAIN snaps' => upper \subseteq snaps'[LastSnapshot']
      BY <1>11, <1>12, <2>2, <3>1
    <3> QED  BY <1>1, <3>2 DEF IInv, WorkKept, SnapshotOK
  <2>3. CASE ~taken
    <3>1. LastSnapshot' = None /\ None \notin Nat  BY <1>9, <2>1, <2>3, AgentRunAssumption
    <3>2. LastSnapshot' \notin DOMAIN snaps'  BY <1>1, <1>8, <1>11, <1>12, <3>1
    <3> QED  BY <3>2 DEF SnapshotOK
  <2> QED  BY <2>2, <2>3
<1>20. WorkspaceOK' /\ WorkKept'  BY <1>1 DEF IInv, WorkspaceOK, WorkKept
<1>21. DiffExplained'  BY <1>14 DEF DiffExplained
<1> QED  BY <1>16, <1>17, <1>18, <1>19, <1>20, <1>21 DEF IInv

----------------------------------------------------------------------------
(* The next attempt, and late requests. *)

(* An attempt begins with the upper layer that was restored, or as it was. *)
LEMMA Again ==
  ASSUME IInv, stage = "failed", NextAttempt, workspace' = workspace, upper' \subseteq Tool,
         late' \subseteq Late, \A op \in late' \ late : op[1] = "restore" /\ disturbed',
         disturbed' \in BOOLEAN, disturbed => disturbed',
         disturbed' \/ worked \subseteq workspace \cup upper'
  PROVE  IInv'
<1>1. /\ stage' = "think" /\ attempt' = attempt + 1 /\ round' = 1 /\ todo' = <<>>
      /\ UNCHANGED <<tries, log, nextId, snaps, result, worked, unsure>>
  BY DEF NextAttempt
<1>2. attempt <= Tier2 /\ result = None  BY DEF IInv, BoundsOK
<1>3. /\ attempt \in Nat /\ Tier2 \in Nat /\ Len(log) \in Nat /\ Keep \in Nat
      /\ Len(log) <= Keep + attempt /\ MaxRounds \in Nat
  BY TypeParts DEF IInv, TypeOK
<1>4. /\ attempt' \in 1..(Tier2 + 1) /\ Len(log') <= Keep + attempt'
      /\ Len(log') <= Keep + attempt' - 1
  BY <1>1, <1>2, <1>3
<1>5. round' \in 1..(MaxRounds + 1) /\ todo' \in Seq(Tool)  BY <1>1, <1>3
<1>6. TypeOK'
  <2>1. /\ tries' \in 0..Tier1 /\ log' \in Seq([tool : Tool, snap : Nat \cup {None}])
        /\ nextId' \in Nat /\ DOMAIN snaps' \subseteq 0..nextId'
        /\ \A i \in DOMAIN snaps' : snaps'[i] \subseteq Tool
        /\ workspace' \subseteq Tool /\ result' \in Result \cup {None}
        /\ worked' \subseteq Tool /\ unsure' \subseteq Tool
    BY <1>1 DEF IInv, TypeOK
  <2> QED  BY <1>1, <1>4, <1>5, <2>1 DEF TypeOK
<1>7. BoundsOK'  BY <1>1, <1>2 DEF BoundsOK
<1>8. LateOK'  BY <1>1 DEF IInv, LateOK
<1>9. SnapshotOK'
  <2>1. LastSnapshot' = LastSnapshot  BY <1>1 DEF LastSnapshot
  <2> QED  BY <1>1, <2>1 DEF IInv, SnapshotOK
<1>10. WorkspaceOK' /\ WorkKept'  BY <1>1 DEF IInv, WorkspaceOK, WorkKept
<1>11. DiffExplained'  BY <1>1, <1>2 DEF DiffExplained
<1> QED  BY <1>6, <1>7, <1>8, <1>9, <1>10, <1>11 DEF IInv

LEMMA RestartIInv == IInv /\ Restart => IInv'
<1> SUFFICES ASSUME IInv, Restart PROVE IInv'
  OBVIOUS
<1>1. stage = "failed" /\ NextAttempt /\ UNCHANGED <<workspace, upper, late, disturbed>>
  BY DEF Restart, layers
<1>2. upper' \subseteq Tool /\ late' \subseteq Late /\ disturbed' \in BOOLEAN
  BY <1>1 DEF IInv, TypeOK
<1>3. disturbed' \/ worked \subseteq workspace \cup upper'  BY <1>1 DEF IInv, WorkKept
<1> QED  BY <1>1, <1>2, <1>3, Again

(* What is left of a request to restore. *)
LEMMA RestoreLeaves ==
  ASSUME IInv, LastSnapshot \in DOMAIN snaps, Leaves(<<"restore", LastSnapshot>>)
  PROVE  late' \subseteq Late /\ \A op \in late' \ late : op[1] = "restore"
<1>1. LastSnapshot \in Nat  BY TypeParts
<1>2. <<"restore", LastSnapshot>> \in Late  BY <1>1 DEF Late
<1>3. PICK op : op = <<"restore", LastSnapshot>>  OBVIOUS
<1>4. op \in Late /\ op[1] = "restore"  BY <1>2, <1>3
<1>5. late' = late \/ late' = late \cup {op}  BY <1>3 DEF Leaves
<1>6. late \subseteq Late  BY DEF IInv, TypeOK
<1> QED  BY <1>4, <1>5, <1>6

LEMMA RestoreIInv == IInv /\ Restore => IInv'
<1> SUFFICES ASSUME IInv, Restore PROVE IInv'
  OBVIOUS
<1>1. /\ stage = "failed" /\ LastSnapshot \in DOMAIN snaps /\ NextAttempt
      /\ upper' = snaps[LastSnapshot] /\ workspace' = workspace
      /\ Leaves(<<"restore", LastSnapshot>>) /\ disturbed' = (disturbed \/ late' # late)
  BY DEF Restore, WorkspaceRestored
<1>2. late' \subseteq Late /\ \A op \in late' \ late : op[1] = "restore" /\ disturbed'
  BY <1>1, RestoreLeaves
<1>3. upper' \subseteq Tool /\ disturbed' \in BOOLEAN /\ (disturbed => disturbed')
  BY <1>1 DEF IInv, TypeOK
<1>4. disturbed' \/ worked \subseteq workspace \cup upper'
  BY <1>1 DEF IInv, SnapshotOK
<1> QED  BY <1>1, <1>2, <1>3, <1>4, Again

LEMMA RestoreFailsIInv == IInv /\ RestoreFails => IInv'
<1> SUFFICES ASSUME IInv, RestoreFails PROVE IInv'
  OBVIOUS
<1>1. /\ stage = "failed" /\ LastSnapshot \in DOMAIN snaps /\ NextAttempt
      /\ upper' \in (SUBSET upper) \cup (SUBSET snaps[LastSnapshot]) /\ workspace' = workspace
      /\ Leaves(<<"restore", LastSnapshot>>) /\ disturbed' = TRUE
  BY DEF RestoreFails, WorkspaceRestored
<1>2. late' \subseteq Late /\ \A op \in late' \ late : op[1] = "restore" /\ disturbed'
  BY <1>1, RestoreLeaves
<1>3. upper \subseteq Tool /\ snaps[LastSnapshot] \subseteq Tool  BY <1>1 DEF IInv, TypeOK
<1>4. upper' \subseteq upper \/ upper' \subseteq snaps[LastSnapshot]  BY <1>1
<1>5. upper' \subseteq Tool  BY <1>3, <1>4
<1> QED  BY <1>1, <1>2, <1>5, Again

(* A late request has the effect of a call that was counted as unsure, writes a
   snapshot that has all of the upper layer, or is a restore that disturbs. *)
LEMMA ExecuteIInv == ASSUME IInv, NEW op \in late, Execute(op) PROVE IInv'
<1>1. /\ stage # "done" /\ late' \in {late, late \ {op}}
      /\ UNCHANGED <<stage, attempt, round, todo, tries, log, nextId, result,
                     worked, unsure, disturbed>>
  BY DEF Execute, history
<1>2. op \in Late /\ late' \subseteq late  BY <1>1 DEF IInv, TypeOK
<1>3. LastSnapshot' = LastSnapshot  BY <1>1 DEF LastSnapshot
<1>4. BoundsOK' /\ LateOK' /\ DiffExplained'
  BY <1>1, <1>2 DEF IInv, BoundsOK, LateOK, DiffExplained
<1>5. /\ workspace' \subseteq Tool /\ upper' \subseteq Tool
      /\ DOMAIN snaps' \subseteq 0..nextId
      /\ \A i \in DOMAIN snaps' : snaps'[i] \subseteq Tool
      /\ SnapshotOK' /\ WorkspaceOK' /\ WorkKept'
  <2> USE DEF IInv
  <2>1. CASE op[1] = "tool"
    <3>1. /\ op[2] \in unsure /\ op[2] \in Tool /\ snaps' = snaps
          /\ workspace \subseteq workspace' /\ upper \subseteq upper'
          /\ workspace' \subseteq workspace \cup {op[2]}
          /\ upper' \subseteq upper \cup {op[2]}
      BY <1>2, <2>1 DEF Execute, Effect, LateOK, TypeOK
    <3>2. SnapshotOK' /\ WorkspaceOK' /\ WorkKept'
      BY <1>1, <1>3, <3>1 DEF SnapshotOK, WorkspaceOK, WorkKept
    <3> QED  BY <3>1, <3>2 DEF TypeOK
  <2>2. CASE op[1] = "snapshot"
    <3>1. workspace' = workspace /\ upper' = upper /\ snaps' = Copied(op[2])
      BY <2>2 DEF Execute, layers
    <3>2. op[2] \in Nat /\ op[2] < nextId /\ nextId \in Nat
      BY <1>2, <2>2, TypeParts DEF LateOK, Late
    <3>3. DOMAIN snaps' = DOMAIN snaps \cup {op[2]} /\ op[2] \in 0..nextId
      BY <3>1, <3>2 DEF Copied
    <3>4. ASSUME NEW i \in DOMAIN snaps'
          PROVE  /\ snaps'[i] \subseteq Tool
                 /\ upper \subseteq snaps'[i] \/ (i \in DOMAIN snaps /\ snaps'[i] = snaps[i])
      <4>1. CASE i # op[2]
        <5>1. i \in DOMAIN snaps /\ snaps'[i] = snaps[i]  BY <3>1, <3>3, <4>1 DEF Copied
        <5> QED  BY <5>1 DEF TypeOK
      <4>2. CASE i = op[2]
        <5>1. snaps'[i] = upper \cup IF i \in DOMAIN snaps THEN snaps[i] ELSE {}
          BY <3>1, <3>3, <4>2 DEF Copied
        <5> QED  BY <5>1 DEF TypeOK
      <4> QED  BY <4>1, <4>2
    <3>5. \A i \in DOMAIN snaps' : snaps'[i] \subseteq Tool  BY <3>4
    <3>6. SnapshotOK'  BY <1>1, <1>3, <3>1, <3>4 DEF SnapshotOK, WorkKept
    <3>7. WorkspaceOK' /\ WorkKept'  BY <1>1, <3>1 DEF WorkspaceOK, WorkKept
    <3> QED  BY <3>1, <3>3, <3>5, <3>6, <3>7 DEF TypeOK
  <2>3. CASE op[1] = "restore"
    <3>1. /\ workspace' = workspace /\ snaps' = snaps /\ disturbed
          /\ upper' = IF op[2] \in DOMAIN snaps THEN snaps[op[2]] ELSE {}
      BY <2>3 DEF Execute, LateOK
    <3>2. upper' \subseteq Tool  BY <3>1 DEF TypeOK
    <3>3. SnapshotOK' /\ WorkspaceOK' /\ WorkKept'
      BY <1>1, <3>1 DEF SnapshotOK, WorkspaceOK, WorkKept
    <3> QED  BY <3>1, <3>2, <3>3 DEF TypeOK
  <2> QED  BY <1>2, <2>1, <2>2, <2>3 DEF Late
<1>6. TypeOK'  BY <1>1, <1>2, <1>5 DEF IInv, TypeOK
<1> QED  BY <1>4, <1>5, <1>6 DEF IInv

----------------------------------------------------------------------------
(* The theorems. *)

LEMMA NextIInv == IInv /\ [Next]_vars => IInv'
<1> SUFFICES ASSUME IInv, [Next]_vars PROVE IInv'
  OBVIOUS
<1>1. CASE AgentStep
  BY <1>1, ThinkIInv, CaptureDiffIInv, CallAnsweredIInv, CallFailsIInv, PanicIInv,
     CheckpointIInv, RestartIInv, RestoreIInv, RestoreFailsIInv DEF AgentStep
<1>2. CASE \E op \in late : Execute(op)  BY <1>2, ExecuteIInv
<1>3. CASE UNCHANGED vars
  <2>1. /\ UNCHANGED <<stage, attempt, round, todo, tries, log, nextId, snaps>>
        /\ UNCHANGED <<workspace, upper, late, result, worked, unsure, disturbed>>
    BY <1>3 DEF vars
  <2>2. LastSnapshot' = LastSnapshot  BY <2>1 DEF LastSnapshot
  <2>3. TypeOK' /\ BoundsOK'  BY <2>1 DEF IInv, TypeOK, BoundsOK
  <2>4. LateOK' /\ SnapshotOK'  BY <2>1, <2>2 DEF IInv, LateOK, SnapshotOK
  <2>5. WorkspaceOK' /\ WorkKept' /\ DiffExplained'
    BY <2>1 DEF IInv, WorkspaceOK, WorkKept, DiffExplained
  <2> QED  BY <2>3, <2>4, <2>5 DEF IInv
<1> QED  BY <1>1, <1>2, <1>3 DEF Next

(* The inductive invariant holds: calls that were answered are kept in the
   snapshot the next attempt starts from (agent_execution.rs, checkpoint.rs). *)
THEOREM Invariance == Spec => []IInv
BY InitIInv, NextIInv, PTL DEF Spec

(* Attempts, rounds and retries keep to their bounds, and at most Keep
   checkpoints are left, with one more for each attempt that failed before the
   log was pruned (execute_task, CheckpointLog::prune). *)
THEOREM TypeCorrect == Spec => []TypeOK
<1>1. IInv => TypeOK  BY DEF IInv
<1> QED  BY <1>1, Invariance, PTL

(* What an answered call did to the container is there in every later attempt,
   unless a restore failed or was repeated: restore_container never takes away
   what the log counts as done. *)
THEOREM AnsweredWorkKept == Spec => []WorkKept
<1>1. IInv => WorkKept  BY DEF IInv
<1> QED  BY <1>1, Invariance, PTL

(* The diff of a success has all that answered calls did to /workspace, or it is
   empty, and nothing that no call did (capture_git_diff). *)
THEOREM DiffsExplained == Spec => []DiffExplained
<1>1. IInv => DiffExplained  BY DEF IInv
<1> QED  BY <1>1, Invariance, PTL

----------------------------------------------------------------------------
(* The end of a run. *)

(* Where two runs of the measure differ first. *)
LEMMA BelowAt ==
  ASSUME NEW a, NEW b, NEW i \in 1..7, a[i] < b[i], \A j \in 1..(i - 1) : a[j] = b[j]
  PROVE  Below(a, b)
BY DEF Below

(* What is ahead is counted in natural numbers. *)
Measure == [1..7 -> Nat]

LEMMA AheadType ==
  ASSUME IInv
  PROVE  Ahead \in Measure
<1>1. /\ Tier2 + 1 - attempt \in Nat /\ MaxRounds + 1 - round \in Nat /\ Tier1 - tries \in Nat
      /\ Len(todo) \in Nat
  <2>1. {Tier1, Tier2, MaxRounds} \subseteq Nat  OBVIOUS
  <2>2. attempt \in Nat /\ attempt <= Tier2 + 1 /\ round \in Nat /\ round <= MaxRounds + 1
    BY TypeParts
  <2>3. todo \in Seq(Tool) /\ tries \in 0..Tier1  BY TypeParts
  <2>4. Len(todo) \in Nat  BY <2>3
  <2>5. Tier2 + 1 - attempt \in Nat  BY <2>1, <2>2
  <2>6. MaxRounds + 1 - round \in Nat  BY <2>1, <2>2
  <2>7. Tier1 - tries \in Nat  BY <2>1, <2>3
  <2> QED  BY <2>4, <2>5, <2>6, <2>7
<1>2. StageRank[stage] \in Nat  BY DEF IInv, TypeOK, StageRank
<1>3. \A a, b, c, d, e, f, g \in Nat : <<a, b, c, d, e, f, g>> \in Seq(Nat)  OBVIOUS
<1>4. Ahead \in Seq(Nat)  BY <1>1, <1>2, <1>3 DEF Ahead
<1>5. Len(Ahead) = 7  BY DEF Ahead
<1>6. Ahead \in [1..Len(Ahead) -> Nat]  BY <1>4, LenProperties
<1> QED  BY <1>5, <1>6 DEF Measure

(* The seven parts one by one. *)
LEMMA AheadParts ==
  /\ Ahead[1] = Tier2 + 1 - attempt /\ Ahead[2] = StageRank[stage]
  /\ Ahead[3] = MaxRounds + 1 - round /\ Ahead[4] = (IF stage = "think" THEN 1 ELSE 0)
  /\ Ahead[5] = Len(todo) /\ Ahead[6] = (IF stage = "snapshot" THEN 0 ELSE 1)
  /\ Ahead[7] = Tier1 - tries
BY DEF Ahead

LEMMA AheadPartsNext ==
  /\ Ahead'[1] = Tier2 + 1 - attempt' /\ Ahead'[2] = StageRank[stage']
  /\ Ahead'[3] = MaxRounds + 1 - round' /\ Ahead'[4] = (IF stage' = "think" THEN 1 ELSE 0)
  /\ Ahead'[5] = Len(todo') /\ Ahead'[6] = (IF stage' = "snapshot" THEN 0 ELSE 1)
  /\ Ahead'[7] = Tier1 - tries'
BY DEF Ahead

(* An attempt that ends, one way or the other, has its end nearer. *)
LEMMA EndIsNearer ==
  ASSUME IInv, attempt' = attempt, StageRank[stage'] < StageRank[stage]
  PROVE  Below(Ahead', Ahead)
<1>1. Ahead'[2] < Ahead[2] /\ \A j \in 1..(2 - 1) : Ahead'[j] = Ahead[j]
  BY AheadParts, AheadPartsNext
<1> HIDE DEF Ahead
<1> QED  BY <1>1, BelowAt

LEMMA AttemptIsNearer ==
  ASSUME IInv, NextAttempt
  PROVE  Below(Ahead', Ahead)
<1>1. attempt' = attempt + 1 /\ attempt \in Nat /\ Tier2 \in Nat  BY TypeParts DEF NextAttempt
<1>2. Ahead'[1] < Ahead[1] /\ \A j \in 1..(1 - 1) : Ahead'[j] = Ahead[j]
  BY <1>1, AheadParts, AheadPartsNext
<1> QED  BY <1>2, BelowAt

LEMMA ThinkIsNearer == IInv /\ Think => Below(Ahead', Ahead)
<1> SUFFICES ASSUME IInv, Think PROVE Below(Ahead', Ahead)
  OBVIOUS
<1>1. stage = "think" /\ UNCHANGED <<attempt, round>>  BY DEF Think
<1>2. stage' \in {"call", "diff", "failed", "done"}  BY DEF Think, Abort, End
<1>3. CASE stage' # "call"
  BY <1>1, <1>2, <1>3, EndIsNearer DEF StageRank
<1>4. CASE stage' = "call"
  <2>1. Ahead'[4] < Ahead[4]  BY <1>1, <1>4, AheadParts, AheadPartsNext
  <2>2. Ahead'[1] = Ahead[1] /\ Ahead'[2] = Ahead[2] /\ Ahead'[3] = Ahead[3]
    BY <1>1, <1>4, AheadParts, AheadPartsNext DEF StageRank
  <2>3. \A j \in 1..(4 - 1) : j = 1 \/ j = 2 \/ j = 3  OBVIOUS
  <2>4. \A j \in 1..(4 - 1) : Ahead'[j] = Ahead[j]  BY <2>2, <2>3
  <2> QED  BY <2>1, <2>4, BelowAt
<1> QED  BY <1>3, <1>4

LEMMA CallIsNearer == IInv /\ (CallAnswered \/ CallFails) => Below(Ahead', Ahead)
<1> SUFFICES ASSUME IInv, CallAnswered \/ CallFails PROVE Below(Ahead', Ahead)
  OBVIOUS
<1>1. stage = "call" /\ UNCHANGED <<attempt, round, todo>>  BY DEF CallAnswered, CallFails
<1>2. tries \in Nat /\ Tier1 \in Nat  BY TypeParts
<1>3. CASE CallAnswered
  <2>1. stage' = "snapshot"  BY <1>3 DEF CallAnswered
  <2>2. Ahead'[6] < Ahead[6]  BY <1>1, <2>1, AheadParts, AheadPartsNext
  <2>3. /\ Ahead'[1] = Ahead[1] /\ Ahead'[2] = Ahead[2] /\ Ahead'[3] = Ahead[3]
        /\ Ahead'[4] = Ahead[4] /\ Ahead'[5] = Ahead[5]
    BY <1>1, <2>1, AheadParts, AheadPartsNext DEF StageRank
  <2>4. \A j \in 1..(6 - 1) : j = 1 \/ j = 2 \/ j = 3 \/ j = 4 \/ j = 5  OBVIOUS
  <2>5. \A j \in 1..(6 - 1) : Ahead'[j] = Ahead[j]  BY <2>3, <2>4
  <2> QED  BY <2>2, <2>5, BelowAt
<1>4. CASE CallFails /\ tries < Tier1
  <2>1. stage' = stage /\ tries' = tries + 1  BY <1>4 DEF CallFails
  <2>2. Tier1 - tries' < Tier1 - tries  BY <1>2, <2>1
  <2>3. Ahead'[7] < Ahead[7]  BY <2>2, AheadParts, AheadPartsNext
  <2>4. /\ Ahead'[1] = Ahead[1] /\ Ahead'[2] = Ahead[2] /\ Ahead'[3] = Ahead[3]
        /\ Ahead'[4] = Ahead[4] /\ Ahead'[5] = Ahead[5] /\ Ahead'[6] = Ahead[6]
    BY <1>1, <2>1, AheadParts, AheadPartsNext
  <2>5. \A j \in 1..(7 - 1) : j = 1 \/ j = 2 \/ j = 3 \/ j = 4 \/ j = 5 \/ j = 6
    OBVIOUS
  <2>6. \A j \in 1..(7 - 1) : Ahead'[j] = Ahead[j]  BY <2>4, <2>5
  <2> QED  BY <2>3, <2>6, BelowAt
<1>5. CASE CallFails /\ ~(tries < Tier1)
  <2>1. stage' \in {"failed", "done"}  BY <1>5 DEF CallFails, Abort, End
  <2> QED  BY <1>1, <2>1, EndIsNearer DEF StageRank
<1> QED  BY <1>3, <1>4, <1>5

LEMMA CheckpointIsNearer == IInv /\ Checkpoint => Below(Ahead', Ahead)
<1> SUFFICES ASSUME IInv, Checkpoint PROVE Below(Ahead', Ahead)
  OBVIOUS
<1>1. stage = "snapshot" /\ UNCHANGED <<attempt, tries>>  BY DEF Checkpoint
<1>2. CallDone \/ (Abort /\ UNCHANGED <<todo, round>>)  BY DEF Checkpoint
<1>3. CASE Abort
  <2>1. stage' \in {"failed", "done"}  BY <1>3 DEF Abort, End
  <2> QED  BY <1>1, <2>1, EndIsNearer DEF StageRank
<1>4. CASE CallDone /\ Len(todo) = 1
  <2>1. stage' = "think" /\ round' = round + 1 /\ round \in Nat /\ MaxRounds \in Nat
    BY <1>4, TypeParts DEF CallDone
  <2>2. Ahead'[3] < Ahead[3] /\ \A j \in 1..(3 - 1) : Ahead'[j] = Ahead[j]
    BY <1>1, <2>1, AheadParts, AheadPartsNext DEF StageRank
  <2> QED  BY <2>2, BelowAt
<1>5. CASE CallDone /\ Len(todo) # 1
  <2>1. stage' = "call" /\ round' = round /\ todo' = Tail(todo)
    BY <1>5 DEF CallDone
  <2>2. Len(todo') = Len(todo) - 1 /\ Len(todo) \in Nat
    <3>1. todo \in Seq(Tool) /\ todo # <<>>  BY <1>1, TypeParts, AtCall
    <3> QED  BY <2>1, <3>1
  <2>3. Ahead'[5] < Ahead[5]  BY <2>2, AheadParts, AheadPartsNext
  <2>4. /\ Ahead'[1] = Ahead[1] /\ Ahead'[2] = Ahead[2]
        /\ Ahead'[3] = Ahead[3] /\ Ahead'[4] = Ahead[4]
    BY <1>1, <2>1, AheadParts, AheadPartsNext DEF StageRank
  <2>5. \A j \in 1..(5 - 1) : j = 1 \/ j = 2 \/ j = 3 \/ j = 4  OBVIOUS
  <2>6. \A j \in 1..(5 - 1) : Ahead'[j] = Ahead[j]  BY <2>4, <2>5
  <2> QED  BY <2>3, <2>6, BelowAt
<1> QED  BY <1>2, <1>3, <1>4, <1>5

(* Every step that the agent takes brings its end nearer, for any bounds on
   attempts, rounds and retries and any answers; what agentd executes late does
   not put it off. *)
THEOREM AgentProgresses == Spec => NearerTheEnd
<1>1. IInv /\ [Next]_vars => [IF AgentStep THEN Below(Ahead', Ahead) ELSE Ahead' = Ahead]_vars
  <2> SUFFICES ASSUME IInv, Next
               PROVE  IF AgentStep THEN Below(Ahead', Ahead) ELSE Ahead' = Ahead
    OBVIOUS
  <2>1. ASSUME AgentStep PROVE Below(Ahead', Ahead)
    <3>1. CASE Think  BY <3>1, ThinkIsNearer
    <3>2. CASE CallAnswered \/ CallFails  BY <3>2, CallIsNearer
    <3>3. CASE Checkpoint  BY <3>3, CheckpointIsNearer
    <3>4. CASE CaptureDiff \/ Panic
      <4>1. StageRank[stage'] < StageRank[stage] /\ attempt' = attempt
        BY <3>4 DEF CaptureDiff, Panic, End, StageRank
      <4> QED  BY <4>1, EndIsNearer
    <3>5. CASE Restart \/ Restore \/ RestoreFails
      BY <3>5, AttemptIsNearer DEF Restart, Restore, RestoreFails
    <3> QED  BY <2>1, <3>1, <3>2, <3>3, <3>4, <3>5 DEF AgentStep
  <2>2. CASE ~AgentStep
    <3>1. UNCHANGED <<stage, attempt, round, todo, tries>>  BY <2>2 DEF Next, Execute
    <3> QED  BY <2>2, <3>1 DEF Ahead
  <2> QED  BY <2>1, <2>2
<1> QED  BY <1>1, Invariance, PTL DEF Spec, NearerTheEnd

Less == {mn \in Nat \X Nat : mn[1] < mn[2]}

(* And there is no getting nearer for ever: what is ahead is always seven natural
   numbers, and no sequence of those goes down without an end.  So an agent takes
   finitely many steps in all. *)
THEOREM AgentComesToAnEnd ==
  /\ Spec => [](Ahead \in Measure)
  /\ IsWellFoundedOn({ab \in Measure \X Measure : Below(ab[1], ab[2])}, Measure)
<1>1. Spec => [](Ahead \in Measure)
  BY AheadType, Invariance, PTL
<1>2. IsWellFoundedOn(LexProductOrdering(Less, Nat, 7), Measure)
  <2>1. IsWellFoundedOn(Less, Nat)  BY NatLessThanWellFounded DEF OpToRel, Less
  <2> QED  BY <2>1, WFLexProductOrdering DEF Measure
<1>3. {ab \in Measure \X Measure : Below(ab[1], ab[2])} \subseteq LexProductOrdering(Less, Nat, 7)
  BY DEF Below, Measure, LexProductOrdering, Less
<1>4. IsWellFoundedOn({ab \in Measure \X Measure : Below(ab[1], ab[2])}, Measure)
  BY <1>2, <1>3, IsWellFoundedOnSubrelation
<1> QED  BY <1>1, <1>4
=============================================================================
