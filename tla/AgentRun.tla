------------------------------ MODULE AgentRun ------------------------------
(***************************************************************************)
(* One agent at work on one task (agent_execution.rs), its checkpoints     *)
(* (checkpoint.rs) and what they do to its container (sandbox.rs): the     *)
(* model asks for tool calls, each call is tried again if agentd does not  *)
(* answer, every answered call is followed by a snapshot, and an attempt   *)
(* that fails is repeated from the last snapshot.                          *)
(*                                                                         *)
(* Requests to agentd are as in Rpc: one that is given up or sent again     *)
(* may be executed later, here as a request that is late.                  *)
(***************************************************************************)
EXTENDS Integers, Sequences, FiniteSets

CONSTANTS
  Tool,        \* tool calls a model may ask for, each with an effect of its own
  Inside,      \* those that change /workspace, the others change the container
  Provider,    \* "gemini", "openai" or "anthropic"
  Answers,     \* what a model streams
  MaxRounds,   \* max_tool_rounds
  Tier1, Tier2, \* max_tier1_retries, max_tier2_retries
  Keep,        \* checkpoints that prune leaves
  MaxLate,     \* bound on the late requests of different kinds
  MaxCalls,    \* bound on the calls a model asks for
  None

(* The calls in a streamed answer, and how many of them came in the last of the
   chunks that had any. *)
Answer ==
  {a \in [calls : Seq(Tool), last : Nat] :
     a.last <= Len(a.calls) /\ (a.calls # <<>> => a.last # 0)}

ASSUME AgentRunAssumption ==
  /\ Inside \subseteq Tool
  /\ Provider \subseteq {"gemini", "openai", "anthropic"}
  /\ Answers \subseteq Answer
  /\ {MaxRounds, Keep} \subseteq Nat \ {0} /\ {Tier1, Tier2, MaxLate, MaxCalls} \subseteq Nat
  /\ None \notin Nat

VARIABLES
  stage, attempt, round, todo, tries, \* where the agent is
  log, nextId,       \* CheckpointLog: the checkpoints and the next number
  snaps,             \* the snapshot directories, by number
  workspace, upper,  \* the effects in the container's two writable layers
  late,              \* requests agentd may still execute
  result,
  worked, unsure,    \* history: calls answered with an effect, calls sent
                     \* again or given up
  disturbed          \* history: a restore failed or was sent again

vars == <<stage, attempt, round, todo, tries, log, nextId, snaps, workspace,
          upper, late, result, worked, unsure, disturbed>>
layers == <<workspace, upper>>
history == <<worked, unsure, disturbed>>

Late == ({"tool"} \X Tool) \cup ({"snapshot", "restore"} \X Nat)
Result == [success : BOOLEAN, diff : SUBSET Tool]

(* When the log cannot be saved it is not pruned either, and the attempt fails. *)
TypeOK ==
  /\ stage \in {"think", "call", "snapshot", "diff", "failed", "done"}
  /\ attempt \in 1..(Tier2 + 1) /\ round \in 1..(MaxRounds + 1)
  /\ todo \in Seq(Tool) /\ tries \in 0..Tier1
  /\ log \in Seq([tool : Tool, snap : Nat \cup {None}])
  /\ Len(log) <= Keep + attempt
  /\ stage \in {"think", "call"} => Len(log) <= Keep + attempt - 1
  /\ nextId \in Nat /\ DOMAIN snaps \subseteq 0..nextId
  /\ \A i \in DOMAIN snaps : snaps[i] \subseteq Tool
  /\ workspace \subseteq Tool /\ upper \subseteq Tool /\ late \subseteq Late
  /\ result \in Result \cup {None}
  /\ worked \subseteq Tool /\ unsure \subseteq Tool /\ disturbed \in BOOLEAN

Init ==
  /\ stage = "think" /\ attempt = 1 /\ round = 1 /\ todo = <<>> /\ tries = 0
  /\ log = <<>> /\ nextId = 0 /\ snaps = [i \in {} |-> {}]
  /\ workspace = {} /\ upper = {} /\ late = {}
  /\ result = None
  /\ worked = {} /\ unsure = {} /\ disturbed = FALSE

----------------------------------------------------------------------------
(* The agent's answer and its end *)

(* What a streaming round makes of the chunks: OpenAI's and Anthropic's calls
   are put together by their index; of Gemini's, a chunk with calls takes the
   place of the calls before it. *)
Taken(p, a) ==
  LET n == Len(a.calls)
  IN IF p = "gemini" THEN SubSeq(a.calls, n - a.last + 1, n) ELSE a.calls

End(success, diff) ==
  /\ stage' = "done"
  /\ result' = [success |-> success, diff |-> diff]

(* execute_task on an error: an attempt more, after the last checkpoint was
   restored, or a failed result that leaves the checkpoints where they are. *)
Abort ==
  IF attempt <= Tier2
  THEN stage' = "failed" /\ UNCHANGED result
  ELSE End(FALSE, {})

(* Calls are carried out; no calls are the end of the work; and so many rounds
   are a failure for good.  cleanup_agent_checkpoints removes the snapshots. *)
Think ==
  /\ stage = "think"
  /\ IF round > MaxRounds
     THEN /\ End(FALSE, {}) /\ snaps' = [i \in {} |-> {}]
          /\ UNCHANGED todo
     ELSE /\ UNCHANGED snaps
          /\ \/ Abort /\ UNCHANGED todo
             \/ \E p \in Provider, a \in Answers :
                  /\ todo' = Taken(p, a) /\ nextId + Len(todo') <= MaxCalls
                  /\ stage' = IF todo' = <<>> THEN "diff" ELSE "call"
                  /\ UNCHANGED result
  /\ UNCHANGED <<attempt, round, tries, log, nextId, layers, late, history>>

(* capture_git_diff.  Without agentd there is no diff; if git fails the diff is
   empty.  The task has succeeded all the same. *)
CaptureDiff ==
  /\ stage = "diff"
  /\ \E d \in {workspace, {}} : End(TRUE, d)
  /\ snaps' = [i \in {} |-> {}]
  /\ UNCHANGED <<attempt, round, todo, tries, log, nextId, layers, late, history>>

----------------------------------------------------------------------------
(* A tool call and its checkpoint *)

(* The request is the last of its kind, or a copy of it is still to come. *)
Leaves(op) ==
  \/ UNCHANGED late
  \/ Cardinality(late) < MaxLate /\ late' = late \cup {op}

Effect(t) ==
  IF t \in Inside THEN workspace' = workspace \cup {t} /\ UNCHANGED upper
                  ELSE upper' = upper \cup {t} /\ UNCHANGED workspace

(* An answer, be it that of a tool that failed. *)
CallAnswered ==
  /\ stage = "call"
  /\ \/ Effect(Head(todo)) /\ worked' = worked \cup {Head(todo)}
     \/ UNCHANGED <<layers, worked>>
  /\ Leaves(<<"tool", Head(todo)>>)
  /\ unsure' = IF late' = late THEN unsure ELSE unsure \cup {Head(todo)}
  /\ stage' = "snapshot" /\ tries' = 0
  /\ UNCHANGED <<attempt, round, todo, log, nextId, snaps, result, disturbed>>

(* No answer: the call is made again, and at last the attempt has failed. *)
CallFails ==
  /\ stage = "call"
  /\ Leaves(<<"tool", Head(todo)>>)
  /\ IF tries < Tier1
     THEN tries' = tries + 1 /\ UNCHANGED <<stage, result>>
     ELSE tries' = 0 /\ Abort
  /\ unsure' = unsure \cup {Head(todo)}
  /\ UNCHANGED <<attempt, round, todo, log, nextId, snaps, layers, worked, disturbed>>

(* When somebody listens to its events, the answer is cut for them at byte 200:
   in the middle of a character, that is a panic, and the agent is gone. *)
Panic ==
  /\ stage = "snapshot"
  /\ stage' = "done"
  /\ UNCHANGED <<attempt, round, todo, tries, log, nextId, snaps, layers, late,
                 result, history>>

(* A variant: prune leaves one checkpoint more. *)
PrunedLate(l) == IF Len(l) > Keep + 1 THEN SubSeq(l, Len(l) - Keep, Len(l)) ELSE l

Pruned(l) == IF Len(l) > Keep THEN SubSeq(l, Len(l) - Keep + 1, Len(l)) ELSE l

Without(ids) == [i \in DOMAIN snaps \ ids |-> snaps[i]]
Snapshots(l) == {l[i].snap : i \in DOMAIN l}

(* cp -a of the upper layer into directory i, on top of what is there. *)
Copied(i) ==
  [j \in DOMAIN snaps \cup {i} |->
     IF j # i THEN snaps[j] ELSE upper \cup IF i \in DOMAIN snaps THEN snaps[i] ELSE {}]

(* The next call of the round, or the next round. *)
CallDone ==
  /\ todo' = Tail(todo)
  /\ IF Len(todo) = 1
     THEN stage' = "think" /\ round' = round + 1
     ELSE stage' = "call" /\ UNCHANGED round
  /\ UNCHANGED result

(* A variant: the path of a snapshot is kept, as the directory is there. *)
PathOfAny(id, taken) == id

(* The path of a snapshot that failed is not kept. *)
PathOf(id, taken) == IF taken THEN id ELSE None

(* Whether or not the snapshot succeeds, the call is logged under a new number.
   The attempt fails if the log cannot be saved, before or after it is pruned. *)
Checkpoint ==
  /\ stage = "snapshot"
  /\ \E taken \in BOOLEAN :
       LET entry == [tool |-> Head(todo), snap |-> PathOf(nextId, taken)]
           full == Append(log, entry)
           dirs == IF taken THEN Copied(nextId)
                   ELSE [j \in DOMAIN snaps \cup {nextId} |->
                           IF j = nextId THEN {} ELSE snaps[j]]
           gone == Snapshots(full) \ Snapshots(Pruned(full))
       IN \/ /\ log' = full /\ snaps' = dirs
             /\ Abort /\ UNCHANGED <<todo, round>>
          \/ /\ log' = Pruned(full)
             /\ snaps' = [j \in DOMAIN dirs \ gone |-> dirs[j]]
             /\ CallDone \/ (Abort /\ UNCHANGED <<todo, round>>)
  /\ Leaves(<<"snapshot", nextId>>)
  /\ nextId' = nextId + 1
  /\ UNCHANGED <<attempt, tries, layers, history>>

----------------------------------------------------------------------------
(* Between two attempts *)

LastSnapshot == IF log = <<>> THEN None ELSE log[Len(log)].snap

(* A variant: the attempts are not counted. *)
NextAttemptUncounted ==
  /\ stage' = "think" /\ round' = 1 /\ todo' = <<>>
  /\ UNCHANGED <<attempt, tries, log, nextId, snaps, result, worked, unsure>>

NextAttempt ==
  /\ stage' = "think" /\ attempt' = attempt + 1 /\ round' = 1 /\ todo' = <<>>
  /\ UNCHANGED <<tries, log, nextId, snaps, result, worked, unsure>>

Restart ==
  /\ stage = "failed" /\ LastSnapshot \notin DOMAIN snaps
  /\ NextAttempt
  /\ UNCHANGED <<layers, late, disturbed>>

(* A variant: the container's other overlay is mounted anew. *)
WorkspaceAnew == {}

(* restore_container replaces the upper layer; /workspace is another overlay,
   which it does not touch. *)
WorkspaceRestored == workspace

Restore ==
  /\ stage = "failed" /\ LastSnapshot \in DOMAIN snaps
  /\ upper' = snaps[LastSnapshot]
  /\ Leaves(<<"restore", LastSnapshot>>)
  /\ disturbed' = (disturbed \/ late' # late)
  /\ workspace' = WorkspaceRestored
  /\ NextAttempt

(* It may stop halfway through the removal or the copy, or never be answered.
   The next attempt starts all the same. *)
RestoreFails ==
  /\ stage = "failed" /\ LastSnapshot \in DOMAIN snaps
  /\ upper' \in (SUBSET upper) \cup (SUBSET snaps[LastSnapshot])
  /\ Leaves(<<"restore", LastSnapshot>>)
  /\ disturbed' = TRUE
  /\ workspace' = WorkspaceRestored
  /\ NextAttempt

(* agentd executes a late request, of which there may be another copy. *)
Execute(op) ==
  /\ stage # "done" /\ op \in late
  /\ late' \in {late, late \ {op}}
  /\ CASE op[1] = "tool" -> Effect(op[2]) /\ UNCHANGED snaps
       [] op[1] = "snapshot" -> snaps' = Copied(op[2]) /\ UNCHANGED layers
       [] OTHER -> /\ upper' = IF op[2] \in DOMAIN snaps THEN snaps[op[2]] ELSE {}
                   /\ UNCHANGED <<workspace, snaps>>
  /\ UNCHANGED <<stage, attempt, round, todo, tries, log, nextId, result, history>>

----------------------------------------------------------------------------
AgentStep ==
  \/ Think \/ CaptureDiff
  \/ CallAnswered \/ CallFails \/ Panic \/ Checkpoint
  \/ Restart \/ Restore \/ RestoreFails

Next == AgentStep \/ \E op \in late : Execute(op)

(* The model's answers and agentd's have time limits, so the agent goes on. *)
Spec == Init /\ [][Next]_vars /\ WF_vars(AgentStep)

----------------------------------------------------------------------------
(* Properties *)

(* The effect of a call that was answered, and so is in the log an attempt
   recovers, is in the container: a restore takes it away only if the restore
   failed or was sent twice. *)
WorkKept == disturbed \/ worked \subseteq workspace \cup upper

(* The diff of a task that succeeded is empty or all that its calls did to
   /workspace, in any of the attempts; and what else it has was done by a call
   whose request was given up or sent again. *)
DiffExplained ==
  result # None /\ result.success /\ result.diff # {} =>
    /\ worked \cap Inside \subseteq result.diff
    /\ result.diff \subseteq worked \cup unsure

(* The agent comes to an end, however agentd and the model fail. *)
AgentEnds == <>(stage = "done")

----------------------------------------------------------------------------
(* The inductive invariant. *)

(* The bounds on attempts, rounds and checkpoints, where they are relied on. *)
BoundsOK ==
  /\ stage = "failed" => attempt <= Tier2
  /\ stage \in {"call", "snapshot"} => round <= MaxRounds /\ todo # <<>>
  /\ stage = "snapshot" => Len(log) <= Keep + attempt - 1
  /\ stage # "done" => result = None

(* A request that is late was counted as one whose effect may be repeated. *)
LateOK ==
  \A op \in late :
    /\ op[1] = "tool" => op[2] \in unsure
    /\ op[1] = "snapshot" => op[2] < nextId
    /\ op[1] = "restore" => disturbed

(* What was worked lies in the layers, and once the call has its checkpoint, in
   the snapshot that the next attempt would start from. *)
SnapshotOK ==
  stage \in {"think", "call", "failed"} /\ LastSnapshot \in DOMAIN snaps =>
    disturbed \/ worked \subseteq workspace \cup snaps[LastSnapshot]

WorkspaceOK ==
  /\ worked \cap Inside \subseteq workspace
  /\ workspace \subseteq worked \cup unsure

IInv ==
  /\ TypeOK /\ BoundsOK /\ LateOK /\ SnapshotOK /\ WorkspaceOK
  /\ WorkKept /\ DiffExplained

----------------------------------------------------------------------------
(* Why the agent comes to an end. *)

StageRank == [think |-> 3, call |-> 3, snapshot |-> 3, diff |-> 2, failed |-> 1, done |-> 0]

(* What it has still ahead, the longest way first: attempts, the end of this one,
   rounds, this round's answer, calls of the answer, the call's own answer, and
   the tries of the call. *)
Ahead ==
  <<Tier2 + 1 - attempt, StageRank[stage], MaxRounds + 1 - round,
    IF stage = "think" THEN 1 ELSE 0, Len(todo), IF stage = "snapshot" THEN 0 ELSE 1,
    Tier1 - tries>>

Below(a, b) == \E i \in 1..7 : a[i] < b[i] /\ \A j \in 1..(i - 1) : a[j] = b[j]

(* Each step of the agent shortens what it has ahead, and a late request that
   agentd executes in between never lengthens it. *)
NearerTheEnd == [][IF AgentStep THEN Below(Ahead', Ahead) ELSE Ahead' = Ahead]_vars
=============================================================================
