------------------------------ MODULE Delivery ------------------------------
(***************************************************************************)
(* Layers 5 to 7 of the agentd orchestrator: what becomes of the results   *)
(* that WorkerPool hands over.  Each sandbox's contributions are reviewed  *)
(* (merge_reviewer.rs), verified in rounds (verification.rs) and reviewed  *)
(* again across the sandboxes (new_orchestrator.rs).  Full mode and        *)
(* standard mode are two copies of the same code that differ in details.   *)
(*                                                                         *)
(* Of a diff it is kept how many texts it has for each file, and whether   *)
(* the reviewer can read the header of a text.                             *)
(***************************************************************************)
EXTENDS Integers, Topology

CONSTANTS
  File,        \* the files diffs speak of, by the path in the header
  Quoted,      \* those git writes in quotes: a path with special characters
  Answers,     \* what a model may say of one file
  VF,          \* verification functions a plan is made of
  ContainerId, \* an id agentd gives to a container
  MaxRounds,   \* max_verification_rounds
  MaxRetries,  \* max_retries of the reviewer
  Cross        \* stands for the review across sandboxes

(* A raw diff, one text per "diff --git" line, the same file twice included. *)
Diff == [File -> Nat]
Empty == [f \in File |-> 0]

(* What parse_unified_diff makes of a diff.  Where the header does not start
   with a/ and the path, but with a quote, the text is left out. *)
Parsed(d) == [f \in File |-> IF f \in Quoted THEN 0 ELSE d[f]]

(* The decisions of a model on one file: those that give it a text, an agent's
   or a merged one, and those that give it none. *)
Decisions == [texts : Nat, drops : Nat]

ASSUME DeliveryAssumption ==
  /\ Quoted \subseteq File
  /\ Answers \subseteq Decisions
  /\ ContainerId \notin Sandbox   \* ids come from two counters with random bits
  /\ {Cross, None} \cap Sandbox = {} /\ None \notin Diff
  /\ MaxRounds \in Nat /\ MaxRetries \in Nat \ {0}

VARIABLES
  mode,
  work,            \* each task's diff, empty if it failed
  offered,         \* the contributions under review
  stage, at, todo, \* the layer and its step, the place it is at, places to do
  attempts,        \* calls the reviewer's model failed
  merged_diff,     \* of each sandbox
  plan, working,   \* the plan; functions whose command succeeds in a container
  round, failing, unfixed, current, \* the round, its failures, current_merged_diff
  status,
  final,
  dropped, twice, concatenated  \* history: files a model dropped or decided on
                                \* again, places whose review was given up

reviewVars == <<offered, attempts, merged_diff, dropped, twice, concatenated>>
verifyVars == <<plan, round, failing, unfixed, current, status>>
given == <<mode, work, working>>
deliveryVars == <<given, stage, at, todo, reviewVars, verifyVars, final>>

Place == Sandbox \cup {Cross}
IsDiff(d) == d # None /\ d # Empty

Status == {"NotStarted", "Passed", "PartiallyVerified", "Failed", "TimedOut"}

DeliveryTypeOK ==
  /\ mode \in {"full", "standard"}
  /\ work \in [Task -> Diff]
  /\ \E who \in (SUBSET Task) \cup (SUBSET Sandbox) : offered \in [who -> Diff]
  /\ stage \in {"review", "asking", "verify", "plan", "run", "fix", "cross", "done"}
  /\ at \in Place \cup {None} /\ todo \subseteq Sandbox
  /\ attempts \in 0..(MaxRetries - 1)
  /\ merged_diff \in [Sandbox -> Diff \cup {None}]
  /\ plan \subseteq VF /\ working \subseteq VF /\ failing \subseteq plan /\ unfixed \subseteq failing
  /\ round \in Nat
  /\ current \in Diff /\ final \in Diff
  /\ status \in [Sandbox -> Status]
  /\ dropped \subseteq File /\ twice \subseteq File /\ concatenated \subseteq Place

----------------------------------------------------------------------------
(* merge_reviewer.rs.  Contributions are a function from agents to diffs. *)

(* Their file_changes. *)
Changes(cs) == [a \in DOMAIN cs |-> Parsed(cs[a])]

(* file_map: all that is offered for file f, by agent. *)
Entries(cs, f) == UNION {{a} \X (1..cs[a][f]) : a \in DOMAIN cs}

(* Diffs one after the other: the raw ones when the review fails. *)
Concatenation(cs) == [f \in File |-> Cardinality(Entries(cs, f))]

(* A variant: conflicts between different agents only. *)
ConflictsOfAgents(cs) ==
  {f \in File : Cardinality({a \in DOMAIN cs : cs[a][f] > 0}) > 1}

(* ConflictDetector::detect.  A delete against a change and overlapping hunks
   differ in the severity by which conflicts are sorted. *)
Conflicts(cs) == {f \in File : Concatenation(cs)[f] > 1}

(* parse_llm_decisions: a conflict that was not decided goes to the first
   agent; an answer that is not JSON decides nothing. *)
Decided(cs, answer, f) ==
  IF f \in Conflicts(cs) /\ answer[f] = [texts |-> 0, drops |-> 0]
  THEN [texts |-> 1, drops |-> 0] ELSE answer[f]

(* build_diff_for_decision: the text of the agent named, of the first one if
   none is, or the merged content; nothing where no agent has a text. *)
DiffForDecisions(cs, answer, f) ==
  IF Entries(cs, f) = {} THEN 0 ELSE Decided(cs, answer, f).texts

(* review: files of one agent are taken as they are, and the decisions add to
   them, even decisions on files nobody asked about. *)
Reviewed(cs, answer) ==
  [f \in File |->
    (IF f \in Conflicts(cs) THEN 0 ELSE Concatenation(cs)[f]) + DiffForDecisions(cs, answer, f)]

----------------------------------------------------------------------------
(* What there is to review at a place: the results of a sandbox that have a
   diff, or the diffs of the sandboxes. *)
Contributions(p) ==
  IF p = Cross
  THEN [s \in {s \in Sandbox : IsDiff(merged_diff[s])} |-> merged_diff[s]]
  ELSE [t \in {t \in Task : Hint[t] = p /\ work[t] # Empty} |-> work[t]]

DeliveryInit ==
  /\ mode \in {"full", "standard"}
  /\ \E touched \in [Task -> SUBSET File] :
       work = [t \in Task |-> [f \in File |-> IF f \in touched[t] THEN 1 ELSE 0]]
  /\ mode = "standard" => \E s \in Sandbox : \A t \in Task : work[t] # Empty => Hint[t] = s
  /\ stage = "review" /\ at = None
  /\ todo = Sandbox
  /\ offered = <<>> /\ attempts = 0
  /\ merged_diff = [s \in Sandbox |-> None]
  /\ plan = {} /\ working \in SUBSET VF /\ failing = {} /\ unfixed = {} /\ round = 0
  /\ current = Empty /\ final = Empty
  /\ status = [s \in Sandbox |-> "NotStarted"]
  /\ dropped = {} /\ twice = {} /\ concatenated = {}

(* A place's diff is settled; the next layer, once every sandbox has one. *)
Settle(p, d) ==
  /\ IF p = Cross
     THEN stage' = "done" /\ final' = d /\ UNCHANGED <<merged_diff, todo>>
     ELSE /\ merged_diff' = [merged_diff EXCEPT ![p] = d]
          /\ IF todo = {p} THEN stage' = "verify" /\ todo' = Sandbox
             ELSE stage' = "review" /\ todo' = todo \ {p}
          /\ UNCHANGED final
  /\ at' = None
  /\ attempts' = 0

(* One contribution that is passed on as it is; in full mode the sandboxes
   review it all the same. *)
PassedOn(p) == Cardinality(DOMAIN Contributions(p)) = 1 /\ (mode = "standard" \/ p = Cross)

(* Layers 5 and 7, as far as no model is needed: nothing to review, one
   contribution to pass on, or nothing that conflicts: what was parsed of the
   contributions is taken. *)
Review(p) ==
  /\ \/ stage = "review" /\ p \in todo
     \/ stage = "cross" /\ p = Cross /\ mode = "full"
  /\ LET cs == Contributions(p)
     IN IF Conflicts(Changes(cs)) = {} \/ PassedOn(p)
        THEN /\ Settle(p, IF DOMAIN cs = {} /\ p # Cross THEN None
                          ELSE Concatenation(IF PassedOn(p) THEN cs ELSE Changes(cs)))
             /\ UNCHANGED offered
        ELSE /\ stage' = "asking" /\ at' = p
             /\ offered' = cs
             /\ UNCHANGED <<todo, attempts, merged_diff, final>>
  /\ UNCHANGED <<given, verifyVars, dropped, twice, concatenated>>

(* Standard mode has one sandbox and takes its diff. *)
TakeSingle ==
  /\ stage = "cross" /\ mode = "standard"
  /\ LET found == {s \in Sandbox : merged_diff[s] # None}
     IN final' = IF found = {} THEN Empty ELSE merged_diff[CHOOSE s \in found : TRUE]
  /\ stage' = "done"
  /\ UNCHANGED <<given, at, todo, reviewVars, verifyVars>>

(* The model answers call_llm. *)
Answer ==
  /\ stage = "asking"
  /\ \E answer \in [File -> Answers] :
       /\ Settle(at, Reviewed(Changes(offered), answer))
       /\ dropped' = dropped \cup
            {f \in File : Entries(Changes(offered), f) # {} /\ answer[f].drops > 0}
       /\ twice' = twice \cup
            {f \in File : answer[f].texts + answer[f].drops >
                           (IF f \in Conflicts(Changes(offered)) THEN 1 ELSE 0)}
  /\ offered' = <<>>
  /\ UNCHANGED <<given, verifyVars, concatenated>>

GiveUpReview ==
  /\ Settle(at, Concatenation(offered))
  /\ offered' = <<>>
  /\ concatenated' = concatenated \cup {at}

(* Or its call fails; the last failure ends the review. *)
AnswerFails ==
  /\ stage = "asking"
  /\ IF attempts + 1 < MaxRetries
     THEN /\ attempts' = attempts + 1
          /\ UNCHANGED <<stage, at, todo, offered, merged_diff, final, concatenated>>
     ELSE GiveUpReview
  /\ UNCHANGED <<given, verifyVars, dropped, twice>>

(* Five minutes pass. *)
ReviewTimeout ==
  /\ stage = "asking"
  /\ GiveUpReview
  /\ UNCHANGED <<given, verifyVars, dropped, twice>>

----------------------------------------------------------------------------
(* verification.rs, one sandbox after the other *)

LastRound == IF mode = "standard" THEN 1 ELSE MaxRounds

(* A sandbox is done with: on to the next, or to the last layer. *)
Verified(st, d) ==
  /\ status' = [status EXCEPT ![at] = st]
  /\ merged_diff' = [merged_diff EXCEPT ![at] = d]
  /\ todo' = todo \ {at}
  /\ stage' = IF todo = {at} THEN "cross" ELSE "verify"
  /\ at' = None
  /\ plan' = {} /\ round' = 0 /\ failing' = {} /\ unfixed' = {} /\ current' = Empty

(* A sandbox without a diff is passed over. *)
StartVerification(s) ==
  /\ stage = "verify" /\ s \in todo
  /\ IF IsDiff(merged_diff[s])
     THEN stage' = "plan" /\ at' = s /\ current' = merged_diff[s] /\ UNCHANGED todo
     ELSE /\ todo' = todo \ {s}
          /\ stage' = IF todo = {s} THEN "cross" ELSE "verify"
          /\ UNCHANGED <<at, current>>
  /\ UNCHANGED <<given, reviewVars, plan, round, failing, unfixed, status, final>>

(* determine_status, when the rounds are over. *)
DetermineStatus(passed, failed, rounds) ==
  CASE passed \cup failed = {} -> "NotStarted"
    [] passed \cup failed # {} /\ failed = {} -> "Passed"
    [] failed # {} /\ rounds >= LastRound -> "PartiallyVerified"
    [] OTHER -> "Failed"

(* A variant: the refreshed diff, empty or not. *)
DeliveredRefreshed == current

(* The refreshed diff takes the place of the reviewed one unless it is empty. *)
Delivered == IF current = Empty THEN merged_diff[at] ELSE current

(* generate_verification_plan, once: it fails, is empty, or is the work of
   every round. *)
Plan ==
  /\ stage = "plan"
  /\ \/ Verified("Failed", merged_diff[at])
     \/ \E vfs \in SUBSET VF :
          IF vfs = {} \/ LastRound = 0
          THEN Verified("NotStarted", Delivered)
          ELSE /\ plan' = vfs /\ round' = 1 /\ stage' = "run"
               /\ UNCHANGED <<at, todo, merged_diff, failing, unfixed, current, status>>
  /\ UNCHANGED <<given, offered, attempts, dropped, twice, concatenated, final>>

(* The request execute_vf sends for a command in container c, what agentd
   makes of it (handle_request: an unknown sandbox is an error) and the exit
   code that is read from its answer. *)
Request(c) == [sandbox |-> c, container |-> c]
Response(r, vf) ==
  IF r.sandbox \in Sandbox
  THEN [status |-> "ok", result |-> [exit_code |-> IF vf \in working THEN 0 ELSE 1]]
  ELSE [status |-> "error"]
ExitCode(resp) == IF "exit_code" \in DOMAIN resp THEN resp.exit_code ELSE -1

(* execute_vf.  It also fails without a container, and at its deadline; as no
   function passes, these are not told apart. *)
Passes(vf) == ExitCode(Response(Request(ContainerId), vf)) = 0

(* A round: the whole plan, in containers of its own. *)
RunRound ==
  /\ stage = "run"
  /\ LET failed == {vf \in plan : ~Passes(vf)}
     IN IF failed = {} \/ round = LastRound
        THEN Verified(DetermineStatus(plan \ failed, failed, round), Delivered)
        ELSE /\ failing' = failed /\ unfixed' = failed /\ stage' = "fix"
             /\ UNCHANGED <<at, todo, merged_diff, plan, round, current, status>>
  /\ UNCHANGED <<given, offered, attempts, dropped, twice, concatenated, final>>

(* The fix tasks of a failure, each run by an agent in a container of its own.
   The diff of one that succeeds is offered to the sandbox layer, and the
   sandbox's diff is taken again, from a fresh container: it is empty. *)
Fix(vf) ==
  /\ stage = "fix" /\ vf \in unfixed
  /\ unfixed' = unfixed \ {vf}
  /\ current' \in {current, Empty}
  /\ IF unfixed = {vf}
     THEN stage' = "run" /\ round' = round + 1 /\ failing' = {}
     ELSE UNCHANGED <<stage, round, failing>>
  /\ UNCHANGED <<given, at, todo, reviewVars, plan, status, final>>

(* The limit on the rounds of one sandbox, whatever is under way. *)
VerifyTimeout ==
  /\ stage \in {"plan", "run", "fix"}
  /\ Verified("TimedOut", merged_diff[at])
  /\ UNCHANGED <<given, offered, attempts, dropped, twice, concatenated, final>>

----------------------------------------------------------------------------
DeliveryNext ==
  \/ \E p \in Place : Review(p)
  \/ Answer \/ AnswerFails \/ ReviewTimeout \/ TakeSingle
  \/ \E s \in Sandbox : StartVerification(s)
  \/ Plan \/ RunRound \/ (\E vf \in VF : Fix(vf)) \/ VerifyTimeout

DeliverySpec == DeliveryInit /\ [][DeliveryNext]_deliveryVars

----------------------------------------------------------------------------
(* Properties *)

(* The raw diffs of a place reach the diff settled there, its review given up
   or not needed. *)
Raw(p) == PassedOn(p) \/ p \in concatenated

(* What an agent has changed is in the diff delivered: not lost by a review
   that failed or timed out, by a verification whose refreshed diff is empty,
   or between two reviews.  Two things lose a file: a model that decides to
   drop it, and, for a path git quotes, a review that goes well. *)
NothingLost ==
  stage = "done" =>
    \A t \in Task, f \in File : work[t][f] > 0 =>
      \/ final[f] > 0
      \/ f \in dropped
      \/ f \in Quoted /\ ~(Raw(Hint[t]) /\ Raw(Cross))

(* Two texts for one file reach the delivered diff, where git would refuse the
   second, only if the last review that saw both was given up or the model
   spoke of the file more than it was asked to. *)
Delivering == {s \in Sandbox : IsDiff(merged_diff[s])}
OneTextPerFile ==
  stage = "done" =>
    \A f \in File : final[f] > 1 =>
      \/ f \in twice
      \/ Cross \in concatenated
      \/ Cardinality(Delivering) = 1 /\ Delivering \subseteq concatenated

(* A verification hands back the diff it was given, and its fixes with it. *)
ReviewedIsKept == [][(stage \in {"verify", "plan", "run", "fix"}) => merged_diff' = merged_diff]_deliveryVars

(* As agentd knows a container by no sandbox's name, no command succeeds, and
   no sandbox is reported as passed. *)
NeverPassed == \A s \in Sandbox : status[s] # "Passed"

----------------------------------------------------------------------------
(* The inductive invariant, by parts. *)

Verifying == stage \in {"plan", "run", "fix"}

(* Agents put one text into a file, and standard mode has one sandbox. *)
WorkOK ==
  /\ \A t \in Task, f \in File : work[t][f] <= 1
  /\ mode = "standard" => \E s \in Sandbox : \A t \in Task : work[t] # Empty => Hint[t] = s

(* Where the layers are: a review looks at what its place still offers, and a
   verification has a diff to hand back. *)
StageOK ==
  /\ stage = "asking" => /\ offered = Contributions(at) /\ DOMAIN offered # {} /\ ~PassedOn(at)
                         /\ at \in todo \/ (at = Cross /\ mode = "full")
  /\ Verifying => /\ at \in todo /\ IsDiff(merged_diff[at])
                  /\ current \in {merged_diff[at], Empty}

(* Who fixes has a round left; a round that starts has nothing to fix. *)
RoundsOK ==
  /\ round <= LastRound /\ (stage = "fix" => round < LastRound)
  /\ failing # {} => stage = "fix"

(* The sandboxes whose contributions are merged. *)
MergedSandboxes ==
  IF stage = "review" \/ (stage = "asking" /\ at # Cross) THEN Sandbox \ todo ELSE Sandbox

(* A review that was given up is over. *)
ReviewsOK == concatenated \subseteq MergedSandboxes \cup (IF stage = "done" THEN {Cross} ELSE {})

(* What a settled sandbox has of its agents' work. *)
SandboxesKeep ==
  \A t \in Task, f \in File :
    Hint[t] \in MergedSandboxes /\ work[t][f] > 0 =>
      \/ merged_diff[Hint[t]] # None /\ merged_diff[Hint[t]][f] > 0
      \/ f \in dropped
      \/ f \in Quoted /\ ~Raw(Hint[t])

(* A text too many has its reason, and a diff comes from somebody. *)
SandboxesExplained ==
  \A s \in Sandbox : merged_diff[s] # None =>
    /\ \A f \in File : merged_diff[s][f] > 1 => f \in twice \/ s \in concatenated
    /\ \E t \in Task : Hint[t] = s /\ work[t] # Empty

DeliveryIInv ==
  /\ DeliveryTypeOK /\ WorkOK /\ StageOK /\ RoundsOK /\ ReviewsOK
  /\ SandboxesKeep /\ SandboxesExplained
  /\ NothingLost /\ OneTextPerFile
=============================================================================
