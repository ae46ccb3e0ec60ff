------------------------------ MODULE Session -------------------------------
(***************************************************************************)
(* The front ends of mowis-host that drive a conductor: the chat at a      *)
(* terminal and the autonomous run of one prompt (main.rs), which run a    *)
(* captain of their own for a plan that is approved, and the full-screen   *)
(* terminal (tui/app.rs), which shows what it is told.  The captains the   *)
(* conductor dispatched are heard of through the event bus.                *)
(*                                                                         *)
(* A captain is the time it works and the verdict it ends with, which      *)
(* Captain shows that it comes to.  What builds left in the directory they *)
(* work in is told apart by how the build that left it ended.              *)
(***************************************************************************)
EXTENDS Conductor

CONSTANTS
  Fronts,       \* "chat", "autonomous", "tui"
  MaxMessages   \* bound: length of the conversation the user adds to

ASSUME SessionAssumption ==
  Fronts \subseteq {"chat", "autonomous", "tui"} /\ MaxMessages \in Nat \ {0}

VARIABLES
  front,
  phase,    \* where the front end is
  plan,     \* the plan it puts to approval and runs
  done,     \* what the autonomous run's subscriber has seen of the build
  work,     \* whose files the directory of the builds holds
  output    \* whose files an autonomous run copied out, and if the copy failed

session == <<front, phase, plan, done, work, output>>
vars    == <<conductor, session>>

Output(from, cut) == [from |-> from, cut |-> cut]

TypeOK ==
  /\ ConductorTypeOK
  /\ front \in Fronts
  /\ phase \in {"prompt", "turn", "approve", "verdict", "wait", "build", "announce", "lost",
               "over"}
  /\ plan \in PlanId \cup {None}
  /\ done \in {"waiting", "completed", "failed", "lost"}
  /\ work \subseteq {"earlier", "completed", "failed"}
  /\ output \in [from : SUBSET {"earlier", "completed", "failed", "unfinished"},
                 cut : BOOLEAN]

(* .mowis-work is there already if an earlier run did not come to copy it. *)
Init ==
  /\ ConductorInit
  /\ front \in Fronts
  /\ phase = "prompt" /\ plan = None
  /\ done = "waiting" /\ output = Output({}, FALSE)
  /\ work \in {{}, {"earlier"}} /\ (work # {} => front = "autonomous")

----------------------------------------------------------------------------
(* Captains and the bus. *)

(* Captains at work that the conductor dispatched. *)
Working(p) == atWork[p] > 0
NobodyWorks == \A p \in PlanId : ~Working(p)

(* A variant: a subscriber that waits for PlanCompleted alone. *)
CaptainEndsUnheard(p) ==
  /\ phase # "over" /\ Working(p)
  /\ atWork' = [atWork EXCEPT ![p] = @ - 1]
  /\ \E v \in {"completed", "failed"} :
       /\ work' = work \cup {v}
       /\ done' = IF done = "waiting" /\ v = "completed" THEN v ELSE done
  /\ UNCHANGED <<conversation, planVars, turnVars, reply, front, phase, plan, output>>

(* A variant: a build taken for complete when its captain ends. *)
CaptainEndsWell(p) ==
  /\ phase # "over" /\ Working(p)
  /\ atWork' = [atWork EXCEPT ![p] = @ - 1]
  /\ \E v \in {"completed", "failed"} : work' = work \cup {v}
  /\ done' = IF done = "waiting" THEN "completed" ELSE done
  /\ UNCHANGED <<conversation, planVars, turnVars, reply, front, phase, plan, output>>

(* A dispatched captain emits its verdict, the first of which the subscriber of
   the autonomous run keeps, of whatever plan it is. *)
CaptainEnds(p) ==
  /\ phase # "over" /\ Working(p)
  /\ atWork' = [atWork EXCEPT ![p] = @ - 1]
  /\ \E v \in {"completed", "failed"} :
       /\ work' = work \cup {v}
       /\ done' = IF done = "waiting" THEN v ELSE done
  /\ UNCHANGED <<conversation, planVars, turnVars, reply, front, phase, plan, output>>

(* The subscriber falls 1024 events behind and gives up. *)
SubscriberLags ==
  /\ phase # "over" /\ ~NobodyWorks
  /\ done = "waiting" /\ done' = "lost"
  /\ UNCHANGED <<conductor, front, phase, plan, work, output>>

ConductorStep ==
  /\ phase = "turn"
  /\ Turn
  /\ UNCHANGED session

----------------------------------------------------------------------------
(* A line from the user, the note that the full-screen terminal sends after a
   build, or the prompt of an autonomous run. *)
Say ==
  /\ phase = "prompt" /\ Len(conversation) < MaxMessages
  /\ Unused # {}
  /\ HandleUserMessage
  /\ phase' = "turn"
  /\ UNCHANGED <<front, plan, done, work, output>>

Answered == phase = "turn" /\ Idle

(* A captain of the front end's own is awaited where it is run. *)
Build(p) == phase' = "build" /\ plan' = p

----------------------------------------------------------------------------
(* run_chat *)

(* A plan or a dispatched build is put to the user, a patch after it has been
   wrapped in a plan; anything else is printed. *)
TakeReply ==
  /\ front = "chat" /\ Answered
  /\ \/ /\ reply.kind \in {"PlanDrafted", "BuildDispatched", "ScopeChanged"}
        /\ phase' = "approve" /\ plan' = reply.plan
        /\ UNCHANGED conductor
     \/ /\ reply.kind = "HotPatched"
        /\ \/ /\ MaterializeTaskAsPlan
              /\ phase' = "approve" /\ plan' = NewPlan
           \/ /\ phase' = "prompt"
              /\ UNCHANGED <<conductor, plan>>
     \/ /\ reply.kind \in {"Chat", "Error"}
        /\ phase' = "prompt"
        /\ UNCHANGED <<conductor, plan>>
  /\ UNCHANGED <<front, done, work, output>>

(* The full-screen terminal prints every reply; a patch goes no further. *)
ShowReply ==
  /\ front = "tui" /\ Answered
  /\ phase' = "prompt"
  /\ UNCHANGED <<conductor, front, plan, done, work, output>>

Approve ==
  /\ phase = "approve"
  /\ \/ Build(plan)
     \/ phase' = "prompt" /\ UNCHANGED plan
  /\ UNCHANGED <<conductor, front, done, work, output>>

(* run_plan_and_report: a build that completed is announced. *)
BuildReported ==
  /\ front = "chat" /\ phase = "build"
  /\ \/ phase' = "announce" /\ work' = work \cup {"completed"}
     \/ phase' = "prompt" /\ work' = work \cup {"failed"}
  /\ UNCHANGED <<conductor, front, plan, done, output>>

Announce ==
  /\ phase = "announce"
  /\ AnnounceCompletion
  /\ phase' = "prompt"
  /\ UNCHANGED <<front, plan, done, work, output>>

(* The chat dies with the conductor it calls.  In the full-screen terminal the
   task of the conductor ends: no line reaches one any more. *)
TurnLost ==
  /\ phase = "turn" /\ turn = "panicked"
  /\ phase' = IF front = "tui" THEN "lost" ELSE "over"
  /\ UNCHANGED <<conductor, front, plan, done, work, output>>

Quit ==
  /\ front # "autonomous" /\ phase \in {"prompt", "lost"}
  /\ phase' = "over"
  /\ UNCHANGED <<conductor, front, plan, done, work, output>>

----------------------------------------------------------------------------
(* run_autonomous *)

TakeAutonomousReply ==
  /\ front = "autonomous" /\ Answered
  /\ \/ reply.kind = "BuildDispatched" /\ phase' = "wait" /\ UNCHANGED plan
     \/ reply.kind = "PlanDrafted" /\ phase' = "verdict" /\ plan' = reply.plan
     \/ reply.kind \in {"Chat", "Error"} /\ phase' = "over" /\ UNCHANGED plan
  /\ UNCHANGED <<conductor, front, done, work, output>>

(* The critic's verdict, whatever it is, or thirty seconds without one. *)
Proceed ==
  /\ phase = "verdict"
  /\ Build(plan)
  /\ UNCHANGED <<conductor, front, done, work, output>>

(* finish_build: copy what is there, with what captains at work have written
   so far, up to the first error, and remove it all the same. *)
Finish(w) ==
  /\ phase' = "over"
  /\ \E cut \in BOOLEAN :
       output' = Output(w \cup IF NobodyWorks THEN {} ELSE {"unfinished"}, cut)
  /\ work' \in {{}, w}

(* done_rx: the first end of a build, or the loss of the signal. *)
AwaitDone ==
  /\ phase = "wait" /\ done # "waiting"
  /\ IF done = "completed" THEN Finish(work) ELSE phase' = "over" /\ UNCHANGED <<work, output>>
  /\ UNCHANGED <<conductor, front, plan, done>>

BuildFinishes ==
  /\ front = "autonomous" /\ phase = "build"
  /\ \/ Finish(work \cup {"completed"})
     \/ phase' = "over" /\ work' = work \cup {"failed"} /\ UNCHANGED output
  /\ UNCHANGED <<conductor, front, plan, done>>

----------------------------------------------------------------------------
FrontEnd ==
  \/ Say \/ TakeReply \/ ShowReply \/ Approve \/ BuildReported \/ Announce \/ TurnLost
  \/ Quit \/ TakeAutonomousReply \/ Proceed \/ AwaitDone \/ BuildFinishes

Next ==
  \/ FrontEnd
  \/ ConductorStep
  \/ \E p \in PlanId : CaptainEnds(p)
  \/ SubscriberLags

Spec == Init /\ [][Next]_vars

(* Requests to models end with an answer or an error, captains come to a
   verdict, and a prompt once given is worked on.  The user of a chat may type
   nothing more, and nothing makes a subscriber lag. *)
FairSpec ==
  /\ Spec
  /\ WF_vars(ConductorStep)
  /\ WF_vars(FrontEnd /\ front = "autonomous")
  /\ \A p \in PlanId : WF_vars(CaptainEnds(p))

----------------------------------------------------------------------------
(* Properties *)

(* Every message is answered: the turn's rounds are bounded, and a dispatched
   build or an error ends it (conversational_turn).  All that can take the
   answer away is the panic of truncate_str, which needs a plan in hand. *)
MessageAnswered == phase = "turn" ~> Idle \/ (turn = "panicked" /\ current_plan # None)

(* An autonomous run ends, whatever the model answers and however many captains
   it started: every reply it waits on comes, or its loss is noticed. *)
AutonomousRunEnds == front = "autonomous" => <>(phase = "over")

(* What an autonomous run copies out, all of it or what the copy came to, is
   the work of a build that completed, and of none that failed or goes on unless
   the turn dispatched several; it may have files of an earlier run in it. *)
OutputIsBuilt ==
  output.from # {} =>
    /\ "completed" \in output.from
    /\ started <= 1 => output.from \subseteq {"earlier", "completed"}

----------------------------------------------------------------------------
(* The inductive invariant. *)

(* A turn is taken while the front end waits for it, and its rounds are few. *)
TurnOK ==
  /\ phase # "turn" => Idle \/ (turn = "panicked" /\ phase \in {"lost", "over"})
  /\ turn \in {"classify", "ask"} => round < MaxRounds
  /\ turn \in {"classify", "panicked"} => current_plan # None

(* One answer of the model dispatches, and it ends the rounds. *)
DispatchOK ==
  /\ started <= MaxBuilds /\ (dispatched <=> started > 0)
  /\ turn \in {"classify", "draft", "ask", "call"} => ~dispatched
  /\ turn = "wrap" /\ dispatched => current_plan # None

(* What is put to approval and built is a plan that was saved. *)
ApprovedOK ==
  /\ Idle /\ reply.kind \in {"PlanDrafted", "ScopeChanged"} => reply.plan \in saved
  /\ phase \in {"approve", "verdict", "build"} => plan \in saved

(* An autonomous run sends one message.  While it has started one captain, the
   first that ends is the last. *)
AutonomousOK ==
  front = "autonomous" =>
    /\ phase \notin {"approve", "announce", "lost"}
    /\ phase = "prompt" => current_plan = None
    /\ turn \notin {"classify", "panicked"}
    /\ phase \in {"prompt", "verdict", "build"} => started = 0
    /\ started = 0 => NobodyWorks /\ done = "waiting"
    /\ started = 1 => \A p \in PlanId : atWork[p] <= 1
    /\ started = 1 => \A p, q \in PlanId : Working(p) /\ Working(q) => p = q
    /\ started = 1 /\ done \in {"completed", "failed"} => NobodyWorks

(* While the run has one build at most, none of its own has failed before. *)
WorkOK ==
  /\ done = "completed" /\ phase # "over" => "completed" \in work
  /\ front = "autonomous" /\ phase # "over" =>
       /\ started = 0 \/ (started = 1 /\ ~NobodyWorks) => work \subseteq {"earlier"}
       /\ started = 1 /\ done = "completed" => "failed" \notin work

OutputOK ==
  /\ phase = "wait" => front = "autonomous"
  /\ output.from # {} => phase = "over"

IInv ==
  /\ TypeOK /\ TurnOK /\ DispatchOK /\ ApprovedOK /\ AutonomousOK /\ WorkOK
  /\ OutputOK /\ ReplyTellsBuild /\ PlansOnDisk /\ OutputIsBuilt
----------------------------------------------------------------------------
(* The steps a turn has ahead at most: two for each round left, and its ends. *)
TurnAhead ==
  CASE turn \in {"idle", "panicked"} -> 0
    [] turn \in {"draft", "wrap"} -> 1
    [] turn = "ask" -> 2 * (MaxRounds - round) + 2
    [] turn = "call" -> 2 * (MaxRounds - round) + 3
    [] turn = "classify" -> 2 * MaxRounds + 3

(* Every step of the conductor brings its reply or its panic nearer, and nobody
   but the user makes it work: it has come to one in 2 * MaxRounds + 3 steps. *)
NearerTheReply ==
  [][IF ConductorStep THEN TurnAhead' < TurnAhead ELSE TurnAhead' = TurnAhead \/ Say]_vars
=============================================================================
