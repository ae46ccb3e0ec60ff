---------------------------- MODULE SessionProofs ----------------------------
(***************************************************************************)
(* Theorems about the conductor and the front ends that drive it, for any  *)
(* plans, rounds of a turn, calls in an answer and length of conversation. *)
(***************************************************************************)
EXTENDS Session, TLAPS

USE ConductorAssumption, SessionAssumption

----------------------------------------------------------------------------
(* A plan id that is not in use, while there is one. *)
LEMMA NewPlans ==
  ASSUME Unused # {}
  PROVE  NewPlan \in PlanId /\ NewPlan \notin saved /\ NewPlan # None
BY DEF NewPlan, Unused

LEMMA InitIInv == Init => IInv
<1> SUFFICES ASSUME Init PROVE IInv
  OBVIOUS
<1> USE DEF Init, ConductorInit, Reply, Output
<1>1. atWork \in [PlanId -> Nat] /\ NobodyWorks  BY DEF NobodyWorks, Working
<1>2. /\ reply.kind = "none" /\ reply.plan = None
      /\ reply \in [kind : {"none", "Chat", "BuildDispatched", "PlanDrafted", "HotPatched",
                            "ScopeChanged", "Error"},
                    plan : PlanId \cup {None}]
  OBVIOUS
<1>3. TypeOK
  <2>1. conversation \in Seq({"user", "model"})   OBVIOUS
  <2>2. round \in 0..MaxRounds /\ builds \in 0..MaxBuilds /\ started \in Nat  OBVIOUS
  <2>3. ConductorTypeOK  BY <1>1, <1>2, <2>1, <2>2 DEF ConductorTypeOK
  <2>4. /\ output.from = {}
        /\ output \in [from : SUBSET {"earlier", "completed", "failed", "unfinished"}, cut : BOOLEAN]
    OBVIOUS
  <2> QED  BY <2>3, <2>4 DEF TypeOK
<1>4. TurnOK  BY DEF TurnOK, Idle
<1>5. DispatchOK  BY DEF DispatchOK
<1>6. ApprovedOK  BY <1>2 DEF ApprovedOK
<1>7. AutonomousOK  BY <1>1 DEF AutonomousOK
<1>8. WorkOK /\ OutputOK /\ OutputIsBuilt
  <2>1. output.from = {}  OBVIOUS
  <2> QED  BY <2>1 DEF WorkOK, OutputOK, OutputIsBuilt
<1>9. ReplyTellsBuild  BY <1>2 DEF ReplyTellsBuild
<1>10. PlansOnDisk  BY <1>1 DEF PlansOnDisk, NobodyWorks, Working
<1> QED  BY <1>3, <1>4, <1>5, <1>6, <1>7, <1>8, <1>9, <1>10 DEF IInv

----------------------------------------------------------------------------
(* Steps of the front ends that leave the conductor as it is. *)

(* What of the invariant speaks of the conductor alone, or of it and phase. *)
LEMMA ConductorStays ==
  ASSUME IInv, UNCHANGED conductor, Idle \/ (turn = "panicked" /\ phase' \in {"lost", "over"})
  PROVE  /\ ConductorTypeOK' /\ DispatchOK' /\ TurnOK' /\ ReplyTellsBuild' /\ PlansOnDisk'
         /\ (Idle' <=> Idle) /\ (NobodyWorks' <=> NobodyWorks)
<1>1. UNCHANGED <<conversation, current_plan, saved, turn, decision, round, text, builds,
                  dispatched, started, reply, atWork>>
  BY DEF conductor, planVars, turnVars
<1>2. ConductorTypeOK'  BY <1>1 DEF IInv, TypeOK, ConductorTypeOK
<1>3. DispatchOK'  BY <1>1 DEF IInv, DispatchOK
<1>4. TurnOK'  BY <1>1 DEF IInv, TurnOK, Idle
<1>5. ReplyTellsBuild'  BY <1>1 DEF IInv, ReplyTellsBuild, Idle
<1>6. PlansOnDisk'  BY <1>1 DEF IInv, PlansOnDisk
<1> QED  BY <1>1, <1>2, <1>3, <1>4, <1>5, <1>6 DEF Idle, NobodyWorks, Working

(* The front end goes on to another phase; a plan it takes up was saved. *)
LEMMA PhaseMoves ==
  ASSUME IInv, Idle \/ (turn = "panicked" /\ phase' \in {"lost", "over"}),
         UNCHANGED <<conductor, front, done, work, output>>,
         phase' \in {"prompt", "approve", "verdict", "wait", "build", "lost", "over"},
         phase # "over", output.from = {},
         phase' \in {"approve", "verdict", "build"} => plan' \in saved,
         phase' \notin {"approve", "verdict", "build"} => plan' = plan,
         phase' = "wait" => front = "autonomous",
         front = "autonomous" =>
           /\ phase' \notin {"prompt", "approve", "lost"}
           /\ phase' \in {"verdict", "build"} => started = 0
  PROVE  IInv'
<1>1. UNCHANGED <<current_plan, saved, started, reply, atWork, turn, decision, front, done,
                  work, output>>
  BY DEF conductor, planVars, turnVars
<1>2. /\ ConductorTypeOK' /\ DispatchOK' /\ TurnOK' /\ ReplyTellsBuild' /\ PlansOnDisk'
      /\ (NobodyWorks' <=> NobodyWorks)
  BY ConductorStays
<1>3. TypeOK'
  <2>1. plan' \in PlanId \cup {None}  BY DEF IInv, TypeOK, ConductorTypeOK
  <2> QED  BY <1>1, <1>2, <2>1 DEF IInv, TypeOK
<1>4. ApprovedOK'  BY <1>1 DEF IInv, ApprovedOK, Idle
<1>5. AutonomousOK'  BY <1>1, <1>2 DEF IInv, AutonomousOK, Working
<1>6. WorkOK'  BY <1>1, <1>2 DEF IInv, WorkOK
<1>7. OutputOK' /\ OutputIsBuilt'  BY <1>1 DEF IInv, OutputOK, OutputIsBuilt
<1> QED  BY <1>2, <1>3, <1>4, <1>5, <1>6, <1>7 DEF IInv

(* While the front end waits for no turn, or has its answer, the turn is over. *)
LEMMA AtRest ==
  ASSUME IInv, phase \notin {"turn", "lost", "over"} \/ Answered
  PROVE  Idle
BY DEF IInv, TurnOK, Answered

LEMMA ShowReplyIInv == IInv /\ ShowReply => IInv'
<1> SUFFICES ASSUME IInv, ShowReply PROVE IInv'
  OBVIOUS
<1>1. /\ front = "tui" /\ Answered /\ phase' = "prompt" /\ phase = "turn"
      /\ UNCHANGED <<conductor, front, plan, done, work, output>>
  BY DEF ShowReply, Answered
<1>2. output.from = {}  BY <1>1 DEF IInv, OutputOK
<1> QED  BY <1>1, <1>2, AtRest, PhaseMoves

LEMMA ApproveIInv == IInv /\ Approve => IInv'
<1> SUFFICES ASSUME IInv, Approve PROVE IInv'
  OBVIOUS
<1>1. /\ phase = "approve" /\ front # "autonomous" /\ plan \in saved /\ output.from = {}
      /\ plan' = plan /\ phase' \in {"build", "prompt"}
      /\ UNCHANGED <<conductor, front, done, work, output>>
  BY DEF Approve, Build, IInv, ApprovedOK, AutonomousOK, OutputOK
<1> QED  BY <1>1, AtRest, PhaseMoves

LEMMA QuitIInv == IInv /\ Quit => IInv'
<1> SUFFICES ASSUME IInv, Quit PROVE IInv'
  OBVIOUS
<1>1. /\ phase \in {"prompt", "lost"} /\ front # "autonomous" /\ phase' = "over"
      /\ UNCHANGED <<conductor, front, plan, done, work, output>>
  BY DEF Quit
<1>2. output.from = {} /\ (Idle \/ turn = "panicked")  BY <1>1 DEF IInv, OutputOK, TurnOK
<1> QED  BY <1>1, <1>2, PhaseMoves

LEMMA TurnLostIInv == IInv /\ TurnLost => IInv'
<1> SUFFICES ASSUME IInv, TurnLost PROVE IInv'
  OBVIOUS
<1>1. /\ phase = "turn" /\ turn = "panicked" /\ phase' \in {"lost", "over"}
      /\ UNCHANGED <<conductor, front, plan, done, work, output>>
  BY DEF TurnLost
<1>2. output.from = {} /\ front # "autonomous"
  BY <1>1 DEF IInv, OutputOK, AutonomousOK
<1> QED  BY <1>1, <1>2, PhaseMoves

LEMMA TakeAutonomousReplyIInv == IInv /\ TakeAutonomousReply => IInv'
<1> SUFFICES ASSUME IInv, TakeAutonomousReply PROVE IInv'
  OBVIOUS
<1>1. /\ front = "autonomous" /\ Answered /\ phase = "turn" /\ Idle
      /\ UNCHANGED <<conductor, front, done, work, output>>
  BY DEF TakeAutonomousReply, Answered
<1>2. output.from = {}  BY <1>1 DEF IInv, OutputOK
<1>3. CASE phase' = "wait" /\ UNCHANGED plan  BY <1>1, <1>2, <1>3, PhaseMoves
<1>4. CASE reply.kind = "PlanDrafted" /\ phase' = "verdict" /\ plan' = reply.plan
  <2>1. started = 0 /\ plan' \in saved
    BY <1>1, <1>4 DEF IInv, ReplyTellsBuild, ApprovedOK
  <2> QED  BY <1>1, <1>2, <1>4, <2>1, PhaseMoves
<1>5. CASE phase' = "over" /\ UNCHANGED plan  BY <1>1, <1>2, <1>5, PhaseMoves
<1> QED  BY <1>3, <1>4, <1>5 DEF TakeAutonomousReply

LEMMA ProceedIInv == IInv /\ Proceed => IInv'
<1> SUFFICES ASSUME IInv, Proceed PROVE IInv'
  OBVIOUS
<1>1. /\ phase = "verdict" /\ phase' = "build" /\ plan' = plan
      /\ UNCHANGED <<conductor, front, done, work, output>>
  BY DEF Proceed, Build
<1>2. /\ plan \in saved /\ output.from = {}
      /\ front = "autonomous" => started = 0
  BY <1>1 DEF IInv, ApprovedOK, OutputOK, AutonomousOK
<1> QED  BY <1>1, <1>2, AtRest, PhaseMoves

----------------------------------------------------------------------------
(* A build ends, and the autonomous run copies its work. *)

(* The end of an autonomous run: what it copies is of a build that completed,
   and of nothing else unless several captains were started. *)
LEMMA RunEnds ==
  ASSUME IInv, Idle, UNCHANGED <<conductor, front, plan, done>>, phase' = "over",
         work' \subseteq {"earlier", "completed", "failed"},
         \/ output' = output /\ output.from = {}
         \/ \E from \in SUBSET {"earlier", "completed", "failed", "unfinished"}, cut \in BOOLEAN :
              /\ output' = Output(from, cut) /\ "completed" \in from
              /\ started <= 1 => from \subseteq {"earlier", "completed"}
  PROVE  IInv'
<1>1. UNCHANGED <<current_plan, saved, started, reply, atWork, turn, decision, front, plan, done>>
  BY DEF conductor, planVars, turnVars
<1>2. /\ ConductorTypeOK' /\ DispatchOK' /\ TurnOK' /\ ReplyTellsBuild' /\ PlansOnDisk'
      /\ (NobodyWorks' <=> NobodyWorks)
  BY ConductorStays
<1>3. /\ output' \in [from : SUBSET {"earlier", "completed", "failed", "unfinished"}, cut : BOOLEAN]
      /\ OutputIsBuilt'
  <2>1. CASE output' = output /\ output.from = {}  BY <2>1 DEF IInv, TypeOK, OutputIsBuilt
  <2>2. CASE output' # output
    <3>1. PICK from \in SUBSET {"earlier", "completed", "failed", "unfinished"}, cut \in BOOLEAN :
            /\ output' = Output(from, cut) /\ "completed" \in from
            /\ started <= 1 => from \subseteq {"earlier", "completed"}
      BY <2>2
    <3>2. /\ output'.from = from
          /\ output' \in [from : SUBSET {"earlier", "completed", "failed", "unfinished"},
                          cut : BOOLEAN]
      BY <3>1 DEF Output
    <3> QED  BY <1>1, <3>1, <3>2 DEF OutputIsBuilt
  <2>3. CASE output' = output /\ output.from # {}
    BY <1>1, <2>3 DEF IInv, TypeOK, OutputIsBuilt
  <2> QED  BY <2>1, <2>2, <2>3
<1>4. TypeOK'  BY <1>1, <1>2, <1>3 DEF IInv, TypeOK
<1>5. ApprovedOK'  BY <1>1 DEF IInv, ApprovedOK, Idle
<1>6. AutonomousOK'  BY <1>1, <1>2 DEF IInv, AutonomousOK, Working
<1>7. WorkOK' /\ OutputOK'  BY DEF WorkOK, OutputOK
<1> QED  BY <1>2, <1>3, <1>4, <1>5, <1>6, <1>7 DEF IInv

LEMMA AwaitDoneIInv == IInv /\ AwaitDone => IInv'
<1> SUFFICES ASSUME IInv, AwaitDone PROVE IInv'
  OBVIOUS
<1>1. /\ phase = "wait" /\ phase' = "over"
      /\ UNCHANGED <<conductor, front, plan, done>>
  BY DEF AwaitDone, Finish
<1>2. /\ front = "autonomous" /\ output.from = {} /\ Idle
      /\ work \subseteq {"earlier", "completed", "failed"}
  BY <1>1, AtRest DEF IInv, OutputOK, TypeOK
<1>3. CASE done = "completed"
  <2> DEFINE from == work \cup IF NobodyWorks THEN {} ELSE {"unfinished"}
  <2>1. work' \in {{}, work} /\ \E cut \in BOOLEAN : output' = Output(from, cut)
    BY <1>3 DEF AwaitDone, Finish
  <2>2. "completed" \in from  BY <1>1, <1>3 DEF IInv, WorkOK
  <2>3. started <= 1 => from \subseteq {"earlier", "completed"}
    <3>1. SUFFICES ASSUME started <= 1 PROVE from \subseteq {"earlier", "completed"}
      OBVIOUS
    <3>2. started \in Nat  BY DEF IInv, TypeOK, ConductorTypeOK
    <3>3. started = 1  BY <1>2, <1>3, <3>1, <3>2 DEF IInv, AutonomousOK
    <3>4. NobodyWorks /\ "failed" \notin work
      BY <1>1, <1>2, <1>3, <3>3 DEF IInv, AutonomousOK, WorkOK
    <3> QED  BY <1>2, <3>4
  <2>4. from \in SUBSET {"earlier", "completed", "failed", "unfinished"}  BY <1>2
  <2>5. work' \subseteq {"earlier", "completed", "failed"}  BY <1>2, <2>1
  <2> HIDE DEF from
  <2> QED  BY <1>1, <1>2, <2>1, <2>2, <2>3, <2>4, <2>5, RunEnds
<1>4. CASE done # "completed"
  <2>1. UNCHANGED <<work, output>>  BY <1>4 DEF AwaitDone
  <2> QED  BY <1>1, <1>2, <2>1, RunEnds
<1> QED  BY <1>3, <1>4

LEMMA BuildFinishesIInv == IInv /\ BuildFinishes => IInv'
<1> SUFFICES ASSUME IInv, BuildFinishes PROVE IInv'
  OBVIOUS
<1>1. /\ front = "autonomous" /\ phase = "build" /\ phase' = "over"
      /\ UNCHANGED <<conductor, front, plan, done>>
  BY DEF BuildFinishes, Finish
<1>2. /\ output.from = {} /\ Idle /\ NobodyWorks
      /\ work \subseteq {"earlier"}
  BY <1>1, AtRest DEF IInv, OutputOK, AutonomousOK, WorkOK
<1>3. CASE Finish(work \cup {"completed"})
  <2> DEFINE from == work \cup {"completed"}
  <2>1. work' \in {{}, from} /\ \E cut \in BOOLEAN : output' = Output(from, cut)
    <3>1. from \cup (IF NobodyWorks THEN {} ELSE {"unfinished"}) = from  BY <1>2
    <3> QED  BY <1>3, <3>1 DEF Finish
  <2>2. /\ "completed" \in from /\ from \subseteq {"earlier", "completed"}
        /\ from \in SUBSET {"earlier", "completed", "failed", "unfinished"}
    BY <1>2
  <2>3. work' \subseteq {"earlier", "completed", "failed"}  BY <2>1, <2>2
  <2> HIDE DEF from
  <2> QED  BY <1>1, <1>2, <2>1, <2>2, <2>3, RunEnds
<1>4. CASE work' = work \cup {"failed"} /\ UNCHANGED output
  <2>1. work' \subseteq {"earlier", "completed", "failed"}  BY <1>2, <1>4
  <2> QED  BY <1>1, <1>2, <1>4, <2>1, RunEnds
<1> QED  BY <1>3, <1>4 DEF BuildFinishes

(* A chat reports the end of its own captain. *)
LEMMA BuildReportedIInv == IInv /\ BuildReported => IInv'
<1> SUFFICES ASSUME IInv, BuildReported PROVE IInv'
  OBVIOUS
<1>1. /\ front = "chat" /\ phase = "build" /\ phase' \in {"announce", "prompt"}
      /\ \E v \in {"completed", "failed"} : work' = work \cup {v}
      /\ UNCHANGED <<conductor, front, plan, done, output>>
  BY DEF BuildReported
<1>2. UNCHANGED <<saved, started, reply, atWork, turn>>
  BY <1>1 DEF conductor, planVars, turnVars
<1>3. Idle  BY <1>1, AtRest
<1>4. /\ ConductorTypeOK' /\ DispatchOK' /\ TurnOK' /\ ReplyTellsBuild' /\ PlansOnDisk'
  BY <1>1, <1>3, ConductorStays
<1>5. output.from = {}  BY <1>1 DEF IInv, OutputOK
<1>6. work \subseteq work' /\ work' \subseteq {"earlier", "completed", "failed"}
  BY <1>1 DEF IInv, TypeOK
<1>7. TypeOK'  BY <1>1, <1>4, <1>6 DEF IInv, TypeOK
<1>8. ApprovedOK'  BY <1>1, <1>2 DEF IInv, ApprovedOK, Idle
<1>9. AutonomousOK'  BY <1>1 DEF AutonomousOK
<1>10. WorkOK'  BY <1>1, <1>6 DEF IInv, WorkOK
<1>11. OutputOK' /\ OutputIsBuilt'  BY <1>1, <1>5 DEF OutputOK, OutputIsBuilt
<1> QED  BY <1>4, <1>7, <1>8, <1>9, <1>10, <1>11 DEF IInv

----------------------------------------------------------------------------
(* What the front ends ask of the conductor between turns. *)

(* A reply of the chat: a plan is put to the user, and a patch becomes one. *)
LEMMA TakeReplyIInv == IInv /\ TakeReply => IInv'
<1> SUFFICES ASSUME IInv, TakeReply PROVE IInv'
  OBVIOUS
<1>1. /\ front = "chat" /\ Answered /\ phase = "turn" /\ Idle
      /\ UNCHANGED <<front, done, work, output>>
  BY DEF TakeReply, Answered
<1>2. output.from = {}  BY <1>1 DEF IInv, OutputOK
<1>3. CASE /\ reply.kind \in {"PlanDrafted", "BuildDispatched", "ScopeChanged"}
           /\ phase' = "approve" /\ plan' = reply.plan
           /\ UNCHANGED conductor
  <2>1. reply.plan \in saved  BY <1>1, <1>3 DEF IInv, ApprovedOK, ReplyTellsBuild
  <2> QED  BY <1>1, <1>2, <1>3, <2>1, PhaseMoves
<1>4. CASE phase' = "prompt" /\ UNCHANGED <<conductor, plan>>
  BY <1>1, <1>2, <1>4, PhaseMoves
<1>5. CASE MaterializeTaskAsPlan /\ phase' = "approve" /\ plan' = NewPlan
  <2>1. /\ saved' = saved \cup {NewPlan} /\ current_plan' = NewPlan
        /\ UNCHANGED <<conversation, turn, decision, round, text, builds, dispatched, started,
                       reply, atWork>>
    BY <1>5 DEF MaterializeTaskAsPlan, AdoptDraft, turnVars
  <2>2. NewPlan \in PlanId  BY <1>5, NewPlans DEF MaterializeTaskAsPlan
  <2>3. TypeOK'
    <3>1. ConductorTypeOK'  BY <2>1, <2>2 DEF IInv, TypeOK, ConductorTypeOK
    <3> QED  BY <1>1, <1>5, <2>2, <3>1 DEF IInv, TypeOK
  <2>4. TurnOK' /\ DispatchOK'
    BY <1>1, <2>1 DEF IInv, TurnOK, DispatchOK, Idle
  <2>5. ApprovedOK'  BY <1>5, <2>1 DEF IInv, ApprovedOK, Idle
  <2>6. AutonomousOK'  BY <1>1 DEF AutonomousOK
  <2>7. WorkOK' /\ OutputOK' /\ OutputIsBuilt'
    BY <1>1, <1>2, <1>5, <2>1 DEF IInv, WorkOK, OutputOK, OutputIsBuilt
  <2>8. ReplyTellsBuild' /\ PlansOnDisk'
    BY <1>1, <2>1 DEF IInv, ReplyTellsBuild, PlansOnDisk, Idle
  <2> QED  BY <2>3, <2>4, <2>5, <2>6, <2>7, <2>8 DEF IInv
<1> QED  BY <1>3, <1>4, <1>5 DEF TakeReply

LEMMA AnnounceIInv == IInv /\ Announce => IInv'
<1> SUFFICES ASSUME IInv, Announce PROVE IInv'
  OBVIOUS
<1>1. /\ phase = "announce" /\ phase' = "prompt"
      /\ UNCHANGED <<front, plan, done, work, output, current_plan, saved, turn, decision,
                     round, text, builds, dispatched, started, reply, atWork>>
  BY DEF Announce, AnnounceCompletion, planVars, turnVars
<1>2. Idle /\ front # "autonomous" /\ output.from = {}
  BY <1>1, AtRest DEF IInv, AutonomousOK, OutputOK
<1>3. TypeOK'
  <2>1. conversation' \in Seq({"user", "model"})
    <3> DEFINE W == {"user", "model"}
    <3>1. conversation \in Seq(W) /\ "user" \in W /\ "model" \in W
      BY DEF IInv, TypeOK, ConductorTypeOK
    <3>2. conversation' \in {Append(conversation, "user"), conversation \o <<"user", "model">>}
      BY DEF Announce, AnnounceCompletion
    <3> HIDE DEF W
    <3>3. <<"user", "model">> \in Seq(W)  BY <3>1
    <3>4. conversation' \in Seq(W)  BY <3>1, <3>2, <3>3
    <3> QED  BY <3>4 DEF W
  <2>2. ConductorTypeOK'  BY <1>1, <2>1 DEF IInv, TypeOK, ConductorTypeOK
  <2> QED  BY <1>1, <2>2 DEF IInv, TypeOK
<1>4. TurnOK' /\ DispatchOK' /\ ApprovedOK'
  BY <1>1, <1>2 DEF IInv, TurnOK, DispatchOK, ApprovedOK, Idle
<1>5. AutonomousOK'  BY <1>1, <1>2 DEF AutonomousOK
<1>6. WorkOK' /\ OutputOK' /\ OutputIsBuilt'
  BY <1>1, <1>2 DEF IInv, WorkOK, OutputOK, OutputIsBuilt
<1>7. ReplyTellsBuild' /\ PlansOnDisk'
  BY <1>1 DEF IInv, ReplyTellsBuild, PlansOnDisk, Idle
<1> QED  BY <1>3, <1>4, <1>5, <1>6, <1>7 DEF IInv

(* A message: nothing is dispatched in its turn yet. *)
LEMMA SayIInv == IInv /\ Say => IInv'
<1> SUFFICES ASSUME IInv, Say PROVE IInv'
  OBVIOUS
<1>1. /\ phase = "prompt" /\ phase' = "turn"
      /\ turn' = (IF current_plan = None THEN "ask" ELSE "classify")
      /\ decision' = "normal" /\ round' = 0 /\ text' = "none" /\ builds' = 0
      /\ dispatched' = FALSE /\ started' = 0
      /\ reply' = Reply("none", None) /\ conversation' = Append(conversation, "user")
      /\ UNCHANGED <<front, plan, done, work, output, current_plan, saved, atWork>>
  BY DEF Say, HandleUserMessage, Push, planVars
<1>2. TypeOK'
  <2>1. conversation' \in Seq({"user", "model"})
    <3> DEFINE W == {"user", "model"}
    <3>1. conversation \in Seq(W) /\ "user" \in W  BY DEF IInv, TypeOK, ConductorTypeOK
    <3> HIDE DEF W
    <3>2. conversation' \in Seq(W)  BY <1>1, <3>1
    <3> QED  BY <3>2 DEF W
  <2>2. reply' \in [kind : {"none", "Chat", "BuildDispatched", "PlanDrafted", "HotPatched",
                            "ScopeChanged", "Error"},
                    plan : PlanId \cup {None}]
    BY <1>1 DEF Reply
  <2>3. round' \in 0..MaxRounds /\ builds' \in 0..MaxBuilds /\ started' \in Nat  BY <1>1
  <2>4. ConductorTypeOK'  BY <1>1, <2>1, <2>2, <2>3 DEF IInv, TypeOK, ConductorTypeOK
  <2> QED  BY <1>1, <2>4 DEF IInv, TypeOK
<1>3. TurnOK'  BY <1>1 DEF TurnOK
<1>4. DispatchOK'  BY <1>1 DEF DispatchOK
<1>5. ApprovedOK' /\ ReplyTellsBuild'
  <2>1. ~Idle'  BY <1>1 DEF Idle
  <2> QED  BY <1>1, <2>1 DEF ApprovedOK, ReplyTellsBuild
<1>6. AutonomousOK'
  BY <1>1 DEF IInv, AutonomousOK, NobodyWorks, Working
<1>7. WorkOK'
  <2>1. front = "autonomous" => started = 0  BY <1>1 DEF IInv, AutonomousOK
  <2> QED  BY <1>1, <2>1 DEF IInv, WorkOK
<1>8. OutputOK' /\ OutputIsBuilt'
  <2>1. output.from = {}  BY <1>1 DEF IInv, OutputOK
  <2> QED  BY <1>1, <2>1 DEF OutputOK, OutputIsBuilt
<1>9. PlansOnDisk'  BY <1>1 DEF IInv, PlansOnDisk
<1> QED  BY <1>2, <1>3, <1>4, <1>5, <1>6, <1>7, <1>8, <1>9 DEF IInv

----------------------------------------------------------------------------
(* Captains end, and the subscriber hears of it or lags. *)

LEMMA SubscriberLagsIInv == IInv /\ SubscriberLags => IInv'
<1> SUFFICES ASSUME IInv, SubscriberLags PROVE IInv'
  OBVIOUS
<1>1. /\ phase # "over" /\ ~NobodyWorks /\ done = "waiting" /\ done' = "lost"
      /\ UNCHANGED <<conversation, current_plan, saved, turn, decision, round, text, builds,
                     dispatched, started, reply, atWork, front, phase, plan, work, output>>
  BY DEF SubscriberLags, conductor, planVars, turnVars
<1>2. TypeOK'  BY <1>1 DEF IInv, TypeOK, ConductorTypeOK
<1>3. TurnOK' /\ DispatchOK' /\ ApprovedOK'
  BY <1>1 DEF IInv, TurnOK, DispatchOK, ApprovedOK, Idle
<1>4. AutonomousOK'  BY <1>1 DEF IInv, AutonomousOK, NobodyWorks, Working
<1>5. WorkOK' /\ OutputOK' /\ OutputIsBuilt'
  BY <1>1 DEF IInv, WorkOK, OutputOK, OutputIsBuilt, NobodyWorks, Working
<1>6. ReplyTellsBuild' /\ PlansOnDisk'
  BY <1>1 DEF IInv, ReplyTellsBuild, PlansOnDisk, Idle
<1> QED  BY <1>2, <1>3, <1>4, <1>5, <1>6 DEF IInv

LEMMA CaptainEndsIInv ==
  ASSUME IInv, NEW p \in PlanId, CaptainEnds(p)
  PROVE  IInv'
<1>1. /\ phase # "over" /\ Working(p) /\ atWork' = [atWork EXCEPT ![p] = @ - 1]
      /\ UNCHANGED <<conversation, current_plan, saved, turn, decision, round, text, builds,
                     dispatched, started, reply, front, phase, plan, output>>
  BY DEF CaptainEnds, planVars, turnVars
<1>2. PICK v \in {"completed", "failed"} :
        /\ work' = work \cup {v}
        /\ done' = IF done = "waiting" THEN v ELSE done
  BY DEF CaptainEnds
<1>3. atWork \in [PlanId -> Nat]  BY DEF IInv, TypeOK, ConductorTypeOK
<1>4. PICK n \in Nat : n = atWork[p] /\ n > 0  BY <1>1, <1>3 DEF Working
<1>5. /\ atWork' \in [PlanId -> Nat] /\ atWork'[p] = n - 1
      /\ \A q \in PlanId : q # p => atWork'[q] = atWork[q]
  <2>1. n - 1 \in Nat  BY <1>4
  <2>2. atWork' = [atWork EXCEPT ![p] = n - 1]  BY <1>1, <1>4
  <2> QED  BY <1>3, <2>1, <2>2
<1>6. \A q \in PlanId : Working(q)' => Working(q)
  BY <1>1, <1>5 DEF Working
<1>7. TypeOK'
  BY <1>1, <1>2, <1>5 DEF IInv, TypeOK, ConductorTypeOK
<1>8. TurnOK' /\ DispatchOK' /\ ApprovedOK'
  BY <1>1 DEF IInv, TurnOK, DispatchOK, ApprovedOK, Idle
<1>9. AutonomousOK'
  <2>1. SUFFICES ASSUME front = "autonomous" PROVE AutonomousOK'
    BY <1>1 DEF AutonomousOK
  <2>2. started # 0  BY <1>1, <2>1 DEF IInv, AutonomousOK, NobodyWorks
  <2>3. ASSUME started = 1 PROVE NobodyWorks'
    <3>1. \A q \in PlanId : Working(q) => q = p
      BY <1>1, <2>1, <2>3 DEF IInv, AutonomousOK
    <3>2. n = 1  BY <1>4, <2>1, <2>3 DEF IInv, AutonomousOK
    <3>3. ~Working(p)'  BY <1>5, <3>2 DEF Working
    <3> QED  BY <1>6, <3>1, <3>3 DEF NobodyWorks
  <2>4. started = 1 => /\ \A q \in PlanId : atWork'[q] <= 1
                       /\ \A q, r \in PlanId : Working(q)' /\ Working(r)' => q = r
    <3>1. SUFFICES ASSUME started = 1, NEW q \in PlanId PROVE atWork'[q] <= 1 /\ ~Working(q)'
      OBVIOUS
    <3>2. ~Working(q)'  BY <2>3, <3>1 DEF NobodyWorks
    <3>3. atWork'[q] \in Nat  BY <1>5
    <3> QED  BY <3>2, <3>3 DEF Working
  <2> QED  BY <1>1, <2>1, <2>2, <2>3, <2>4 DEF IInv, AutonomousOK, Working
<1>10. WorkOK'
  <2>1. done' = "completed" => "completed" \in work'
    BY <1>1, <1>2 DEF IInv, WorkOK
  <2>2. SUFFICES ASSUME front = "autonomous"
                 PROVE  /\ started = 0 \/ (started = 1 /\ ~NobodyWorks') => work' \subseteq {"earlier"}
                        /\ started = 1 /\ done' = "completed" => "failed" \notin work'
    BY <1>1, <2>1 DEF WorkOK
  <2>3. started # 0 /\ ~NobodyWorks  BY <1>1, <2>2 DEF IInv, AutonomousOK, NobodyWorks
  <2>4. SUFFICES ASSUME started = 1
                 PROVE  NobodyWorks' /\ (done' = "completed" => "failed" \notin work')
    BY <2>3
  <2>5. NobodyWorks'
    <3>1. \A q \in PlanId : Working(q) => q = p
      BY <1>1, <2>2, <2>4 DEF IInv, AutonomousOK
    <3>2. n = 1  BY <1>4, <2>2, <2>4 DEF IInv, AutonomousOK
    <3>3. ~Working(p)'  BY <1>5, <3>2 DEF Working
    <3> QED  BY <1>6, <3>1, <3>3 DEF NobodyWorks
  <2>6. done \notin {"completed", "failed"} /\ work \subseteq {"earlier"}
    BY <1>1, <2>2, <2>3, <2>4 DEF IInv, AutonomousOK, WorkOK
  <2>7. done' = "completed" => v = "completed"  BY <1>2, <2>6
  <2> QED  BY <1>2, <2>5, <2>6, <2>7
<1>11. OutputOK' /\ OutputIsBuilt'  BY <1>1 DEF IInv, OutputOK, OutputIsBuilt
<1>12. ReplyTellsBuild'  BY <1>1 DEF IInv, ReplyTellsBuild, Idle
<1>13. PlansOnDisk'  BY <1>1, <1>6 DEF IInv, PlansOnDisk, Working
<1> QED  BY <1>7, <1>8, <1>9, <1>10, <1>11, <1>12, <1>13 DEF IInv

----------------------------------------------------------------------------
(* The turns of the conductor. *)

(* What a step of a turn has to keep, once nobody else moves. *)
LEMMA TurnStep ==
  ASSUME IInv, ConductorStep, ConductorTypeOK', DispatchOK', ReplyTellsBuild', PlansOnDisk',
         turn' \in {"classify", "ask"} => round' < MaxRounds,
         turn' # "classify",
         turn' = "panicked" => turn = "classify" /\ UNCHANGED current_plan,
         turn' = "idle" /\ reply'.kind \in {"PlanDrafted", "ScopeChanged"} =>
           reply'.plan \in saved',
         saved \subseteq saved', saved' # saved => current_plan' \in PlanId,
         \/ UNCHANGED <<started, atWork>>
         \/ front = "autonomous" =>
              /\ started = 0 /\ started' > 0
              /\ \E p \in PlanId : atWork' = [atWork EXCEPT ![p] = started']
  PROVE  IInv'
<1>1. phase = "turn" /\ UNCHANGED <<front, phase, plan, done, work, output>>
  BY DEF ConductorStep, session
<1>2. output.from = {}  BY <1>1 DEF IInv, OutputOK
<1>3. TypeOK'  BY <1>1 DEF IInv, TypeOK
<1>4. TurnOK'
  <2>1. turn' = "panicked" => current_plan' # None  BY DEF IInv, TurnOK
  <2> QED  BY <1>1, <2>1 DEF TurnOK
<1>5. ApprovedOK'  BY <1>1 DEF IInv, ApprovedOK, Idle
<1>6. AutonomousOK'
  <2>1. CASE UNCHANGED <<started, atWork>>
    BY <1>1, <2>1 DEF IInv, AutonomousOK, NobodyWorks, Working
  <2>2. CASE front = "autonomous" =>
               /\ started = 0 /\ started' > 0
               /\ \E p \in PlanId : atWork' = [atWork EXCEPT ![p] = started']
    <3>1. SUFFICES ASSUME front = "autonomous" PROVE AutonomousOK'
      BY <1>1 DEF AutonomousOK
    <3>2. PICK p \in PlanId : atWork' = [atWork EXCEPT ![p] = started']  BY <2>2, <3>1
    <3>3. NobodyWorks /\ done = "waiting"  BY <2>2, <3>1 DEF IInv, AutonomousOK
    <3>4. /\ atWork'[p] = started' /\ \A q \in PlanId : q # p => atWork'[q] = atWork[q]
          /\ \A q \in PlanId : atWork[q] = 0
      <4>1. atWork \in [PlanId -> Nat]  BY DEF IInv, TypeOK, ConductorTypeOK
      <4>2. \A q \in PlanId : atWork[q] = 0  BY <3>3, <4>1 DEF NobodyWorks, Working
      <4> QED  BY <3>2, <4>1, <4>2
    <3>5. started' = 1 => /\ \A q \in PlanId : atWork'[q] <= 1
                          /\ \A q, r \in PlanId : Working(q)' /\ Working(r)' => q = r
      BY <3>4 DEF Working
    <3>6. started' # 0 /\ done' = "waiting"
      <4>1. started' \in Nat  BY DEF ConductorTypeOK
      <4> QED  BY <1>1, <2>2, <3>1, <3>3, <4>1
    <3>7. turn' \notin {"classify", "panicked"}  BY <3>1 DEF IInv, AutonomousOK
    <3> QED  BY <1>1, <3>5, <3>6, <3>7 DEF AutonomousOK
  <2> QED  BY <2>1, <2>2
<1>7. WorkOK'
  <2>1. CASE UNCHANGED <<started, atWork>>
    BY <1>1, <2>1 DEF IInv, WorkOK, NobodyWorks, Working
  <2>2. CASE front = "autonomous" =>
               /\ started = 0 /\ started' > 0
               /\ \E p \in PlanId : atWork' = [atWork EXCEPT ![p] = started']
    <3>1. front = "autonomous" => started = 0 /\ done = "waiting" /\ work \subseteq {"earlier"}
      BY <1>1, <2>2 DEF IInv, AutonomousOK, WorkOK
    <3> QED  BY <1>1, <3>1 DEF IInv, WorkOK
  <2> QED  BY <2>1, <2>2
<1>8. OutputOK' /\ OutputIsBuilt'  BY <1>1, <1>2 DEF IInv, OutputOK, OutputIsBuilt
<1> QED  BY <1>3, <1>4, <1>5, <1>6, <1>7, <1>8 DEF IInv

(* What is returned. *)
LEMMA Returned ==
  ASSUME NEW k \in {"none", "Chat", "BuildDispatched", "PlanDrafted", "HotPatched",
                    "ScopeChanged", "Error"},
         NEW p \in PlanId \cup {None}
  PROVE  /\ Reply(k, p) \in [kind : {"none", "Chat", "BuildDispatched", "PlanDrafted", "HotPatched",
                                     "ScopeChanged", "Error"},
                             plan : PlanId \cup {None}]
         /\ Reply(k, p).kind = k /\ Reply(k, p).plan = p
BY DEF Reply

(* The conversation goes on. *)
LEMMA Pushed ==
  ASSUME IInv, conversation' = conversation \/ Push("model")
  PROVE  conversation' \in Seq({"user", "model"})
<1> DEFINE W == {"user", "model"}
<1>1. conversation \in Seq(W) /\ "model" \in W  BY DEF IInv, TypeOK, ConductorTypeOK
<1>2. conversation' = conversation \/ conversation' = Append(conversation, "model")  BY DEF Push
<1> HIDE DEF W
<1>3. conversation' \in Seq(W)  BY <1>1, <1>2
<1> QED  BY <1>3 DEF W

(* The turn ends in an error before it has dispatched. *)
LEMMA FailsIInv ==
  ASSUME IInv, ConductorStep, Fails, conversation' = conversation \/ Push("model"), ~dispatched
  PROVE  IInv'
<1>1. /\ turn' = "idle" /\ reply' = Reply("Error", None)
      /\ UNCHANGED <<current_plan, saved, decision, round, text, builds, dispatched, started, atWork>>
  BY DEF Fails, planVars
<1>2. /\ reply' \in [kind : {"none", "Chat", "BuildDispatched", "PlanDrafted", "HotPatched",
                             "ScopeChanged", "Error"},
                     plan : PlanId \cup {None}]
      /\ reply'.kind = "Error"
  BY <1>1, Returned
<1>3. started = 0 /\ started <= MaxBuilds
  BY DEF IInv, DispatchOK, TypeOK, ConductorTypeOK
<1>4. conversation' \in Seq({"user", "model"})  BY Pushed
<1>5. ConductorTypeOK'  BY <1>1, <1>2, <1>4 DEF IInv, TypeOK, ConductorTypeOK
<1>6. DispatchOK' /\ PlansOnDisk'  BY <1>1 DEF IInv, DispatchOK, PlansOnDisk
<1>7. ReplyTellsBuild'  BY <1>1, <1>2, <1>3 DEF ReplyTellsBuild
<1> QED  BY <1>1, <1>2, <1>5, <1>6, <1>7, TurnStep

(* A draft is saved before it is the plan in hand. *)
LEMMA Adopted ==
  ASSUME IInv, AdoptDraft, Unused # {}
  PROVE  /\ current_plan' \in saved' /\ saved' \subseteq PlanId /\ saved \subseteq saved'
         /\ current_plan' = NewPlan /\ NewPlan \in PlanId
BY NewPlans DEF AdoptDraft, IInv, TypeOK, ConductorTypeOK

LEMMA ClassifyIInv ==
  ASSUME IInv, ConductorStep, Classify
  PROVE  IInv'
<1>1. /\ turn = "classify" /\ turn' \in {"ask", "draft", "idle", "panicked"}
      /\ UNCHANGED <<conversation, current_plan, saved, round, text, builds, dispatched, started,
                     atWork>>
  BY DEF Classify, Return, planVars
<1>2. current_plan \in PlanId \cup {None} /\ reply' \in {reply, Reply("HotPatched", current_plan)}
  BY DEF Classify, Return, IInv, TypeOK, ConductorTypeOK
<1>3. reply' \in [kind : {"none", "Chat", "BuildDispatched", "PlanDrafted", "HotPatched",
                          "ScopeChanged", "Error"},
                  plan : PlanId \cup {None}]
  BY <1>2, Returned DEF IInv, TypeOK, ConductorTypeOK
<1>4. turn' = "idle" => reply'.kind = "HotPatched"
  BY <1>2, Returned DEF Classify, Return
<1>5. decision' \in {"normal", "informational", "scope", "new"}
  BY DEF Classify, IInv, TypeOK, ConductorTypeOK
<1>6. ~dispatched /\ started = 0 /\ round < MaxRounds /\ started <= MaxBuilds
  BY <1>1 DEF IInv, DispatchOK, TurnOK, TypeOK, ConductorTypeOK
<1>7. ConductorTypeOK'  BY <1>1, <1>3, <1>5 DEF IInv, TypeOK, ConductorTypeOK
<1>8. DispatchOK' /\ PlansOnDisk'  BY <1>1, <1>6 DEF IInv, DispatchOK, PlansOnDisk
<1>9. ReplyTellsBuild'  BY <1>1, <1>4, <1>6 DEF ReplyTellsBuild, Idle
<1> QED  BY <1>1, <1>4, <1>6, <1>7, <1>8, <1>9, TurnStep

LEMMA DraftPlanIInv ==
  ASSUME IInv, ConductorStep, DraftPlan
  PROVE  IInv'
<1>1. turn = "draft" /\ Unused # {} /\ ~dispatched  BY DEF DraftPlan, IInv, DispatchOK
<1>2. CASE Fails /\ (UNCHANGED conversation \/ Push("model"))
  BY <1>1, <1>2, FailsIInv
<1>3. CASE /\ AdoptDraft /\ Push("model")
           /\ Return(IF decision = "scope" THEN "ScopeChanged" ELSE "PlanDrafted", NewPlan)
           /\ UNCHANGED <<decision, round, text, builds, dispatched, started, atWork>>
  <2>1. /\ current_plan' \in saved' /\ saved' \subseteq PlanId /\ saved \subseteq saved'
        /\ current_plan' = NewPlan /\ NewPlan \in PlanId
    BY <1>1, <1>3, Adopted
  <2>2. PICK k \in {"ScopeChanged", "PlanDrafted"} : reply' = Reply(k, NewPlan)
    BY <1>3 DEF Return
  <2>3. /\ reply' \in [kind : {"none", "Chat", "BuildDispatched", "PlanDrafted", "HotPatched",
                               "ScopeChanged", "Error"},
                       plan : PlanId \cup {None}]
        /\ reply'.kind = k /\ reply'.plan = NewPlan
    BY <2>1, <2>2, Returned
  <2>4. turn' = "idle"  BY <1>3 DEF Return
  <2>5. started = 0 /\ started <= MaxBuilds
    BY <1>1 DEF IInv, DispatchOK, TypeOK, ConductorTypeOK
  <2>6. conversation' \in Seq({"user", "model"})  BY <1>3, Pushed
  <2>7. ConductorTypeOK'
    BY <1>3, <2>1, <2>3, <2>4, <2>6 DEF IInv, TypeOK, ConductorTypeOK
  <2>8. DispatchOK' /\ PlansOnDisk'
    BY <1>3, <2>1, <2>4 DEF IInv, DispatchOK, PlansOnDisk
  <2>9. ReplyTellsBuild'  BY <1>3, <2>3, <2>5 DEF ReplyTellsBuild
  <2> QED  BY <1>3, <2>1, <2>3, <2>4, <2>7, <2>8, <2>9, TurnStep
<1> QED  BY <1>2, <1>3 DEF DraftPlan

LEMMA AskIInv ==
  ASSUME IInv, ConductorStep, Ask
  PROVE  IInv'
<1>1. turn = "ask" /\ ~dispatched /\ round < MaxRounds
  BY DEF Ask, IInv, DispatchOK, TurnOK
<1>2. CASE Fails /\ UNCHANGED conversation  BY <1>1, <1>2, FailsIInv
<1>3. CASE ~Fails
  <2>1. /\ turn' \in {"wrap", "call"}
        /\ UNCHANGED <<conversation, current_plan, saved, decision, dispatched, reply, atWork,
                       started>>
    BY <1>3 DEF Ask, planVars
  <2>2. text' \in {"none", "prose", "plan"}
    BY <1>3 DEF Ask, IInv, TypeOK, ConductorTypeOK
  <2>3. builds' \in 0..MaxBuilds
    BY <1>3 DEF Ask, IInv, TypeOK, ConductorTypeOK
  <2>4. round' \in 0..MaxRounds
    <3>1. round \in 0..MaxRounds  BY DEF IInv, TypeOK, ConductorTypeOK
    <3>2. round + 1 \in 0..MaxRounds  BY <1>1, <3>1
    <3> QED  BY <1>3, <3>1, <3>2 DEF Ask
  <2>5. ConductorTypeOK'  BY <2>1, <2>2, <2>3, <2>4 DEF IInv, TypeOK, ConductorTypeOK
  <2>6. DispatchOK' /\ PlansOnDisk'  BY <1>1, <2>1 DEF IInv, DispatchOK, PlansOnDisk
  <2>7. ReplyTellsBuild'  BY <2>1 DEF ReplyTellsBuild, Idle
  <2> QED  BY <2>1, <2>5, <2>6, <2>7, TurnStep
<1> QED  BY <1>2, <1>3 DEF Ask

(* Every call of one answer dispatches a captain for the plan in hand. *)
LEMMA CallToolsIInv ==
  ASSUME IInv, ConductorStep, CallTools
  PROVE  IInv'
<1>1. /\ turn = "call" /\ turn' = (IF dispatched' \/ round = MaxRounds THEN "wrap" ELSE "ask")
      /\ UNCHANGED <<conversation, decision, round, text, builds, reply>>
  BY DEF CallTools
<1>2. /\ ~dispatched /\ started = 0 /\ builds \in 0..MaxBuilds /\ round \in 0..MaxRounds
  BY <1>1 DEF IInv, DispatchOK, TypeOK, ConductorTypeOK
<1>3. /\ saved' \subseteq PlanId /\ saved \subseteq saved'
      /\ current_plan' \in PlanId \cup {None}
      /\ current_plan' # None => current_plan' \in saved'
      /\ saved' # saved => current_plan' \in PlanId
  <2>1. CASE AdoptDraft /\ Unused # {}  BY <2>1, Adopted
  <2>2. CASE UNCHANGED planVars
    BY <2>2 DEF planVars, IInv, PlansOnDisk, TypeOK, ConductorTypeOK
  <2> QED  BY <2>1, <2>2 DEF CallTools, DraftInline
<1>4. CASE current_plan' # None /\ builds > 0
  <2>1. /\ atWork' = [atWork EXCEPT ![current_plan'] = @ + builds]
        /\ started' = started + builds /\ dispatched' = TRUE
    BY <1>4 DEF CallTools
  <2>2. /\ current_plan' \in PlanId /\ atWork \in [PlanId -> Nat] /\ builds \in Nat
        /\ started' = builds
    BY <1>2, <1>3, <1>4, <2>1 DEF IInv, TypeOK, ConductorTypeOK
  <2>3. PICK n \in Nat : n = atWork[current_plan'] + builds  BY <2>2
  <2>4. /\ atWork' = [atWork EXCEPT ![current_plan'] = n] /\ atWork' \in [PlanId -> Nat]
        /\ atWork'[current_plan'] = n
        /\ \A q \in PlanId : q # current_plan' => atWork'[q] = atWork[q]
    BY <2>1, <2>2, <2>3
  <2>5. turn' = "wrap"  BY <1>1, <2>1
  <2>6. ConductorTypeOK'
    BY <1>1, <1>3, <2>1, <2>2, <2>4, <2>5 DEF IInv, TypeOK, ConductorTypeOK
  <2>7. DispatchOK'  BY <1>2, <1>4, <2>1, <2>2, <2>5 DEF DispatchOK
  <2>8. PlansOnDisk'
    BY <1>3, <2>2, <2>4 DEF IInv, PlansOnDisk
  <2>9. ReplyTellsBuild'  BY <2>5 DEF ReplyTellsBuild, Idle
  <2>10. front = "autonomous" =>
           /\ started = 0 /\ started' > 0
           /\ \E p \in PlanId : atWork' = [atWork EXCEPT ![p] = started']
    <3>1. SUFFICES ASSUME front = "autonomous"
                   PROVE  atWork' = [atWork EXCEPT ![current_plan'] = started']
      BY <1>2, <1>4, <2>2
    <3>2. atWork[current_plan'] = 0
      <4>1. ~Working(current_plan')
        BY <1>2, <2>2, <3>1 DEF IInv, AutonomousOK, NobodyWorks
      <4> QED  BY <2>2, <4>1 DEF Working
    <3>3. n = started'  BY <2>2, <2>3, <3>2
    <3> QED  BY <2>4, <3>3
  <2> QED  BY <1>3, <2>5, <2>6, <2>7, <2>8, <2>9, <2>10, TurnStep
<1>5. CASE ~(current_plan' # None /\ builds > 0)
  <2>1. UNCHANGED <<atWork, started, dispatched>>  BY <1>5 DEF CallTools
  <2>2. turn' \in {"wrap", "ask"} /\ (turn' = "ask" => round # MaxRounds)
    BY <1>1, <2>1
  <2>3. turn' = "ask" => round' < MaxRounds  BY <1>1, <1>2, <2>2
  <2>4. ConductorTypeOK'
    BY <1>1, <1>3, <2>1, <2>2 DEF IInv, TypeOK, ConductorTypeOK
  <2>5. DispatchOK'  BY <1>2, <2>1 DEF IInv, DispatchOK
  <2>6. PlansOnDisk'  BY <1>3, <2>1 DEF IInv, PlansOnDisk
  <2>7. ReplyTellsBuild'  BY <2>2 DEF ReplyTellsBuild, Idle
  <2> QED  BY <1>3, <2>1, <2>2, <2>3, <2>4, <2>5, <2>6, <2>7, TurnStep
<1> QED  BY <1>4, <1>5

LEMMA WrapIInv ==
  ASSUME IInv, ConductorStep, Wrap
  PROVE  IInv'
<1>1. /\ turn = "wrap" /\ Push("model") /\ turn' = "idle"
      /\ UNCHANGED <<decision, round, text, builds, dispatched, started, atWork>>
  BY DEF Wrap, Return
<1>2. conversation' \in Seq({"user", "model"})  BY <1>1, Pushed
<1>3. started \in Nat /\ started <= MaxBuilds /\ (dispatched <=> started > 0)
  BY DEF IInv, DispatchOK, TypeOK, ConductorTypeOK
<1>4. /\ saved' \subseteq PlanId /\ saved \subseteq saved'
      /\ current_plan' \in PlanId \cup {None}
      /\ current_plan' # None => current_plan' \in saved'
      /\ saved' # saved => current_plan' \in PlanId
  <2>1. CASE AdoptDraft /\ Unused # {}  BY <2>1, Adopted
  <2>2. CASE UNCHANGED planVars
    BY <2>2 DEF planVars, IInv, PlansOnDisk, TypeOK, ConductorTypeOK
  <2> QED  BY <2>1, <2>2 DEF Wrap
<1>5. /\ reply' \in [kind : {"none", "Chat", "BuildDispatched", "PlanDrafted", "HotPatched",
                             "ScopeChanged", "Error"},
                     plan : PlanId \cup {None}]
      /\ reply'.kind = "BuildDispatched" => dispatched /\ reply'.plan \in saved'
      /\ reply'.kind \in {"PlanDrafted", "ScopeChanged", "HotPatched", "Error"} => ~dispatched
      /\ reply'.kind \in {"PlanDrafted", "ScopeChanged"} => reply'.plan \in saved'
  <2>1. CASE Return("Chat", None)
    <3>1. reply' = Reply("Chat", None)  BY <2>1 DEF Return
    <3> QED  BY <3>1, Returned
  <2>2. CASE dispatched /\ Return("BuildDispatched", current_plan) /\ UNCHANGED planVars
    <3>1. reply' = Reply("BuildDispatched", current_plan)  BY <2>2 DEF Return
    <3>2. current_plan \in PlanId /\ current_plan \in saved'
      BY <1>1, <2>2 DEF planVars, IInv, DispatchOK, PlansOnDisk, TypeOK, ConductorTypeOK
    <3>3. current_plan \in PlanId \cup {None}  BY <3>2
    <3> QED  BY <2>2, <3>1, <3>2, <3>3, Returned
  <2>3. CASE ~dispatched /\ Unused # {} /\ AdoptDraft /\ Return("PlanDrafted", NewPlan)
    <3>1. reply' = Reply("PlanDrafted", NewPlan)  BY <2>3 DEF Return
    <3>2. NewPlan \in PlanId /\ NewPlan \in saved'  BY <2>3, Adopted
    <3>3. NewPlan \in PlanId \cup {None}  BY <3>2
    <3> QED  BY <2>3, <3>1, <3>2, <3>3, Returned
  <2>4. CASE ~dispatched /\ Return("Error", None)
    <3>1. reply' = Reply("Error", None)  BY <2>4 DEF Return
    <3> QED  BY <2>4, <3>1, Returned
  <2> QED  BY <2>1, <2>2, <2>3, <2>4 DEF Wrap
<1>6. ConductorTypeOK'
  BY <1>1, <1>2, <1>4, <1>5 DEF IInv, TypeOK, ConductorTypeOK
<1>7. DispatchOK'  BY <1>1 DEF IInv, DispatchOK
<1>8. PlansOnDisk'  BY <1>1, <1>4 DEF IInv, PlansOnDisk
<1>9. ReplyTellsBuild'
  <2>1. ~dispatched => started = 0  BY <1>3
  <2> QED  BY <1>1, <1>3, <1>5, <2>1 DEF ReplyTellsBuild
<1> QED  BY <1>1, <1>4, <1>5, <1>6, <1>7, <1>8, <1>9, TurnStep

----------------------------------------------------------------------------
(* The theorems. *)

LEMMA NextIInv == IInv /\ [Next]_vars => IInv'
<1> SUFFICES ASSUME IInv, [Next]_vars PROVE IInv'
  OBVIOUS
<1>1. CASE FrontEnd
  BY <1>1, SayIInv, TakeReplyIInv, ShowReplyIInv, ApproveIInv, BuildReportedIInv, AnnounceIInv,
     TurnLostIInv, QuitIInv, TakeAutonomousReplyIInv, ProceedIInv, AwaitDoneIInv, BuildFinishesIInv
  DEF FrontEnd
<1>2. CASE ConductorStep
  BY <1>2, ClassifyIInv, DraftPlanIInv, AskIInv, CallToolsIInv, WrapIInv DEF ConductorStep, Turn
<1>3. CASE \E p \in PlanId : CaptainEnds(p)  BY <1>3, CaptainEndsIInv
<1>4. CASE SubscriberLags  BY <1>4, SubscriberLagsIInv
<1>5. CASE UNCHANGED vars
  <2>1. UNCHANGED <<conversation, current_plan, saved, turn, decision, round, text, builds,
                    dispatched, started, reply, atWork, front, phase, plan, done, work,
                    output>>
    BY <1>5 DEF vars, conductor, planVars, turnVars, session
  <2>2. TypeOK'  BY <2>1 DEF IInv, TypeOK, ConductorTypeOK
  <2>3. TurnOK' /\ DispatchOK' /\ ApprovedOK'
    BY <2>1 DEF IInv, TurnOK, DispatchOK, ApprovedOK, Idle
  <2>4. AutonomousOK'  BY <2>1 DEF IInv, AutonomousOK, NobodyWorks, Working
  <2>5. WorkOK' /\ OutputOK' /\ OutputIsBuilt'
    BY <2>1 DEF IInv, WorkOK, OutputOK, OutputIsBuilt, NobodyWorks, Working
  <2>6. ReplyTellsBuild' /\ PlansOnDisk'
    BY <2>1 DEF IInv, ReplyTellsBuild, PlansOnDisk, Idle
  <2> QED  BY <2>2, <2>3, <2>4, <2>5, <2>6 DEF IInv
<1> QED  BY <1>1, <1>2, <1>3, <1>4, <1>5 DEF Next

(* The inductive invariant: one answer dispatches in a turn and ends its rounds,
   plans are saved before they are in hand, and the first captain to end is the
   last of an autonomous run that started one. *)
THEOREM Invariance == Spec => []IInv
BY InitIInv, NextIInv, PTL DEF Spec

(* Every variable keeps its type: in particular the rounds of a turn stay within
   the bound of conversational_turn's loop. *)
THEOREM TypeCorrect == Spec => []TypeOK
<1>1. IInv => TypeOK  BY DEF IInv
<1> QED  BY <1>1, Invariance, PTL

(* What a turn returns tells its caller whether a captain is at work, and a build
   that is reported dispatched is of a saved plan (handle_user_message). *)
THEOREM RepliesTell == Spec => []ReplyTellsBuild
<1>1. IInv => ReplyTellsBuild  BY DEF IInv
<1> QED  BY <1>1, Invariance, PTL

(* No captain works on a plan that is not on disk, and neither is the plan in hand
   ever one (draft_plan and draft_plan_inline save first). *)
THEOREM SavedFirst == Spec => []PlansOnDisk
<1>1. IInv => PlansOnDisk  BY DEF IInv
<1> QED  BY <1>1, Invariance, PTL

(* What run_autonomous copies out, be the copy whole or cut short, is the work of a
   build that completed and, unless its turn dispatched several captains, of no
   other of the run: finish_build runs for no build that failed or goes on. *)
THEOREM OutputBuilt == Spec => []OutputIsBuilt
<1>1. IInv => OutputIsBuilt  BY DEF IInv
<1> QED  BY <1>1, Invariance, PTL

----------------------------------------------------------------------------
(* The end of a turn. *)

(* A step of a turn leaves less of it, for its rounds are counted and bounded. *)
LEMMA TurnIsNearer ==
  ASSUME IInv, Turn
  PROVE  TurnAhead' < TurnAhead
<1>1. /\ round \in Nat /\ MaxRounds \in Nat /\ round <= MaxRounds
      /\ turn \in {"idle", "classify", "draft", "ask", "call", "wrap", "panicked"}
      /\ turn = "ask" => round < MaxRounds
  BY DEF IInv, TypeOK, ConductorTypeOK, TurnOK
<1>2. TurnAhead \in Nat /\ (turn \notin {"idle", "panicked"} => TurnAhead > 0)
  BY <1>1 DEF TurnAhead
<1>3. CASE Classify
  <2>1. turn = "classify" /\ turn' \in {"ask", "idle", "draft", "panicked"} /\ round' = round
    BY <1>3 DEF Classify, Return
  <2> QED  BY <1>1, <2>1 DEF TurnAhead
<1>4. CASE DraftPlan \/ Wrap
  <2>1. turn \in {"draft", "wrap"} /\ turn' = "idle"
    BY <1>4 DEF DraftPlan, Wrap, Return, Fails
  <2> QED  BY <2>1 DEF TurnAhead
<1>5. CASE Ask
  <2>1. turn = "ask" /\ (turn' \in {"idle", "wrap"} \/ (turn' = "call" /\ round' = round + 1))
    BY <1>5 DEF Ask, Fails
  <2> QED  BY <1>1, <2>1 DEF TurnAhead
<1>6. CASE CallTools
  <2>1. turn = "call" /\ turn' \in {"wrap", "ask"} /\ round' = round  BY <1>6 DEF CallTools
  <2> QED  BY <1>1, <2>1 DEF TurnAhead
<1> QED  BY <1>3, <1>4, <1>5, <1>6 DEF Turn

(* A turn that was begun has come to its reply, or to the panic in classify_message,
   in at most 2 * MaxRounds + 3 steps of the conductor, for any rounds and answers:
   what the models say, the front ends do and the captains come to cannot make it
   longer (handle_user_message, conversational_turn). *)
THEOREM TurnsProgress ==
  Spec => NearerTheReply /\ [](TurnAhead \in 0..(2 * MaxRounds + 3))
<1>1. IInv => TurnAhead \in 0..(2 * MaxRounds + 3)
  <2> SUFFICES ASSUME IInv PROVE TurnAhead \in 0..(2 * MaxRounds + 3)
    OBVIOUS
  <2>1. /\ round \in Nat /\ MaxRounds \in Nat /\ round <= MaxRounds
        /\ turn \in {"idle", "classify", "draft", "ask", "call", "wrap", "panicked"}
    BY DEF IInv, TypeOK, ConductorTypeOK
  <2> QED  BY <2>1 DEF TurnAhead
<1>2. IInv /\ [Next]_vars
        => [IF ConductorStep THEN TurnAhead' < TurnAhead ELSE TurnAhead' = TurnAhead \/ Say]_vars
  <2> SUFFICES ASSUME IInv, Next, ~ConductorStep, ~Say PROVE TurnAhead' = TurnAhead
    BY TurnIsNearer DEF ConductorStep
  <2>1. UNCHANGED <<turn, round>>
    BY DEF Next, FrontEnd, TakeReply, ShowReply, Approve, BuildReported, Announce, TurnLost,
       Quit, TakeAutonomousReply, Proceed, AwaitDone, BuildFinishes, CaptainEnds, SubscriberLags,
       MaterializeTaskAsPlan, AnnounceCompletion, conductor, turnVars
  <2> QED  BY <2>1 DEF TurnAhead
<1> QED  BY <1>1, <1>2, Invariance, PTL DEF Spec, NearerTheReply
=============================================================================
