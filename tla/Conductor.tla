----------------------------- MODULE Conductor ------------------------------
(***************************************************************************)
(* The conductor of mowis-orchestration (conductor.rs): it answers one     *)
(* user message at a time, in a turn of several requests to models, and on *)
(* the way drafts plans, saves them and dispatches captains that build     *)
(* them in tasks of their own.  Session drives it and lets captains end.   *)
(*                                                                         *)
(* A message is who it is from.  An answer of a model is what the turn     *)
(* looks for in it: a plan block, and how many calls of start_build.  The  *)
(* copy that save_to_host makes leaves no trace in this state, as a call   *)
(* of an unknown tool does not.                                            *)
(***************************************************************************)
EXTENDS Integers, Sequences

CONSTANTS
  PlanId,
  MaxRounds,  \* the bound of conversational_turn's loop, 5 in the code
  MaxBuilds,  \* bound: calls of start_build in one answer
  None

ASSUME ConductorAssumption ==
  /\ MaxRounds \in Nat \ {0} /\ MaxBuilds \in Nat \ {0}
  /\ None \notin PlanId

VARIABLES
  conversation, \* who each message is from
  current_plan,
  saved,        \* the plans on disk
  turn,         \* where handle_user_message is
  decision,     \* what the classifier made of the message
  round,        \* rounds of the turn so far
  text,         \* final_text: none yet, prose, or with a plan block
  builds,       \* start_build calls of the last answer
  dispatched,   \* build_dispatched
  reply,        \* what the last turn returned
  atWork,       \* how many dispatched captains work on each plan
  started       \* history: captains this turn has dispatched

turnVars  == <<turn, decision, round, text, builds, dispatched, started>>
planVars  == <<current_plan, saved>>
conductor == <<conversation, planVars, turnVars, reply, atWork>>

Reply(kind, p) == [kind |-> kind, plan |-> p]

ConductorTypeOK ==
  /\ conversation \in Seq({"user", "model"})
  /\ current_plan \in PlanId \cup {None}
  /\ saved \subseteq PlanId
  /\ turn \in {"idle", "classify", "draft", "ask", "call", "wrap", "panicked"}
  /\ decision \in {"normal", "informational", "scope", "new"}
  /\ round \in 0..MaxRounds
  /\ text \in {"none", "prose", "plan"}
  /\ builds \in 0..MaxBuilds
  /\ dispatched \in BOOLEAN
  /\ reply \in [kind : {"none", "Chat", "BuildDispatched", "PlanDrafted", "HotPatched",
                        "ScopeChanged", "Error"},
                plan : PlanId \cup {None}]
  /\ atWork \in [PlanId -> Nat]
  /\ started \in Nat

ConductorInit ==
  /\ conversation = <<>>
  /\ current_plan = None /\ saved = {}
  /\ turn = "idle" /\ decision = "normal" /\ round = 0 /\ text = "none"
  /\ builds = 0 /\ dispatched = FALSE /\ started = 0
  /\ reply = Reply("none", None)
  /\ atWork = [p \in PlanId |-> 0]

----------------------------------------------------------------------------
(* Plan ids are a time and a random number: always new.  Any will do. *)
Unused  == PlanId \ saved
NewPlan == CHOOSE p \in Unused : TRUE

(* The draft is saved whole, then announced, then made the current plan. *)
AdoptDraft ==
  /\ saved' = saved \cup {NewPlan}
  /\ current_plan' = NewPlan

Push(who) == conversation' = Append(conversation, who)

(* handle_user_message returns. *)
Return(kind, p) == turn' = "idle" /\ reply' = Reply(kind, p)

(* A request to a model or a save ended in an error, passed on by `?`. *)
Fails ==
  /\ turn' = "idle" /\ reply' = Reply("Error", None)
  /\ UNCHANGED <<planVars, decision, round, text, builds, dispatched, started, atWork>>

----------------------------------------------------------------------------
(* handle_user_message, up to the first answer. *)
HandleUserMessage ==
  /\ turn = "idle"
  /\ Push("user")
  /\ turn' = IF current_plan = None THEN "ask" ELSE "classify"
  /\ decision' = "normal" /\ round' = 0 /\ text' = "none" /\ builds' = 0
  /\ dispatched' = FALSE /\ started' = 0
  /\ reply' = Reply("none", None)
  /\ UNCHANGED <<planVars, atWork>>

(* What to make of a message when there is a plan.  An answer that cannot be
   parsed is informational; no answer, or a patch without its task, leads to
   the turn of a session without a plan.  The request quotes 200 bytes of the
   plan's overview, and truncate_str panics where these end inside a character. *)
Classify ==
  /\ turn = "classify"
  /\ \/ /\ turn' = "ask"
        /\ decision' \in {"normal", "informational"}
        /\ UNCHANGED reply
     \/ Return("HotPatched", current_plan) /\ UNCHANGED decision
     \/ /\ turn' = "draft"
        /\ decision' \in {"scope", "new"}
        /\ UNCHANGED reply
     \/ turn' = "panicked" /\ UNCHANGED <<decision, reply>>
  /\ UNCHANGED <<conversation, planVars, round, text, builds, dispatched, started, atWork>>

(* draft_plan: the model's answer joins the conversation before it is saved. *)
DraftPlan ==
  /\ turn = "draft" /\ Unused # {}
  /\ \/ Fails /\ UNCHANGED conversation
     \/ Fails /\ Push("model")
     \/ /\ AdoptDraft
        /\ Push("model")
        /\ Return(IF decision = "scope" THEN "ScopeChanged" ELSE "PlanDrafted", NewPlan)
        /\ UNCHANGED <<decision, round, text, builds, dispatched, started, atWork>>

----------------------------------------------------------------------------
(* conversational_turn *)

(* A variant: rounds that are not counted. *)
AskUncounted ==
  /\ turn = "ask"
  /\ \/ Fails /\ UNCHANGED conversation
     \/ /\ \E t \in {"none", "prose", "plan"} : text' = IF t = "none" THEN text ELSE t
        /\ \/ turn' = "wrap" /\ UNCHANGED builds
           \/ turn' = "call" /\ builds' \in 0..MaxBuilds
        /\ UNCHANGED <<conversation, planVars, decision, round, dispatched, reply, atWork,
                       started>>

(* One answer: with no call, the last of the turn. *)
Ask ==
  /\ turn = "ask"
  /\ \/ Fails /\ UNCHANGED conversation
     \/ /\ \E t \in {"none", "prose", "plan"} : text' = IF t = "none" THEN text ELSE t
        /\ \/ turn' = "wrap" /\ UNCHANGED <<builds, round>>
           \/ /\ turn' = "call"
              /\ builds' \in 0..MaxBuilds
              /\ round' = round + 1
        /\ UNCHANGED <<conversation, planVars, decision, dispatched, reply, atWork, started>>

(* A variant: the plan made current although its save failed. *)
DraftInlineUnsaved ==
  IF text = "plan" /\ current_plan = None /\ builds > 0 /\ Unused # {}
  THEN AdoptDraft \/ (current_plan' = NewPlan /\ UNCHANGED saved)
  ELSE UNCHANGED planVars

(* A plan that comes with the call to build it is registered first; should that
   fail, it is logged. *)
DraftInline ==
  IF text = "plan" /\ current_plan = None /\ builds > 0 /\ Unused # {}
  THEN AdoptDraft \/ UNCHANGED planVars
  ELSE UNCHANGED planVars

(* A variant: a turn that goes on after it has dispatched. *)
CallToolsGoesOn ==
  /\ turn = "call"
  /\ DraftInline
  /\ IF current_plan' # None /\ builds > 0
     THEN /\ atWork' = [atWork EXCEPT ![current_plan'] = @ + builds]
          /\ started' = started + builds
          /\ dispatched' = TRUE
     ELSE UNCHANGED <<atWork, started, dispatched>>
  /\ turn' = IF round = MaxRounds THEN "wrap" ELSE "ask"
  /\ UNCHANGED <<conversation, decision, round, text, builds, reply>>

(* Every call is executed, and each start_build spawns a captain for the current
   plan.  The turn goes on unless one was spawned or the rounds are up. *)
CallTools ==
  /\ turn = "call"
  /\ DraftInline
  /\ IF current_plan' # None /\ builds > 0
     THEN /\ atWork' = [atWork EXCEPT ![current_plan'] = @ + builds]
          /\ started' = started + builds
          /\ dispatched' = TRUE
     ELSE UNCHANGED <<atWork, started, dispatched>>
  /\ turn' = IF dispatched' \/ round = MaxRounds THEN "wrap" ELSE "ask"
  /\ UNCHANGED <<conversation, decision, round, text, builds, reply>>

(* The turn's text joins the conversation and decides what is returned: chat, a
   dispatched build, or a plan block to be saved and put to the user. *)
Wrap ==
  /\ turn = "wrap"
  /\ Push("model")
  /\ UNCHANGED <<decision, round, text, builds, dispatched, started, atWork>>
  /\ \/ decision = "informational" /\ Return("Chat", None) /\ UNCHANGED planVars
     \/ /\ decision = "normal" /\ dispatched
        /\ Return("BuildDispatched", current_plan)
        /\ UNCHANGED planVars
     \/ /\ decision = "normal" /\ ~dispatched /\ text # "plan"
        /\ Return("Chat", None)
        /\ UNCHANGED planVars
     \/ /\ decision = "normal" /\ ~dispatched /\ text = "plan" /\ Unused # {}
        /\ \/ AdoptDraft /\ Return("PlanDrafted", NewPlan)
           \/ Return("Error", None) /\ UNCHANGED planVars

Turn == Classify \/ DraftPlan \/ Ask \/ CallTools \/ Wrap

----------------------------------------------------------------------------
(* What the front ends ask of the conductor between turns. *)

(* materialize_task_as_plan: a patch becomes a plan of one task. *)
MaterializeTaskAsPlan ==
  /\ Unused # {}
  /\ AdoptDraft
  /\ UNCHANGED <<conversation, turnVars, reply, atWork>>

(* announce_completion: a note for the model, and its answer if one comes. *)
AnnounceCompletion ==
  /\ conversation' \in {Append(conversation, "user"),
                        conversation \o <<"user", "model">>}
  /\ UNCHANGED <<planVars, turnVars, reply, atWork>>

----------------------------------------------------------------------------
(* Properties *)

Idle == turn = "idle"

(* What a turn returns tells the caller whether it is to wait or to ask: a plan
   put to the user for approval, a patch or an error leaves no captain of this
   turn behind, a dispatched build has one, on a plan that is saved, and one
   answer of the model is all that dispatches in a turn. *)
ReplyTellsBuild ==
  Idle =>
    /\ reply.kind \in {"PlanDrafted", "ScopeChanged", "HotPatched", "Error"} => started = 0
    /\ reply.kind = "BuildDispatched" => reply.plan \in saved
    /\ (reply.kind = "BuildDispatched" \/ decision = "informational") => started <= MaxBuilds
    /\ reply.kind = "BuildDispatched" => started > 0

(* The plan a captain works on and the plan in hand have been saved: neither a
   save that fails nor the order of saving and dispatching leaves one without. *)
PlansOnDisk ==
  /\ current_plan # None => current_plan \in saved
  /\ \A p \in PlanId : atWork[p] > 0 => p \in saved
=============================================================================
