------------------------------- MODULE Crew --------------------------------
(***************************************************************************)
(* The crews of a build (mowis-orchestration/src/crew.rs): one agent per   *)
(* task of the plan, each a loop of rounds that asks the model and runs    *)
(* the tool calls it answers with, under three budgets.  The crews share   *)
(* one workspace; Captain starts and awaits them.                          *)
(*                                                                         *)
(* A tool call is its tool and its path.  The tools that only the check    *)
(* for duplicates looks at are "other"; the crews' allowlist allows every  *)
(* tool, and no tool answers with an interactive prompt, so the branches   *)
(* for denied calls and for prompts are not reached.                       *)
(***************************************************************************)
EXTENDS Integers, FiniteSets

CONSTANTS
  Task,
  Path,
  MaxRounds,    \* MAX_ROUNDS
  MaxCalls,     \* MAX_TOOL_CALLS
  TokenBudget,  \* MAX_INPUT_TOKENS
  Usage,        \* input tokens a provider may report for a round
  MaxBatch      \* bound: tool calls in one answer of the model

ASSUME CrewAssumption ==
  /\ MaxRounds \in Nat /\ MaxCalls \in Nat \ {0} /\ TokenBudget \in Nat \ {0}
  /\ Usage \subseteq Nat
  /\ MaxBatch \in Nat \ {0}

VARIABLES
  crew,     \* where each task's crew is
  batch,    \* calls of the current answer still to process
  calls,    \* tool_call_count
  tokens,   \* total_input_tokens
  written,  \* written_files
  recent    \* recent_calls

crewVars == <<crew, batch, calls, tokens, written, recent>>

Call == [tool : {"write_file", "read_file", "other"}, path : Path]

Ended  == {"done", "failed", "panicked"}
Active == {"round", "tools", "summarize"}

CrewTypeOK ==
  /\ crew \in [Task -> {"unborn"} \cup Active \cup Ended]
  /\ batch \in [Task -> 0..MaxBatch]
  /\ calls \in [Task -> Nat]
  /\ tokens \in [Task -> Nat]
  /\ written \in [Task -> SUBSET Path]
  /\ recent \in [Task -> SUBSET Call]

CrewInit ==
  /\ crew = [c \in Task |-> "unborn"]
  /\ batch = [c \in Task |-> 0]
  /\ calls = [c \in Task |-> 0]
  /\ tokens = [c \in Task |-> 0]
  /\ written = [c \in Task |-> {}]
  /\ recent = [c \in Task |-> {}]

Goes(c, loc) == crew' = [crew EXCEPT ![c] = loc]

----------------------------------------------------------------------------
(* The head of the loop. *)

(* conversation.round_count() counts the AssistantToolCalls messages; the loop
   pushes the results of the calls, never the calls. *)
RoundCount(c) == 0

InBudget(c) ==
  RoundCount(c) < MaxRounds /\ calls[c] < MaxCalls /\ tokens[c] < TokenBudget

(* The round budget ends a crew with what it has, the others fail it. *)
BudgetSpent(c) ==
  /\ crew[c] = "round" /\ ~InBudget(c)
  /\ Goes(c, IF RoundCount(c) >= MaxRounds THEN "done" ELSE "failed")
  /\ UNCHANGED <<batch, calls, tokens, written, recent>>

(* A variant: a loop that forgets the token budget. *)
AskModelUnmetered(c) ==
  /\ crew[c] = "round" /\ calls[c] < MaxCalls
  /\ \E n \in 0..MaxBatch : /\ batch' = [batch EXCEPT ![c] = n]
                            /\ Goes(c, IF n = 0 THEN "done" ELSE "tools")
  /\ UNCHANGED <<calls, tokens, written, recent>>

(* The model answers with n tool calls, or with none: then it is done. *)
AskModel(c) ==
  /\ crew[c] = "round" /\ InBudget(c)
  /\ \E u \in Usage : tokens' = [tokens EXCEPT ![c] = @ + u]
  /\ \E n \in 0..MaxBatch : /\ batch' = [batch EXCEPT ![c] = n]
                            /\ Goes(c, IF n = 0 THEN "done" ELSE "tools")
  /\ UNCHANGED <<calls, written, recent>>

(* The provider gives up after its retries. *)
ModelError(c) ==
  /\ crew[c] = "round" /\ InBudget(c)
  /\ Goes(c, "failed")
  /\ UNCHANGED <<batch, calls, tokens, written, recent>>

----------------------------------------------------------------------------
(* The calls of one answer. *)

(* The call is processed: on to the next one, or to the next round. *)
NextCall(c) ==
  /\ batch' = [batch EXCEPT ![c] = @ - 1]
  /\ Goes(c, IF batch[c] = 1 THEN "round" ELSE "tools")

(* A second write of a path, a read of one that was written, or a call made
   before with the same arguments. *)
Blocked(c, call) ==
  \/ call.tool \in {"write_file", "read_file"} /\ call.path \in written[c]
  \/ call \in recent[c]

BlockCall(c, call) ==
  /\ crew[c] = "tools" /\ Blocked(c, call)
  /\ NextCall(c)
  /\ UNCHANGED <<calls, tokens, written, recent>>

(* A variant: the call counted before it runs and after. *)
InvokeCallTwice(c, call) ==
  /\ crew[c] = "tools" /\ ~Blocked(c, call)
  /\ recent' = [recent EXCEPT ![c] = @ \cup {call}]
  /\ calls' = [calls EXCEPT ![c] = @ + 2]
  /\ NextCall(c)
  /\ UNCHANGED <<tokens, written>>

(* Any other call is counted and runs, with or without success.  The path of a
   write is noted before it runs.  A summary that quotes a command or an error
   is still to be cut to length. *)
InvokeCall(c, call) ==
  /\ crew[c] = "tools" /\ ~Blocked(c, call)
  /\ recent' = [recent EXCEPT ![c] = @ \cup {call}]
  /\ calls' = [calls EXCEPT ![c] = @ + 1]
  /\ written' = IF call.tool = "write_file"
                THEN [written EXCEPT ![c] = @ \cup {call.path}] ELSE written
  /\ \/ call.tool # "other" /\ NextCall(c)
     \/ Goes(c, "summarize") /\ UNCHANGED batch
  /\ UNCHANGED tokens

(* truncate slices the text at a byte: inside a character, it panics. *)
Summarize(c) ==
  /\ crew[c] = "summarize"
  /\ \/ NextCall(c)
     \/ Goes(c, "panicked") /\ UNCHANGED batch
  /\ UNCHANGED <<calls, tokens, written, recent>>

CrewStep(c) ==
  \/ BudgetSpent(c) \/ AskModel(c) \/ ModelError(c) \/ Summarize(c)
  \/ \E call \in Call : BlockCall(c, call) \/ InvokeCall(c, call)

----------------------------------------------------------------------------
(* Properties *)

(* The calls of an answer are not held against the budget one by one, so a crew
   may exceed it, but by less than one answer: refused calls and new ones count
   as they should however they alternate. *)
CallsBounded == \A c \in Task : calls[c] < MaxCalls + MaxBatch

(* Its inductive form: the rest of the answer at hand stays under the bound. *)
CallsOK(c) ==
  /\ calls[c] < MaxCalls + MaxBatch
  /\ crew[c] = "tools" => batch[c] >= 1 /\ calls[c] + batch[c] < MaxCalls + MaxBatch
  /\ crew[c] = "summarize" => batch[c] >= 1 /\ calls[c] + batch[c] <= MaxCalls + MaxBatch
=============================================================================
