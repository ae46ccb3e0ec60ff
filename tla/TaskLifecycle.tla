--------------------------- MODULE TaskLifecycle ---------------------------
(***************************************************************************)
(* What the task dispatcher of agentd promises, free of queues, counters   *)
(* and locks: a task runs once, after all it depends on has completed, and *)
(* is skipped only on account of a failed or skipped dependency.           *)
(***************************************************************************)
CONSTANTS TaskId, Task, Graphs

VARIABLES deps, phase

vars == <<deps, phase>>

Phase == {"pending", "running", "completed", "failed", "skipped"}

Becomes(t, p) == phase' = [phase EXCEPT ![t] = p]

Start(t) ==
  /\ phase[t] = "pending"
  /\ \A d \in deps[t] : d \in Task /\ phase[d] = "completed"
  /\ Becomes(t, "running")

Finish(t) ==
  /\ phase[t] = "running"
  /\ Becomes(t, "completed") \/ Becomes(t, "failed")

Skip(t) ==
  /\ phase[t] = "pending"
  /\ \E d \in deps[t] \cap Task : phase[d] \in {"failed", "skipped"}
  /\ Becomes(t, "skipped")

Init ==
  /\ deps \in Graphs
  /\ phase = [t \in Task |-> "pending"]

Next ==
  /\ \E t \in Task : Start(t) \/ Finish(t) \/ Skip(t)
  /\ UNCHANGED deps

Spec == Init /\ [][Next]_vars
=============================================================================
