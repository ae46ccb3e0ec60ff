------------------------------ MODULE Topology ------------------------------
(***************************************************************************)
(* What the layers of the orchestrator share: the sandboxes, and which of  *)
(* them each task is for.                                                  *)
(***************************************************************************)
EXTENDS Naturals, Sequences, FiniteSets

CONSTANTS
  Task,
  Sandboxes,   \* the sandbox topology, scanned in order
  Hint,        \* the sandbox of each task
  None

Sandbox == {Sandboxes[i] : i \in DOMAIN Sandboxes}

ASSUME TopologyAssumption ==
  /\ IsFiniteSet(Task)
  /\ Sandboxes \in Seq(Sandbox)
  /\ \A i, j \in DOMAIN Sandboxes : Sandboxes[i] = Sandboxes[j] => i = j
  /\ Hint \in [Task -> Sandbox]
=============================================================================
