----------------------------- MODULE MCAgentRun -----------------------------
(* Two tool calls in /workspace and one outside it, asked for alone, in one
   chunk each of one answer, or not at all. *)
EXTENDS AgentRun

CONSTANTS in, too, out

MCAnswers == {[calls |-> <<>>, last |-> 0], [calls |-> <<in>>, last |-> 1],
              [calls |-> <<out, too>>, last |-> 1]}
=============================================================================
