------------------------------ MODULE MCDaemon ------------------------------
(* An orchestration inside agentd creates a container and destroys it, another
   program lists meanwhile, and a subscriber comes in the way.  Create and list
   share the pool.  A stalled client is one whose connection says nothing. *)
EXTENDS Daemon

CONSTANTS create, destroy, list, orch, sub

MCCall  == {create, destroy, list}
MCOn    == [c \in MCCall |-> IF c = destroy THEN create ELSE None]
MCAfter == [c \in MCCall |-> IF c = destroy THEN {create} ELSE {}]
MCHome  == [c \in MCCall |-> IF c = list THEN None ELSE orch]
=============================================================================
