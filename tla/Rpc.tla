-------------------------------- MODULE Rpc --------------------------------
(***************************************************************************)
(* What a request to agentd promises its caller, free of pools, sockets,   *)
(* lanes and workers: it is executed at most once for each time it is sent *)
(* (so once, if it was sent once), perhaps after the caller gave it up,    *)
(* and only a request that was executed is answered.                       *)
(***************************************************************************)
EXTENDS Naturals

CONSTANTS Call, Tries

VARIABLES phase, sent, begun, ended

vars == <<phase, sent, begun, ended>>

Incremented(counter, c) == [counter EXCEPT ![c] = @ + 1]

Open(c) ==
  /\ phase[c] = "idle"
  /\ phase' = [phase EXCEPT ![c] = "open"]
  /\ UNCHANGED <<sent, begun, ended>>

Send(c) ==
  /\ phase[c] = "open" /\ sent[c] < Tries
  /\ sent' = Incremented(sent, c)
  /\ UNCHANGED <<phase, begun, ended>>

Begin(c) ==
  /\ begun[c] < sent[c]
  /\ begun' = Incremented(begun, c)
  /\ UNCHANGED <<phase, sent, ended>>

End(c) ==
  /\ ended[c] < begun[c]
  /\ ended' = Incremented(ended, c)
  /\ UNCHANGED <<phase, sent, begun>>

Succeed(c) ==
  /\ phase[c] = "open" /\ ended[c] > 0
  /\ phase' = [phase EXCEPT ![c] = "ok"]
  /\ UNCHANGED <<sent, begun, ended>>

Fail(c) ==
  /\ phase[c] = "open"
  /\ phase' = [phase EXCEPT ![c] = "error"]
  /\ UNCHANGED <<sent, begun, ended>>

Init ==
  /\ phase = [c \in Call |-> "idle"]
  /\ sent = [c \in Call |-> 0] /\ begun = sent /\ ended = sent

Next == \E c \in Call :
  Open(c) \/ Send(c) \/ Begin(c) \/ End(c) \/ Succeed(c) \/ Fail(c)

Spec == Init /\ [][Next]_vars
=============================================================================
