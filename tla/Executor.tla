------------------------------ MODULE Executor ------------------------------
(***************************************************************************)
(* The executor inside the guest (mowis-executor/src/server.rs): one       *)
(* connection of the host, a task for each request on it, a map of the     *)
(* sandboxes and of the agents' overlays that the tasks share, and one     *)
(* writer that the tasks' answers queue for, line by line.                 *)
(*                                                                         *)
(* A request is its operation, its sandbox and its agent.  Operations that *)
(* touch no sandbox (Ping, Version, ListSandboxes, HealthCheck) are "ask"; *)
(* InvokeTool and UploadCodebase are "tool"; InvokeToolAsAgent is "agent"; *)
(* SendInput and InteractiveStatus are "status".  What a sandbox holds on  *)
(* disk is left out.  Transport is the host at the other end.              *)
(***************************************************************************)
EXTENDS Integers, Sequences

CONSTANTS
  Name,   \* sandbox ids
  Agent,
  MaxId,  \* bound: requests on one connection
  None    \* no sandbox, no agent

ASSUME ExecutorAssumption ==
  /\ MaxId \in Nat \ {0}
  /\ None \notin Name \cup Agent

VARIABLES
  link,       \* the connection: none yet, up, or down
  toGuest,    \* requests on the wire
  toHost,     \* answers on the wire
  serving,    \* the task of each request
  sandboxes   \* keys of the map

guest == <<link, toGuest, toHost, serving, sandboxes>>

Id  == 1..MaxId
Key == Name \X (Agent \cup {None})

(* Only a command may do without a sandbox, of those that could use one. *)
Request ==
  {r \in [op : {"ask", "create", "destroy", "exec", "tool", "overlay", "merge",
                "discard", "agent", "status", "shutdown"},
          box : Name \cup {None}, agent : Agent \cup {None}] :
     r.box = None => r.op \in {"ask", "exec", "shutdown"}}

Box(r)     == <<r.box, None>>
Overlay(r) == <<r.box, r.agent>>

(* What dispatch looks up in the map, one get after the other. *)
Needs(r) ==
  (IF r.op \in {"tool", "overlay", "merge"} \/ (r.op = "exec" /\ r.box # None)
   THEN <<Box(r)>> ELSE <<>>)
  \o (IF r.op \in {"merge", "agent", "status"} THEN <<Overlay(r)>> ELSE <<>>)

(* The operations that run in spawn_blocking. *)
Blocking == {"create", "exec", "tool", "overlay", "merge", "agent"}

(* A line carries the id of its request, and what it answers.  Any line but one
   of output is the last: "ok" stands for the payload that the operation ends
   with. *)
LineKind == {"output", "exit", "ok", "error"}

(* What goes over the wire to the guest and back. *)
Asking == [id : Id, req : Request]
Answer == [id : Id, kind : LineKind, req : Request]

(* A variant: the id of the request that was read last. *)
LineOfLast(i, k, r) ==
  LET taken == {j \in Id : serving[j].stage # "none"}
  IN [id |-> CHOOSE j \in taken : \A m \in taken : m <= j, kind |-> k, req |-> r]

Line(i, k, r) == [id |-> i, kind |-> k, req |-> r]

(* What an operation that went well answers: a command its output, on one
   stream or on both, and its exit code. *)
Ran(r) ==
  IF r.op = "exec" THEN {<<"exit">>, <<"output", "exit">>, <<"output", "output", "exit">>}
                   ELSE {<<"ok">>}

NoTask == [req |-> [op |-> "ask", box |-> None, agent |-> None], stage |-> "none",
           need |-> <<>>, lines |-> <<>>, sent |-> 0]

Serving == [req : Request,
            stage : {"none", "lookup", "work", "commit", "send", "over", "lost"},
            need : Seq(Key), lines : Seq(LineKind), sent : 0..3]

GuestTypeOK ==
  /\ link \in {"none", "up", "down"}
  /\ toGuest \in Seq(Asking)
  /\ toHost \in Seq(Answer)
  /\ serving \in [Id -> Serving]
  /\ \A i \in Id : serving[i].sent <= Len(serving[i].lines)
  /\ sandboxes \subseteq Key

GuestInit ==
  /\ link = "none"
  /\ toGuest = <<>> /\ toHost = <<>>
  /\ serving = [i \in Id |-> NoTask]
  /\ sandboxes = {}

----------------------------------------------------------------------------
Moves(i, stage) == serving' = [serving EXCEPT ![i].stage = stage]

Answers(i, lines) ==
  serving' = [serving EXCEPT ![i].stage = "send", ![i].lines = lines, ![i].need = <<>>]

(* handle_connection reads a line and spawns its task. *)
Accept ==
  /\ link = "up" /\ toGuest # <<>>
  /\ LET e == Head(toGuest)
     IN serving' = [serving EXCEPT ![e.id] = [NoTask EXCEPT !.req = e.req, !.stage = "lookup",
                                                           !.need = Needs(e.req)]]
  /\ toGuest' = Tail(toGuest)
  /\ UNCHANGED <<link, toHost, sandboxes>>

(* dispatch gets the next sandbox it needs, or answers that there is none. *)
Lookup(i) ==
  /\ serving[i].stage = "lookup" /\ serving[i].need # <<>>
  /\ IF Head(serving[i].need) \in sandboxes
     THEN serving' = [serving EXCEPT ![i].need = Tail(@)]
     ELSE Answers(i, <<"error">>)
  /\ UNCHANGED <<link, toGuest, toHost, sandboxes>>

(* With all it needs in hand: into the blocking work, or, for a question, to
   the answer.  Nothing sets INTERACTIVE_STDIN, so SendInput is always an error. *)
Dispatch(i) ==
  LET r == serving[i].req
  IN /\ serving[i].stage = "lookup" /\ serving[i].need = <<>>
     /\ \/ r.op \in Blocking /\ Moves(i, "work")
        \/ r.op \in {"ask", "shutdown", "status"} /\ Answers(i, <<"ok">>)
        \/ r.op = "status" /\ Answers(i, <<"error">>)
     /\ UNCHANGED <<link, toGuest, toHost, sandboxes>>

(* DestroySandbox and DiscardAgentOverlay: remove, and say whether it was there. *)
Remove(i) ==
  LET r == serving[i].req
      k == IF r.op = "destroy" THEN Box(r) ELSE Overlay(r)
  IN /\ serving[i].stage = "lookup" /\ r.op \in {"destroy", "discard"}
     /\ sandboxes' = sandboxes \ {k}
     /\ Answers(i, IF k \in sandboxes THEN <<"ok">> ELSE <<"error">>)
     /\ UNCHANGED <<link, toGuest, toHost>>

(* The blocking work, on sandboxes held through their Arcs whether or not they
   are still in the map.  Work that panics ends the task without an answer. *)
Work(i) ==
  LET r == serving[i].req
  IN /\ serving[i].stage = "work"
     /\ \/ r.op \in {"create", "overlay", "merge"} /\ Moves(i, "commit")
        \/ r.op \in {"exec", "tool", "agent"} /\ \E lines \in Ran(r) : Answers(i, lines)
        \/ Answers(i, <<"error">>)
        \/ Moves(i, "lost")
     /\ UNCHANGED <<link, toGuest, toHost, sandboxes>>

(* A variant: a merge that takes the parent out of the map, for its overlay. *)
CommitTakesParent(i) ==
  LET r == serving[i].req
  IN /\ serving[i].stage = "commit"
     /\ sandboxes' = CASE r.op = "create"  -> sandboxes \cup {Box(r)}
                       [] r.op = "overlay" -> sandboxes \cup {Overlay(r)}
                       [] r.op = "merge"   -> sandboxes \ {Box(r)}
     /\ Answers(i, <<"ok">>)
     /\ UNCHANGED <<link, toGuest, toHost>>

(* The map is brought up to date before the answer goes out.  A sandbox that is
   created under an id in use takes its place. *)
Commit(i) ==
  LET r == serving[i].req
  IN /\ serving[i].stage = "commit"
     /\ sandboxes' = CASE r.op = "create"  -> sandboxes \cup {Box(r)}
                       [] r.op = "overlay" -> sandboxes \cup {Overlay(r)}
                       [] r.op = "merge"   -> sandboxes \ {Overlay(r)}
     /\ Answers(i, <<"ok">>)
     /\ UNCHANGED <<link, toGuest, toHost>>

(* send: one line under the writer's lock.  Shutdown exits after its own. *)
Send(i) ==
  LET t == serving[i]
  IN /\ t.stage = "send"
     /\ toHost' = Append(toHost, Line(i, t.lines[t.sent + 1], t.req))
     /\ serving' = [serving EXCEPT ![i].sent = @ + 1,
                                   ![i].stage = IF t.sent + 1 = Len(t.lines) THEN "over" ELSE @]
     /\ link' = IF t.req.op = "shutdown" THEN "down" ELSE link
     /\ UNCHANGED <<toGuest, sandboxes>>

Serve(i) ==
  /\ link = "up"
  /\ Lookup(i) \/ Dispatch(i) \/ Remove(i) \/ Work(i) \/ Commit(i) \/ Send(i)

Guest == Accept \/ \E i \in Id : Serve(i)
=============================================================================
