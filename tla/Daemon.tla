------------------------------- MODULE Daemon -------------------------------
(***************************************************************************)
(* Requests to the agentd daemon: the pooled client (socket_client.rs),    *)
(* the direct one (socket_roundtrip), and the server's accept loop, its    *)
(* two lanes and their workers (socket_server.rs), with the containers     *)
(* that create_container and destroy_container add and remove.             *)
(*                                                                         *)
(* A connection is a request and the number of the try it is made for.     *)
(* agentd stays up; it may be slow for as long as it likes.                *)
(***************************************************************************)
EXTENDS Naturals, Sequences, FiniteSets

CONSTANTS
  Call,                 \* requests with one answer
  Pooled, Fast,         \* those sent through the pool, those of the fast lane
  Creates, Destroys,    \* create_container, destroy_container
  On,                   \* the create whose container a call is about
  After,                \* the calls a caller waits for before it makes one
  Home,                 \* the orchestration that makes a call, if agentd runs it
  Subscriber, Orchestration, Silent,  \* connections of other kinds
  Tries,                \* MAX_RETRIES + 1, in both clients
  PoolWorkers, QueueDepth, FastWorkers, SlowWorkers,
  None

Other == Subscriber \cup Orchestration \cup Silent

ASSUME DaemonAssumption ==
  /\ Pooled \subseteq Call /\ Fast \subseteq Call
  /\ Creates \cup Destroys \subseteq Call /\ Creates \cap Destroys = {}
  /\ On \in [Call -> Creates \cup {None}]
  /\ \A d \in Destroys : On[d] # None
  /\ After \in [Call -> SUBSET Call]
  /\ Home \in [Call -> Orchestration \cup {None}]
  /\ Call \cap Other = {} /\ None \notin Call \cup Other
  /\ {Tries, PoolWorkers, QueueDepth, FastWorkers, SlowWorkers} \subseteq Nat \ {0}

VARIABLES
  client,    \* what the caller of a request is at
  try,       \* the number of its try
  pool,      \* the pool's queue
  conn,      \* the connections made so far and how far each one is
  backlog,   \* connections the accept loop has not taken
  lane,      \* the two work queues
  made, live, \* connections that created a container; the containers there are
  begun, ended  \* history: executions of each call

vars == <<client, try, pool, conn, backlog, lane, made, live, begun, ended>>
clientVars == <<client, try, pool>>
serverVars == <<lane, made, live, begun, ended>>

Conn == (Call \X (1..Tries)) \cup (Other \X {1})
Current(c) == <<c, try[c]>>
Waiting == {"connecting", "writing", "reading"}
Returned == {"ok", "error"}
Progress == {"connected", "sent", "queued", "running", "answered", "closed"}

Lane == {"fast", "slow"}

Becomes(x, p) == conn' = [conn EXCEPT ![x] = p]

TypeOK ==
  /\ client \in [Call -> {"idle", "submitting", "queued"} \cup Waiting \cup Returned]
  /\ try \in [Call -> 0..Tries]
  /\ pool \in Seq(Pooled) /\ Len(pool) <= QueueDepth
  /\ DOMAIN conn \subseteq Conn /\ conn \in [DOMAIN conn -> Progress]
  /\ backlog \in Seq(DOMAIN conn)
  /\ lane \in [Lane -> Seq(DOMAIN conn)]
  /\ live \subseteq made /\ made \subseteq Creates \X (1..Tries)
  /\ begun \in [Call -> Nat] /\ ended \in [Call -> Nat]

Init ==
  /\ client = [c \in Call |-> "idle"]
  /\ try = [c \in Call |-> 0]
  /\ pool = <<>>
  /\ conn = [x \in {} |-> "connected"]
  /\ backlog = <<>>
  /\ lane = [l \in Lane |-> <<>>]
  /\ made = {} /\ live = {}
  /\ begun = [c \in Call |-> 0] /\ ended = begun

----------------------------------------------------------------------------
(* The clients *)

Underway(c) == client[c] \in {"submitting", "queued"} \cup Waiting
Moves(c, p) == client' = [client EXCEPT ![c] = p]

(* A caller that needs a container has the id of one that was created. *)
HasContainer(c) ==
  On[c] # None => client[On[c]] = "ok" /\ Current(On[c]) \in made

(* A pooled request is for the pool's bounded queue, a direct one is sent by
   its caller. *)
Make(c) ==
  /\ client[c] = "idle"
  /\ \A d \in After[c] : client[d] \in Returned
  /\ HasContainer(c)
  /\ Home[c] # None => <<Home[c], 1>> \in DOMAIN conn /\ conn[<<Home[c], 1>>] = "running"
  /\ IF c \in Pooled
     THEN Moves(c, "submitting") /\ UNCHANGED try
     ELSE Moves(c, "connecting") /\ try' = [try EXCEPT ![c] = 1]
  /\ UNCHANGED <<pool, conn, backlog, serverVars>>

Submit(c) ==
  /\ client[c] = "submitting" /\ Len(pool) < QueueDepth
  /\ Moves(c, "queued")
  /\ pool' = Append(pool, c)
  /\ UNCHANGED <<try, conn, backlog, serverVars>>

(* A worker of the pool, one request at a time. *)
Take ==
  /\ pool # <<>>
  /\ Cardinality({c \in Pooled : client[c] \in Waiting}) < PoolWorkers
  /\ LET c == Head(pool)
     IN Moves(c, "connecting") /\ try' = [try EXCEPT ![c] = 1]
  /\ pool' = Tail(pool)
  /\ UNCHANGED <<conn, backlog, serverVars>>

(* A variant: the tries are counted from the other end. *)
RetryOnceMore(c) ==
  IF try[c] <= Tries
  THEN try' = [try EXCEPT ![c] = @ + 1] /\ Moves(c, "connecting")
  ELSE Moves(c, "error") /\ UNCHANGED try

(* One try more, over a connection of its own, or the error of the last. *)
Retry(c) ==
  IF try[c] < Tries
  THEN try' = [try EXCEPT ![c] = @ + 1] /\ Moves(c, "connecting")
  ELSE Moves(c, "error") /\ UNCHANGED try

GiveUp(c) == Moves(c, "error") /\ UNCHANGED try

(* The direct client does not repeat a failed connect (the "?" of connect), nor
   a failed write: it looks for "broken pipe" in an error that says "Broken
   pipe". *)
Fails(c) == IF c \in Pooled THEN Retry(c) ELSE GiveUp(c)

Opened(x, p) == [y \in DOMAIN conn \cup {x} |-> IF y = x THEN p ELSE conn[y]]

Connect(c) ==
  /\ client[c] = "connecting"
  /\ Moves(c, "writing")
  /\ conn' = Opened(Current(c), "connected")
  /\ backlog' = Append(backlog, Current(c))
  /\ UNCHANGED <<try, pool, serverVars>>

ConnectFails(c) ==
  /\ client[c] = "connecting" /\ Fails(c)
  /\ UNCHANGED <<pool, conn, backlog, serverVars>>

Write(c) ==
  /\ client[c] = "writing" /\ conn[Current(c)] = "connected"
  /\ Moves(c, "reading")
  /\ Becomes(Current(c), "sent")
  /\ UNCHANGED <<try, pool, backlog, serverVars>>

(* The server has closed the connection, or takes nothing for ten seconds. *)
WriteFails(c) ==
  /\ client[c] = "writing" /\ Fails(c)
  /\ UNCHANGED <<pool, conn, backlog, serverVars>>

ReadAnswer(c) ==
  /\ client[c] = "reading" /\ conn[Current(c)] = "answered"
  /\ Moves(c, "ok")
  /\ UNCHANGED <<try, pool, conn, backlog, serverVars>>

(* A variant: an answer that does not come is awaited for ever. *)
ReadTimeoutOnce(c) ==
  /\ client[c] = "reading" /\ conn[Current(c)] # "answered"
  /\ try[c] < Tries /\ Retry(c)
  /\ UNCHANGED <<pool, conn, backlog, serverVars>>

(* No answer in time: ten minutes for the pool, one for the direct client. *)
ReadTimeout(c) ==
  /\ client[c] = "reading" /\ conn[Current(c)] # "answered"
  /\ Retry(c)
  /\ UNCHANGED <<pool, conn, backlog, serverVars>>

(* A program that watches events, has agentd orchestrate, or sends nothing. *)
Visit(s) ==
  /\ <<s, 1>> \notin DOMAIN conn
  /\ conn' = Opened(<<s, 1>>, IF s \in Silent THEN "connected" ELSE "sent")
  /\ backlog' = Append(backlog, <<s, 1>>)
  /\ UNCHANGED <<clientVars, serverVars>>

----------------------------------------------------------------------------
(* The server *)

LaneOf(x) == IF x[1] \in Fast THEN "fast" ELSE "slow"
Workers(l) == IF l = "fast" THEN FastWorkers ELSE SlowWorkers
Busy(l) == Cardinality({x \in DOMAIN conn : conn[x] = "running" /\ LaneOf(x) = l})

(* The accept loop reads a request itself and gives it to its lane, whether or
   not the caller still waits. *)
Accept ==
  /\ backlog # <<>>
  /\ LET x == Head(backlog)
     IN /\ conn[x] = "sent"
        /\ Becomes(x, "queued")
        /\ lane' = [lane EXCEPT ![LaneOf(x)] = Append(@, x)]
  /\ backlog' = Tail(backlog)
  /\ UNCHANGED <<clientVars, made, live, begun, ended>>

(* No request within thirty seconds, which every other connection waits. *)
AcceptTimeout ==
  /\ backlog # <<>> /\ conn[Head(backlog)] = "connected"
  /\ Becomes(Head(backlog), "closed")
  /\ backlog' = Tail(backlog)
  /\ UNCHANGED <<clientVars, serverVars>>

(* A variant: the job stays at the head of the queue. *)
Peek(l) == lane' = lane

Pop(l) == lane' = [lane EXCEPT ![l] = Tail(@)]

(* A worker takes a job.  A subscriber keeps its worker for good. *)
Begin(l) ==
  /\ lane[l] # <<>> /\ Busy(l) < Workers(l)
  /\ LET x == Head(lane[l])
     IN /\ Becomes(x, "running")
        /\ begun' = IF x[1] \in Call THEN [begun EXCEPT ![x[1]] = @ + 1] ELSE begun
  /\ Pop(l)
  /\ UNCHANGED <<clientVars, backlog, made, live, ended>>

(* A variant: the container the first try created. *)
DestroyedOfFirstTry(d) == <<On[d], 1>>

(* The container whose id the caller has. *)
Destroyed(d) == Current(On[d])

(* handle_request and the answer; the work may have failed. *)
End(x) ==
  /\ x[1] \in Call /\ conn[x] = "running"
  /\ Becomes(x, "answered")
  /\ ended' = [ended EXCEPT ![x[1]] = @ + 1]
  /\ \/ x[1] \in Creates /\ made' = made \cup {x} /\ live' = live \cup {x}
     \/ x[1] \in Destroys /\ live' = live \ {Destroyed(x[1])} /\ UNCHANGED made
     \/ x[1] \notin Destroys /\ UNCHANGED <<made, live>>
  /\ UNCHANGED <<clientVars, backlog, lane, begun>>

(* An orchestration ends when no call of it is under way, successful or not. *)
EndOrchestration(s) ==
  /\ <<s, 1>> \in DOMAIN conn /\ conn[<<s, 1>>] = "running"
  /\ \A c \in Call : Home[c] = s => ~Underway(c)
  /\ Becomes(<<s, 1>>, "answered")
  /\ UNCHANGED <<clientVars, backlog, serverVars>>

----------------------------------------------------------------------------
ClientStep(c) ==
  \/ Connect(c) \/ ConnectFails(c) \/ Write(c) \/ WriteFails(c)
  \/ ReadAnswer(c) \/ ReadTimeout(c)

Next ==
  \/ \E c \in Call : Make(c) \/ Submit(c) \/ ClientStep(c)
  \/ Take
  \/ \E s \in Other : Visit(s)
  \/ Accept \/ AcceptTimeout
  \/ \E l \in Lane : Begin(l)
  \/ \E x \in DOMAIN conn : End(x)
  \/ \E s \in Orchestration : EndOrchestration(s)

(* The threads of the clients go on, and an orchestration comes to its end.  Of
   the work agentd does on a request nothing is assumed. *)
Fairness ==
  /\ \A c \in Call : WF_vars(Submit(c)) /\ WF_vars(ClientStep(c))
  /\ WF_vars(Take)
  /\ \A s \in Orchestration : WF_vars(EndOrchestration(s))

Spec == Init /\ [][Next]_vars /\ Fairness

----------------------------------------------------------------------------
(* Properties *)

(* A container that exists is the one its creator was told of, and then no
   destroy_container for it was answered; or its creator has sent the request
   again or given it up.  So agentd leaks a container only by a retry. *)
Accounted ==
  \A x \in live :
    LET k == x[1]
    IN IF client[k] = "ok" /\ x = Current(k)
       THEN \A d \in Destroys : On[d] = k => client[d] # "ok"
       ELSE client[k] # "ok" \/ try[k] > 1

(* However long agentd takes, and whoever keeps its workers, the caller of a
   request that was made has its answer or its error in the end. *)
CallerAnswered == \A c \in Call : Underway(c) ~> client[c] \in Returned

(* What the pool, the retries, the lanes and the workers come to for a caller:
   an execution for each time the request is sent, at most. *)
Phase(c) ==
  CASE client[c] = "idle" -> "idle"
    [] Underway(c) -> "open"
    [] OTHER -> client[c]
With(c, ps) == {x \in DOMAIN conn : x[1] = c /\ conn[x] \in ps}
Sent(c) == Cardinality(With(c, Progress \ {"connected", "closed"}))

Requests == INSTANCE Rpc WITH
  phase <- [c \in Call |-> Phase(c)],
  sent <- [c \in Call |-> Sent(c)]

ImplementsRpc == Requests!Spec

----------------------------------------------------------------------------
(* The inductive invariant. *)

(* A request of the pool is in its queue once, as long as it is "queued".  Each
   try has a connection of its own; a caller writes to one that has not sent, and
   has its answer from one that has been served. *)
ClientOK ==
  /\ \A i \in DOMAIN pool : client[pool[i]] = "queued"
  /\ \A i, j \in DOMAIN pool : i # j => pool[i] # pool[j]
  /\ \A c \in Call : client[c] = "submitting" => c \in Pooled
  /\ \A c \in Call : client[c] \in {"idle", "submitting", "queued"} <=> try[c] = 0
  /\ \A x \in DOMAIN conn : x[1] \in Call =>
       /\ x[2] <= try[x[1]]
       /\ client[x[1]] = "connecting" => x[2] # try[x[1]]
  /\ \A c \in Call :
       /\ client[c] \in {"writing", "reading", "ok"} => Current(c) \in DOMAIN conn
       /\ client[c] = "writing" => conn[Current(c)] \in {"connected", "closed"}
       /\ client[c] = "ok" => conn[Current(c)] = "answered"

(* A connection is in one place of one queue at most, the one of its progress. *)
QueuesOK ==
  /\ \A i \in DOMAIN backlog : conn[backlog[i]] \in {"connected", "sent"}
  /\ \A i, j \in DOMAIN backlog : i # j => backlog[i] # backlog[j]
  /\ \A l \in Lane :
       /\ \A i \in DOMAIN lane[l] : conn[lane[l][i]] = "queued" /\ LaneOf(lane[l][i]) = l
       /\ \A i, j \in DOMAIN lane[l] : i # j => lane[l][i] # lane[l][j]

(* The history counts the connections that were taken and answered. *)
HistoryOK == \A c \in Call :
  /\ begun[c] = Cardinality(With(c, {"running", "answered"}))
  /\ ended[c] = Cardinality(With(c, {"answered"}))

(* Containers are those of answered creates; a destroy is of one its caller
   was told of, which is gone once the destroy is answered. *)
ContainersOK ==
  /\ \A x \in made : x \in DOMAIN conn /\ conn[x] = "answered"
  /\ \A d \in Destroys : client[d] # "idle" => client[On[d]] = "ok"
  /\ \A x \in DOMAIN conn : x[1] \in Destroys /\ conn[x] = "answered" => Destroyed(x[1]) \notin live

IInv == TypeOK /\ ClientOK /\ QueuesOK /\ HistoryOK /\ ContainersOK
----------------------------------------------------------------------------
(* What a caller has ahead. *)

CallerRank ==
  [idle |-> 6, submitting |-> 5, queued |-> 4, connecting |-> 3, writing |-> 2, reading |-> 1,
   ok |-> 0, error |-> 0]

(* The steps of its own that a caller still takes at most. *)
CallerAhead(c) == 4 * (Tries - try[c]) + CallerRank[client[c]]

(* A step of c itself, or of the pool on its behalf. *)
CallerStep(c) == Make(c) \/ Submit(c) \/ (Take /\ c = Head(pool)) \/ ClientStep(c)

(* Whatever agentd does or leaves undone, each step of a caller brings its return
   nearer, and no step puts anybody's off. *)
NearerTheReturn ==
  [][\A c \in Call : IF CallerStep(c) THEN CallerAhead(c)' < CallerAhead(c)
                    ELSE CallerAhead(c)' = CallerAhead(c)]_vars
=============================================================================
