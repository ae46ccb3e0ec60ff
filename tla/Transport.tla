----------------------------- MODULE Transport ------------------------------
(***************************************************************************)
(* The host's end of the connection to the guest                           *)
(* (mowis-host/src/transport/mod.rs), which the crews of a build share     *)
(* (vsock_transport.rs) after wait_for_executor (main.rs, orch_bridge.rs)  *)
(* has connected and pinged.  A call registers its id, writes its request  *)
(* and waits on a channel that the read loop feeds; calls overlap freely.  *)
(*                                                                         *)
(* A call whose channel closes returns "connection closed before           *)
(* response"; the channel's sender sits in the table of calls in flight,   *)
(* which gives it up for the call's last line alone, so that end of a call *)
(* is not reached.                                                         *)
(***************************************************************************)
EXTENDS Executor

CONSTANTS
  Boot,    \* wait_for_executor
  Client,  \* the tasks that share the connection after it
  Menu     \* the requests each of them may make

Caller == Client \cup {Boot}

ASSUME TransportAssumption ==
  /\ Boot \notin Client /\ None \notin Caller
  /\ Menu \in [Client -> SUBSET Request]

VARIABLES
  boot,     \* where wait_for_executor is
  late,     \* its deadline has passed
  reading,  \* the read loop runs
  next_id,
  inflight, \* per id, whose channel it feeds
  call,     \* each caller's current call, or its last
  rx,       \* its channel
  contested, \* history: callers whose creation overlaps a call for its end
  mine      \* history: keys reported created, uncontested, and not asked away since

host == <<boot, late, reading, next_id, inflight, call, rx>>
told == <<contested, mine>>
vars == <<guest, host, told>>

NoCall == [stage |-> "idle", id |-> 0, req |-> NoTask.req, got |-> <<>>, end |-> "none"]
PingRequest == NoTask.req

Calling == [stage : {"idle", "write", "wait"}, id : Id \cup {0}, req : Request,
            got : Seq(Answer), end : {"none", "exit", "ok", "error", "write"}]

TypeOK ==
  /\ GuestTypeOK
  /\ boot \in {"connecting", "pinging", "ready", "failed"} /\ late \in BOOLEAN
  /\ reading \in BOOLEAN
  /\ next_id \in 1..(MaxId + 1)
  /\ inflight \in [Id -> Caller \cup {None}]
  /\ \A i \in Id : i >= next_id => inflight[i] = None
  /\ call \in [Caller -> Calling]
  /\ rx \in [Caller -> Seq(Answer)]
  /\ contested \subseteq Caller /\ mine \subseteq Key

Init ==
  /\ GuestInit
  /\ boot = "connecting" /\ late = FALSE
  /\ reading = FALSE /\ next_id = 1
  /\ inflight = [i \in Id |-> None]
  /\ call = [c \in Caller |-> NoCall]
  /\ rx = [c \in Caller |-> <<>>]
  /\ contested = {} /\ mine = {}

----------------------------------------------------------------------------
Terminal(kind) == kind \in {"exit", "ok", "error"}

(* The keys a request asks away. *)
Takes(r) ==
  CASE r.op = "destroy" -> {Box(r)}
    [] r.op \in {"merge", "discard"} -> {Overlay(r)}
    [] OTHER -> {}
Gives(r) ==
  CASE r.op = "create"  -> {Box(r)}
    [] r.op = "overlay" -> {Overlay(r)}
    [] OTHER -> {}

(* A request for the end of a key takes it off the list of those that are there,
   and contests every creation of it that it overlaps. *)
Contests(c, r) ==
  LET Under(d) == d # c /\ call[d].stage # "idle"
  IN /\ mine' = mine \ Takes(r)
     /\ contested' =
          {d \in Caller :
             \/ /\ Under(d)
                /\ d \in contested \/ Gives(call[d].req) \cap Takes(r) # {}
             \/ /\ d = c
                /\ \E e \in Caller : Under(e) /\ Takes(call[e].req) \cap Gives(r) # {}}

Registered(c, i, r) == [NoCall EXCEPT !.stage = "write", !.id = i, !.req = r]

----------------------------------------------------------------------------
(* wait_for_executor *)

(* Connected: a new table, a read loop, and a ping as the first call. *)
Connect ==
  /\ boot = "connecting"
  /\ boot' = "pinging"
  /\ link' = "up" /\ reading' = TRUE
  /\ next_id' = 2
  /\ inflight' = [i \in Id |-> IF i = 1 THEN Boot ELSE None]
  /\ call' = [call EXCEPT ![Boot] = Registered(Boot, 1, PingRequest)]
  /\ rx' = [rx EXCEPT ![Boot] = <<>>]
  /\ toGuest' = <<>> /\ toHost' = <<>>
  /\ serving' = [i \in Id |-> NoTask]
  /\ UNCHANGED <<sandboxes, late, told>>

(* Not connected, and past the deadline; before it, it is tried again. *)
ConnectFails ==
  /\ boot = "connecting" /\ late
  /\ boot' = "failed"
  /\ UNCHANGED <<guest, late, reading, next_id, inflight, call, rx, told>>

(* max_secs go by. *)
Deadline ==
  /\ boot \in {"connecting", "pinging"} /\ ~late
  /\ late' = TRUE
  /\ UNCHANGED <<guest, boot, reading, next_id, inflight, call, rx, told>>

(* The ping came back, or could not be written: then another attempt. *)
PingEnds ==
  /\ boot = "pinging" /\ call[Boot].stage = "idle"
  /\ boot' = IF call[Boot].end = "ok" THEN "ready" ELSE IF late THEN "failed" ELSE "connecting"
  /\ UNCHANGED <<guest, late, reading, next_id, inflight, call, rx, told>>

----------------------------------------------------------------------------
(* A variant: the id read and then stored, so that two callers may take the same. *)
CallLoadsThenStores(c) ==
  /\ boot = "ready" /\ call[c].stage = "idle" /\ next_id <= MaxId
  /\ \E r \in Menu[c] : /\ call' = [call EXCEPT ![c] = Registered(c, next_id, r)]
                        /\ Contests(c, r)
  /\ inflight' = [inflight EXCEPT ![next_id] = c]
  /\ rx' = [rx EXCEPT ![c] = <<>>]
  /\ next_id' \in {next_id, next_id + 1}
  /\ UNCHANGED <<guest, boot, late, reading>>

(* call_streaming: a new id and a new channel, in the table before the request
   is written. *)
Call(c) ==
  /\ boot = "ready" /\ call[c].stage = "idle" /\ next_id <= MaxId
  /\ \E r \in Menu[c] : /\ call' = [call EXCEPT ![c] = Registered(c, next_id, r)]
                        /\ Contests(c, r)
  /\ inflight' = [inflight EXCEPT ![next_id] = c]
  /\ rx' = [rx EXCEPT ![c] = <<>>]
  /\ next_id' = next_id + 1
  /\ UNCHANGED <<guest, boot, late, reading>>

(* One line under the writer's lock.  When the link is down the write fails,
   which leaves the id in the table, or is lost in a buffer. *)
Write(c) ==
  /\ call[c].stage = "write"
  /\ \/ /\ link = "up"
        /\ toGuest' = Append(toGuest, [id |-> call[c].id, req |-> call[c].req])
        /\ call' = [call EXCEPT ![c].stage = "wait"]
     \/ /\ link = "down"
        /\ \/ call' = [call EXCEPT ![c].stage = "wait"]
           \/ call' = [call EXCEPT ![c].stage = "idle", ![c].end = "write"]
        /\ UNCHANGED toGuest
  /\ UNCHANGED <<link, toHost, serving, sandboxes, boot, late, reading, next_id, inflight, rx,
                 told>>

(* A variant: an id taken out of the table before its last line is passed on. *)
ReadLineRemovesFirst ==
  /\ reading /\ toHost # <<>>
  /\ toHost' = Tail(toHost)
  /\ LET l == Head(toHost)
         c == inflight[l.id]
     IN /\ inflight' = IF Terminal(l.kind) THEN [inflight EXCEPT ![l.id] = None] ELSE inflight
        /\ rx' = IF inflight'[l.id] # None /\ call[c].id = l.id /\ call[c].stage # "idle"
                 THEN [rx EXCEPT ![c] = Append(@, l)] ELSE rx
  /\ UNCHANGED <<link, toGuest, serving, sandboxes, boot, late, reading, next_id, call, told>>

(* The read loop passes a line on to the channel of its id, if that is in the
   table and its receiver is alive, and takes the id out with the last line. *)
ReadLine ==
  /\ reading /\ toHost # <<>>
  /\ toHost' = Tail(toHost)
  /\ LET l == Head(toHost)
         c == inflight[l.id]
     IN /\ rx' = IF c # None /\ call[c].id = l.id /\ call[c].stage # "idle"
                 THEN [rx EXCEPT ![c] = Append(@, l)] ELSE rx
        /\ inflight' = IF Terminal(l.kind) THEN [inflight EXCEPT ![l.id] = None] ELSE inflight
  /\ UNCHANGED <<link, toGuest, serving, sandboxes, boot, late, reading, next_id, call, told>>

(* End of file, or an error: the loop is left, and the table as it is. *)
ReadEnds ==
  /\ reading /\ link = "down" /\ toHost = <<>>
  /\ reading' = FALSE
  /\ UNCHANGED <<guest, boot, late, next_id, inflight, call, rx, told>>

(* rx.recv().  A call takes its first line for the answer; a command's output is
   read up to its exit code or an error. *)
Receive(c) ==
  /\ call[c].stage = "wait" /\ rx[c] # <<>>
  /\ LET l == Head(rx[c])
         ends == call[c].req.op # "exec" \/ l.kind # "output"
     IN /\ call' = [call EXCEPT ![c].got = Append(@, l),
                                ![c].stage = IF ends THEN "idle" ELSE @,
                                ![c].end = IF ends THEN l.kind ELSE @]
        /\ mine' = IF l.kind = "ok" /\ c \notin contested
                   THEN mine \cup Gives(call[c].req) ELSE mine
  /\ rx' = [rx EXCEPT ![c] = Tail(@)]
  /\ UNCHANGED <<contested, guest, boot, late, reading, next_id, inflight>>

(* The guest stops, or what lies between does: what is on the wire to the guest
   is lost, and of what is on its way back, all or nothing. *)
LinkFails ==
  /\ link = "up"
  /\ link' = "down"
  /\ toGuest' = <<>>
  /\ toHost' \in {toHost, <<>>}
  /\ UNCHANGED <<serving, sandboxes, host, told>>

----------------------------------------------------------------------------
Host ==
  \/ ReadLine \/ ReadEnds
  \/ \E c \in Caller : Write(c) \/ Receive(c)

Next ==
  \/ Connect \/ ConnectFails \/ Deadline \/ PingEnds
  \/ \E c \in Client : Call(c)
  \/ Host
  \/ Guest /\ UNCHANGED <<host, told>>
  \/ LinkFails

Spec == Init /\ [][Next]_vars

(* tokio polls every task of either side, time passes, and an attempt to connect
   comes to a result.  Blocking work is taken to end: commands have no limit of
   time.  Nothing makes a client call. *)
FairSpec ==
  /\ Spec
  /\ WF_vars(Connect \/ ConnectFails \/ PingEnds)
  /\ WF_vars(Deadline)
  /\ WF_vars(ReadLine \/ ReadEnds)
  /\ \A c \in Caller : WF_vars(Write(c)) /\ WF_vars(Receive(c))
  /\ WF_vars(Accept /\ UNCHANGED <<host, told>>)
  /\ \A i \in Id : WF_vars(Serve(i) /\ UNCHANGED <<host, told>>)

----------------------------------------------------------------------------
(* Properties *)

(* However answers overtake each other, every line a call is given answers that
   call's own request (fetch_add on next_id, the table of calls in flight). *)
AnswerIsOwn ==
  \A c \in Caller : \A k \in DOMAIN call[c].got :
    call[c].got[k].id = call[c].id /\ call[c].got[k].req = call[c].req

(* What a caller was told is created is there to be used, until someone asks for
   its end (the map is changed before the answer, and nothing else takes it). *)
CreatedIsThere == mine \subseteq sandboxes

(* A call is answered, unless the connection fails or its own work panics. *)
Unanswered(c) == call[c].stage = "wait" /\ link = "up"
CallAnswered ==
  \A c \in Caller :
    Unanswered(c) ~> ~Unanswered(c) \/ serving[call[c].id].stage = "lost"

----------------------------------------------------------------------------
(* The inductive invariant. *)

Live(c) == call[c].stage # "idle"

(* Where the request of a call can be on its way, until it is answered. *)
Unserved(i) == serving[i].stage \in {"lookup", "work", "commit"}
Served(i)   == serving[i].stage \in {"send", "over"}

(* Before the guest has answered the ping, nobody else calls. *)
BootOK ==
  /\ boot # "ready" => \A c \in Client : call[c].stage = "idle" /\ call[c].id = 0
  /\ boot = "connecting" => ~Live(Boot)
  /\ call[Boot].req = PingRequest

(* An id is one call's, for good. *)
IdsOK ==
  /\ \A c \in Caller : /\ call[c].id < next_id
                       /\ Live(c) => call[c].id # 0
  /\ \A c, d \in Caller : call[c].id = call[d].id /\ call[c].id # 0 => c = d
  /\ \A k \in DOMAIN toGuest : toGuest[k].id < next_id
  /\ \A i \in Id : serving[i].stage # "none" => i < next_id

(* What a task has to send and has sent. *)
PlainAnswer == {<<"ok">>, <<"error">>}

TaskOK(t) ==
  /\ t.stage \in {"none", "lookup", "work", "commit"} => t.sent = 0
  /\ t.stage = "send" => t.sent < Len(t.lines)
  /\ Len(t.lines) <= 3 /\ t.sent <= Len(t.lines)
  /\ t.stage = "commit" => t.req.op \in {"create", "overlay", "merge"}
  /\ t.stage = "send" /\ t.req.op # "exec" => t.lines \in PlainAnswer

TasksOK == \A i \in Id : TaskOK(serving[i])

(* Only a command has output. *)
KindsOK ==
  /\ \A k \in DOMAIN toHost : toHost[k].kind = "output" => toHost[k].req.op = "exec"
  /\ \A c \in Caller : \A k \in DOMAIN rx[c] :
       rx[c][k].kind = "output" => rx[c][k].req.op = "exec"

(* A request is at one place, and its caller waits until there is an answer. *)
OnceOK ==
  /\ \A j, k \in DOMAIN toGuest : toGuest[j].id = toGuest[k].id => j = k
  /\ \A k \in DOMAIN toGuest :
       /\ serving[toGuest[k].id].stage = "none"
       /\ \E c \in Caller : call[c].id = toGuest[k].id /\ call[c].stage = "wait"
  /\ \A i \in Id : Unserved(i) => \E c \in Caller : call[c].id = i /\ call[c].stage = "wait"
  /\ \A c \in Caller : call[c].stage = "write" =>
       /\ serving[call[c].id].stage = "none"
       /\ \A k \in DOMAIN toGuest : toGuest[k].id # call[c].id
  /\ \A k \in DOMAIN toHost : Served(toHost[k].id)
  /\ \A c \in Caller : \A k \in DOMAIN rx[c] : Served(rx[c][k].id)

(* What is asked and answered under an id is the request of its call. *)
OwnOK ==
  /\ \A c \in Caller : \A k \in DOMAIN toGuest :
       toGuest[k].id = call[c].id => toGuest[k].req = call[c].req
  /\ \A c \in Caller : call[c].id # 0 /\ serving[call[c].id].stage # "none" =>
       serving[call[c].id].req = call[c].req
  /\ \A c \in Caller : \A k \in DOMAIN toHost :
       toHost[k].id = call[c].id => toHost[k].req = call[c].req
  /\ \A c \in Caller : \A k \in DOMAIN rx[c] :
       rx[c][k].id = call[c].id /\ rx[c][k].req = call[c].req

(* A success of c's call is on its way. *)
Succeeds(c) ==
  \/ \E k \in DOMAIN toHost : toHost[k].id = call[c].id /\ toHost[k].kind = "ok"
  \/ \E k \in DOMAIN rx[c] : rx[c][k].kind = "ok"
  \/ serving[call[c].id].stage = "send" /\ serving[call[c].id].lines = <<"ok">>

(* A creation that overlaps a call for its end is contested; of the others,
   what they are to be told is there, and what a live call asks away is not
   among what callers were told is theirs. *)
CreationsOK ==
  /\ \A c, d \in Caller :
       Live(c) /\ Live(d) /\ c # d /\ Gives(call[c].req) \cap Takes(call[d].req) # {} =>
         c \in contested
  /\ \A c \in Caller : Live(c) => Takes(call[c].req) \cap mine = {}
  /\ \A c \in Caller : Live(c) /\ c \notin contested /\ Succeeds(c) =>
       Gives(call[c].req) \subseteq sandboxes
  /\ CreatedIsThere

IInv ==
  /\ TypeOK /\ BootOK /\ IdsOK /\ TasksOK /\ KindsOK
  /\ OnceOK /\ OwnOK /\ AnswerIsOwn /\ CreationsOK
=============================================================================
