--------------------------- MODULE TransportProofs ---------------------------
(***************************************************************************)
(* Theorems about the connection of host and guest, for any clients, any   *)
(* requests they may make, sandboxes and agents, and any number of calls.  *)
(***************************************************************************)
EXTENDS Transport, TLAPS

USE ExecutorAssumption, TransportAssumption

----------------------------------------------------------------------------
(* Queues of lines. *)

LEMMA Appended ==
  ASSUME NEW S, NEW s \in Seq(S), NEW e \in S
  PROVE  /\ Append(s, e) \in Seq(S)
         /\ \A k \in DOMAIN Append(s, e) :
              \/ k \in DOMAIN s /\ Append(s, e)[k] = s[k]
              \/ k = Len(s) + 1 /\ k \notin DOMAIN s /\ Append(s, e)[k] = e
OBVIOUS

LEMMA Shifted ==
  ASSUME NEW S, NEW s \in Seq(S), s # <<>>
  PROVE  /\ Head(s) \in S /\ 1 \in DOMAIN s /\ Head(s) = s[1]
         /\ Tail(s) \in Seq(S)
         /\ \A k \in DOMAIN Tail(s) : /\ k \in Nat /\ k + 1 \in DOMAIN s /\ k + 1 # 1
                                     /\ Tail(s)[k] = s[k + 1]
OBVIOUS

----------------------------------------------------------------------------
(* Requests and tasks. *)

LEMMA PingNeedsNothing ==
  /\ PingRequest \in Request /\ PingRequest.op = "ask"
  /\ NoTask \in Serving /\ NoTask.stage = "none" /\ NoTask.req = PingRequest /\ TaskOK(NoTask)
  /\ NoCall \in Calling /\ NoCall.stage = "idle" /\ NoCall.id = 0 /\ NoCall.req = PingRequest
  /\ NoCall.got = <<>>
<1>1. NoTask = [req |-> PingRequest, stage |-> "none", need |-> <<>>, lines |-> <<>>, sent |-> 0]
  BY DEF NoTask, PingRequest
<1>2. PingRequest = [op |-> "ask", box |-> None, agent |-> None]
  BY DEF NoTask, PingRequest
<1>3. PingRequest \in Request /\ PingRequest.op = "ask"  BY <1>2 DEF Request
<1>4. NoTask \in Serving  BY <1>1, <1>3 DEF Serving
<1>5. TaskOK(NoTask)  BY <1>1 DEF TaskOK
<1>6. NoCall = [stage |-> "idle", id |-> 0, req |-> PingRequest, got |-> <<>>, end |-> "none"]
  BY DEF NoCall, PingRequest
<1>7. NoCall \in Calling  BY <1>3, <1>6 DEF Calling
<1> QED  BY <1>1, <1>3, <1>4, <1>5, <1>6, <1>7

(* What a request gives and what it takes. *)
LEMMA GivesTakes ==
  ASSUME NEW r \in Request
  PROVE  /\ Gives(r) \subseteq Key
         /\ Gives(r) # {} => r.op \in {"create", "overlay"}
         /\ Takes(r) # {} => r.op \in {"destroy", "merge", "discard"}
         /\ r.op = "create" => Gives(r) = {Box(r)}
         /\ r.op = "overlay" => Gives(r) = {Overlay(r)}
         /\ r.op = "destroy" => Takes(r) = {Box(r)}
         /\ r.op \in {"merge", "discard"} => Takes(r) = {Overlay(r)}
<1>1. /\ r.op = "create" => Gives(r) = {Box(r)}
      /\ r.op = "overlay" => Gives(r) = {Overlay(r)}
      /\ r.op \notin {"create", "overlay"} => Gives(r) = {}
  BY DEF Gives
<1>2. /\ r.op = "destroy" => Takes(r) = {Box(r)}
      /\ r.op \in {"merge", "discard"} => Takes(r) = {Overlay(r)}
      /\ r.op \notin {"destroy", "merge", "discard"} => Takes(r) = {}
  BY DEF Takes
<1>3. r.op \in {"create", "overlay"} => r.box \in Name /\ r.agent \in Agent \cup {None}
  BY DEF Request
<1>4. r.op \in {"create", "overlay"} => Gives(r) \subseteq Key
  BY <1>1, <1>3 DEF Key, Box, Overlay
<1> QED  BY <1>1, <1>2, <1>4

LEMMA NeedsKeys ==
  ASSUME NEW r \in Request
  PROVE  Needs(r) \in Seq(Key)
<1>1. r.op \in {"tool", "overlay", "merge"} \/ (r.op = "exec" /\ r.box # None) => Box(r) \in Key
  BY DEF Request, Box, Key
<1>2. r.op \in {"merge", "agent", "status"} => Overlay(r) \in Key
  BY DEF Request, Overlay, Key
<1> DEFINE p == IF r.op \in {"tool", "overlay", "merge"} \/ (r.op = "exec" /\ r.box # None)
                THEN <<Box(r)>> ELSE <<>>
           q == IF r.op \in {"merge", "agent", "status"} THEN <<Overlay(r)>> ELSE <<>>
<1>3. p \in Seq(Key) /\ q \in Seq(Key)  BY <1>1, <1>2
<1>4. Needs(r) = p \o q  BY DEF Needs
<1> HIDE DEF p, q
<1> QED  BY <1>3, <1>4

LEMMA InitIInv == Init => IInv
<1> SUFFICES ASSUME Init PROVE IInv
  OBVIOUS
<1> USE DEF Init, GuestInit
<1>1. TypeOK
  <2>1. /\ serving \in [Id -> Serving] /\ \A i \in Id : serving[i].sent <= Len(serving[i].lines)
    <3>1. NoTask.sent <= Len(NoTask.lines)  BY PingNeedsNothing DEF TaskOK
    <3> QED  BY <3>1, PingNeedsNothing
  <2>2. call \in [Caller -> Calling]  BY PingNeedsNothing
  <2>3. toGuest \in Seq(Asking) /\ toHost \in Seq(Answer) /\ rx \in [Caller -> Seq(Answer)]
    OBVIOUS
  <2>4. next_id \in 1..(MaxId + 1) /\ inflight \in [Id -> Caller \cup {None}]
    OBVIOUS
  <2> QED  BY <2>1, <2>2, <2>3, <2>4 DEF TypeOK, GuestTypeOK
<1>2. BootOK  BY PingNeedsNothing DEF BootOK, Live, Caller
<1>3. IdsOK  BY PingNeedsNothing DEF IdsOK, Live
<1>4. TasksOK  BY PingNeedsNothing DEF TasksOK
<1>5. OnceOK  BY PingNeedsNothing DEF OnceOK, Unserved
<1>6. OwnOK  BY PingNeedsNothing DEF OwnOK
<1>7. AnswerIsOwn  BY PingNeedsNothing DEF AnswerIsOwn
<1>8. CreationsOK  BY PingNeedsNothing DEF CreationsOK, Live, CreatedIsThere
<1>9. KindsOK  BY DEF KindsOK
<1> QED  BY <1>1, <1>2, <1>3, <1>4, <1>5, <1>6, <1>7, <1>8, <1>9 DEF IInv

----------------------------------------------------------------------------
(* The guest. *)

(* What TypeOK says of the guest and of the host, apart. *)
LEMMA TypeParts ==
  ASSUME TypeOK
  PROVE  /\ toGuest \in Seq(Asking) /\ toHost \in Seq(Answer) /\ serving \in [Id -> Serving]
         /\ call \in [Caller -> Calling] /\ rx \in [Caller -> Seq(Answer)]
         /\ inflight \in [Id -> Caller \cup {None}]
         /\ \A k \in DOMAIN toGuest : toGuest[k].id \in Id /\ toGuest[k].req \in Request
         /\ \A k \in DOMAIN toHost : toHost[k].id \in Id /\ toHost[k].req \in Request
         /\ \A c \in Caller : \A k \in DOMAIN rx[c] : rx[c][k] \in Answer /\ rx[c][k].id \in Id
         /\ \A c \in Caller : call[c].req \in Request /\ call[c].id \in Id \cup {0}
         /\ \A i \in Id : serving[i].req \in Request
<1>1. /\ toGuest \in Seq(Asking) /\ toHost \in Seq(Answer) /\ serving \in [Id -> Serving]
      /\ call \in [Caller -> Calling] /\ rx \in [Caller -> Seq(Answer)]
      /\ inflight \in [Id -> Caller \cup {None}]
  BY DEF TypeOK, GuestTypeOK
<1>2. /\ \A k \in DOMAIN toGuest : toGuest[k] \in Asking
      /\ \A k \in DOMAIN toHost : toHost[k] \in Answer
      /\ \A c \in Caller : \A k \in DOMAIN rx[c] : rx[c][k] \in Answer
  BY <1>1
<1> QED  BY <1>1, <1>2 DEF Asking, Answer, Calling, Serving

(* The caller that a task in the works is for. *)
LEMMA Awaited ==
  ASSUME IInv, NEW i \in Id, Unserved(i)
  PROVE  \E c \in Caller : /\ call[c].id = i /\ Live(c) /\ call[c].req = serving[i].req
                           /\ i # 0
<1>1. PICK c \in Caller : call[c].id = i /\ call[c].stage = "wait"
  BY DEF IInv, OnceOK
<1>2. serving[i].stage # "none"  BY DEF Unserved
<1>3. i # 0  BY DEF Id
<1> QED  BY <1>1, <1>2, <1>3 DEF IInv, OwnOK, Live

(* A task goes on, and may take from the map what its request asks away or put
   there what it gives; the lines it is to send say whether it did. *)
LEMMA TaskStep ==
  ASSUME IInv, NEW i \in Id, Unserved(i), NEW t \in Serving, serving' = [serving EXCEPT ![i] = t],
         t.req = serving[i].req, TaskOK(t), t.stage \notin {"none", "over"},
         t.stage = "send" /\ t.lines = <<"ok">> => Gives(t.req) \subseteq sandboxes',
         sandboxes' \subseteq Key, sandboxes \ sandboxes' \subseteq Takes(t.req),
         UNCHANGED <<link, toGuest, toHost, host, told>>
  PROVE  IInv'
<1>1. /\ serving \in [Id -> Serving]
      /\ serving'[i] = t /\ \A j \in Id : j # i => serving'[j] = serving[j]
  BY TypeParts DEF IInv
<1>2. UNCHANGED <<boot, late, reading, next_id, inflight, call, rx, contested, mine>>
  BY DEF host, told
<1>3. /\ \A k \in DOMAIN toHost : toHost[k].id # i
      /\ \A c \in Caller : \A k \in DOMAIN rx[c] : rx[c][k].id # i
      /\ \A k \in DOMAIN toGuest : toGuest[k].id # i
      /\ \A c \in Caller : call[c].stage = "write" => call[c].id # i
  BY DEF IInv, OnceOK, Served, Unserved
<1>4. TypeOK'
  <2>1. serving' \in [Id -> Serving]  BY <1>1
  <2>2. \A j \in Id : serving'[j].sent <= Len(serving'[j].lines)
    BY <1>1 DEF IInv, TypeOK, GuestTypeOK, TaskOK
  <2> QED  BY <1>2, <2>1, <2>2 DEF IInv, TypeOK, GuestTypeOK
<1>5. BootOK'  BY <1>2 DEF IInv, BootOK, Live
<1>6. IdsOK'
  <2>1. serving[i].stage # "none"  BY DEF Unserved
  <2>2. \A j \in Id : serving'[j].stage # "none" => j < next_id
    BY <1>1, <2>1 DEF IInv, IdsOK
  <2> QED  BY <1>2, <2>2 DEF IInv, IdsOK, Live
<1>7. TasksOK'  BY <1>1 DEF IInv, TasksOK
<1>8. OnceOK'
  <2>1. \A k \in DOMAIN toGuest : toGuest[k].id \in Id /\ serving'[toGuest[k].id].stage = "none"
    BY <1>1, <1>3, TypeParts DEF IInv, OnceOK
  <2>2. \A j \in Id : Unserved(j)' => \E c \in Caller : call[c].id = j /\ call[c].stage = "wait"
    BY <1>1 DEF IInv, OnceOK, Unserved
  <2>3. \A c \in Caller : call[c].stage = "write" => serving'[call[c].id].stage = "none"
    <3>1. \A c \in Caller : call[c].stage = "write" => call[c].id \in Id
      BY TypeParts DEF IInv, IdsOK, Live
    <3> QED  BY <1>1, <1>3, <3>1 DEF IInv, OnceOK
  <2>4. /\ \A k \in DOMAIN toHost : Served(toHost[k].id)'
        /\ \A c \in Caller : \A k \in DOMAIN rx[c] : Served(rx[c][k].id)'
    <3>1. \A j \in Id : j # i => (Served(j)' <=> Served(j))  BY <1>1 DEF Served
    <3>2. /\ \A k \in DOMAIN toHost : toHost[k].id \in Id /\ Served(toHost[k].id)
          /\ \A c \in Caller : \A k \in DOMAIN rx[c] : rx[c][k].id \in Id /\ Served(rx[c][k].id)
      BY TypeParts DEF IInv, OnceOK
    <3> QED  BY <1>2, <1>3, <3>1, <3>2 DEF Served
  <2> QED  BY <1>2, <2>1, <2>2, <2>3, <2>4 DEF IInv, OnceOK
<1>9. OwnOK'
  <2>1. \A c \in Caller : call[c].id # 0 /\ serving'[call[c].id].stage # "none" =>
          serving'[call[c].id].req = call[c].req
    <3>1. TAKE c \in Caller
    <3>2. call[c].id # 0 => call[c].id \in Id  BY TypeParts DEF IInv
    <3>3. serving[i].stage # "none"  BY DEF Unserved
    <3> QED  BY <1>1, <3>2, <3>3 DEF IInv, OwnOK
  <2> QED  BY <1>2, <2>1 DEF IInv, OwnOK
<1>10. AnswerIsOwn'  BY <1>2 DEF IInv, AnswerIsOwn
<1>11. CreationsOK'
  <2>1. PICK d \in Caller : call[d].id = i /\ Live(d) /\ call[d].req = t.req /\ i # 0
    BY Awaited
  <2>2. \A c \in Caller : Live(c) /\ c \notin contested =>
          Gives(call[c].req) \cap Takes(t.req) = {}
    <3>1. TAKE c \in Caller
    <3>2. CASE c = d  BY <2>1, <3>2, GivesTakes, TypeParts DEF IInv
    <3>3. CASE c # d  BY <2>1, <3>3 DEF IInv, CreationsOK
    <3> QED  BY <3>2, <3>3
  <2>3. Takes(t.req) \cap mine = {}  BY <2>1 DEF IInv, CreationsOK
  <2>4. ASSUME NEW c \in Caller, Live(c), c \notin contested, Succeeds(c)'
        PROVE  Gives(call[c].req) \subseteq sandboxes'
    <3>1. call[c].id \in Id  BY <2>4, TypeParts DEF IInv, IdsOK
    <3>2. CASE call[c].id = i
      <4>1. c = d  BY <2>1, <3>2 DEF IInv, IdsOK
      <4>2. t.stage = "send" /\ t.lines = <<"ok">>
        <5>1. \A k \in DOMAIN rx[c] : rx[c][k].id = call[c].id  BY DEF IInv, OwnOK
        <5> QED  BY <1>1, <1>2, <1>3, <2>4, <3>2, <5>1 DEF Succeeds
      <4> QED  BY <2>1, <4>1, <4>2
    <3>3. CASE call[c].id # i
      <4>1. Succeeds(c)  BY <1>1, <1>2, <2>4, <3>1, <3>3 DEF Succeeds
      <4>2. Gives(call[c].req) \subseteq sandboxes  BY <2>4, <4>1 DEF IInv, CreationsOK
      <4> QED  BY <2>2, <2>4, <4>2
    <3> QED  BY <3>2, <3>3
  <2>5. mine \subseteq sandboxes'  BY <2>3 DEF IInv, CreationsOK, CreatedIsThere
  <2> QED  BY <1>2, <2>4, <2>5 DEF IInv, CreationsOK, CreatedIsThere, Live
<1>12. KindsOK'  BY <1>2 DEF IInv, KindsOK
<1> QED  BY <1>4, <1>5, <1>6, <1>7, <1>8, <1>9, <1>10, <1>11, <1>12 DEF IInv

(* What a task that answers may have to send. *)
LEMMA PlainAnswers ==
  /\ <<"ok">> \in PlainAnswer /\ <<"error">> \in PlainAnswer
  /\ \A l \in PlainAnswer : l = <<"ok">> \/ l = <<"error">>
BY DEF PlainAnswer

LEMMA Lines ==
  ASSUME NEW lines,
         \/ lines = <<"ok">> \/ lines = <<"error">> \/ lines = <<"exit">>
         \/ lines = <<"output", "exit">> \/ lines = <<"output", "output", "exit">>
  PROVE  lines \in Seq(LineKind) /\ Len(lines) \in 1..3
<1> USE DEF LineKind
<1>1. /\ <<"ok">> \in Seq(LineKind) /\ <<"error">> \in Seq(LineKind) /\ <<"exit">> \in Seq(LineKind)
      /\ <<"output", "exit">> \in Seq(LineKind)
      /\ <<"output", "output", "exit">> \in Seq(LineKind)
  OBVIOUS
<1>2. /\ Len(<<"ok">>) = 1 /\ Len(<<"error">>) = 1 /\ Len(<<"exit">>) = 1
      /\ Len(<<"output", "exit">>) = 2 /\ Len(<<"output", "output", "exit">>) = 3
  OBVIOUS
<1> HIDE DEF LineKind
<1>3. CASE lines = <<"ok">>  BY <1>1, <1>2, <1>3
<1>4. CASE lines = <<"error">>  BY <1>1, <1>2, <1>4
<1>5. CASE lines = <<"exit">>  BY <1>1, <1>2, <1>5
<1>6. CASE lines = <<"output", "exit">>  BY <1>1, <1>2, <1>6
<1>7. CASE lines = <<"output", "output", "exit">>  BY <1>1, <1>2, <1>7
<1> QED  BY <1>3, <1>4, <1>5, <1>6, <1>7

(* What becomes of a task that answers, or that goes on. *)
LEMMA AnswersTask ==
  ASSUME IInv, NEW i \in Id, Unserved(i), NEW lines \in Seq(LineKind), Answers(i, lines),
         Len(lines) \in 1..3, serving[i].req.op # "exec" => lines \in PlainAnswer
  PROVE  \E t \in Serving : /\ serving' = [serving EXCEPT ![i] = t] /\ t.req = serving[i].req
                            /\ TaskOK(t) /\ t.stage = "send" /\ t.lines = lines
<1>1. serving \in [Id -> Serving]  BY TypeParts DEF IInv
<1>2. PICK s \in Serving : s = serving[i]  BY <1>1
<1>3. s.sent = 0  BY <1>2 DEF IInv, TasksOK, TaskOK, Unserved
<1>4. PICK t : t = [s EXCEPT !.stage = "send", !.lines = lines, !.need = <<>>]  OBVIOUS
<1>5. /\ t \in Serving /\ t.stage = "send" /\ t.req = s.req /\ t.lines = lines /\ t.sent = 0
  <2>1. <<>> \in Seq(Key)  OBVIOUS
  <2> QED  BY <1>3, <1>4, <2>1 DEF Serving
<1>6. serving' = [serving EXCEPT ![i] = t]
  BY <1>1, <1>2, <1>4 DEF Answers
<1>7. TaskOK(t)
  <2>1. Len(t.lines) \in 1..3  BY <1>5
  <2>2. t.sent < Len(t.lines) /\ t.sent <= Len(t.lines) /\ Len(t.lines) <= 3
    <3> DEFINE n == Len(t.lines)
               m == t.sent
    <3>1. n \in 1..3 /\ m = 0  BY <1>5, <2>1
    <3> HIDE DEF n, m
    <3>2. m < n /\ m <= n /\ n <= 3  BY <3>1
    <3> QED  BY <3>2 DEF n, m
  <2>3. t.req.op # "exec" => t.lines \in PlainAnswer  BY <1>2, <1>5
  <2>4. t.stage = "send"  BY <1>5
  <2> HIDE <1>4, <1>6
  <2> QED  BY <2>2, <2>3, <2>4 DEF TaskOK
<1> QED  BY <1>2, <1>5, <1>6, <1>7

LEMMA MovesTask ==
  ASSUME IInv, NEW i \in Id, Unserved(i), NEW p \in {"work", "commit", "lost"}, Moves(i, p),
         p = "commit" => serving[i].req.op \in {"create", "overlay", "merge"}
  PROVE  \E t \in Serving : /\ serving' = [serving EXCEPT ![i] = t] /\ t.req = serving[i].req
                            /\ TaskOK(t) /\ t.stage = p
<1>1. serving \in [Id -> Serving]  BY TypeParts DEF IInv
<1>2. PICK s \in Serving : s = serving[i]  BY <1>1
<1>3. PICK t : t = [s EXCEPT !.stage = p]  OBVIOUS
<1>4. t \in Serving /\ t.stage = p /\ t.req = s.req /\ t.lines = s.lines /\ t.sent = s.sent
  BY <1>3 DEF Serving
<1>5. serving' = [serving EXCEPT ![i] = t]  BY <1>1, <1>2, <1>3 DEF Moves
<1>6. TaskOK(t)  BY <1>2, <1>4 DEF IInv, TasksOK, TaskOK, Unserved
<1> QED  BY <1>2, <1>4, <1>5, <1>6

LEMMA LookupIInv ==
  ASSUME IInv, NEW i \in Id, Lookup(i), UNCHANGED <<host, told>>
  PROVE  IInv'
<1>1. /\ serving[i].stage = "lookup" /\ serving[i].need # <<>> /\ Unserved(i)
      /\ UNCHANGED <<link, toGuest, toHost, sandboxes>>
  BY DEF Lookup, Unserved
<1>2. sandboxes' \subseteq Key /\ sandboxes \ sandboxes' \subseteq Takes(serving[i].req)
  BY <1>1 DEF IInv, TypeOK, GuestTypeOK
<1>3. CASE serving' = [serving EXCEPT ![i].need = Tail(@)]
  <2>1. serving \in [Id -> Serving]  BY TypeParts DEF IInv
  <2>2. PICK s \in Serving : s = serving[i]  BY <2>1
  <2>3. Tail(s.need) \in Seq(Key)
    <3>1. s.need \in Seq(Key) /\ s.need # <<>>  BY <1>1, <2>2 DEF Serving
    <3> QED  BY <3>1
  <2>4. PICK t : t = [s EXCEPT !.need = Tail(s.need)]  OBVIOUS
  <2>5. /\ t \in Serving /\ t.req = s.req /\ t.stage = s.stage /\ t.lines = s.lines
        /\ t.sent = s.sent
    BY <2>3, <2>4 DEF Serving
  <2>6. serving' = [serving EXCEPT ![i] = t]  BY <1>3, <2>1, <2>2, <2>4
  <2>7. TaskOK(t)  BY <2>2, <2>5 DEF IInv, TasksOK, TaskOK
  <2>8. t.stage = "lookup" /\ t.req = serving[i].req  BY <1>1, <2>2, <2>5
  <2> QED  BY <1>1, <1>2, <2>5, <2>6, <2>7, <2>8, TaskStep
<1>4. CASE Answers(i, <<"error">>)
  <2>1. <<"error">> \in Seq(LineKind) /\ Len(<<"error">>) \in 1..3  BY DEF LineKind
  <2>2. PICK t \in Serving : /\ serving' = [serving EXCEPT ![i] = t] /\ t.req = serving[i].req
                             /\ TaskOK(t) /\ t.stage = "send" /\ t.lines = <<"error">>
    <3>1. <<"error">> \in PlainAnswer  BY PlainAnswers
    <3>2. Unserved(i)  BY <1>1
    <3> QED  BY <1>4, <2>1, <3>1, <3>2, AnswersTask
  <2>3. t.lines # <<"ok">>  BY <2>2
  <2> QED  BY <1>1, <1>2, <2>2, <2>3, TaskStep
<1> QED  BY <1>3, <1>4 DEF Lookup

LEMMA DispatchIInv ==
  ASSUME IInv, NEW i \in Id, Dispatch(i), UNCHANGED <<host, told>>
  PROVE  IInv'
<1>1. /\ serving[i].stage = "lookup" /\ Unserved(i)
      /\ UNCHANGED <<link, toGuest, toHost, sandboxes>>
  BY DEF Dispatch, Unserved
<1>2. sandboxes' \subseteq Key /\ sandboxes \ sandboxes' \subseteq Takes(serving[i].req)
  BY <1>1 DEF IInv, TypeOK, GuestTypeOK
<1>3. CASE Moves(i, "work")
  <2>1. PICK t \in Serving : /\ serving' = [serving EXCEPT ![i] = t] /\ t.req = serving[i].req
                             /\ TaskOK(t) /\ t.stage = "work"
    BY <1>1, <1>3, MovesTask
  <2> QED  BY <1>1, <1>2, <2>1, TaskStep
<1>4. ASSUME NEW lines \in PlainAnswer, Answers(i, lines),
             serving[i].req.op \in {"ask", "shutdown", "status"}
      PROVE  IInv'
  <2>1. lines \in Seq(LineKind) /\ Len(lines) \in 1..3  BY <1>4, Lines, PlainAnswers
  <2>2. Gives(serving[i].req) = {}  BY <1>4, TypeParts, GivesTakes DEF IInv
  <2>3. PICK t \in Serving : /\ serving' = [serving EXCEPT ![i] = t] /\ t.req = serving[i].req
                             /\ TaskOK(t) /\ t.stage = "send" /\ t.lines = lines
    BY <1>1, <1>4, <2>1, <2>2, AnswersTask
  <2>4. Gives(t.req) \subseteq sandboxes'  BY <2>2, <2>3
  <2> QED  BY <1>1, <1>2, <2>3, <2>4, TaskStep
<1> QED  BY <1>3, <1>4, PlainAnswers DEF Dispatch

LEMMA RemoveIInv ==
  ASSUME IInv, NEW i \in Id, Remove(i), UNCHANGED <<host, told>>
  PROVE  IInv'
<1> DEFINE r == serving[i].req
           k == IF r.op = "destroy" THEN Box(r) ELSE Overlay(r)
<1>1. /\ serving[i].stage = "lookup" /\ Unserved(i) /\ r.op \in {"destroy", "discard"}
      /\ sandboxes' = sandboxes \ {k}
      /\ UNCHANGED <<link, toGuest, toHost>>
  BY DEF Remove, Unserved
<1>2. Takes(r) = {k} /\ Gives(r) = {}
  BY <1>1, TypeParts, GivesTakes DEF IInv
<1>3. PICK lines \in PlainAnswer : Answers(i, lines)
  BY PlainAnswers DEF Remove
<1>4. lines \in Seq(LineKind) /\ Len(lines) \in 1..3  BY <1>3, Lines, PlainAnswers
<1>5. PICK t \in Serving : /\ serving' = [serving EXCEPT ![i] = t] /\ t.req = serving[i].req
                           /\ TaskOK(t) /\ t.stage = "send" /\ t.lines = lines
  BY <1>1, <1>2, <1>3, <1>4, AnswersTask
<1>6. sandboxes' \subseteq Key /\ sandboxes \ sandboxes' \subseteq Takes(t.req)
  BY <1>1, <1>2, <1>5 DEF IInv, TypeOK, GuestTypeOK
<1>7. Gives(t.req) \subseteq sandboxes' /\ t.stage \notin {"none", "over"}  BY <1>2, <1>5
<1>8. UNCHANGED <<link, toGuest, toHost, host, told>>  BY <1>1
<1>9. Unserved(i)  BY <1>1
<1> HIDE DEF r, k
<1> QED  BY <1>5, <1>6, <1>7, <1>8, <1>9, TaskStep

LEMMA WorkIInv ==
  ASSUME IInv, NEW i \in Id, Work(i), UNCHANGED <<host, told>>
  PROVE  IInv'
<1>1. /\ serving[i].stage = "work" /\ Unserved(i)
      /\ UNCHANGED <<link, toGuest, toHost, sandboxes>>
  BY DEF Work, Unserved
<1>2. sandboxes' \subseteq Key /\ sandboxes \ sandboxes' \subseteq Takes(serving[i].req)
  BY <1>1 DEF IInv, TypeOK, GuestTypeOK
<1>3. ASSUME NEW p \in {"commit", "lost"}, Moves(i, p),
             p = "commit" => serving[i].req.op \in {"create", "overlay", "merge"}
      PROVE  IInv'
  <2>1. PICK t \in Serving : /\ serving' = [serving EXCEPT ![i] = t] /\ t.req = serving[i].req
                             /\ TaskOK(t) /\ t.stage = p
    BY <1>1, <1>3, MovesTask
  <2> QED  BY <1>1, <1>2, <2>1, TaskStep
<1>4. CASE serving[i].req.op \in {"exec", "tool", "agent"}
           /\ \E lines \in Ran(serving[i].req) : Answers(i, lines)
  <2>1. PICK lines \in Ran(serving[i].req) : Answers(i, lines)  BY <1>4
  <2>2. \/ lines = <<"exit">> \/ lines = <<"output", "exit">>
        \/ lines = <<"output", "output", "exit">> \/ lines = <<"ok">>
    BY <2>1 DEF Ran
  <2>3. /\ lines \in Seq(LineKind) /\ Len(lines) \in 1..3
        /\ serving[i].req.op # "exec" => lines \in PlainAnswer
    BY <2>1, <2>2, Lines, PlainAnswers DEF Ran
  <2>4. Gives(serving[i].req) = {}  BY <1>4, TypeParts, GivesTakes DEF IInv
  <2>5. PICK t \in Serving : /\ serving' = [serving EXCEPT ![i] = t] /\ t.req = serving[i].req
                             /\ TaskOK(t) /\ t.stage = "send" /\ t.lines = lines
    BY <1>1, <2>1, <2>3, <2>4, AnswersTask
  <2>6. Gives(t.req) \subseteq sandboxes'  BY <2>4, <2>5
  <2> QED  BY <1>1, <1>2, <2>5, <2>6, TaskStep
<1>5. CASE Answers(i, <<"error">>)
  <2>1. <<"error">> \in Seq(LineKind) /\ Len(<<"error">>) \in 1..3  BY DEF LineKind
  <2>2. PICK t \in Serving : /\ serving' = [serving EXCEPT ![i] = t] /\ t.req = serving[i].req
                             /\ TaskOK(t) /\ t.stage = "send" /\ t.lines = <<"error">>
    <3>1. <<"error">> \in PlainAnswer  BY PlainAnswers
    <3>2. Unserved(i)  BY <1>1
    <3> QED  BY <1>5, <2>1, <3>1, <3>2, AnswersTask
  <2>3. t.lines # <<"ok">>  BY <2>2
  <2> QED  BY <1>1, <1>2, <2>2, <2>3, TaskStep
<1> QED  BY <1>3, <1>4, <1>5 DEF Work

LEMMA CommitIInv ==
  ASSUME IInv, NEW i \in Id, Commit(i), UNCHANGED <<host, told>>
  PROVE  IInv'
<1>1. /\ serving[i].stage = "commit" /\ Unserved(i) /\ Answers(i, <<"ok">>)
      /\ UNCHANGED <<link, toGuest, toHost>>
  BY DEF Commit, Unserved
<1>2. serving[i].req.op \in {"create", "overlay", "merge"} /\ serving[i].req \in Request
  BY <1>1, TypeParts DEF IInv, TasksOK, TaskOK
<1>3. /\ sandboxes' \subseteq Key /\ sandboxes \ sandboxes' \subseteq Takes(serving[i].req)
      /\ Gives(serving[i].req) \subseteq sandboxes'
  <2>1. sandboxes \subseteq Key  BY DEF IInv, TypeOK, GuestTypeOK
  <2>2. CASE serving[i].req.op = "create"
    <3>1. sandboxes' = sandboxes \cup {Box(serving[i].req)}  BY <2>2 DEF Commit
    <3>2. Gives(serving[i].req) = {Box(serving[i].req)} /\ Gives(serving[i].req) \subseteq Key
      BY <1>2, <2>2, GivesTakes
    <3> QED  BY <2>1, <3>1, <3>2
  <2>3. CASE serving[i].req.op = "overlay"
    <3>1. sandboxes' = sandboxes \cup {Overlay(serving[i].req)}  BY <2>3 DEF Commit
    <3>2. Gives(serving[i].req) = {Overlay(serving[i].req)} /\ Gives(serving[i].req) \subseteq Key
      BY <1>2, <2>3, GivesTakes
    <3> QED  BY <2>1, <3>1, <3>2
  <2>4. CASE serving[i].req.op = "merge"
    <3>1. sandboxes' = sandboxes \ {Overlay(serving[i].req)}  BY <2>4 DEF Commit
    <3>2. Takes(serving[i].req) = {Overlay(serving[i].req)} /\ Gives(serving[i].req) = {}
      BY <1>2, <2>4, GivesTakes
    <3> QED  BY <2>1, <3>1, <3>2
  <2> QED  BY <1>2, <2>2, <2>3, <2>4
<1>4. <<"ok">> \in Seq(LineKind) /\ Len(<<"ok">>) \in 1..3  BY DEF LineKind
<1>5. PICK t \in Serving : /\ serving' = [serving EXCEPT ![i] = t] /\ t.req = serving[i].req
                           /\ TaskOK(t) /\ t.stage = "send" /\ t.lines = <<"ok">>
  BY <1>1, <1>4, AnswersTask, PlainAnswers
<1> QED  BY <1>1, <1>3, <1>5, TaskStep

(* A request comes off the wire, and its task begins. *)
LEMMA AcceptIInv ==
  ASSUME IInv, Accept, UNCHANGED <<host, told>>
  PROVE  IInv'
<1> DEFINE e == Head(toGuest)
<1>1. /\ toGuest # <<>> /\ toGuest' = Tail(toGuest)
      /\ UNCHANGED <<link, toHost, sandboxes, boot, late, reading, next_id, inflight, call, rx,
                     contested, mine>>
  BY DEF Accept, host, told
<1>2. /\ serving \in [Id -> Serving] /\ toGuest \in Seq(Asking)
      /\ \A k \in DOMAIN toGuest : toGuest[k].id \in Id /\ toGuest[k].req \in Request
  BY TypeParts DEF IInv
<1>3. /\ 1 \in DOMAIN toGuest /\ e = toGuest[1] /\ toGuest' \in Seq(Asking)
      /\ \A k \in DOMAIN toGuest' : /\ k \in Nat /\ k + 1 \in DOMAIN toGuest /\ k + 1 # 1
                                    /\ toGuest'[k] = toGuest[k + 1]
  BY <1>1, <1>2, Shifted
<1>4. PICK t : t = [NoTask EXCEPT !.req = e.req, !.stage = "lookup", !.need = Needs(e.req)]
  OBVIOUS
<1>5. serving' = [serving EXCEPT ![e.id] = t]  BY <1>4 DEF Accept
<1>6. e.id \in Id /\ e.req \in Request  BY <1>2, <1>3
<1>7. /\ t \in Serving /\ t.stage = "lookup" /\ t.req = e.req /\ t.sent = 0 /\ Len(t.lines) = 0
  <2>1. Needs(e.req) \in Seq(Key)  BY <1>6, NeedsKeys
  <2>2. PICK n \in Serving : n = NoTask /\ n.sent = 0 /\ Len(n.lines) = 0
    <3>1. NoTask.sent = 0 /\ NoTask.lines = <<>>  BY DEF NoTask
    <3> QED  BY <3>1, PingNeedsNothing
  <2>3. t = [n EXCEPT !.req = e.req, !.stage = "lookup", !.need = Needs(e.req)]
    BY <1>4, <2>2
  <2>4. /\ t \in Serving /\ t.stage = "lookup" /\ t.req = e.req
        /\ t.sent = n.sent /\ t.lines = n.lines
    BY <1>6, <2>1, <2>3 DEF Serving
  <2> QED  BY <2>2, <2>4
<1>8. serving'[e.id] = t /\ \A j \in Id : j # e.id => serving'[j] = serving[j]
  BY <1>2, <1>5, <1>6
<1>9. PICK d \in Caller : call[d].id = e.id /\ call[d].stage = "wait" /\ call[d].req = e.req
  BY <1>3 DEF IInv, OnceOK, OwnOK
<1>10. /\ serving[e.id].stage = "none"
       /\ \A k \in DOMAIN toGuest' : toGuest'[k].id \in Id /\ toGuest'[k].id # e.id
  BY <1>2, <1>3 DEF IInv, OnceOK
<1>11. \A c \in Caller : call[c].id = e.id => c = d
  <2>1. e.id # 0  BY <1>6 DEF Id
  <2> QED  BY <1>9, <2>1 DEF IInv, IdsOK
<1> HIDE DEF e
<1>12. TypeOK'
  <2>1. serving' \in [Id -> Serving]  BY <1>2, <1>5, <1>7
  <2>2. \A j \in Id : serving'[j].sent <= Len(serving'[j].lines)
    <3>1. t.sent <= Len(t.lines)  BY <1>7
    <3> QED  BY <1>8, <3>1 DEF IInv, TypeOK, GuestTypeOK
  <2> QED  BY <1>1, <1>3, <2>1, <2>2 DEF IInv, TypeOK, GuestTypeOK
<1>13. BootOK'  BY <1>1 DEF IInv, BootOK, Live
<1>14. IdsOK'
  <2>1. e.id < next_id  BY <1>3 DEF IInv, IdsOK
  <2>2. \A j \in Id : serving'[j].stage # "none" => j < next_id
    BY <1>8, <2>1 DEF IInv, IdsOK
  <2>3. \A k \in DOMAIN toGuest' : toGuest'[k].id < next_id
    BY <1>3 DEF IInv, IdsOK
  <2> QED  BY <1>1, <2>2, <2>3 DEF IInv, IdsOK, Live
<1>15. TasksOK'
  <2>1. TaskOK(t)
    <3>1. Len(t.lines) <= 3 /\ t.sent <= Len(t.lines)  BY <1>7
    <3> QED  BY <1>7, <3>1 DEF TaskOK
  <2> QED  BY <1>8, <2>1 DEF IInv, TasksOK
<1>16. KindsOK'  BY <1>1 DEF IInv, KindsOK
<1>17. OnceOK'
  <2>1. \A j, k \in DOMAIN toGuest' : toGuest'[j].id = toGuest'[k].id => j = k
    <3>1. TAKE j, k \in DOMAIN toGuest'
    <3>2. toGuest'[j].id = toGuest'[k].id => j + 1 = k + 1  BY <1>3 DEF IInv, OnceOK
    <3> QED  BY <1>3, <3>2
  <2>2. \A k \in DOMAIN toGuest' :
          /\ serving'[toGuest'[k].id].stage = "none"
          /\ \E c \in Caller : call[c].id = toGuest'[k].id /\ call[c].stage = "wait"
    <3>1. TAKE k \in DOMAIN toGuest'
    <3>2. /\ serving[toGuest'[k].id].stage = "none"
          /\ \E c \in Caller : call[c].id = toGuest'[k].id /\ call[c].stage = "wait"
      BY <1>3 DEF IInv, OnceOK
    <3> QED  BY <1>8, <1>10, <3>2
  <2>3. \A j \in Id : Unserved(j)' => \E c \in Caller : call[c].id = j /\ call[c].stage = "wait"
    BY <1>8, <1>9 DEF IInv, OnceOK, Unserved
  <2>4. \A c \in Caller : call[c].stage = "write" =>
          /\ serving'[call[c].id].stage = "none"
          /\ \A k \in DOMAIN toGuest' : toGuest'[k].id # call[c].id
    <3>1. SUFFICES ASSUME NEW c \in Caller, call[c].stage = "write"
                   PROVE  /\ serving'[call[c].id].stage = "none"
                          /\ \A k \in DOMAIN toGuest' : toGuest'[k].id # call[c].id
      OBVIOUS
    <3>2. call[c].id \in Id  BY <3>1, TypeParts DEF IInv, IdsOK, Live
    <3>3. call[c].id # e.id  BY <1>9, <1>11, <3>1
    <3> QED  BY <1>3, <1>8, <3>1, <3>2, <3>3 DEF IInv, OnceOK
  <2>5. \A j \in Id : Served(j) => Served(j)'  BY <1>8, <1>10 DEF Served
  <2>6. /\ \A k \in DOMAIN toHost : toHost[k].id \in Id /\ Served(toHost[k].id)
        /\ \A c \in Caller : \A k \in DOMAIN rx[c] : rx[c][k].id \in Id /\ Served(rx[c][k].id)
    BY TypeParts DEF IInv, OnceOK
  <2>7. /\ \A k \in DOMAIN toHost : Served(toHost[k].id)'
        /\ \A c \in Caller : \A k \in DOMAIN rx[c] : Served(rx[c][k].id)'
    BY <1>1, <2>5, <2>6 DEF Served
  <2> QED  BY <1>1, <2>1, <2>2, <2>3, <2>4, <2>7 DEF OnceOK
<1>18. OwnOK'
  <2>1. \A c \in Caller : \A k \in DOMAIN toGuest' :
          toGuest'[k].id = call[c].id => toGuest'[k].req = call[c].req
    BY <1>3 DEF IInv, OwnOK
  <2>2. \A c \in Caller : call[c].id # 0 /\ serving'[call[c].id].stage # "none" =>
          serving'[call[c].id].req = call[c].req
    <3>1. TAKE c \in Caller
    <3>2. call[c].id # 0 => call[c].id \in Id  BY TypeParts DEF IInv
    <3> QED  BY <1>7, <1>8, <1>9, <1>11, <3>2 DEF IInv, OwnOK
  <2> QED  BY <1>1, <2>1, <2>2 DEF IInv, OwnOK
<1>19. AnswerIsOwn'  BY <1>1 DEF IInv, AnswerIsOwn
<1>20. CreationsOK'
  <2>1. \A c \in Caller : Live(c) /\ Succeeds(c)' => Succeeds(c)
    <3>1. TAKE c \in Caller
    <3>2. Live(c) => call[c].id \in Id  BY TypeParts DEF IInv, IdsOK
    <3> QED  BY <1>1, <1>7, <1>8, <3>2 DEF Succeeds
  <2> QED  BY <1>1, <2>1 DEF IInv, CreationsOK, CreatedIsThere, Live
<1> QED  BY <1>12, <1>13, <1>14, <1>15, <1>16, <1>17, <1>18, <1>19, <1>20 DEF IInv

(* A task sends its next line, and is over with the last. *)
LEMMA SendIInv ==
  ASSUME IInv, NEW i \in Id, Send(i), UNCHANGED <<host, told>>
  PROVE  IInv'
<1>1. /\ serving[i].stage = "send" /\ link' \in {link, "down"}
      /\ UNCHANGED <<toGuest, sandboxes, boot, late, reading, next_id, inflight, call, rx,
                     contested, mine>>
  BY DEF Send, host, told
<1>2. serving \in [Id -> Serving] /\ toHost \in Seq(Answer)  BY TypeParts DEF IInv
<1>3. PICK s \in Serving : s = serving[i]  BY <1>2
<1>4. /\ s.sent \in Nat /\ s.sent < Len(s.lines) /\ Len(s.lines) <= 3 /\ s.lines \in Seq(LineKind)
      /\ s.stage = "send" /\ s.req \in Request
      /\ s.req.op # "exec" => s.lines \in PlainAnswer
  BY <1>1, <1>3 DEF IInv, TasksOK, TaskOK, Serving
<1>5. PICK k : k = s.lines[s.sent + 1]  OBVIOUS
<1>6. k \in LineKind /\ Len(s.lines) \in Nat
  <2>1. Len(s.lines) \in Nat /\ s.sent + 1 \in 1..Len(s.lines)  BY <1>4
  <2> QED  BY <1>4, <1>5, <2>1
<1>7. PICK l : l = Line(i, k, s.req)  OBVIOUS
<1>8. l \in Answer /\ l.id = i /\ l.kind = k /\ l.req = s.req
  BY <1>4, <1>6, <1>7 DEF Line, Answer
<1>9. toHost' = Append(toHost, l)  BY <1>3, <1>5, <1>7 DEF Send
<1>10. /\ toHost' \in Seq(Answer)
       /\ \A j \in DOMAIN toHost' : \/ j \in DOMAIN toHost /\ toHost'[j] = toHost[j]
                                    \/ toHost'[j] = l
  BY <1>2, <1>8, <1>9, Appended
<1>11. PICK t : t = [s EXCEPT !.sent = s.sent + 1,
                              !.stage = IF s.sent + 1 = Len(s.lines) THEN "over" ELSE "send"]
  OBVIOUS
<1>12. serving' = [serving EXCEPT ![i] = t]  BY <1>2, <1>3, <1>4, <1>11 DEF Send
<1>13. /\ t \in Serving /\ t.req = s.req /\ t.lines = s.lines /\ t.sent = s.sent + 1
       /\ t.stage \in {"send", "over"} /\ (t.stage = "send" => t.sent < Len(t.lines))
       /\ t.sent <= Len(t.lines)
  <2>1. /\ s.sent + 1 \in 0..3 /\ s.sent + 1 <= Len(s.lines)
        /\ s.sent + 1 # Len(s.lines) => s.sent + 1 < Len(s.lines)
    BY <1>4, <1>6
  <2>2. t.req = s.req /\ t.need = s.need /\ t.lines = s.lines /\ t.sent = s.sent + 1
    BY <1>11 DEF Serving
  <2>3. t.stage = IF s.sent + 1 = Len(s.lines) THEN "over" ELSE "send"
    BY <1>11 DEF Serving
  <2>4. t \in Serving  BY <1>11, <2>1 DEF Serving
  <2> QED  BY <2>1, <2>2, <2>3, <2>4
<1>14. serving'[i] = t /\ \A j \in Id : j # i => serving'[j] = serving[j]
  BY <1>2, <1>12
<1>15. i # 0  BY DEF Id
<1>16. TypeOK'
  <2>1. serving' \in [Id -> Serving]  BY <1>2, <1>12, <1>13
  <2>2. \A j \in Id : serving'[j].sent <= Len(serving'[j].lines)
    BY <1>13, <1>14 DEF IInv, TypeOK, GuestTypeOK
  <2>3. link' \in {"none", "up", "down"}  BY <1>1 DEF IInv, TypeOK, GuestTypeOK
  <2> QED  BY <1>1, <1>10, <2>1, <2>2, <2>3 DEF IInv, TypeOK, GuestTypeOK
<1>17. BootOK'  BY <1>1 DEF IInv, BootOK, Live
<1>18. IdsOK'
  <2>1. \A j \in Id : serving'[j].stage # "none" => j < next_id
    BY <1>1, <1>14 DEF IInv, IdsOK
  <2> QED  BY <1>1, <2>1 DEF IInv, IdsOK, Live
<1>19. TasksOK'
  <2>1. TaskOK(t)  BY <1>4, <1>13 DEF TaskOK
  <2> QED  BY <1>14, <2>1 DEF IInv, TasksOK
<1>20. KindsOK'
  <2>1. k = "output" => s.req.op = "exec"
    <3>1. SUFFICES ASSUME s.req.op # "exec" PROVE k # "output"
      OBVIOUS
    <3>2. s.lines = <<"ok">> \/ s.lines = <<"error">>  BY <1>4, <3>1, PlainAnswers
    <3>3. Len(s.lines) = 1  BY <3>2
    <3>4. s.sent = 0  BY <1>4, <3>3
    <3>5. k = s.lines[1]  BY <1>5, <3>4
    <3> QED  BY <3>2, <3>5
  <2> QED  BY <1>1, <1>8, <1>10, <2>1 DEF IInv, KindsOK
<1>21. /\ \A j \in Id : Unserved(j)' => Unserved(j)
       /\ \A j \in Id : Served(j) => Served(j)'
       /\ Served(i)'
       /\ \A j \in Id : serving[j].stage = "none" => serving'[j].stage = "none"
       /\ \A j \in Id : serving'[j].stage # "none" => serving[j].stage # "none"
  BY <1>1, <1>13, <1>14 DEF Unserved, Served
<1>22. OnceOK'
  <2>1. \A j \in DOMAIN toGuest : toGuest[j].id \in Id  BY TypeParts DEF IInv
  <2>2. \A c \in Caller : call[c].stage = "write" => call[c].id \in Id
    BY TypeParts DEF IInv, IdsOK, Live
  <2>3. \A j \in DOMAIN toHost' : serving'[toHost'[j].id].stage \in {"send", "over"}
    <3>1. \A j \in DOMAIN toHost : toHost[j].id \in Id /\ Served(toHost[j].id)
      BY TypeParts DEF IInv, OnceOK
    <3>2. TAKE j \in DOMAIN toHost'
    <3>3. CASE toHost'[j] = l  BY <1>8, <1>21, <3>3 DEF Served
    <3>4. CASE j \in DOMAIN toHost /\ toHost'[j] = toHost[j]
      BY <1>21, <3>1, <3>4 DEF Served
    <3> QED  BY <1>10, <3>3, <3>4
  <2>4. \A c \in Caller : \A j \in DOMAIN rx'[c] :
          serving'[rx'[c][j].id].stage \in {"send", "over"}
    <3>1. \A c \in Caller : \A j \in DOMAIN rx[c] : rx[c][j].id \in Id /\ Served(rx[c][j].id)
      BY TypeParts DEF IInv, OnceOK
    <3> QED  BY <1>1, <1>21, <3>1 DEF Served
  <2>5. \A j \in Id : Unserved(j)' => \E c \in Caller : call[c].id = j /\ call[c].stage = "wait"
    BY <1>21 DEF IInv, OnceOK
  <2>6. \A j, m \in DOMAIN toGuest : toGuest[j].id = toGuest[m].id => j = m
    BY DEF IInv, OnceOK
  <2>7. \A j \in DOMAIN toGuest :
          /\ serving'[toGuest[j].id].stage = "none"
          /\ \E c \in Caller : call[c].id = toGuest[j].id /\ call[c].stage = "wait"
    BY <1>21, <2>1 DEF IInv, OnceOK
  <2>8. \A c \in Caller : call[c].stage = "write" =>
          /\ serving'[call[c].id].stage = "none"
          /\ \A j \in DOMAIN toGuest : toGuest[j].id # call[c].id
    BY <1>21, <2>2 DEF IInv, OnceOK
  <2> QED  BY <1>1, <2>3, <2>4, <2>5, <2>6, <2>7, <2>8 DEF OnceOK, Served
<1>23. \A c \in Caller : call[c].id = i => s.req = call[c].req
  BY <1>1, <1>3, <1>15 DEF IInv, OwnOK
<1>24. OwnOK'
  <2>1. \A c \in Caller : call[c].id # 0 /\ serving'[call[c].id].stage # "none" =>
          serving'[call[c].id].req = call[c].req
    <3>1. TAKE c \in Caller
    <3>2. call[c].id # 0 => call[c].id \in Id  BY TypeParts DEF IInv
    <3> QED  BY <1>13, <1>14, <1>23, <3>2 DEF IInv, OwnOK
  <2>2. \A c \in Caller : \A j \in DOMAIN toHost' :
          toHost'[j].id = call[c].id => toHost'[j].req = call[c].req
    BY <1>8, <1>10, <1>23 DEF IInv, OwnOK
  <2> QED  BY <1>1, <2>1, <2>2 DEF IInv, OwnOK
<1>25. AnswerIsOwn'  BY <1>1 DEF IInv, AnswerIsOwn
<1>26. CreationsOK'
  <2>1. ASSUME NEW c \in Caller, Live(c), Succeeds(c)', Gives(call[c].req) # {}
        PROVE  Succeeds(c)
    <3>1. call[c].id \in Id /\ call[c].req \in Request  BY <2>1, TypeParts DEF IInv, IdsOK
    <3>2. CASE call[c].id = i /\ k = "ok"
      <4>1. s.req.op # "exec"  BY <1>23, <2>1, <3>1, <3>2, GivesTakes
      <4>2. s.lines = <<"ok">> \/ s.lines = <<"error">>  BY <1>4, <4>1, PlainAnswers
      <4>3. Len(s.lines) = 1  BY <4>2
      <4>4. s.sent = 0  BY <1>4, <4>3
      <4>5. s.lines[1] = "ok"
        <5>1. k = s.lines[1]  BY <1>5, <4>4
        <5> QED  BY <3>2, <5>1
      <4>6. s.lines = <<"ok">>  BY <4>2, <4>5
      <4> QED  BY <1>1, <1>3, <3>2, <4>6 DEF Succeeds
    <3>3. CASE call[c].id # i \/ k # "ok"
      <4>1. CASE \E j \in DOMAIN toHost' : toHost'[j].id = call[c].id /\ toHost'[j].kind = "ok"
        BY <1>8, <1>10, <3>3, <4>1 DEF Succeeds
      <4>2. CASE \E j \in DOMAIN rx[c] : rx[c][j].kind = "ok"
        BY <4>2 DEF Succeeds
      <4>3. CASE serving'[call[c].id].stage = "send" /\ serving'[call[c].id].lines = <<"ok">>
        BY <1>1, <1>3, <1>13, <1>14, <3>1, <4>3 DEF Succeeds
      <4>4. call' = call /\ rx' = rx  BY <1>1
      <4>5. Succeeds(c)'  BY <2>1
      <4>6. \/ \E j \in DOMAIN toHost' : toHost'[j].id = call[c].id /\ toHost'[j].kind = "ok"
            \/ \E j \in DOMAIN rx[c] : rx[c][j].kind = "ok"
            \/ serving'[call[c].id].stage = "send" /\ serving'[call[c].id].lines = <<"ok">>
        BY <4>4, <4>5 DEF Succeeds
      <4> QED  BY <4>1, <4>2, <4>3, <4>6
    <3> QED  BY <3>2, <3>3
  <2>2. \A c \in Caller : Live(c) /\ c \notin contested /\ Succeeds(c)' =>
          Gives(call[c].req) \subseteq sandboxes
    BY <2>1 DEF IInv, CreationsOK
  <2> QED  BY <1>1, <2>2 DEF IInv, CreationsOK, CreatedIsThere, Live
<1> QED  BY <1>16, <1>17, <1>18, <1>19, <1>20, <1>22, <1>24, <1>25, <1>26 DEF IInv

----------------------------------------------------------------------------
(* The host. *)

(* What changes of the host's own progress changes nothing else. *)
LEMMA HostMoves ==
  ASSUME IInv, UNCHANGED <<guest, next_id, inflight, call, rx, told>>,
         boot' \in {"connecting", "pinging", "ready", "failed"}, late' \in BOOLEAN,
         reading' \in BOOLEAN,
         boot' # "ready" => boot # "ready", boot' = "connecting" => ~Live(Boot)
  PROVE  IInv'
<1>1. UNCHANGED <<link, toGuest, toHost, serving, sandboxes, next_id, inflight, call, rx,
                  contested, mine>>
  BY DEF guest, told
<1>2. TypeOK'  BY <1>1 DEF IInv, TypeOK, GuestTypeOK
<1>3. BootOK'  BY <1>1 DEF IInv, BootOK, Live
<1>4. IdsOK' /\ TasksOK' /\ KindsOK'
  BY <1>1 DEF IInv, IdsOK, TasksOK, KindsOK, Live
<1>5. OnceOK' /\ OwnOK' /\ AnswerIsOwn'
  BY <1>1 DEF IInv, OnceOK, OwnOK, AnswerIsOwn, Served, Unserved
<1>6. CreationsOK'
  BY <1>1 DEF IInv, CreationsOK, CreatedIsThere, Live, Succeeds
<1> QED  BY <1>2, <1>3, <1>4, <1>5, <1>6 DEF IInv

LEMMA BootIInv ==
  ASSUME IInv, ConnectFails \/ Deadline \/ PingEnds \/ ReadEnds
  PROVE  IInv'
<1>1. /\ boot \in {"connecting", "pinging", "ready", "failed"} /\ late \in BOOLEAN
      /\ reading \in BOOLEAN /\ (boot = "connecting" => ~Live(Boot))
  BY DEF IInv, TypeOK, BootOK
<1>2. CASE ConnectFails  BY <1>1, <1>2, HostMoves DEF ConnectFails
<1>3. CASE Deadline  BY <1>1, <1>3, HostMoves DEF Deadline
<1>4. CASE PingEnds
  <2>1. /\ boot = "pinging" /\ ~Live(Boot) /\ boot' \in {"ready", "failed", "connecting"}
        /\ UNCHANGED <<guest, late, reading, next_id, inflight, call, rx, told>>
    BY <1>4 DEF PingEnds, Live
  <2> QED  BY <1>1, <2>1, HostMoves
<1>5. CASE ReadEnds  BY <1>1, <1>5, HostMoves DEF ReadEnds
<1> QED  BY <1>2, <1>3, <1>4, <1>5

(* What a caller registers. *)
LEMMA Registers ==
  ASSUME NEW c \in Caller, NEW i \in Id, NEW r \in Request
  PROVE  /\ Registered(c, i, r) \in Calling /\ Registered(c, i, r).stage = "write"
         /\ Registered(c, i, r).id = i /\ Registered(c, i, r).req = r
         /\ Registered(c, i, r).got = <<>>
<1>1. PICK n \in Calling : n = NoCall /\ n.got = <<>>  BY PingNeedsNothing
<1>2. PICK t : t = [n EXCEPT !.stage = "write", !.id = i, !.req = r]  OBVIOUS
<1>3. t \in Calling /\ t.stage = "write" /\ t.id = i /\ t.req = r /\ t.got = <<>>
  BY <1>1, <1>2 DEF Calling
<1> QED  BY <1>1, <1>2, <1>3 DEF Registered

(* A connection is made: everything begins anew, with a ping. *)
LEMMA ConnectIInv ==
  ASSUME IInv, Connect
  PROVE  IInv'
<1> DEFINE p == Registered(Boot, 1, PingRequest)
<1>1. 1 \in Id /\ Boot \in Caller  BY DEF Id, Caller
<1>2. p \in Calling /\ p.stage = "write" /\ p.id = 1 /\ p.req = PingRequest /\ p.got = <<>>
  BY <1>1, Registers, PingNeedsNothing
<1>3. /\ boot = "connecting" /\ boot' = "pinging" /\ link' = "up" /\ reading' = TRUE
      /\ next_id' = 2 /\ inflight' = [i \in Id |-> IF i = 1 THEN Boot ELSE None]
      /\ call' = [call EXCEPT ![Boot] = p] /\ rx' = [rx EXCEPT ![Boot] = <<>>]
      /\ toGuest' = <<>> /\ toHost' = <<>> /\ serving' = [i \in Id |-> NoTask]
      /\ UNCHANGED <<sandboxes, late, contested, mine>>
  BY DEF Connect, told
<1> HIDE DEF p
<1>4. /\ call \in [Caller -> Calling] /\ rx \in [Caller -> Seq(Answer)]
      /\ \A c \in Caller : \A k \in DOMAIN rx[c] : rx[c][k].id \in Id
  BY TypeParts DEF IInv
<1>5. \A c \in Caller : c # Boot => call[c].stage = "idle" /\ call[c].id = 0
  BY <1>3 DEF IInv, BootOK, Caller
<1>6. \A c \in Caller : rx'[c] = <<>> \/ \A k \in DOMAIN rx'[c] : FALSE
  <2>1. TAKE c \in Caller
  <2>2. CASE c = Boot  BY <1>1, <1>3, <1>4, <2>2
  <2>3. CASE c # Boot
    <3>1. rx'[c] = rx[c]  BY <1>3, <1>4, <2>3
    <3>2. \A k \in DOMAIN rx[c] : rx[c][k].id = 0 /\ rx[c][k].id \in Id
      BY <1>4, <1>5, <2>3 DEF IInv, OwnOK
    <3> QED  BY <3>1, <3>2 DEF Id
  <2> QED  BY <2>2, <2>3
<1>7. \A c \in Caller : \A k \in DOMAIN rx'[c] : FALSE  BY <1>6
<1>8. /\ call'[Boot] = p /\ \A c \in Caller : c # Boot => call'[c] = call[c]
      /\ \A i \in Id : serving'[i] = NoTask
      /\ DOMAIN toGuest' = {} /\ DOMAIN toHost' = {}
  BY <1>1, <1>3, <1>4
<1>9. TypeOK'
  <2>1. serving' \in [Id -> Serving] /\ \A i \in Id : serving'[i].sent <= Len(serving'[i].lines)
    <3>1. NoTask.sent <= Len(NoTask.lines)  BY PingNeedsNothing DEF TaskOK
    <3> QED  BY <1>3, <3>1, PingNeedsNothing
  <2>2. call' \in [Caller -> Calling]  BY <1>2, <1>3, <1>4
  <2>3. toGuest' \in Seq(Asking) /\ toHost' \in Seq(Answer) /\ rx' \in [Caller -> Seq(Answer)]
    <3>1. <<>> \in Seq(Answer) /\ <<>> \in Seq(Asking)  OBVIOUS
    <3> QED  BY <1>3, <1>4, <3>1
  <2>4. /\ next_id' \in 1..(MaxId + 1) /\ inflight' \in [Id -> Caller \cup {None}]
        /\ \A i \in Id : i >= next_id' => inflight'[i] = None
    BY <1>1, <1>3 DEF Id
  <2> QED  BY <1>3, <2>1, <2>2, <2>3, <2>4 DEF IInv, TypeOK, GuestTypeOK
<1>10. BootOK'
  <2>1. \A c \in Client : c \in Caller /\ c # Boot  BY DEF Caller
  <2> QED  BY <1>2, <1>3, <1>5, <1>8, <2>1 DEF BootOK
<1>11. IdsOK'
  BY <1>2, <1>3, <1>5, <1>8, PingNeedsNothing DEF IdsOK, Live
<1>12. TasksOK'  BY <1>8, PingNeedsNothing DEF TasksOK
<1>13. KindsOK'  BY <1>7, <1>8 DEF KindsOK
<1>14. OnceOK'
  <2>1. \A c \in Caller : call'[c].stage = "write" => serving'[call'[c].id].stage = "none"
    BY <1>1, <1>2, <1>5, <1>8, PingNeedsNothing
  <2> QED  BY <1>7, <1>8, <2>1, PingNeedsNothing DEF OnceOK, Unserved
<1>15. OwnOK'
  <2>1. \A c \in Caller : call'[c].id # 0 => serving'[call'[c].id].stage = "none"
    BY <1>1, <1>2, <1>5, <1>8, PingNeedsNothing
  <2> QED  BY <1>7, <1>8, <2>1 DEF OwnOK
<1>16. AnswerIsOwn'
  BY <1>2, <1>8 DEF IInv, AnswerIsOwn
<1>17. CreationsOK'
  <2>1. \A c \in Caller : call'[c].stage # "idle" => c = Boot  BY <1>5, <1>8
  <2>2. Takes(PingRequest) = {} /\ Gives(PingRequest) = {}
    BY PingNeedsNothing, GivesTakes
  <2> QED  BY <1>2, <1>3, <1>8, <2>1, <2>2 DEF IInv, CreationsOK, CreatedIsThere, Live
<1> QED
  BY <1>9, <1>10, <1>11, <1>12, <1>13, <1>14, <1>15, <1>16, <1>17 DEF IInv

(* A caller takes a new id. *)
LEMMA CallIInv ==
  ASSUME IInv, NEW c \in Client, Call(c)
  PROVE  IInv'
<1>1. c \in Caller /\ c # Boot  BY DEF Caller
<1>2. PICK r \in Menu[c] : call' = [call EXCEPT ![c] = Registered(c, next_id, r)] /\ Contests(c, r)
  BY DEF Call
<1>3. r \in Request  BY <1>2
<1>4. /\ boot = "ready" /\ call[c].stage = "idle" /\ next_id <= MaxId
      /\ inflight' = [inflight EXCEPT ![next_id] = c] /\ rx' = [rx EXCEPT ![c] = <<>>]
      /\ next_id' = next_id + 1
      /\ UNCHANGED <<link, toGuest, toHost, serving, sandboxes, boot, late, reading>>
  BY DEF Call, guest
<1>5. next_id \in Id /\ next_id \in Nat /\ next_id # 0
  BY <1>4 DEF IInv, TypeOK, Id
<1>6. PICK p \in Calling : /\ p = Registered(c, next_id, r) /\ p.stage = "write"
                           /\ p.id = next_id /\ p.req = r /\ p.got = <<>>
  BY <1>1, <1>3, <1>5, Registers
<1>7. call \in [Caller -> Calling] /\ rx \in [Caller -> Seq(Answer)]
      /\ inflight \in [Id -> Caller \cup {None}]
  BY TypeParts DEF IInv
<1>8. /\ call'[c] = p /\ \A d \in Caller : d # c => call'[d] = call[d]
      /\ rx'[c] = <<>> /\ \A d \in Caller : d # c => rx'[d] = rx[d]
  BY <1>1, <1>2, <1>4, <1>6, <1>7
<1>9. /\ \A d \in Caller : call[d].id # next_id
      /\ \A k \in DOMAIN toGuest : toGuest[k].id # next_id
      /\ serving[next_id].stage = "none"
      /\ \A k \in DOMAIN toHost : toHost[k].id # next_id
  <2>1. ~(next_id < next_id)  BY <1>5
  <2>2. serving[next_id].stage = "none"  BY <1>5, <2>1 DEF IInv, IdsOK
  <2>3. ~Served(next_id)  BY <2>2 DEF Served
  <2>4. \A d \in Caller : call[d].id # next_id  BY <2>1 DEF IInv, IdsOK
  <2>5. \A k \in DOMAIN toGuest : toGuest[k].id # next_id  BY <2>1 DEF IInv, IdsOK
  <2>6. \A k \in DOMAIN toHost : toHost[k].id # next_id  BY <2>3 DEF IInv, OnceOK
  <2> QED  BY <2>2, <2>4, <2>5, <2>6
<1>10. TypeOK'
  <2>1. call' \in [Caller -> Calling]  BY <1>2, <1>6, <1>7
  <2>2. rx' \in [Caller -> Seq(Answer)]
    <3>1. <<>> \in Seq(Answer)  OBVIOUS
    <3> QED  BY <1>4, <1>7, <3>1
  <2>3. /\ next_id' \in 1..(MaxId + 1)
        /\ \A i \in Id : i >= next_id' => i >= next_id /\ i # next_id
    BY <1>4, <1>5 DEF Id
  <2>4. /\ inflight' \in [Id -> Caller \cup {None}]
        /\ \A i \in Id : i >= next_id' => inflight'[i] = None
    BY <1>1, <1>4, <1>5, <1>7, <2>3 DEF IInv, TypeOK
  <2>5. contested' \subseteq Caller /\ mine' \subseteq Key
    BY <1>2 DEF Contests, IInv, TypeOK
  <2> QED  BY <1>4, <2>1, <2>2, <2>3, <2>4, <2>5 DEF IInv, TypeOK, GuestTypeOK
<1>11. BootOK'
  <2>1. Boot \in Caller  BY DEF Caller
  <2> QED  BY <1>1, <1>4, <1>8, <2>1 DEF IInv, BootOK
<1>12. IdsOK'
  <2>1. \A m \in Int : m < next_id => m < next_id + 1  BY <1>5
  <2>2. next_id < next_id'  BY <1>4, <1>5
  <2>3. \A d \in Caller : call'[d].id < next_id' /\ (call'[d].stage # "idle" => call'[d].id # 0)
    <3>1. TAKE d \in Caller
    <3>2. CASE d = c  BY <1>5, <1>6, <1>8, <2>2, <3>2
    <3>3. CASE d # c
      <4>1. call[d].id \in Int  BY TypeParts DEF IInv, Id
      <4> QED  BY <1>4, <1>8, <2>1, <3>3, <4>1 DEF IInv, IdsOK, Live
    <3> QED  BY <3>2, <3>3
  <2>4. \A d, e \in Caller : call'[d].id = call'[e].id /\ call'[d].id # 0 => d = e
    <3>1. TAKE d, e \in Caller
    <3>2. call[d].id = call[e].id /\ call[d].id # 0 => d = e  BY DEF IInv, IdsOK
    <3> QED  BY <1>6, <1>8, <1>9, <3>2
  <2>5. \A k \in DOMAIN toGuest : toGuest[k].id < next_id'
    <3>1. \A k \in DOMAIN toGuest : toGuest[k].id \in Int  BY TypeParts DEF IInv, Id
    <3> QED  BY <1>4, <2>1, <3>1 DEF IInv, IdsOK
  <2>6. \A i \in Id : serving[i].stage # "none" => i < next_id'
    <3>1. \A i \in Id : i \in Int  BY DEF Id
    <3> QED  BY <1>4, <2>1, <3>1 DEF IInv, IdsOK
  <2> QED  BY <1>4, <2>3, <2>4, <2>5, <2>6 DEF IdsOK, Live
<1>13. TasksOK'  BY <1>4 DEF IInv, TasksOK
<1>14. \A k \in DOMAIN rx'[c] : FALSE  BY <1>8
<1>15. KindsOK'  BY <1>4, <1>8, <1>14 DEF IInv, KindsOK
<1>16. OnceOK'
  <2>1. \A i \in Id : Unserved(i) => \E d \in Caller : call'[d].id = i /\ call'[d].stage = "wait"
    <3>1. TAKE i \in Id
    <3>2. Unserved(i) => \E d \in Caller : call[d].id = i /\ call[d].stage = "wait" /\ d # c
      BY <1>4 DEF IInv, OnceOK
    <3> QED  BY <1>8, <3>2
  <2>2. \A k \in DOMAIN toGuest :
          \E d \in Caller : call'[d].id = toGuest[k].id /\ call'[d].stage = "wait"
    <3>1. TAKE k \in DOMAIN toGuest
    <3>2. \E d \in Caller : call[d].id = toGuest[k].id /\ call[d].stage = "wait" /\ d # c
      BY <1>4 DEF IInv, OnceOK
    <3> QED  BY <1>8, <3>2
  <2>3. \A d \in Caller : call'[d].stage = "write" =>
          /\ serving[call'[d].id].stage = "none"
          /\ \A k \in DOMAIN toGuest : toGuest[k].id # call'[d].id
    BY <1>6, <1>8, <1>9 DEF IInv, OnceOK
  <2>4. \A d \in Caller : \A k \in DOMAIN rx'[d] : Served(rx'[d][k].id)
    BY <1>8, <1>14 DEF IInv, OnceOK
  <2> QED  BY <1>4, <2>1, <2>2, <2>3, <2>4 DEF IInv, OnceOK, Served, Unserved
<1>17. OwnOK'
  BY <1>4, <1>6, <1>8, <1>9, <1>14 DEF IInv, OwnOK
<1>18. AnswerIsOwn'  BY <1>6, <1>8 DEF IInv, AnswerIsOwn
<1>19. CreationsOK'
  <2>1. mine' = mine \ Takes(r)  BY <1>2 DEF Contests
  <2>2. ASSUME NEW d \in Caller, NEW e \in Caller, d # e,
               call'[d].stage # "idle", call'[e].stage # "idle",
               Gives(call'[d].req) \cap Takes(call'[e].req) # {}
        PROVE  d \in contested'
    <3>1. CASE e = c
      <4>1. /\ d # c /\ call[d].stage # "idle"
            /\ Gives(call[d].req) \cap Takes(r) # {}
        BY <1>6, <1>8, <2>2, <3>1
      <4> QED  BY <1>2, <4>1 DEF Contests
    <3>2. CASE d = c
      <4>1. /\ e # c /\ call[e].stage # "idle"
            /\ Takes(call[e].req) \cap Gives(r) # {}
        BY <1>6, <1>8, <2>2, <3>2
      <4> QED  BY <1>2, <3>2, <4>1 DEF Contests
    <3>3. CASE d # c /\ e # c
      <4>1. d \in contested  BY <1>8, <2>2, <3>3 DEF IInv, CreationsOK, Live
      <4> QED  BY <1>2, <1>8, <2>2, <3>3, <4>1 DEF Contests
    <3> QED  BY <3>1, <3>2, <3>3
  <2>3. \A d \in Caller : call'[d].stage # "idle" => Takes(call'[d].req) \cap mine' = {}
    BY <1>6, <1>8, <2>1 DEF IInv, CreationsOK, Live
  <2>4. ASSUME NEW d \in Caller, Live(d)', d \notin contested', Succeeds(d)'
        PROVE  Gives(call'[d].req) \subseteq sandboxes
    <3>1. CASE d = c
      <4>1. ~Succeeds(c)'
        BY <1>4, <1>6, <1>8, <1>9, <1>14 DEF Succeeds
      <4> QED  BY <2>4, <3>1, <4>1 DEF Succeeds
    <3>2. CASE d # c
      <4>1. Live(d) /\ Succeeds(d)  BY <1>4, <1>8, <2>4, <3>2 DEF Live, Succeeds
      <4>2. d \notin contested  BY <1>2, <2>4, <3>2, <4>1 DEF Contests, Live
      <4> QED  BY <1>8, <3>2, <4>1, <4>2 DEF IInv, CreationsOK
    <3> QED  BY <3>1, <3>2
  <2>5. CreatedIsThere'  BY <1>4, <2>1 DEF IInv, CreationsOK, CreatedIsThere
  <2> QED  BY <1>4, <2>2, <2>3, <2>4, <2>5 DEF CreationsOK, Live
<1> QED
  BY <1>10, <1>11, <1>12, <1>13, <1>15, <1>16, <1>17, <1>18, <1>19 DEF IInv

(* A request is written, or cannot be. *)
LEMMA WriteIInv ==
  ASSUME IInv, NEW c \in Caller, Write(c)
  PROVE  IInv'
<1>1. /\ call[c].stage = "write"
      /\ UNCHANGED <<link, toHost, serving, sandboxes, boot, late, reading, next_id, inflight, rx,
                     contested, mine>>
  BY DEF Write, told
<1>2. call \in [Caller -> Calling] /\ toGuest \in Seq(Asking)  BY TypeParts DEF IInv
<1>3. PICK s \in Calling : s = call[c]  BY <1>2
<1>4. s.id \in Id /\ s.id # 0 /\ s.id < next_id /\ s.req \in Request
  BY <1>1, <1>3, TypeParts DEF IInv, IdsOK, Live
<1>5. /\ serving[s.id].stage = "none"
      /\ \A k \in DOMAIN toGuest : toGuest[k].id # s.id
  BY <1>1, <1>3 DEF IInv, OnceOK
<1>6. PICK p \in Calling : /\ call' = [call EXCEPT ![c] = p]
                           /\ p.id = s.id /\ p.req = s.req /\ p.got = s.got
                           /\ \/ p.stage = "idle" /\ toGuest' = toGuest
                              \/ p.stage = "wait" /\ toGuest' = toGuest
                              \/ /\ p.stage = "wait"
                                 /\ toGuest' = Append(toGuest, [id |-> s.id, req |-> s.req])
  <2>1. PICK w : w = [s EXCEPT !.stage = "wait"]  OBVIOUS
  <2>2. PICK x : x = [s EXCEPT !.stage = "idle", !.end = "write"]  OBVIOUS
  <2>3. w \in Calling /\ w.stage = "wait" /\ w.id = s.id /\ w.req = s.req /\ w.got = s.got
    BY <2>1 DEF Calling
  <2>4. x \in Calling /\ x.stage = "idle" /\ x.id = s.id /\ x.req = s.req /\ x.got = s.got
    BY <2>2 DEF Calling
  <2>5. /\ call' = [call EXCEPT ![c].stage = "wait"] => call' = [call EXCEPT ![c] = w]
        /\ call' = [call EXCEPT ![c].stage = "idle", ![c].end = "write"] =>
             call' = [call EXCEPT ![c] = x]
    BY <1>2, <1>3, <2>1, <2>2
  <2>6. CASE link = "up"  BY <1>3, <2>3, <2>5, <2>6 DEF Write
  <2>7. CASE link = "down"  BY <2>3, <2>4, <2>5, <2>7 DEF Write
  <2> QED  BY <2>6, <2>7 DEF Write
<1>7. call'[c] = p /\ \A d \in Caller : d # c => call'[d] = call[d]
  BY <1>2, <1>6
<1>8. /\ toGuest' \in Seq(Asking)
      /\ \A k \in DOMAIN toGuest' :
           \/ k \in DOMAIN toGuest /\ toGuest'[k] = toGuest[k]
           \/ /\ k = Len(toGuest) + 1 /\ k \notin DOMAIN toGuest /\ p.stage = "wait"
              /\ toGuest'[k].id = s.id /\ toGuest'[k].req = s.req
  <2>1. CASE toGuest' = toGuest  BY <1>2, <2>1
  <2>2. CASE p.stage = "wait" /\ toGuest' = Append(toGuest, [id |-> s.id, req |-> s.req])
    <3>1. PICK e : e = [id |-> s.id, req |-> s.req]  OBVIOUS
    <3>2. e \in Asking /\ e.id = s.id /\ e.req = s.req  BY <1>4, <3>1 DEF Asking
    <3> QED  BY <1>2, <2>2, <3>1, <3>2, Appended
  <2> QED  BY <1>6, <2>1, <2>2
<1>9. \A d \in Caller : /\ call'[d].id = call[d].id /\ call'[d].req = call[d].req
                        /\ call'[d].got = call[d].got
                        /\ call'[d].stage # "idle" => call[d].stage # "idle"
                        /\ call[d].stage = "wait" => call'[d].stage = "wait"
                        /\ call'[d].stage = "write" => call[d].stage = "write" /\ d # c
  BY <1>1, <1>3, <1>6, <1>7
<1>10. TypeOK'
  <2>1. call' \in [Caller -> Calling]  BY <1>2, <1>6
  <2> QED  BY <1>1, <1>8, <2>1 DEF IInv, TypeOK, GuestTypeOK
<1>11. BootOK'
  <2>1. \A d \in Client : d \in Caller  BY DEF Caller
  <2>2. Boot \in Caller  BY DEF Caller
  <2>3. boot # "ready" => \A d \in Client : call'[d].stage = "idle" /\ call'[d].id = 0
    <3>1. boot # "ready" => c \notin Client
      BY <1>1 DEF IInv, BootOK
    <3> QED  BY <1>7, <2>1, <3>1 DEF IInv, BootOK
  <2> QED  BY <1>1, <1>9, <2>2, <2>3 DEF IInv, BootOK, Live
<1>12. IdsOK'
  <2>1. \A k \in DOMAIN toGuest' : toGuest'[k].id < next_id
    BY <1>4, <1>8 DEF IInv, IdsOK
  <2>2. \A d \in Caller : call'[d].id < next_id /\ (call'[d].stage # "idle" => call'[d].id # 0)
    BY <1>9 DEF IInv, IdsOK, Live
  <2>3. \A d, e \in Caller : call'[d].id = call'[e].id /\ call'[d].id # 0 => d = e
    BY <1>9 DEF IInv, IdsOK
  <2> QED  BY <1>1, <2>1, <2>2, <2>3 DEF IInv, IdsOK, Live
<1>13. TasksOK' /\ KindsOK'  BY <1>1 DEF IInv, TasksOK, KindsOK
<1>14. OnceOK'
  <2>1. \A j, k \in DOMAIN toGuest' : toGuest'[j].id = toGuest'[k].id => j = k
    BY <1>5, <1>8 DEF IInv, OnceOK
  <2>2. \A k \in DOMAIN toGuest' :
          /\ serving[toGuest'[k].id].stage = "none"
          /\ \E d \in Caller : call'[d].id = toGuest'[k].id /\ call'[d].stage = "wait"
    <3>1. TAKE k \in DOMAIN toGuest'
    <3>2. CASE k \in DOMAIN toGuest /\ toGuest'[k] = toGuest[k]
      BY <1>9, <3>2 DEF IInv, OnceOK
    <3>3. CASE toGuest'[k].id = s.id /\ p.stage = "wait"
      BY <1>5, <1>6, <1>7, <3>3
    <3> QED  BY <1>8, <3>2, <3>3
  <2>3. \A i \in Id : Unserved(i) => \E d \in Caller : call'[d].id = i /\ call'[d].stage = "wait"
    BY <1>9 DEF IInv, OnceOK
  <2>4. \A d \in Caller : call'[d].stage = "write" =>
          /\ serving[call'[d].id].stage = "none"
          /\ \A k \in DOMAIN toGuest' : toGuest'[k].id # call'[d].id
    <3>1. TAKE d \in Caller
    <3>2. call'[d].stage = "write" => call[d].stage = "write" /\ call'[d].id = call[d].id
                                      /\ call[d].id # s.id
      BY <1>3, <1>4, <1>9 DEF IInv, IdsOK
    <3> QED  BY <1>8, <3>2 DEF IInv, OnceOK
  <2> QED  BY <1>1, <2>1, <2>2, <2>3, <2>4 DEF IInv, OnceOK, Served, Unserved
<1>15. OwnOK'
  <2>1. \A d \in Caller : call[d].id = s.id => d = c  BY <1>3, <1>4 DEF IInv, IdsOK
  <2>2. \A d \in Caller : \A k \in DOMAIN toGuest' :
          toGuest'[k].id = call'[d].id => toGuest'[k].req = call'[d].req
    <3>1. TAKE d \in Caller
    <3>2. TAKE k \in DOMAIN toGuest'
    <3>3. CASE k \in DOMAIN toGuest /\ toGuest'[k] = toGuest[k]
      BY <1>9, <3>3 DEF IInv, OwnOK
    <3>4. CASE toGuest'[k].id = s.id /\ toGuest'[k].req = s.req
      BY <1>3, <1>9, <2>1, <3>4
    <3> QED  BY <1>8, <3>3, <3>4
  <2> QED  BY <1>1, <1>9, <2>2 DEF IInv, OwnOK
<1>16. AnswerIsOwn'  BY <1>9 DEF IInv, AnswerIsOwn
<1>17. CreationsOK'
  <2>1. \A d \in Caller : Live(d)' => Live(d)  BY <1>9 DEF Live
  <2>2. \A d \in Caller : Succeeds(d)' => Succeeds(d)  BY <1>1, <1>9 DEF Succeeds
  <2>3. \A d, e \in Caller :
          Live(d)' /\ Live(e)' /\ d # e /\ Gives(call'[d].req) \cap Takes(call'[e].req) # {} =>
            d \in contested
    BY <1>9, <2>1 DEF IInv, CreationsOK
  <2>4. \A d \in Caller : Live(d)' => Takes(call'[d].req) \cap mine = {}
    BY <1>9, <2>1 DEF IInv, CreationsOK
  <2>5. \A d \in Caller : Live(d)' /\ d \notin contested /\ Succeeds(d)' =>
          Gives(call'[d].req) \subseteq sandboxes
    BY <1>9, <2>1, <2>2 DEF IInv, CreationsOK
  <2> QED  BY <1>1, <2>3, <2>4, <2>5 DEF IInv, CreationsOK, CreatedIsThere
<1> QED
  BY <1>10, <1>11, <1>12, <1>13, <1>14, <1>15, <1>16, <1>17 DEF IInv

(* What is lost on the wire, or passed on to its channel, leaves less on its way. *)
LEMMA LinkFailsIInv ==
  ASSUME IInv, LinkFails
  PROVE  IInv'
<1>1. /\ link' = "down" /\ toGuest' = <<>> /\ toHost' \in {toHost, <<>>}
      /\ UNCHANGED <<serving, sandboxes, boot, late, reading, next_id, inflight, call, rx,
                     contested, mine>>
  BY DEF LinkFails, host, told
<1>2. /\ DOMAIN toGuest' = {}
      /\ \A k \in DOMAIN toHost' : k \in DOMAIN toHost /\ toHost'[k] = toHost[k]
  BY <1>1
<1>3. TypeOK'
  <2>1. toGuest' \in Seq(Asking) /\ toHost' \in Seq(Answer)
    <3>1. <<>> \in Seq(Asking) /\ <<>> \in Seq(Answer)  OBVIOUS
    <3> QED  BY <1>1, <3>1, TypeParts DEF IInv
  <2> QED  BY <1>1, <2>1 DEF IInv, TypeOK, GuestTypeOK
<1>4. BootOK'  BY <1>1 DEF IInv, BootOK, Live
<1>5. IdsOK'  BY <1>1, <1>2 DEF IInv, IdsOK, Live
<1>6. TasksOK'  BY <1>1 DEF IInv, TasksOK
<1>7. KindsOK'  BY <1>1, <1>2 DEF IInv, KindsOK
<1>8. OnceOK'
  BY <1>1, <1>2 DEF IInv, OnceOK, Served, Unserved
<1>9. OwnOK'  BY <1>1, <1>2 DEF IInv, OwnOK
<1>10. AnswerIsOwn'  BY <1>1 DEF IInv, AnswerIsOwn
<1>11. CreationsOK'
  BY <1>1, <1>2 DEF IInv, CreationsOK, CreatedIsThere, Live, Succeeds
<1> QED  BY <1>3, <1>4, <1>5, <1>6, <1>7, <1>8, <1>9, <1>10, <1>11 DEF IInv

(* The read loop passes a line on. *)
LEMMA ReadLineIInv ==
  ASSUME IInv, ReadLine
  PROVE  IInv'
<1> DEFINE l == Head(toHost)
           c == inflight[l.id]
<1>1. /\ toHost # <<>> /\ toHost' = Tail(toHost)
      /\ rx' = IF c # None /\ call[c].id = l.id /\ call[c].stage # "idle"
               THEN [rx EXCEPT ![c] = Append(@, l)] ELSE rx
      /\ inflight' \in {inflight, [inflight EXCEPT ![l.id] = None]}
      /\ UNCHANGED <<link, toGuest, serving, sandboxes, boot, late, reading, next_id, call,
                     contested, mine>>
  BY DEF ReadLine, told
<1>2. /\ toHost \in Seq(Answer) /\ rx \in [Caller -> Seq(Answer)]
      /\ inflight \in [Id -> Caller \cup {None}]
      /\ \A k \in DOMAIN toHost : toHost[k].id \in Id
  BY TypeParts DEF IInv
<1>3. /\ l \in Answer /\ 1 \in DOMAIN toHost /\ l = toHost[1] /\ toHost' \in Seq(Answer)
      /\ \A k \in DOMAIN toHost' : /\ k \in Nat /\ k + 1 \in DOMAIN toHost /\ k + 1 # 1
                                   /\ toHost'[k] = toHost[k + 1]
  BY <1>1, <1>2, Shifted
<1>4. l.id \in Id /\ c \in Caller \cup {None}  BY <1>2, <1>3
<1> HIDE DEF l, c
<1>5. /\ rx' \in [Caller -> Seq(Answer)]
      /\ \A d \in Caller : \A k \in DOMAIN rx'[d] :
           \/ k \in DOMAIN rx[d] /\ rx'[d][k] = rx[d][k]
           \/ rx'[d][k] = l /\ call[d].id = l.id
  <2>1. CASE c # None /\ call[c].id = l.id /\ call[c].stage # "idle"
    <3>1. c \in Caller /\ rx' = [rx EXCEPT ![c] = Append(rx[c], l)]  BY <1>1, <1>4, <2>1
    <3>2. PICK q : q = Append(rx[c], l)  OBVIOUS
    <3>3. /\ q \in Seq(Answer)
          /\ \A k \in DOMAIN q : \/ k \in DOMAIN rx[c] /\ q[k] = rx[c][k]
                                 \/ q[k] = l
      BY <1>2, <1>3, <3>1, <3>2, Appended
    <3>4. rx' = [rx EXCEPT ![c] = q]  BY <3>1, <3>2
    <3>5. rx'[c] = q /\ \A d \in Caller : d # c => rx'[d] = rx[d]  BY <1>2, <3>1, <3>4
    <3>6. rx' \in [Caller -> Seq(Answer)]  BY <1>2, <3>1, <3>3, <3>4
    <3>7. ASSUME NEW d \in Caller, NEW k \in DOMAIN rx'[d]
          PROVE  \/ k \in DOMAIN rx[d] /\ rx'[d][k] = rx[d][k]
                 \/ rx'[d][k] = l /\ call[d].id = l.id
      <4>1. CASE d # c  BY <3>5, <3>7, <4>1
      <4>2. CASE d = c  BY <2>1, <3>3, <3>5, <3>7, <4>2
      <4> QED  BY <4>1, <4>2
    <3> QED  BY <3>6, <3>7
  <2>2. CASE ~(c # None /\ call[c].id = l.id /\ call[c].stage # "idle")
    <3>1. rx' = rx  BY <1>1, <2>2
    <3> QED  BY <1>2, <3>1
  <2> QED  BY <2>1, <2>2
<1>6. /\ inflight' \in [Id -> Caller \cup {None}]
      /\ \A i \in Id : inflight'[i] \in {inflight[i], None}
  BY <1>1, <1>2
<1>7. TypeOK'
  BY <1>1, <1>3, <1>5, <1>6 DEF IInv, TypeOK, GuestTypeOK
<1>8. BootOK'  BY <1>1 DEF IInv, BootOK, Live
<1>9. IdsOK'  BY <1>1 DEF IInv, IdsOK, Live
<1>10. TasksOK'  BY <1>1 DEF IInv, TasksOK
<1>11. KindsOK'  BY <1>1, <1>3, <1>5 DEF IInv, KindsOK
<1>12. OnceOK'
  <2>1. \A k \in DOMAIN toHost' : serving'[toHost'[k].id].stage \in {"send", "over"}
    BY <1>1, <1>3 DEF IInv, OnceOK, Served
  <2>2. \A d \in Caller : \A k \in DOMAIN rx'[d] : serving'[rx'[d][k].id].stage \in {"send", "over"}
    BY <1>1, <1>3, <1>5 DEF IInv, OnceOK, Served
  <2>3. OnceOK /\ UNCHANGED <<toGuest, serving, call>>  BY <1>1 DEF IInv
  <2> QED  BY <2>1, <2>2, <2>3 DEF OnceOK, Served, Unserved
<1>13. OwnOK'
  <2>1. \A d \in Caller : \A k \in DOMAIN rx'[d] :
          rx'[d][k].id = call[d].id /\ rx'[d][k].req = call[d].req
    <3>1. TAKE d \in Caller
    <3>2. TAKE k \in DOMAIN rx'[d]
    <3>3. CASE k \in DOMAIN rx[d] /\ rx'[d][k] = rx[d][k]  BY <3>3 DEF IInv, OwnOK
    <3>4. CASE rx'[d][k] = l /\ call[d].id = l.id  BY <1>3, <3>4 DEF IInv, OwnOK
    <3> QED  BY <1>5, <3>3, <3>4
  <2>2. \A d \in Caller : \A k \in DOMAIN toHost' :
          toHost'[k].id = call[d].id => toHost'[k].req = call[d].req
    BY <1>3 DEF IInv, OwnOK
  <2> QED  BY <1>1, <2>1, <2>2 DEF IInv, OwnOK
<1>14. AnswerIsOwn'  BY <1>1 DEF IInv, AnswerIsOwn
<1>15. CreationsOK'
  <2>1. ASSUME NEW d \in Caller, Succeeds(d)' PROVE Succeeds(d)
    <3>1. call' = call /\ serving' = serving  BY <1>1
    <3>2. CASE \E k \in DOMAIN toHost' : toHost'[k].id = call[d].id /\ toHost'[k].kind = "ok"
      BY <1>3, <3>2 DEF Succeeds
    <3>3. CASE \E k \in DOMAIN rx'[d] : rx'[d][k].kind = "ok"
      <4>1. PICK k \in DOMAIN rx'[d] : rx'[d][k].kind = "ok"  BY <3>3
      <4>2. CASE k \in DOMAIN rx[d] /\ rx'[d][k] = rx[d][k]  BY <4>1, <4>2 DEF Succeeds
      <4>3. CASE rx'[d][k] = l /\ call[d].id = l.id  BY <1>3, <4>1, <4>3 DEF Succeeds
      <4> QED  BY <1>5, <4>1, <4>2, <4>3
    <3>4. CASE serving[call[d].id].stage = "send" /\ serving[call[d].id].lines = <<"ok">>
      BY <3>4 DEF Succeeds
    <3> QED  BY <2>1, <3>1, <3>2, <3>3, <3>4 DEF Succeeds
  <2> QED  BY <1>1, <2>1 DEF IInv, CreationsOK, CreatedIsThere, Live
<1> QED
  BY <1>7, <1>8, <1>9, <1>10, <1>11, <1>12, <1>13, <1>14, <1>15 DEF IInv

(* A caller takes a line from its channel. *)
LEMMA ReceiveIInv ==
  ASSUME IInv, NEW c \in Caller, Receive(c)
  PROVE  IInv'
<1>1. /\ call[c].stage = "wait" /\ rx[c] # <<>> /\ rx' = [rx EXCEPT ![c] = Tail(@)]
      /\ UNCHANGED <<link, toGuest, toHost, serving, sandboxes, boot, late, reading, next_id,
                     inflight, contested>>
  BY DEF Receive, guest
<1>2. call \in [Caller -> Calling] /\ rx \in [Caller -> Seq(Answer)]  BY TypeParts DEF IInv
<1>3. PICK s \in Calling : s = call[c]  BY <1>2
<1>4. s.id \in Id /\ s.id # 0 /\ s.req \in Request /\ s.got \in Seq(Answer)
  BY <1>1, <1>3, TypeParts DEF IInv, IdsOK, Live, Calling
<1>5. PICK l : l = Head(rx[c])  OBVIOUS
<1>6. PICK q : q = Tail(rx[c])  OBVIOUS
<1>7. /\ l \in Answer /\ 1 \in DOMAIN rx[c] /\ l = rx[c][1] /\ q \in Seq(Answer)
      /\ \A k \in DOMAIN q : k + 1 \in DOMAIN rx[c] /\ q[k] = rx[c][k + 1]
  BY <1>1, <1>2, <1>5, <1>6, Shifted
<1>8. l.id = s.id /\ l.req = s.req /\ Served(s.id) /\ (l.kind = "output" => s.req.op = "exec")
  BY <1>3, <1>7 DEF IInv, OwnOK, OnceOK, KindsOK
<1> DEFINE ends == s.req.op # "exec" \/ l.kind # "output"
<1>9. PICK p : p = [s EXCEPT !.got = Append(s.got, l),
                             !.stage = IF ends THEN "idle" ELSE s.stage,
                             !.end = IF ends THEN l.kind ELSE s.end]
  OBVIOUS
<1>10. call' = [call EXCEPT ![c] = p]
  BY <1>2, <1>3, <1>5, <1>9 DEF Receive
<1>11. /\ p \in Calling /\ p.id = s.id /\ p.req = s.req /\ p.got = Append(s.got, l)
       /\ p.stage \in {"idle", "wait"}
  <2>1. Append(s.got, l) \in Seq(Answer)  BY <1>4, <1>7
  <2>2. ends => l.kind \in {"exit", "ok", "error"}
    BY <1>7, <1>8 DEF Answer, LineKind
  <2>3. /\ p.id = s.id /\ p.req = s.req /\ p.got = Append(s.got, l)
        /\ p.stage = IF ends THEN "idle" ELSE s.stage
    BY <1>9 DEF Calling
  <2> HIDE DEF ends
  <2>4. p \in Calling  BY <1>9, <2>1, <2>2 DEF Calling
  <2>5. s.stage = "wait"  BY <1>1, <1>3
  <2> QED  BY <2>3, <2>4, <2>5
<1> HIDE DEF ends
<1>12. /\ call'[c] = p /\ \A d \in Caller : d # c => call'[d] = call[d]
       /\ rx'[c] = q /\ \A d \in Caller : d # c => rx'[d] = rx[d]
  BY <1>1, <1>2, <1>6, <1>10
<1>13. \A d \in Caller : /\ call'[d].id = call[d].id /\ call'[d].req = call[d].req
                         /\ call'[d].stage # "idle" => call[d].stage # "idle"
                         /\ call[d].stage = "wait" /\ d # c => call'[d].stage = "wait"
                         /\ call'[d].stage = "write" => call[d].stage = "write"
  BY <1>1, <1>3, <1>11, <1>12
<1>14. \A d \in Caller : \A k \in DOMAIN rx'[d] :
         \E m \in DOMAIN rx[d] : rx'[d][k] = rx[d][m]
  BY <1>7, <1>12
<1>15. /\ \A k \in DOMAIN toGuest : toGuest[k].id # s.id
       /\ ~Unserved(s.id)
  <2>1. serving[s.id].stage # "none"  BY <1>8 DEF Served
  <2> QED  BY <1>8, <2>1 DEF IInv, OnceOK, Served, Unserved
<1>16. mine' = IF l.kind = "ok" /\ c \notin contested THEN mine \cup Gives(s.req) ELSE mine
  BY <1>3, <1>5 DEF Receive
<1>17. TypeOK'
  <2>1. call' \in [Caller -> Calling]  BY <1>2, <1>10, <1>11
  <2>2. rx' \in [Caller -> Seq(Answer)]  BY <1>1, <1>2, <1>6, <1>7
  <2>3. mine' \subseteq Key
    BY <1>4, <1>16, GivesTakes DEF IInv, TypeOK
  <2> QED  BY <1>1, <2>1, <2>2, <2>3 DEF IInv, TypeOK, GuestTypeOK
<1>18. BootOK'
  <2>1. /\ Boot \in Caller /\ \A d \in Client : d \in Caller  BY DEF Caller
  <2>2. boot # "ready" => \A d \in Client : call'[d].stage = "idle" /\ call'[d].id = 0
    <3>1. boot # "ready" => c \notin Client
      BY <1>1 DEF IInv, BootOK
    <3> QED  BY <1>12, <2>1, <3>1 DEF IInv, BootOK
  <2> QED  BY <1>1, <1>13, <2>1, <2>2 DEF IInv, BootOK, Live
<1>19. IdsOK'
  <2>1. \A d \in Caller : call'[d].id < next_id /\ (call'[d].stage # "idle" => call'[d].id # 0)
    BY <1>13 DEF IInv, IdsOK, Live
  <2>2. \A d, e \in Caller : call'[d].id = call'[e].id /\ call'[d].id # 0 => d = e
    BY <1>13 DEF IInv, IdsOK
  <2> QED  BY <1>1, <2>1, <2>2 DEF IInv, IdsOK, Live
<1>20. TasksOK'  BY <1>1 DEF IInv, TasksOK
<1>21. KindsOK'
  <2>1. \A d \in Caller : \A k \in DOMAIN rx'[d] :
          rx'[d][k].kind = "output" => rx'[d][k].req.op = "exec"
    BY <1>14 DEF IInv, KindsOK
  <2> QED  BY <1>1, <2>1 DEF IInv, KindsOK
<1>22. OnceOK'
  <2>1. \A k \in DOMAIN toGuest :
          \E d \in Caller : call'[d].id = toGuest[k].id /\ call'[d].stage = "wait"
    <3>1. TAKE k \in DOMAIN toGuest
    <3>2. PICK d \in Caller : call[d].id = toGuest[k].id /\ call[d].stage = "wait"
      BY DEF IInv, OnceOK
    <3>3. d # c  BY <1>3, <1>15, <3>2
    <3> QED  BY <1>13, <3>2, <3>3
  <2>2. \A i \in Id : Unserved(i) => \E d \in Caller : call'[d].id = i /\ call'[d].stage = "wait"
    <3>1. SUFFICES ASSUME NEW i \in Id, Unserved(i)
                   PROVE  \E d \in Caller : call'[d].id = i /\ call'[d].stage = "wait"
      OBVIOUS
    <3>2. PICK d \in Caller : call[d].id = i /\ call[d].stage = "wait"
      BY <3>1 DEF IInv, OnceOK
    <3>3. d # c  BY <1>3, <1>15, <3>1, <3>2
    <3> QED  BY <1>13, <3>2, <3>3
  <2>3. \A d \in Caller : \A k \in DOMAIN rx'[d] : serving[rx'[d][k].id].stage \in {"send", "over"}
    BY <1>14 DEF IInv, OnceOK, Served
  <2>4. UNCHANGED <<toGuest, toHost, serving>> /\ OnceOK  BY <1>1 DEF IInv
  <2>5. \A d \in Caller : call'[d].stage = "write" =>
          call[d].stage = "write" /\ call'[d].id = call[d].id
    BY <1>13
  <2> QED  BY <2>1, <2>2, <2>3, <2>4, <2>5 DEF OnceOK, Served, Unserved
<1>23. OwnOK'
  <2>1. \A d \in Caller : \A k \in DOMAIN rx'[d] :
          rx'[d][k].id = call'[d].id /\ rx'[d][k].req = call'[d].req
    BY <1>13, <1>14 DEF IInv, OwnOK
  <2> QED  BY <1>1, <1>13, <2>1 DEF IInv, OwnOK
<1>24. AnswerIsOwn'
  <2>1. \A k \in DOMAIN s.got : s.got[k].id = s.id /\ s.got[k].req = s.req
    BY <1>3 DEF IInv, AnswerIsOwn
  <2>2. \A k \in DOMAIN Append(s.got, l) :
          \/ k \in DOMAIN s.got /\ Append(s.got, l)[k] = s.got[k]
          \/ Append(s.got, l)[k] = l
    BY <1>4, <1>7, Appended
  <2>3. \A k \in DOMAIN p.got : p.got[k].id = p.id /\ p.got[k].req = p.req
    BY <1>8, <1>11, <2>1, <2>2
  <2> QED  BY <1>12, <2>3 DEF IInv, AnswerIsOwn
<1>25. CreationsOK'
  <2>1. \A d \in Caller : Live(d)' => Live(d)  BY <1>13 DEF Live
  <2>2. \A d \in Caller : Succeeds(d)' => Succeeds(d)
    BY <1>1, <1>13, <1>14 DEF Succeeds
  <2>3. l.kind = "ok" /\ c \notin contested => Gives(s.req) \subseteq sandboxes
    <3>1. l.kind = "ok" => Succeeds(c)  BY <1>7 DEF Succeeds
    <3> QED  BY <1>1, <1>3, <3>1 DEF IInv, CreationsOK, Live
  <2>4. \A d \in Caller : Live(d) /\ c \notin contested => Takes(call[d].req) \cap Gives(s.req) = {}
    <3>1. TAKE d \in Caller
    <3>2. CASE d = c  BY <1>3, <1>4, <3>2, GivesTakes
    <3>3. CASE d # c  BY <1>1, <1>3, <3>3 DEF IInv, CreationsOK, Live
    <3> QED  BY <3>2, <3>3
  <2>5. \A d \in Caller : Live(d)' => Takes(call'[d].req) \cap mine' = {}
    <3>1. TAKE d \in Caller
    <3>2. Live(d) => Takes(call[d].req) \cap mine' = {}
      BY <1>16, <2>4 DEF IInv, CreationsOK
    <3> QED  BY <1>13, <2>1, <3>2
  <2>6. \A d, e \in Caller :
          Live(d)' /\ Live(e)' /\ d # e /\ Gives(call'[d].req) \cap Takes(call'[e].req) # {} =>
            d \in contested
    BY <1>13, <2>1 DEF IInv, CreationsOK
  <2>7. \A d \in Caller : Live(d)' /\ d \notin contested /\ Succeeds(d)' =>
          Gives(call'[d].req) \subseteq sandboxes
    BY <1>13, <2>1, <2>2 DEF IInv, CreationsOK
  <2>8. mine' \subseteq sandboxes  BY <1>16, <2>3 DEF IInv, CreationsOK, CreatedIsThere
  <2> QED  BY <1>1, <2>5, <2>6, <2>7, <2>8 DEF CreationsOK, CreatedIsThere
<1> QED
  BY <1>17, <1>18, <1>19, <1>20, <1>21, <1>22, <1>23, <1>24, <1>25 DEF IInv

----------------------------------------------------------------------------
(* The theorems. *)

LEMMA NextIInv == IInv /\ [Next]_vars => IInv'
<1> SUFFICES ASSUME IInv, [Next]_vars PROVE IInv'
  OBVIOUS
<1>1. CASE Connect  BY <1>1, ConnectIInv
<1>2. CASE ConnectFails \/ Deadline \/ PingEnds \/ ReadEnds  BY <1>2, BootIInv
<1>3. CASE \E c \in Client : Call(c)  BY <1>3, CallIInv
<1>4. CASE ReadLine  BY <1>4, ReadLineIInv
<1>5. CASE \E c \in Caller : Write(c) \/ Receive(c)  BY <1>5, WriteIInv, ReceiveIInv
<1>6. CASE Guest /\ UNCHANGED <<host, told>>
  <2>1. CASE Accept  BY <1>6, <2>1, AcceptIInv
  <2>2. ASSUME NEW i \in Id, Serve(i) PROVE IInv'
    BY <1>6, <2>2, LookupIInv, DispatchIInv, RemoveIInv, WorkIInv, CommitIInv, SendIInv DEF Serve
  <2> QED  BY <1>6, <2>1, <2>2 DEF Guest
<1>7. CASE LinkFails  BY <1>7, LinkFailsIInv
<1>8. CASE UNCHANGED vars
  <2>1. /\ boot \in {"connecting", "pinging", "ready", "failed"} /\ late \in BOOLEAN
        /\ reading \in BOOLEAN /\ (boot = "connecting" => ~Live(Boot))
    BY DEF IInv, TypeOK, BootOK
  <2>2. UNCHANGED <<guest, boot, late, reading, next_id, inflight, call, rx, told>>
    BY <1>8 DEF vars, host
  <2> QED  BY <2>1, <2>2, HostMoves
<1> QED
  BY <1>1, <1>2, <1>3, <1>4, <1>5, <1>6, <1>7, <1>8 DEF Next, Host

(* The inductive invariant: an id is one call's for good, its request is at one
   place at a time and answered under its own id, and what a success reports is
   there unless somebody may have asked for its end. *)
THEOREM Invariance == Spec => []IInv
BY InitIInv, NextIInv, PTL DEF Spec

(* Every variable keeps its type, so that no id that was not handed out yet is
   in the table of calls in flight. *)
THEOREM TypeCorrect == Spec => []TypeOK
<1>1. IInv => TypeOK  BY DEF IInv
<1> QED  BY <1>1, Invariance, PTL

(* However calls overlap and their answers overtake each other, every line that a
   call is given answers that call's own request (fetch_add and the table of
   calls in flight). *)
THEOREM OwnAnswers == Spec => []AnswerIsOwn
<1>1. IInv => AnswerIsOwn  BY DEF IInv
<1> QED  BY <1>1, Invariance, PTL

(* What a caller was told is created is in the guest's map, until someone asks for
   its end: the map is changed before the answer goes out. *)
THEOREM CreatedStays == Spec => []CreatedIsThere
<1>1. IInv => CreatedIsThere  BY DEF IInv, CreationsOK
<1> QED  BY <1>1, Invariance, PTL
=============================================================================
