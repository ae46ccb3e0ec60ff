---------------------------- MODULE DaemonProofs ----------------------------
(***************************************************************************)
(* Theorems about requests to the daemon, for any calls, retries, queues   *)
(* and workers.                                                            *)
(***************************************************************************)
EXTENDS Daemon, FiniteSetTheorems, TLAPS

USE DaemonAssumption

LEMMA InitIInv == Init => IInv
<1> SUFFICES ASSUME Init PROVE IInv
  OBVIOUS
<1> USE DEF Init
<1>1. DOMAIN conn = {}  OBVIOUS
<1>2. TypeOK
  <2>1. backlog \in Seq(DOMAIN conn) /\ pool \in Seq(Pooled) /\ lane \in [Lane -> Seq(DOMAIN conn)]
    OBVIOUS
  <2>2. conn \in [DOMAIN conn -> Progress]  BY <1>1
  <2> QED  BY <1>1, <2>1, <2>2 DEF TypeOK, Conn
<1>3. ClientOK  BY <1>1 DEF ClientOK
<1>4. QueuesOK  BY DEF QueuesOK
<1>5. HistoryOK
  <2>1. \A c \in Call : With(c, {"running", "answered"}) = {} /\ With(c, {"answered"}) = {}
    BY <1>1 DEF With
  <2> QED  BY <2>1, FS_EmptySet DEF HistoryOK
<1>6. ContainersOK  BY <1>1 DEF ContainersOK
<1> QED  BY <1>2, <1>3, <1>4, <1>5, <1>6 DEF IInv

----------------------------------------------------------------------------
(* The connections of a call, counted by their progress. *)

LEMMA WithFinite ==
  ASSUME TypeOK, NEW c \in Call, NEW ps
  PROVE  /\ With(c, ps) \subseteq {c} \X (1..Tries)
         /\ IsFiniteSet(With(c, ps)) /\ Cardinality(With(c, ps)) \in Nat
<1>1. With(c, ps) \subseteq {c} \X (1..Tries)
  <2> SUFFICES ASSUME NEW x \in With(c, ps) PROVE x \in {c} \X (1..Tries)
    OBVIOUS
  <2>1. x \in Conn /\ x[1] = c  BY DEF With, TypeOK
  <2> QED  BY <2>1 DEF Conn
<1>2. IsFiniteSet({c} \X (1..Tries))
  <2>1. IsFiniteSet({c})  BY FS_Singleton
  <2>2. IsFiniteSet(1..Tries)
    <3>1. Tries \in Int  OBVIOUS
    <3> QED  BY <3>1, FS_Interval
  <2> QED  BY <2>1, <2>2, FS_Product
<1> QED  BY <1>1, <1>2, FS_Subset, FS_CardinalityType

(* A connection that moves changes the counts it enters or leaves only. *)
LEMMA CountKept ==
  ASSUME TypeOK, NEW y \in DOMAIN conn, NEW p, Becomes(y, p), NEW c, NEW ps,
         y[1] # c \/ (conn[y] \in ps <=> p \in ps)
  PROVE  With(c, ps)' = With(c, ps)
BY DEF With, Becomes, TypeOK

LEMMA CountUp ==
  ASSUME TypeOK, NEW y \in DOMAIN conn, NEW p, Becomes(y, p), NEW c \in Call, NEW ps,
         y[1] = c, conn[y] \notin ps, p \in ps
  PROVE  Cardinality(With(c, ps)') = Cardinality(With(c, ps)) + 1
<1>1. With(c, ps)' = With(c, ps) \cup {y} /\ y \notin With(c, ps)
  BY DEF With, Becomes, TypeOK
<1>2. IsFiniteSet(With(c, ps))  BY WithFinite
<1> QED  BY <1>1, <1>2, FS_AddElement

(* So does a new one, which enters its own. *)
LEMMA CountOpened ==
  ASSUME NEW y, y \notin DOMAIN conn, NEW p, conn' = Opened(y, p), NEW c, NEW ps,
         y[1] # c \/ p \notin ps
  PROVE  With(c, ps)' = With(c, ps)
BY DEF With, Opened

----------------------------------------------------------------------------
(* Steps of the clients that touch no connection. *)

LEMMA ClientOnly ==
  ASSUME IInv, NEW c \in Call, NEW n \in 0..Tries,
         NEW p \in {"submitting", "queued", "connecting"} \cup Returned,
         Moves(c, p), try' = [try EXCEPT ![c] = n],
         UNCHANGED <<conn, backlog, serverVars>>,
         client[c] # "ok", p = "submitting" => c \in Pooled,
         p \in {"submitting", "queued"} <=> n = 0,
         n >= try[c], p = "connecting" => n > try[c],
         p = "ok" => n = try[c] /\ client[c] = "reading" /\ conn[Current(c)] = "answered",
         c \in Destroys /\ client[c] = "idle" => client[On[c]] = "ok",
         pool' \in Seq(Pooled), Len(pool') <= QueueDepth,
         \A i \in DOMAIN pool' : client'[pool'[i]] = "queued",
         \A i, j \in DOMAIN pool' : i # j => pool'[i] # pool'[j]
  PROVE  IInv'
<1>1. UNCHANGED <<conn, backlog, lane, made, live, begun, ended>>  BY DEF serverVars
<1>2. /\ client \in [Call -> {"idle", "submitting", "queued"} \cup Waiting \cup Returned]
      /\ try \in [Call -> 0..Tries]
  BY DEF IInv, TypeOK
<1>3. /\ client' = [client EXCEPT ![c] = p] /\ try' = [try EXCEPT ![c] = n]
      /\ client'[c] = p /\ try'[c] = n
      /\ \A e \in Call : e # c => client'[e] = client[e] /\ try'[e] = try[e]
  BY <1>2 DEF Moves
<1>4. TypeOK'
  <2>1. client' \in [Call -> {"idle", "submitting", "queued"} \cup Waiting \cup Returned]
    BY <1>2, <1>3 DEF Waiting
  <2>2. try' \in [Call -> 0..Tries]  BY <1>2, <1>3
  <2> QED  BY <1>1, <2>1, <2>2 DEF IInv, TypeOK
<1>5. ClientOK'
  <2>1. \A e \in Call : client'[e] \in {"idle", "submitting", "queued"} <=> try'[e] = 0
    BY <1>3 DEF IInv, ClientOK, Returned
  <2>2. \A x \in DOMAIN conn : x[1] \in Call =>
          x[2] <= try'[x[1]] /\ (client'[x[1]] = "connecting" => x[2] # try'[x[1]])
    <3>1. SUFFICES ASSUME NEW x \in DOMAIN conn, x[1] \in Call
                   PROVE  x[2] <= try'[x[1]] /\ (client'[x[1]] = "connecting" => x[2] # try'[x[1]])
      OBVIOUS
    <3>2. x[2] <= try[x[1]] /\ (client[x[1]] = "connecting" => x[2] # try[x[1]])
      BY <3>1 DEF IInv, ClientOK
    <3>3. x[2] \in Nat /\ try[c] \in Nat
      <4>1. x \in Conn  BY DEF IInv, TypeOK
      <4> QED  BY <1>2, <4>1 DEF Conn
    <3> QED  BY <1>3, <3>1, <3>2, <3>3
  <2>3. \A e \in Call :
          /\ client'[e] \in {"writing", "reading", "ok"} => Current(e)' \in DOMAIN conn
          /\ client'[e] = "writing" => conn[Current(e)'] \in {"connected", "closed"}
          /\ client'[e] = "ok" => conn[Current(e)'] = "answered"
    <3>1. SUFFICES ASSUME NEW e \in Call
                   PROVE  /\ client'[e] \in {"writing", "reading", "ok"} => Current(e)' \in DOMAIN conn
                          /\ client'[e] = "writing" => conn[Current(e)'] \in {"connected", "closed"}
                          /\ client'[e] = "ok" => conn[Current(e)'] = "answered"
      OBVIOUS
    <3>2. CASE e = c  BY <1>3, <3>2 DEF IInv, ClientOK, Current, Returned
    <3>3. CASE e # c  BY <1>3, <3>3 DEF IInv, ClientOK, Current
    <3> QED  BY <3>2, <3>3
  <2>4. \A e \in Call : client'[e] = "submitting" => e \in Pooled  BY <1>3 DEF IInv, ClientOK
  <2> QED  BY <1>1, <2>1, <2>2, <2>3, <2>4 DEF ClientOK
<1>6. QueuesOK'  BY <1>1 DEF IInv, QueuesOK, LaneOf
<1>7. HistoryOK'
  <2>1. \A e, ps : With(e, ps)' = With(e, ps)  BY <1>1 DEF With
  <2> QED  BY <1>1, <2>1 DEF IInv, HistoryOK
<1>8. ContainersOK'
  <2>1. ContainersOK  BY DEF IInv
  <2>2. ASSUME NEW d \in Destroys
        PROVE  /\ d \in Call /\ On[d] \in Call
               /\ client[On[d]] = "ok" => client'[On[d]] = "ok" /\ Destroyed(d)' = Destroyed(d)
               /\ client'[d] # "idle" => client[d] # "idle" \/ client[On[d]] = "ok"
    <3>1. d \in Call /\ On[d] \in Call  OBVIOUS
    <3> QED  BY <1>3, <3>1 DEF Destroyed, Current
  <2>3. \A d \in Destroys : client'[d] # "idle" => client'[On[d]] = "ok"
    BY <2>1, <2>2 DEF ContainersOK
  <2>4. ASSUME NEW x \in DOMAIN conn, x[1] \in Destroys, conn[x] = "answered"
        PROVE  Destroyed(x[1])' \notin live
    <3>1. client[x[1]] # "idle"
      <4>1. x[2] <= try[x[1]] /\ x \in Conn  BY <2>2, <2>4 DEF IInv, ClientOK, TypeOK
      <4>2. x[2] > 0 /\ x[2] \in Nat  BY <4>1 DEF Conn
      <4>3. try[x[1]] # 0  BY <1>2, <2>2, <2>4, <4>1, <4>2
      <4> QED  BY <2>2, <2>4, <4>3 DEF IInv, ClientOK
    <3> QED  BY <2>1, <2>2, <2>4, <3>1 DEF ContainersOK
  <2> QED  BY <1>1, <2>1, <2>3, <2>4 DEF ContainersOK
<1> QED  BY <1>4, <1>5, <1>6, <1>7, <1>8 DEF IInv

LEMMA MakeIInv ==
  ASSUME IInv, NEW c \in Call, Make(c)
  PROVE  IInv'
<1>1. /\ client[c] = "idle" /\ HasContainer(c) /\ try[c] = 0
      /\ UNCHANGED <<pool, conn, backlog, serverVars>>
  BY DEF Make, IInv, ClientOK
<1>2. c \in Destroys => client[On[c]] = "ok"  BY <1>1 DEF HasContainer
<1>3. pool \in Seq(Pooled) /\ client \in [Call -> {"idle", "submitting", "queued"} \cup Waiting \cup Returned]
  BY DEF IInv, TypeOK
<1>4. \A i \in DOMAIN pool : pool[i] \in Call /\ client[pool[i]] = "queued"
  BY <1>3 DEF IInv, ClientOK
<1>5. CASE c \in Pooled /\ Moves(c, "submitting") /\ UNCHANGED try
  <2>1. try' = [try EXCEPT ![c] = 0]  BY <1>1, <1>5 DEF IInv, TypeOK
  <2>2. \A i \in DOMAIN pool' : client'[pool'[i]] = "queued"  BY <1>1, <1>3, <1>4, <1>5 DEF Moves
  <2>3. pool' \in Seq(Pooled) /\ Len(pool') <= QueueDepth
        /\ \A i, j \in DOMAIN pool' : i # j => pool'[i] # pool'[j]
    BY <1>1 DEF IInv, TypeOK, ClientOK
  <2>4. 0 \in 0..Tries /\ 0 >= try[c] /\ ("submitting" = "connecting" => 0 > try[c])
        /\ "submitting" \in {"submitting", "queued", "connecting"} \cup Returned
        /\ ("submitting" \in {"submitting", "queued"} <=> 0 = 0) /\ "submitting" # "ok" /\ client[c] # "ok"
    BY <1>1
  <2> QED  BY <1>1, <1>2, <1>5, <2>1, <2>2, <2>3, <2>4, ClientOnly
<1>6. CASE Moves(c, "connecting") /\ try' = [try EXCEPT ![c] = 1]
  <2>2. \A i \in DOMAIN pool' : client'[pool'[i]] = "queued"  BY <1>1, <1>3, <1>4, <1>6 DEF Moves
  <2>3. pool' \in Seq(Pooled) /\ Len(pool') <= QueueDepth
        /\ \A i, j \in DOMAIN pool' : i # j => pool'[i] # pool'[j]
    BY <1>1 DEF IInv, TypeOK, ClientOK
  <2>4. 1 \in 0..Tries /\ 1 >= try[c] /\ ("connecting" = "connecting" => 1 > try[c])
        /\ "connecting" \in {"submitting", "queued", "connecting"} \cup Returned
        /\ ("connecting" \in {"submitting", "queued"} <=> 1 = 0) /\ "connecting" # "ok" /\ client[c] # "ok"
    BY <1>1
  <2> QED  BY <1>1, <1>2, <1>6, <2>2, <2>3, <2>4, ClientOnly
<1> QED  BY <1>5, <1>6 DEF Make

LEMMA SubmitIInv ==
  ASSUME IInv, NEW c \in Call, Submit(c)
  PROVE  IInv'
<1>1. /\ client[c] = "submitting" /\ Len(pool) < QueueDepth
      /\ Moves(c, "queued") /\ pool' = Append(pool, c)
      /\ UNCHANGED <<try, conn, backlog, serverVars>>
  BY DEF Submit
<1>2. pool \in Seq(Pooled) /\ client \in [Call -> {"idle", "submitting", "queued"} \cup Waiting \cup Returned]
  BY DEF IInv, TypeOK
<1>3. \A i \in DOMAIN pool : pool[i] \in Call /\ client[pool[i]] = "queued"
  BY <1>2 DEF IInv, ClientOK
<1>4. try[c] = 0 /\ try' = [try EXCEPT ![c] = 0] /\ c \in Pooled
  BY <1>1 DEF IInv, ClientOK, TypeOK
<1>5. pool' \in Seq(Pooled) /\ Len(pool') <= QueueDepth  BY <1>1, <1>2, <1>4
<1>6. DOMAIN pool' = DOMAIN pool \cup {Len(pool) + 1} /\ pool'[Len(pool) + 1] = c
      /\ \A i \in DOMAIN pool : pool'[i] = pool[i]
  BY <1>1, <1>2
<1>7. \A i \in DOMAIN pool' : client'[pool'[i]] = "queued"  BY <1>1, <1>2, <1>3, <1>6 DEF Moves
<1>8. \A i, j \in DOMAIN pool' : i # j => pool'[i] # pool'[j]
  <2>1. \A i \in DOMAIN pool : pool[i] # c  BY <1>1, <1>3
  <2> QED  BY <1>6, <2>1 DEF IInv, ClientOK
<1>9. 0 \in 0..Tries /\ 0 >= try[c] /\ ("queued" = "connecting" => 0 > try[c])
      /\ "queued" \in {"submitting", "queued", "connecting"} \cup Returned
      /\ ("queued" \in {"submitting", "queued"} <=> 0 = 0) /\ "queued" # "ok" /\ client[c] # "ok"
  BY <1>1, <1>4
<1> QED  BY <1>1, <1>4, <1>5, <1>7, <1>8, <1>9, ClientOnly

LEMMA TakeIInv ==
  ASSUME IInv, Take
  PROVE  IInv'
<1> DEFINE c == Head(pool)
<1>1. /\ pool # <<>> /\ Moves(c, "connecting") /\ try' = [try EXCEPT ![c] = 1]
      /\ pool' = Tail(pool)
      /\ UNCHANGED <<conn, backlog, serverVars>>
  BY DEF Take
<1>2. pool \in Seq(Pooled) /\ Len(pool) <= QueueDepth
      /\ client \in [Call -> {"idle", "submitting", "queued"} \cup Waiting \cup Returned]
  BY DEF IInv, TypeOK
<1>3. c \in Call /\ client[c] = "queued" /\ try[c] = 0 /\ c = pool[1] /\ 1 \in DOMAIN pool
  BY <1>1, <1>2 DEF IInv, ClientOK
<1>4. pool' \in Seq(Pooled) /\ Len(pool') <= QueueDepth
      /\ \A i \in DOMAIN pool' : i + 1 \in DOMAIN pool /\ i + 1 # 1 /\ pool'[i] = pool[i + 1] /\ i \in Int
  BY <1>1, <1>2
<1> HIDE DEF c
<1>5. \A i \in DOMAIN pool' : client'[pool'[i]] = "queued"
  <2> SUFFICES ASSUME NEW i \in DOMAIN pool' PROVE client'[pool'[i]] = "queued"
    OBVIOUS
  <2>1. pool'[i] # c /\ client[pool'[i]] = "queued"  BY <1>3, <1>4 DEF IInv, ClientOK
  <2>2. pool'[i] \in Call  BY <1>4
  <2> QED  BY <1>1, <1>2, <2>1, <2>2 DEF Moves
<1>6. \A i, j \in DOMAIN pool' : i # j => pool'[i] # pool'[j]
  BY <1>4 DEF IInv, ClientOK
<1>7. 1 \in 0..Tries /\ 1 >= try[c] /\ ("connecting" = "connecting" => 1 > try[c])
      /\ "connecting" \in {"submitting", "queued", "connecting"} \cup Returned
      /\ ("connecting" \in {"submitting", "queued"} <=> 1 = 0) /\ "connecting" # "ok" /\ client[c] # "ok"
  BY <1>3
<1> QED  BY <1>1, <1>3, <1>4, <1>5, <1>6, <1>7, ClientOnly

(* A try fails, whatever the client makes of it. *)
LEMMA FailedTryIInv ==
  ASSUME IInv, NEW c \in Call, client[c] \in Waiting, Retry(c) \/ GiveUp(c),
         UNCHANGED <<pool, conn, backlog, serverVars>>
  PROVE  IInv'
<1>1. /\ client \in [Call -> {"idle", "submitting", "queued"} \cup Waiting \cup Returned]
      /\ try \in [Call -> 0..Tries] /\ pool \in Seq(Pooled)
      /\ try[c] # 0
  BY DEF IInv, TypeOK, ClientOK, Waiting
<1>2. \A i \in DOMAIN pool : pool[i] \in Call /\ client[pool[i]] = "queued" /\ pool[i] # c
  BY <1>1 DEF IInv, ClientOK, Waiting
<1>3. \/ try[c] < Tries /\ Moves(c, "connecting") /\ try' = [try EXCEPT ![c] = try[c] + 1]
      \/ Moves(c, "error") /\ try' = [try EXCEPT ![c] = try[c]]
  BY <1>1 DEF Retry, GiveUp
<1>4. \A i \in DOMAIN pool' : client'[pool'[i]] = "queued"  BY <1>1, <1>2, <1>3 DEF Moves
<1>5. pool' \in Seq(Pooled) /\ Len(pool') <= QueueDepth
      /\ \A i, j \in DOMAIN pool' : i # j => pool'[i] # pool'[j]
  BY DEF IInv, TypeOK, ClientOK
<1>6. client[c] # "ok" /\ client[c] # "idle"  BY DEF Waiting
<1>7. CASE try[c] < Tries /\ Moves(c, "connecting") /\ try' = [try EXCEPT ![c] = try[c] + 1]
  <2>1. try[c] + 1 \in 0..Tries /\ try[c] + 1 > try[c] /\ try[c] + 1 >= try[c] /\ try[c] + 1 # 0
    BY <1>1, <1>7
  <2>2. "connecting" \in {"submitting", "queued", "connecting"} \cup Returned
        /\ ("connecting" \in {"submitting", "queued"} <=> try[c] + 1 = 0)
    BY <2>1
  <2> QED  BY <1>4, <1>5, <1>6, <1>7, <2>1, <2>2, ClientOnly
<1>8. CASE Moves(c, "error") /\ try' = [try EXCEPT ![c] = try[c]]
  <2>1. try[c] \in 0..Tries /\ try[c] >= try[c]  BY <1>1
  <2> QED  BY <1>1, <1>4, <1>5, <1>6, <1>8, <2>1, ClientOnly DEF Returned
<1> QED  BY <1>3, <1>7, <1>8

LEMMA ReadAnswerIInv ==
  ASSUME IInv, NEW c \in Call, ReadAnswer(c)
  PROVE  IInv'
<1>1. /\ client[c] = "reading" /\ conn[Current(c)] = "answered" /\ Moves(c, "ok")
      /\ UNCHANGED <<try, pool, conn, backlog, serverVars>>
  BY DEF ReadAnswer
<1>2. /\ client \in [Call -> {"idle", "submitting", "queued"} \cup Waiting \cup Returned]
      /\ try \in [Call -> 0..Tries] /\ pool \in Seq(Pooled)
      /\ try[c] # 0 /\ try[c] \in 0..Tries /\ try[c] >= try[c]
  <2>1. /\ client \in [Call -> {"idle", "submitting", "queued"} \cup Waiting \cup Returned]
        /\ try \in [Call -> 0..Tries] /\ pool \in Seq(Pooled)
    BY DEF IInv, TypeOK
  <2>2. try[c] # 0  BY <1>1 DEF IInv, ClientOK
  <2> QED  BY <2>1, <2>2
<1>3. \A i \in DOMAIN pool' : client'[pool'[i]] = "queued"
  <2>1. \A i \in DOMAIN pool : pool[i] \in Call /\ client[pool[i]] = "queued"
    BY <1>2 DEF IInv, ClientOK
  <2> QED  BY <1>1, <1>2, <2>1 DEF Moves
<1>4. pool' \in Seq(Pooled) /\ Len(pool') <= QueueDepth
      /\ \A i, j \in DOMAIN pool' : i # j => pool'[i] # pool'[j]
  BY <1>1 DEF IInv, TypeOK, ClientOK
<1>5. try' = [try EXCEPT ![c] = try[c]]  BY <1>1, <1>2
<1> QED  BY <1>1, <1>2, <1>3, <1>4, <1>5, ClientOnly DEF Returned

----------------------------------------------------------------------------
(* Steps that move a connection. *)

(* No call loses its connection, or the answer it read from it. *)
LEMMA ServerMoves ==
  ASSUME IInv, NEW y \in DOMAIN conn, NEW p \in Progress, Becomes(y, p), UNCHANGED clientVars,
         conn[y] # "answered", conn[y] # "closed", conn[y] = "connected" => p = "closed"
  PROVE  /\ DOMAIN conn' = DOMAIN conn /\ conn' \in [DOMAIN conn' -> Progress]
         /\ conn'[y] = p /\ \A x \in DOMAIN conn : x # y => conn'[x] = conn[x]
         /\ UNCHANGED <<client, try, pool>>
         /\ ClientOK'
<1>1. conn \in [DOMAIN conn -> Progress]  BY DEF IInv, TypeOK
<1>2. /\ DOMAIN conn' = DOMAIN conn /\ conn' \in [DOMAIN conn' -> Progress]
      /\ conn'[y] = p /\ \A x \in DOMAIN conn : x # y => conn'[x] = conn[x]
  BY <1>1 DEF Becomes
<1>3. UNCHANGED <<client, try, pool>>  BY DEF clientVars
<1>4. \A c : Current(c)' = Current(c)  BY <1>3 DEF Current
<1>5. ClientOK'  BY <1>2, <1>3, <1>4 DEF IInv, ClientOK
<1> QED  BY <1>2, <1>3, <1>5

(* Nor do containers change, unless a call is answered. *)
LEMMA ContainersKept ==
  ASSUME IInv, UNCHANGED <<client, try, made, live>>,
         DOMAIN conn \subseteq DOMAIN conn',
         \A x \in DOMAIN conn : conn[x] = "answered" => conn'[x] = "answered",
         \A x \in DOMAIN conn' : conn'[x] = "answered" /\ x[1] \in Call => x \in DOMAIN conn /\ conn[x] = "answered"
  PROVE  ContainersOK'
<1>1. \A d : Destroyed(d)' = Destroyed(d)  BY DEF Destroyed, Current
<1>2. Destroys \subseteq Call  OBVIOUS
<1> QED  BY <1>1, <1>2 DEF IInv, ContainersOK

LEMMA AcceptIInv ==
  ASSUME IInv, Accept
  PROVE  IInv'
<1> DEFINE y == Head(backlog)
           l == LaneOf(y)
<1>1. /\ backlog # <<>> /\ conn[y] = "sent" /\ Becomes(y, "queued")
      /\ lane' = [lane EXCEPT ![l] = Append(@, y)]
      /\ backlog' = Tail(backlog)
      /\ UNCHANGED <<clientVars, made, live, begun, ended>>
  BY DEF Accept
<1>2. /\ backlog \in Seq(DOMAIN conn) /\ lane \in [Lane -> Seq(DOMAIN conn)]
      /\ l \in Lane
  BY DEF IInv, TypeOK, LaneOf, Lane
<1>3. y \in DOMAIN conn /\ y = backlog[1] /\ 1 \in DOMAIN backlog
      /\ backlog' \in Seq(DOMAIN conn)
      /\ \A i \in DOMAIN backlog' : i + 1 \in DOMAIN backlog /\ i + 1 # 1 /\ backlog'[i] = backlog[i + 1] /\ i \in Int
  BY <1>1, <1>2
<1>4. lane[l] \in Seq(DOMAIN conn)  BY <1>2
<1>5. /\ lane'[l] = Append(lane[l], y) /\ \A k \in Lane : k # l => lane'[k] = lane[k]
      /\ lane' \in [Lane -> Seq(DOMAIN conn)]
  BY <1>1, <1>2, <1>3, <1>4
<1>6. DOMAIN lane'[l] = DOMAIN lane[l] \cup {Len(lane[l]) + 1} /\ lane'[l][Len(lane[l]) + 1] = y
      /\ \A i \in DOMAIN lane[l] : lane'[l][i] = lane[l][i] /\ i # Len(lane[l]) + 1
  BY <1>4, <1>5
<1>7. LaneOf(y) = l  OBVIOUS
<1> HIDE DEF y, l
<1>8. /\ DOMAIN conn' = DOMAIN conn /\ conn' \in [DOMAIN conn' -> Progress]
      /\ conn'[y] = "queued" /\ \A x \in DOMAIN conn : x # y => conn'[x] = conn[x]
      /\ UNCHANGED <<client, try, pool>> /\ ClientOK'
  BY <1>1, <1>3, ServerMoves DEF Progress
<1>9. TypeOK'  BY <1>1, <1>3, <1>5, <1>8 DEF IInv, TypeOK
<1>10. QueuesOK'
  <2>1. QueuesOK  BY DEF IInv
  <2>2. \A x : LaneOf(x)' = LaneOf(x)  BY DEF LaneOf
  <2>3. ASSUME NEW i \in DOMAIN backlog' PROVE conn'[backlog'[i]] \in {"connected", "sent"}
    <3>1. backlog'[i] # y /\ conn[backlog'[i]] \in {"connected", "sent"}  BY <1>3, <2>1 DEF QueuesOK
    <3>2. backlog'[i] \in DOMAIN conn  BY <1>3
    <3> QED  BY <1>8, <3>1, <3>2
  <2>4. \A i, j \in DOMAIN backlog' : i # j => backlog'[i] # backlog'[j]  BY <1>3, <2>1 DEF QueuesOK
  <2>5. ASSUME NEW k \in Lane
        PROVE  \A i \in DOMAIN lane[k] : conn'[lane[k][i]] = "queued" /\ LaneOf(lane[k][i]) = k /\ lane[k][i] # y
    <3> SUFFICES ASSUME NEW i \in DOMAIN lane[k]
                 PROVE  conn'[lane[k][i]] = "queued" /\ LaneOf(lane[k][i]) = k /\ lane[k][i] # y
      OBVIOUS
    <3>1. conn[lane[k][i]] = "queued" /\ LaneOf(lane[k][i]) = k  BY <2>1 DEF QueuesOK
    <3>2. lane[k][i] \in DOMAIN conn
      <4>1. lane[k] \in Seq(DOMAIN conn)  BY <1>2
      <4> QED  BY <4>1
    <3> QED  BY <1>1, <1>8, <3>1, <3>2
  <2>6. ASSUME NEW k \in Lane
        PROVE  /\ \A i \in DOMAIN lane'[k] : conn'[lane'[k][i]] = "queued" /\ LaneOf(lane'[k][i]) = k
               /\ \A i, j \in DOMAIN lane'[k] : i # j => lane'[k][i] # lane'[k][j]
    <3>1. CASE k = l  BY <1>6, <1>7, <1>8, <2>1, <2>5, <3>1 DEF QueuesOK
    <3>2. CASE k # l  BY <1>5, <2>1, <2>5, <3>2 DEF QueuesOK
    <3> QED  BY <3>1, <3>2
  <2> QED  BY <2>2, <2>3, <2>4, <2>6 DEF QueuesOK
<1>11. HistoryOK'
  <2>1. \A c \in Call : With(c, {"running", "answered"})' = With(c, {"running", "answered"})
                        /\ With(c, {"answered"})' = With(c, {"answered"})
    BY <1>1, <1>3, CountKept DEF IInv
  <2> QED  BY <1>1, <2>1 DEF IInv, HistoryOK
<1>12. ContainersOK'  BY <1>1, <1>8, ContainersKept
<1> QED  BY <1>8, <1>9, <1>10, <1>11, <1>12 DEF IInv

LEMMA AcceptTimeoutIInv ==
  ASSUME IInv, AcceptTimeout
  PROVE  IInv'
<1> DEFINE y == Head(backlog)
<1>1. /\ backlog # <<>> /\ conn[y] = "connected" /\ Becomes(y, "closed")
      /\ backlog' = Tail(backlog)
      /\ UNCHANGED <<clientVars, lane, made, live, begun, ended>>
  BY DEF AcceptTimeout, serverVars
<1>2. backlog \in Seq(DOMAIN conn) /\ lane \in [Lane -> Seq(DOMAIN conn)]
  BY DEF IInv, TypeOK
<1>3. y \in DOMAIN conn /\ y = backlog[1] /\ 1 \in DOMAIN backlog
      /\ backlog' \in Seq(DOMAIN conn)
      /\ \A i \in DOMAIN backlog' : i + 1 \in DOMAIN backlog /\ i + 1 # 1 /\ backlog'[i] = backlog[i + 1] /\ i \in Int
  BY <1>1, <1>2
<1> HIDE DEF y
<1>8. /\ DOMAIN conn' = DOMAIN conn /\ conn' \in [DOMAIN conn' -> Progress]
      /\ conn'[y] = "closed" /\ \A x \in DOMAIN conn : x # y => conn'[x] = conn[x]
      /\ UNCHANGED <<client, try, pool>> /\ ClientOK'
  BY <1>1, <1>3, ServerMoves DEF Progress
<1>9. TypeOK'  BY <1>1, <1>3, <1>8 DEF IInv, TypeOK
<1>10. QueuesOK'
  <2>1. QueuesOK  BY DEF IInv
  <2>2. \A x : LaneOf(x)' = LaneOf(x)  BY DEF LaneOf
  <2>3. ASSUME NEW i \in DOMAIN backlog' PROVE conn'[backlog'[i]] \in {"connected", "sent"}
    <3>1. backlog'[i] # y /\ conn[backlog'[i]] \in {"connected", "sent"}  BY <1>3, <2>1 DEF QueuesOK
    <3>2. backlog'[i] \in DOMAIN conn  BY <1>3
    <3> QED  BY <1>8, <3>1, <3>2
  <2>4. \A i, j \in DOMAIN backlog' : i # j => backlog'[i] # backlog'[j]  BY <1>3, <2>1 DEF QueuesOK
  <2>5. ASSUME NEW k \in Lane, NEW i \in DOMAIN lane[k] PROVE conn'[lane[k][i]] = "queued"
    <3>1. conn[lane[k][i]] = "queued"  BY <2>1 DEF QueuesOK
    <3>2. lane[k][i] \in DOMAIN conn
      <4>1. lane[k] \in Seq(DOMAIN conn)  BY <1>2
      <4> QED  BY <4>1
    <3> QED  BY <1>1, <1>8, <3>1, <3>2
  <2> QED  BY <1>1, <2>1, <2>2, <2>3, <2>4, <2>5 DEF QueuesOK
<1>11. HistoryOK'
  <2>1. ASSUME NEW c \in Call
        PROVE  /\ With(c, {"running", "answered"})' = With(c, {"running", "answered"})
               /\ With(c, {"answered"})' = With(c, {"answered"})
    <3>1. TypeOK /\ Becomes(y, "closed")  BY <1>1 DEF IInv
    <3>2. With(c, {"running", "answered"})' = With(c, {"running", "answered"})
      <4>1. conn[y] \in {"running", "answered"} <=> "closed" \in {"running", "answered"}  BY <1>1
      <4> QED  BY <1>3, <3>1, <4>1, CountKept
    <3>3. With(c, {"answered"})' = With(c, {"answered"})
      <4>1. conn[y] \in {"answered"} <=> "closed" \in {"answered"}  BY <1>1
      <4> QED  BY <1>3, <3>1, <4>1, CountKept
    <3> QED  BY <3>2, <3>3
  <2> QED  BY <1>1, <2>1 DEF IInv, HistoryOK
<1>12. ContainersOK'  BY <1>1, <1>8, ContainersKept
<1> QED  BY <1>8, <1>9, <1>10, <1>11, <1>12 DEF IInv

LEMMA BeginIInv ==
  ASSUME IInv, NEW l \in Lane, Begin(l)
  PROVE  IInv'
<1> DEFINE y == Head(lane[l])
<1>1. /\ lane[l] # <<>> /\ Becomes(y, "running")
      /\ begun' = IF y[1] \in Call THEN [begun EXCEPT ![y[1]] = @ + 1] ELSE begun
      /\ lane' = [lane EXCEPT ![l] = Tail(@)]
      /\ UNCHANGED <<clientVars, backlog, made, live, ended>>
  BY DEF Begin, Pop
<1>2. /\ backlog \in Seq(DOMAIN conn) /\ lane \in [Lane -> Seq(DOMAIN conn)]
      /\ lane[l] \in Seq(DOMAIN conn)
  BY DEF IInv, TypeOK
<1>3. /\ y \in DOMAIN conn /\ y = lane[l][1] /\ 1 \in DOMAIN lane[l]
      /\ Tail(lane[l]) \in Seq(DOMAIN conn)
      /\ \A i \in DOMAIN Tail(lane[l]) :
           i + 1 \in DOMAIN lane[l] /\ i + 1 # 1 /\ Tail(lane[l])[i] = lane[l][i + 1] /\ i \in Int
  BY <1>1, <1>2
<1>4. /\ lane'[l] = Tail(lane[l]) /\ \A k \in Lane : k # l => lane'[k] = lane[k]
      /\ lane' \in [Lane -> Seq(DOMAIN conn)]
  BY <1>1, <1>2, <1>3
<1> HIDE DEF y
<1>5. conn[y] = "queued" /\ LaneOf(y) = l  BY <1>3 DEF IInv, QueuesOK
<1>8. /\ DOMAIN conn' = DOMAIN conn /\ conn' \in [DOMAIN conn' -> Progress]
      /\ conn'[y] = "running" /\ \A x \in DOMAIN conn : x # y => conn'[x] = conn[x]
      /\ UNCHANGED <<client, try, pool>> /\ ClientOK'
  BY <1>1, <1>3, <1>5, ServerMoves DEF Progress
<1>9. TypeOK'
  <2>1. begun' \in [Call -> Nat]
    <3>1. begun \in [Call -> Nat]  BY DEF IInv, TypeOK
    <3>2. CASE y[1] \in Call
      <4>1. begun' = [begun EXCEPT ![y[1]] = begun[y[1]] + 1]  BY <1>1, <3>2
      <4> QED  BY <3>1, <3>2, <4>1
    <3>3. CASE y[1] \notin Call  BY <1>1, <3>1, <3>3
    <3> QED  BY <3>2, <3>3
  <2> QED  BY <1>1, <1>4, <1>8, <2>1 DEF IInv, TypeOK
<1>10. QueuesOK'
  <2>1. QueuesOK  BY DEF IInv
  <2>2. \A x : LaneOf(x)' = LaneOf(x)  BY DEF LaneOf
  <2>3. ASSUME NEW i \in DOMAIN backlog PROVE conn'[backlog[i]] \in {"connected", "sent"}
    <3>1. conn[backlog[i]] \in {"connected", "sent"}  BY <2>1 DEF QueuesOK
    <3>2. backlog[i] \in DOMAIN conn  BY <1>2
    <3> QED  BY <1>5, <1>8, <3>1, <3>2
  <2>4. ASSUME NEW k \in Lane
        PROVE  /\ \A i \in DOMAIN lane'[k] : conn'[lane'[k][i]] = "queued" /\ LaneOf(lane'[k][i]) = k
               /\ \A i, j \in DOMAIN lane'[k] : i # j => lane'[k][i] # lane'[k][j]
    <3>1. CASE k = l
      <4>1. ASSUME NEW i \in DOMAIN lane'[l]
            PROVE  conn'[lane'[l][i]] = "queued" /\ LaneOf(lane'[l][i]) = l
        <5>1. /\ i + 1 \in DOMAIN lane[l] /\ i + 1 # 1 /\ lane'[l][i] = lane[l][i + 1]
          BY <1>3, <1>4, <4>1
        <5>2. lane'[l][i] \in DOMAIN conn /\ lane'[l][i] # y /\ conn[lane'[l][i]] = "queued"
              /\ LaneOf(lane'[l][i]) = l
          BY <1>2, <1>3, <2>1, <5>1 DEF QueuesOK
        <5> QED  BY <1>8, <5>2
      <4>2. \A i, j \in DOMAIN lane'[l] : i # j => lane'[l][i] # lane'[l][j]
        <5> SUFFICES ASSUME NEW i \in DOMAIN lane'[l], NEW j \in DOMAIN lane'[l], i # j
                     PROVE  lane'[l][i] # lane'[l][j]
          OBVIOUS
        <5>1. /\ i + 1 \in DOMAIN lane[l] /\ j + 1 \in DOMAIN lane[l] /\ i + 1 # j + 1
              /\ lane'[l][i] = lane[l][i + 1] /\ lane'[l][j] = lane[l][j + 1]
          BY <1>3, <1>4
        <5> QED  BY <2>1, <5>1 DEF QueuesOK
      <4> QED  BY <3>1, <4>1, <4>2
    <3>2. CASE k # l
      <4>1. ASSUME NEW i \in DOMAIN lane[k]
            PROVE  conn'[lane[k][i]] = "queued" /\ LaneOf(lane[k][i]) = k
        <5>1. conn[lane[k][i]] = "queued" /\ LaneOf(lane[k][i]) = k  BY <2>1 DEF QueuesOK
        <5>2. lane[k][i] \in DOMAIN conn
          <6>1. lane[k] \in Seq(DOMAIN conn)  BY <1>2
          <6> QED  BY <6>1
        <5>3. lane[k][i] # y  BY <1>5, <3>2, <5>1
        <5> QED  BY <1>8, <5>1, <5>2, <5>3
      <4>2. lane'[k] = lane[k]  BY <1>4, <3>2
      <4>3. \A i, j \in DOMAIN lane[k] : i # j => lane[k][i] # lane[k][j]
        BY <2>1 DEF QueuesOK
      <4> QED  BY <4>1, <4>2, <4>3
    <3> QED  BY <3>1, <3>2
  <2> QED  BY <1>1, <2>1, <2>2, <2>3, <2>4 DEF QueuesOK
<1>11. HistoryOK'
  <2>1. ASSUME NEW c \in Call
        PROVE  /\ begun'[c] = Cardinality(With(c, {"running", "answered"})')
               /\ ended'[c] = Cardinality(With(c, {"answered"})')
    <3>1. begun[c] = Cardinality(With(c, {"running", "answered"})) /\ begun \in [Call -> Nat]
          /\ ended[c] = Cardinality(With(c, {"answered"})) /\ TypeOK
      BY DEF IInv, HistoryOK, TypeOK
    <3>2. With(c, {"answered"})' = With(c, {"answered"})
      <4>1. conn[y] \in {"answered"} <=> "running" \in {"answered"}  BY <1>5
      <4>2. Becomes(y, "running")  BY <1>1
      <4> QED  BY <1>3, <3>1, <4>1, <4>2, CountKept
    <3>3. CASE y[1] = c
      <4>1. Cardinality(With(c, {"running", "answered"})') = Cardinality(With(c, {"running", "answered"})) + 1
        <5>1. conn[y] \notin {"running", "answered"} /\ "running" \in {"running", "answered"}
          BY <1>5
        <5>2. Becomes(y, "running")  BY <1>1
        <5> QED  BY <1>3, <3>1, <3>3, <5>1, <5>2, CountUp
      <4> QED  BY <1>1, <3>1, <3>2, <3>3, <4>1
    <3>4. CASE y[1] # c
      <4>1. With(c, {"running", "answered"})' = With(c, {"running", "answered"})
        BY <1>1, <1>3, <3>1, <3>4, CountKept
      <4> QED  BY <1>1, <3>1, <3>2, <3>4, <4>1
    <3> QED  BY <3>3, <3>4
  <2> QED  BY <2>1 DEF HistoryOK
<1>12. ContainersOK'  BY <1>1, <1>5, <1>8, ContainersKept
<1> QED  BY <1>8, <1>9, <1>10, <1>11, <1>12 DEF IInv

(* A create that is answered has added its container, a destroy has removed
   the one its caller was told of, whose create was answered before. *)
LEMMA EndIInv ==
  ASSUME IInv, NEW y \in DOMAIN conn, End(y)
  PROVE  IInv'
<1>1. /\ y[1] \in Call /\ conn[y] = "running" /\ Becomes(y, "answered")
      /\ ended' = [ended EXCEPT ![y[1]] = @ + 1]
      /\ \/ y[1] \in Creates /\ made' = made \cup {y} /\ live' = live \cup {y}
         \/ y[1] \in Destroys /\ live' = live \ {Destroyed(y[1])} /\ UNCHANGED made
         \/ y[1] \notin Destroys /\ UNCHANGED <<made, live>>
      /\ UNCHANGED <<clientVars, backlog, lane, begun>>
  BY DEF End
<1>2. backlog \in Seq(DOMAIN conn) /\ lane \in [Lane -> Seq(DOMAIN conn)]
  BY DEF IInv, TypeOK
<1>8. /\ DOMAIN conn' = DOMAIN conn /\ conn' \in [DOMAIN conn' -> Progress]
      /\ conn'[y] = "answered" /\ \A x \in DOMAIN conn : x # y => conn'[x] = conn[x]
      /\ UNCHANGED <<client, try, pool>> /\ ClientOK'
  BY <1>1, ServerMoves DEF Progress
<1>9. TypeOK'
  <2>1. ended' \in [Call -> Nat]  BY <1>1 DEF IInv, TypeOK
  <2>2. y[1] \in Creates => y \in Creates \X (1..Tries)
    <3>1. y \in Conn  BY DEF IInv, TypeOK
    <3> QED  BY <1>1, <3>1 DEF Conn
  <2>3. live' \subseteq made' /\ made' \subseteq Creates \X (1..Tries)
    BY <1>1, <2>2 DEF IInv, TypeOK
  <2> QED  BY <1>1, <1>8, <2>1, <2>3 DEF IInv, TypeOK
<1>10. QueuesOK'
  <2>1. QueuesOK  BY DEF IInv
  <2>2. \A x : LaneOf(x)' = LaneOf(x)  BY DEF LaneOf
  <2>3. ASSUME NEW i \in DOMAIN backlog PROVE conn'[backlog[i]] \in {"connected", "sent"}
    <3>1. conn[backlog[i]] \in {"connected", "sent"}  BY <2>1 DEF QueuesOK
    <3>2. backlog[i] \in DOMAIN conn  BY <1>2
    <3> QED  BY <1>1, <1>8, <3>1, <3>2
  <2>4. ASSUME NEW k \in Lane, NEW i \in DOMAIN lane[k] PROVE conn'[lane[k][i]] = "queued"
    <3>1. conn[lane[k][i]] = "queued"  BY <2>1 DEF QueuesOK
    <3>2. lane[k][i] \in DOMAIN conn
      <4>1. lane[k] \in Seq(DOMAIN conn)  BY <1>2
      <4> QED  BY <4>1
    <3> QED  BY <1>1, <1>8, <3>1, <3>2
  <2> QED  BY <1>1, <2>1, <2>2, <2>3, <2>4 DEF QueuesOK
<1>11. HistoryOK'
  <2>1. ASSUME NEW c \in Call
        PROVE  /\ begun'[c] = Cardinality(With(c, {"running", "answered"})')
               /\ ended'[c] = Cardinality(With(c, {"answered"})')
    <3>1. begun[c] = Cardinality(With(c, {"running", "answered"})) /\ ended \in [Call -> Nat]
          /\ ended[c] = Cardinality(With(c, {"answered"})) /\ TypeOK
      BY DEF IInv, HistoryOK, TypeOK
    <3>2. With(c, {"running", "answered"})' = With(c, {"running", "answered"})
      <4>1. conn[y] \in {"running", "answered"} <=> "answered" \in {"running", "answered"}  BY <1>1
      <4> QED  BY <1>1, <3>1, <4>1, CountKept
    <3>3. CASE y[1] = c
      <4>1. Cardinality(With(c, {"answered"})') = Cardinality(With(c, {"answered"})) + 1
        <5>1. conn[y] \notin {"answered"} /\ "answered" \in {"answered"}  BY <1>1
        <5> QED  BY <1>1, <3>1, <3>3, <5>1, CountUp
      <4> QED  BY <1>1, <3>1, <3>2, <3>3, <4>1
    <3>4. CASE y[1] # c
      <4>1. With(c, {"answered"})' = With(c, {"answered"})  BY <1>1, <3>1, <3>4, CountKept
      <4> QED  BY <1>1, <3>1, <3>2, <3>4, <4>1
    <3> QED  BY <3>3, <3>4
  <2> QED  BY <2>1 DEF HistoryOK
<1>12. ContainersOK'
  <2>1. ContainersOK  BY DEF IInv
  <2>2. \A d : Destroyed(d)' = Destroyed(d)  BY <1>8 DEF Destroyed, Current
  <2>3. \A x \in made' : x \in DOMAIN conn' /\ conn'[x] = "answered"
    BY <1>1, <1>8, <2>1 DEF ContainersOK
  <2>4. \A d \in Destroys : client'[d] # "idle" => client'[On[d]] = "ok"
    BY <1>8, <2>1 DEF ContainersOK
  <2>5. ASSUME NEW x \in DOMAIN conn, x[1] \in Destroys, conn'[x] = "answered"
        PROVE  Destroyed(x[1]) \notin live'
    <3>1. client[x[1]] # "idle" /\ On[x[1]] \in Call
      <4>1. x[2] <= try[x[1]] /\ x \in Conn /\ x[1] \in Call /\ try[x[1]] \in Nat
        BY <2>5 DEF IInv, ClientOK, TypeOK
      <4>2. x[2] > 0 /\ x[2] \in Nat  BY <4>1 DEF Conn
      <4>3. try[x[1]] # 0  BY <4>1, <4>2
      <4> QED  BY <2>5, <4>1, <4>3 DEF IInv, ClientOK
    <3>2. client[On[x[1]]] = "ok"  BY <2>1, <2>5, <3>1 DEF ContainersOK
    <3>3. conn[Destroyed(x[1])] = "answered"  BY <3>1, <3>2 DEF IInv, ClientOK, Destroyed
    <3>4. Destroyed(x[1]) # y  BY <1>1, <3>3
    <3>5. CASE x = y  BY <1>1, <2>5, <3>5
    <3>6. CASE x # y
      <4>1. Destroyed(x[1]) \notin live  BY <1>8, <2>1, <2>5, <3>6 DEF ContainersOK
      <4> QED  BY <1>1, <3>4, <4>1
    <3> QED  BY <3>5, <3>6
  <2> QED  BY <1>8, <2>2, <2>3, <2>4, <2>5 DEF ContainersOK
<1> QED  BY <1>8, <1>9, <1>10, <1>11, <1>12 DEF IInv

LEMMA EndOrchestrationIInv ==
  ASSUME IInv, NEW s \in Orchestration, EndOrchestration(s)
  PROVE  IInv'
<1> DEFINE y == <<s, 1>>
<1>1. /\ y \in DOMAIN conn /\ conn[y] = "running" /\ Becomes(y, "answered")
      /\ UNCHANGED <<clientVars, backlog, lane, made, live, begun, ended>>
      /\ y[1] \notin Call
  BY DEF EndOrchestration, serverVars, Other
<1>2. backlog \in Seq(DOMAIN conn) /\ lane \in [Lane -> Seq(DOMAIN conn)]
  BY DEF IInv, TypeOK
<1> HIDE DEF y
<1>8. /\ DOMAIN conn' = DOMAIN conn /\ conn' \in [DOMAIN conn' -> Progress]
      /\ conn'[y] = "answered" /\ \A x \in DOMAIN conn : x # y => conn'[x] = conn[x]
      /\ UNCHANGED <<client, try, pool>> /\ ClientOK'
  BY <1>1, ServerMoves DEF Progress
<1>9. TypeOK'  BY <1>1, <1>8 DEF IInv, TypeOK
<1>10. QueuesOK'
  <2>1. QueuesOK  BY DEF IInv
  <2>2. \A x : LaneOf(x)' = LaneOf(x)  BY DEF LaneOf
  <2>3. ASSUME NEW i \in DOMAIN backlog PROVE conn'[backlog[i]] \in {"connected", "sent"}
    <3>1. conn[backlog[i]] \in {"connected", "sent"}  BY <2>1 DEF QueuesOK
    <3>2. backlog[i] \in DOMAIN conn  BY <1>2
    <3> QED  BY <1>1, <1>8, <3>1, <3>2
  <2>4. ASSUME NEW k \in Lane, NEW i \in DOMAIN lane[k] PROVE conn'[lane[k][i]] = "queued"
    <3>1. conn[lane[k][i]] = "queued"  BY <2>1 DEF QueuesOK
    <3>2. lane[k][i] \in DOMAIN conn
      <4>1. lane[k] \in Seq(DOMAIN conn)  BY <1>2
      <4> QED  BY <4>1
    <3> QED  BY <1>1, <1>8, <3>1, <3>2
  <2> QED  BY <1>1, <2>1, <2>2, <2>3, <2>4 DEF QueuesOK
<1>11. HistoryOK'
  <2>1. TypeOK  BY DEF IInv
  <2>2. \A c \in Call : \A ps : With(c, ps)' = With(c, ps)
    BY <1>1, <2>1, CountKept
  <2> QED  BY <1>1, <2>2 DEF IInv, HistoryOK
<1>12. ContainersOK'  BY <1>1, <1>8, ContainersKept
<1> QED  BY <1>8, <1>9, <1>10, <1>11, <1>12 DEF IInv

----------------------------------------------------------------------------
(* New connections, and the request of one. *)

LEMMA OpenedQueues ==
  ASSUME IInv, NEW y \in Conn, y \notin DOMAIN conn, NEW p \in {"connected", "sent"},
         conn' = Opened(y, p), backlog' = Append(backlog, y), UNCHANGED serverVars
  PROVE  /\ DOMAIN conn' = DOMAIN conn \cup {y} /\ conn' \in [DOMAIN conn' -> Progress]
         /\ conn'[y] = p /\ \A x \in DOMAIN conn : conn'[x] = conn[x]
         /\ backlog' \in Seq(DOMAIN conn') /\ lane' \in [Lane -> Seq(DOMAIN conn')]
         /\ UNCHANGED <<lane, made, live, begun, ended>>
         /\ QueuesOK'
<1>1. /\ conn \in [DOMAIN conn -> Progress]
      /\ backlog \in Seq(DOMAIN conn) /\ lane \in [Lane -> Seq(DOMAIN conn)]
  BY DEF IInv, TypeOK
<1>2. /\ DOMAIN conn' = DOMAIN conn \cup {y} /\ conn' \in [DOMAIN conn' -> Progress]
      /\ conn'[y] = p /\ \A x \in DOMAIN conn : conn'[x] = conn[x]
  BY <1>1 DEF Opened, Progress
<1>3. UNCHANGED <<lane, made, live, begun, ended>>  BY DEF serverVars
<1>4. backlog' \in Seq(DOMAIN conn')
  <2>1. backlog \in Seq(DOMAIN conn')  BY <1>1, <1>2
  <2> QED  BY <1>2, <2>1
<1>5. lane' \in [Lane -> Seq(DOMAIN conn')]
  <2>1. ASSUME NEW k \in Lane PROVE lane[k] \in Seq(DOMAIN conn')
    <3>1. lane[k] \in Seq(DOMAIN conn)  BY <1>1
    <3> QED  BY <1>2, <3>1
  <2> QED  BY <1>1, <1>3, <2>1
<1>6. DOMAIN backlog' = DOMAIN backlog \cup {Len(backlog) + 1} /\ backlog'[Len(backlog) + 1] = y
      /\ \A i \in DOMAIN backlog : backlog'[i] = backlog[i] /\ i # Len(backlog) + 1 /\ backlog[i] \in DOMAIN conn
  BY <1>1
<1>7. QueuesOK'
  <2>1. QueuesOK  BY DEF IInv
  <2>2. \A x : LaneOf(x)' = LaneOf(x)  BY DEF LaneOf
  <2>3. \A i \in DOMAIN backlog' : conn'[backlog'[i]] \in {"connected", "sent"}
    BY <1>2, <1>6, <2>1 DEF QueuesOK
  <2>4. \A i, j \in DOMAIN backlog' : i # j => backlog'[i] # backlog'[j]
    BY <1>6, <2>1 DEF QueuesOK
  <2>5. ASSUME NEW k \in Lane, NEW i \in DOMAIN lane[k] PROVE conn'[lane[k][i]] = "queued"
    <3>1. conn[lane[k][i]] = "queued"  BY <2>1 DEF QueuesOK
    <3>2. lane[k][i] \in DOMAIN conn
      <4>1. lane[k] \in Seq(DOMAIN conn)  BY <1>1
      <4> QED  BY <4>1
    <3> QED  BY <1>2, <3>1, <3>2
  <2> QED  BY <1>3, <2>1, <2>2, <2>3, <2>4, <2>5 DEF QueuesOK
<1> QED  BY <1>2, <1>3, <1>4, <1>5, <1>7

LEMMA ConnectIInv ==
  ASSUME IInv, NEW c \in Call, Connect(c)
  PROVE  IInv'
<1> DEFINE y == Current(c)
<1>1. /\ client[c] = "connecting" /\ Moves(c, "writing")
      /\ conn' = Opened(y, "connected") /\ backlog' = Append(backlog, y)
      /\ UNCHANGED <<try, pool, serverVars>>
  BY DEF Connect
<1>2. /\ client \in [Call -> {"idle", "submitting", "queued"} \cup Waiting \cup Returned]
      /\ try \in [Call -> 0..Tries] /\ try[c] # 0
  BY <1>1 DEF IInv, TypeOK, ClientOK
<1>3. y[1] = c /\ y[2] = try[c] /\ y \in Conn /\ y \notin DOMAIN conn
  <2>1. y[1] = c /\ y[2] = try[c]  BY DEF Current
  <2>2. y \in Conn  BY <1>2 DEF Current, Conn
  <2>3. y \notin DOMAIN conn  BY <1>1, <2>1 DEF IInv, ClientOK
  <2> QED  BY <2>1, <2>2, <2>3
<1>4. client'[c] = "writing" /\ \A e \in Call : e # c => client'[e] = client[e]
  BY <1>1, <1>2 DEF Moves
<1>5. /\ DOMAIN conn' = DOMAIN conn \cup {y} /\ conn' \in [DOMAIN conn' -> Progress]
      /\ conn'[y] = "connected" /\ \A x \in DOMAIN conn : conn'[x] = conn[x]
      /\ backlog' \in Seq(DOMAIN conn') /\ lane' \in [Lane -> Seq(DOMAIN conn')]
      /\ UNCHANGED <<lane, made, live, begun, ended>>
      /\ QueuesOK'
  BY <1>1, <1>3, OpenedQueues
<1>6. TypeOK'
  <2>1. client' \in [Call -> {"idle", "submitting", "queued"} \cup Waiting \cup Returned]
    BY <1>1, <1>2 DEF Moves, Waiting
  <2> QED  BY <1>1, <1>3, <1>5, <2>1 DEF IInv, TypeOK
<1>7. \A e : Current(e)' = Current(e)  BY <1>1 DEF Current
<1>8. ClientOK'
  <2>1. \A i \in DOMAIN pool' : client'[pool'[i]] = "queued"
    <3>1. \A i \in DOMAIN pool : pool[i] \in Call  BY DEF IInv, TypeOK
    <3> QED  BY <1>1, <1>4, <3>1 DEF IInv, ClientOK
  <2>2. \A e \in Call : client'[e] \in {"idle", "submitting", "queued"} <=> try'[e] = 0
    BY <1>1, <1>2, <1>4 DEF IInv, ClientOK
  <2>3. \A x \in DOMAIN conn' : x[1] \in Call =>
          x[2] <= try'[x[1]] /\ (client'[x[1]] = "connecting" => x[2] # try'[x[1]])
    BY <1>1, <1>2, <1>3, <1>4, <1>5 DEF IInv, ClientOK
  <2>4. ASSUME NEW e \in Call
        PROVE  /\ client'[e] \in {"writing", "reading", "ok"} => Current(e) \in DOMAIN conn'
               /\ client'[e] = "writing" => conn'[Current(e)] \in {"connected", "closed"}
               /\ client'[e] = "ok" => conn'[Current(e)] = "answered"
    <3>1. CASE e = c  BY <1>4, <1>5, <3>1
    <3>2. CASE e # c  BY <1>4, <1>5, <3>2 DEF IInv, ClientOK
    <3> QED  BY <3>1, <3>2
  <2>5. \A e \in Call : client'[e] = "submitting" => e \in Pooled  BY <1>4 DEF IInv, ClientOK
  <2> QED  BY <1>1, <1>7, <2>1, <2>2, <2>3, <2>4, <2>5 DEF IInv, ClientOK
<1>9. HistoryOK'
  <2>1. "connected" \notin {"running", "answered"} /\ "connected" \notin {"answered"}  OBVIOUS
  <2>2. \A e \in Call : With(e, {"running", "answered"})' = With(e, {"running", "answered"})
    BY <1>1, <1>3, <2>1, CountOpened
  <2>3. \A e \in Call : With(e, {"answered"})' = With(e, {"answered"})
    BY <1>1, <1>3, <2>1, CountOpened
  <2> QED  BY <1>5, <2>2, <2>3 DEF IInv, HistoryOK
<1>10. ContainersOK'
  <2>1. ContainersOK  BY DEF IInv
  <2>2. \A d : Destroyed(d)' = Destroyed(d)  BY <1>7 DEF Destroyed
  <2>3. \A d \in Destroys : d \in Call /\ On[d] \in Call  OBVIOUS
  <2>4. \A d \in Destroys : client'[d] # "idle" => client'[On[d]] = "ok"
    BY <1>1, <1>4, <2>1, <2>3 DEF ContainersOK
  <2> QED  BY <1>5, <2>1, <2>2, <2>4 DEF ContainersOK
<1> QED  BY <1>5, <1>6, <1>8, <1>9, <1>10 DEF IInv

LEMMA VisitIInv ==
  ASSUME IInv, NEW s \in Other, Visit(s)
  PROVE  IInv'
<1> DEFINE y == <<s, 1>>
<1>1. PICK p \in {"connected", "sent"} : conn' = Opened(y, p)  BY DEF Visit
<1>2. /\ y \notin DOMAIN conn /\ backlog' = Append(backlog, y)
      /\ UNCHANGED serverVars /\ UNCHANGED <<client, try, pool>>
  BY DEF Visit, clientVars
<1>3. y \in Conn /\ y[1] \notin Call  BY DEF Conn
<1> HIDE DEF y
<1>5. /\ DOMAIN conn' = DOMAIN conn \cup {y} /\ conn' \in [DOMAIN conn' -> Progress]
      /\ conn'[y] = p /\ \A x \in DOMAIN conn : conn'[x] = conn[x]
      /\ backlog' \in Seq(DOMAIN conn') /\ lane' \in [Lane -> Seq(DOMAIN conn')]
      /\ UNCHANGED <<lane, made, live, begun, ended>>
      /\ QueuesOK'
  BY <1>1, <1>2, <1>3, OpenedQueues
<1>6. TypeOK'  BY <1>2, <1>3, <1>5 DEF IInv, TypeOK
<1>7. \A e : Current(e)' = Current(e)  BY <1>2 DEF Current
<1>8. ClientOK'  BY <1>2, <1>3, <1>5, <1>7 DEF IInv, ClientOK
<1>9. HistoryOK'
  <2>1. \A e \in Call : \A ps : With(e, ps)' = With(e, ps)  BY <1>1, <1>2, <1>3, CountOpened
  <2> QED  BY <1>5, <2>1 DEF IInv, HistoryOK
<1>10. ContainersOK'
  <2>1. \A x \in DOMAIN conn' : conn'[x] = "answered" /\ x[1] \in Call => x \in DOMAIN conn /\ conn[x] = "answered"
    BY <1>3, <1>5
  <2> QED  BY <1>2, <1>5, <2>1, ContainersKept
<1> QED  BY <1>5, <1>6, <1>8, <1>9, <1>10 DEF IInv

LEMMA WriteIInv ==
  ASSUME IInv, NEW c \in Call, Write(c)
  PROVE  IInv'
<1> DEFINE y == Current(c)
<1>1. /\ client[c] = "writing" /\ conn[y] = "connected" /\ Moves(c, "reading")
      /\ Becomes(y, "sent")
      /\ UNCHANGED <<try, pool, backlog, lane, made, live, begun, ended>>
  BY DEF Write, serverVars
<1>2. /\ client \in [Call -> {"idle", "submitting", "queued"} \cup Waiting \cup Returned]
      /\ try \in [Call -> 0..Tries] /\ conn \in [DOMAIN conn -> Progress]
      /\ backlog \in Seq(DOMAIN conn) /\ lane \in [Lane -> Seq(DOMAIN conn)]
  BY DEF IInv, TypeOK
<1>3. y[1] = c /\ y \in DOMAIN conn  BY <1>1 DEF Current, IInv, ClientOK
<1>4. client'[c] = "reading" /\ \A e \in Call : e # c => client'[e] = client[e]
  BY <1>1, <1>2 DEF Moves
<1>5. /\ DOMAIN conn' = DOMAIN conn /\ conn' \in [DOMAIN conn' -> Progress]
      /\ conn'[y] = "sent" /\ \A x \in DOMAIN conn : x # y => conn'[x] = conn[x]
  BY <1>1, <1>2, <1>3 DEF Becomes, Progress
<1>6. TypeOK'
  <2>1. client' \in [Call -> {"idle", "submitting", "queued"} \cup Waiting \cup Returned]
    BY <1>1, <1>2 DEF Moves, Waiting
  <2> QED  BY <1>1, <1>5, <2>1 DEF IInv, TypeOK
<1>7. \A e : Current(e)' = Current(e) /\ Current(e)[1] = e  BY <1>1 DEF Current
<1>8. ClientOK'
  <2>1. \A i \in DOMAIN pool' : client'[pool'[i]] = "queued"
    <3>1. \A i \in DOMAIN pool : pool[i] \in Call  BY DEF IInv, TypeOK
    <3> QED  BY <1>1, <1>4, <3>1 DEF IInv, ClientOK
  <2>2. \A e \in Call : client'[e] \in {"idle", "submitting", "queued"} <=> try'[e] = 0
    BY <1>1, <1>4 DEF IInv, ClientOK
  <2>3. \A x \in DOMAIN conn' : x[1] \in Call =>
          x[2] <= try'[x[1]] /\ (client'[x[1]] = "connecting" => x[2] # try'[x[1]])
    BY <1>1, <1>4, <1>5 DEF IInv, ClientOK
  <2>4. ASSUME NEW e \in Call
        PROVE  /\ client'[e] \in {"writing", "reading", "ok"} => Current(e) \in DOMAIN conn'
               /\ client'[e] = "writing" => conn'[Current(e)] \in {"connected", "closed"}
               /\ client'[e] = "ok" => conn'[Current(e)] = "answered"
    <3>1. CASE e = c  BY <1>3, <1>4, <1>5, <3>1
    <3>2. CASE e # c  BY <1>3, <1>4, <1>5, <1>7, <3>2 DEF IInv, ClientOK
    <3> QED  BY <3>1, <3>2
  <2>5. \A e \in Call : client'[e] = "submitting" => e \in Pooled  BY <1>4 DEF IInv, ClientOK
  <2> QED  BY <1>1, <1>7, <2>1, <2>2, <2>3, <2>4, <2>5 DEF IInv, ClientOK
<1> HIDE DEF y
<1>9. HistoryOK'
  <2>1. ASSUME NEW e \in Call
        PROVE  /\ With(e, {"running", "answered"})' = With(e, {"running", "answered"})
               /\ With(e, {"answered"})' = With(e, {"answered"})
    <3>1. (conn[y] \in {"running", "answered"} <=> "sent" \in {"running", "answered"})
          /\ (conn[y] \in {"answered"} <=> "sent" \in {"answered"}) /\ TypeOK
      BY <1>1 DEF IInv
    <3>2. With(e, {"running", "answered"})' = With(e, {"running", "answered"})
      BY <1>1, <1>3, <3>1, CountKept
    <3>3. With(e, {"answered"})' = With(e, {"answered"})
      BY <1>1, <1>3, <3>1, CountKept
    <3> QED  BY <3>2, <3>3
  <2> QED  BY <1>1, <2>1 DEF IInv, HistoryOK
<1>10. ContainersOK'
  <2>1. ContainersOK  BY DEF IInv
  <2>2. \A d : Destroyed(d)' = Destroyed(d)  BY <1>7 DEF Destroyed
  <2>3. \A d \in Destroys : d \in Call /\ On[d] \in Call  OBVIOUS
  <2>4. \A d \in Destroys : client'[d] # "idle" => client'[On[d]] = "ok"
    BY <1>1, <1>4, <2>1, <2>3 DEF ContainersOK
  <2> QED  BY <1>1, <1>5, <2>1, <2>2, <2>4 DEF ContainersOK
<1>11. QueuesOK'
  <2>1. QueuesOK  BY DEF IInv
  <2>2. \A x : LaneOf(x)' = LaneOf(x)  BY DEF LaneOf
  <2>3. ASSUME NEW i \in DOMAIN backlog PROVE conn'[backlog[i]] \in {"connected", "sent"}
    <3>1. conn[backlog[i]] \in {"connected", "sent"}  BY <2>1 DEF QueuesOK
    <3>2. backlog[i] \in DOMAIN conn  BY <1>2
    <3> QED  BY <1>5, <3>1, <3>2
  <2>4. ASSUME NEW k \in Lane, NEW i \in DOMAIN lane[k] PROVE conn'[lane[k][i]] = "queued"
    <3>1. conn[lane[k][i]] = "queued"  BY <2>1 DEF QueuesOK
    <3>2. lane[k][i] \in DOMAIN conn
      <4>1. lane[k] \in Seq(DOMAIN conn)  BY <1>2
      <4> QED  BY <4>1
    <3> QED  BY <1>1, <1>5, <3>1, <3>2
  <2> QED  BY <1>1, <2>1, <2>2, <2>3, <2>4 DEF QueuesOK
<1> QED  BY <1>6, <1>8, <1>9, <1>10, <1>11 DEF IInv

----------------------------------------------------------------------------
(* The theorems. *)

LEMMA FailsIsRetry ==
  ASSUME NEW c \in Call, Fails(c)
  PROVE  Retry(c) \/ GiveUp(c)
BY DEF Fails

LEMMA StepIInv == IInv /\ [Next]_vars => IInv'
<1> SUFFICES ASSUME IInv, [Next]_vars PROVE IInv'
  OBVIOUS
<1>1. ASSUME NEW c \in Call, Make(c) PROVE IInv'  BY <1>1, MakeIInv
<1>2. ASSUME NEW c \in Call, Submit(c) PROVE IInv'  BY <1>2, SubmitIInv
<1>3. ASSUME NEW c \in Call, ClientStep(c) PROVE IInv'
  <2>1. CASE Connect(c)  BY <2>1, ConnectIInv
  <2>2. CASE Write(c)  BY <2>2, WriteIInv
  <2>3. CASE ReadAnswer(c)  BY <2>3, ReadAnswerIInv
  <2>4. CASE ConnectFails(c) \/ WriteFails(c) \/ ReadTimeout(c)
    <3>1. client[c] \in Waiting /\ (Retry(c) \/ GiveUp(c)) /\ UNCHANGED <<pool, conn, backlog, serverVars>>
      BY <2>4, FailsIsRetry DEF ConnectFails, WriteFails, ReadTimeout, Waiting
    <3> QED  BY <3>1, FailedTryIInv
  <2> QED  BY <1>3, <2>1, <2>2, <2>3, <2>4 DEF ClientStep
<1>4. CASE Take  BY <1>4, TakeIInv
<1>5. ASSUME NEW s \in Other, Visit(s) PROVE IInv'  BY <1>5, VisitIInv
<1>6. CASE Accept  BY <1>6, AcceptIInv
<1>7. CASE AcceptTimeout  BY <1>7, AcceptTimeoutIInv
<1>8. ASSUME NEW l \in Lane, Begin(l) PROVE IInv'  BY <1>8, BeginIInv
<1>9. ASSUME NEW x \in DOMAIN conn, End(x) PROVE IInv'  BY <1>9, EndIInv
<1>10. ASSUME NEW s \in Orchestration, EndOrchestration(s) PROVE IInv'
  BY <1>10, EndOrchestrationIInv
<1>11. CASE UNCHANGED vars
  <2>1. UNCHANGED <<client, try, pool, conn, backlog, lane, made, live, begun, ended>>
    BY <1>11 DEF vars
  <2>2. \A c, ps : With(c, ps)' = With(c, ps)  BY <2>1 DEF With
  <2>3. \A c : Current(c)' = Current(c) /\ Destroyed(c)' = Destroyed(c)  BY <2>1 DEF Current, Destroyed
  <2>4. TypeOK' /\ ClientOK'  BY <2>1, <2>3 DEF IInv, TypeOK, ClientOK
  <2>5. QueuesOK'  BY <2>1 DEF IInv, QueuesOK, LaneOf
  <2>6. HistoryOK'  BY <2>1, <2>2 DEF IInv, HistoryOK
  <2>7. ContainersOK'  BY <2>1, <2>3 DEF IInv, ContainersOK
  <2> QED  BY <2>4, <2>5, <2>6, <2>7 DEF IInv
<1> QED
  BY <1>1, <1>2, <1>3, <1>4, <1>5, <1>6, <1>7, <1>8, <1>9, <1>10, <1>11 DEF Next

(* The inductive invariant: clients, queues, history and containers agree on
   what has become of each connection (socket_client.rs, socket_server.rs). *)
THEOREM Invariance == Spec => []IInv
<1>1. Init => IInv  BY InitIInv
<1>2. IInv /\ [Next]_vars => IInv'  BY StepIInv
<1> QED  BY <1>1, <1>2, PTL DEF Spec

(* Every variable keeps its type; in particular the pool's queue its bound. *)
THEOREM TypeCorrect == Spec => []TypeOK
<1>1. IInv => TypeOK  BY DEF IInv
<1> QED  BY <1>1, Invariance, PTL

(* A container is leaked by a retry only: create_container is sent again while
   its first execution goes on (MAX_RETRIES of socket_client.rs), and the caller
   hears of one of the two containers. *)
THEOREM ContainersAccounted == Spec => []Accounted
<1>1. IInv => Accounted
  <2> SUFFICES ASSUME IInv, NEW x \in live
               PROVE  IF client[x[1]] = "ok" /\ x = Current(x[1])
                      THEN \A d \in Destroys : On[d] = x[1] => client[d] # "ok"
                      ELSE client[x[1]] # "ok" \/ try[x[1]] > 1
    BY DEF Accounted
  <2>1. x \in made /\ x \in DOMAIN conn /\ x[1] \in Call /\ x[2] \in Nat /\ x[2] > 0
        /\ x = <<x[1], x[2]>>
    <3>1. x \in made /\ made \subseteq Creates \X (1..Tries)  BY DEF IInv, TypeOK
    <3>2. x \in DOMAIN conn  BY <3>1 DEF IInv, ContainersOK
    <3> QED  BY <3>1, <3>2
  <2>2. CASE client[x[1]] = "ok" /\ x = Current(x[1])
    <3>1. SUFFICES ASSUME NEW d \in Destroys, On[d] = x[1], client[d] = "ok" PROVE FALSE
      BY <2>2
    <3>2. Current(d) \in DOMAIN conn /\ conn[Current(d)] = "answered" /\ Current(d)[1] = d
      BY <3>1 DEF IInv, ClientOK, Current
    <3>3. Destroyed(d) \notin live  BY <3>2 DEF IInv, ContainersOK
    <3> QED  BY <2>2, <3>1, <3>3 DEF Destroyed
  <2>3. CASE client[x[1]] = "ok" /\ x # Current(x[1])
    <3>1. x[2] <= try[x[1]]  BY <2>1 DEF IInv, ClientOK
    <3>2. x[2] # try[x[1]]  BY <2>1, <2>3 DEF Current
    <3>3. try[x[1]] \in Nat  BY <2>1 DEF IInv, TypeOK
    <3> QED  BY <2>1, <2>3, <3>1, <3>2, <3>3
  <2> QED  BY <2>2, <2>3
<1> QED  BY <1>1, Invariance, PTL

----------------------------------------------------------------------------
(* The refinement of Rpc. *)

PhaseOf(p) == IF p = "idle" THEN "idle"
              ELSE IF p \in {"submitting", "queued"} \cup Waiting THEN "open" ELSE p
Phases == [c \in Call |-> Phase(c)]
Sents  == [c \in Call |-> Sent(c)]

LEMMA PhaseIs ==
  ASSUME NEW c
  PROVE  Phase(c) = PhaseOf(client[c])
BY DEF Phase, PhaseOf, Underway, Waiting

LEMMA PhasesMove ==
  ASSUME TypeOK, NEW c \in Call, NEW p, Moves(c, p)
  PROVE  Phases' = [Phases EXCEPT ![c] = PhaseOf(p)]
<1>1. \A e \in Call : Phase(e)' = PhaseOf(client'[e])
  <2>1. ASSUME NEW e \in Call PROVE Phase(e)' = PhaseOf(client'[e])
    BY DEF Phase, PhaseOf, Underway, Waiting
  <2> QED  BY <2>1
<1>2. \A e \in Call : client'[e] = IF e = c THEN p ELSE client[e]  BY DEF Moves, TypeOK
<1>3. \A e \in Call : Phase(e)' = IF e = c THEN PhaseOf(p) ELSE Phase(e)  BY <1>1, <1>2, PhaseIs
<1> HIDE DEF PhaseOf
<1> QED  BY <1>3 DEF Phases

LEMMA PhasesStay ==
  ASSUME UNCHANGED client
  PROVE  Phases' = Phases
BY DEF Phases, Phase, Underway

(* A request changes hands between clients: nothing a caller sees. *)
LEMMA StillOpen ==
  ASSUME TypeOK, NEW c \in Call, Underway(c), NEW p \in {"queued"} \cup Waiting, Moves(c, p)
  PROVE  Phases' = Phases
<1>1. Phases' = [Phases EXCEPT ![c] = PhaseOf(p)]  BY PhasesMove
<1>2. PhaseOf(p) = "open" /\ Phase(c) = "open"  BY DEF PhaseOf, Waiting, Phase, Underway
<1> QED  BY <1>1, <1>2 DEF Phases

LEMMA SentsStay ==
  ASSUME UNCHANGED conn
  PROVE  Sents' = Sents
BY DEF Sents, Sent, With, Progress

(* Connections move on, but no call sends its request. *)
LEMMA SentsMove ==
  ASSUME TypeOK, NEW y \in DOMAIN conn, NEW p \in Progress, Becomes(y, p),
         conn[y] \in {"connected", "closed"} <=> p \in {"connected", "closed"}
  PROVE  Sents' = Sents
<1> DEFINE ps == Progress \ {"connected", "closed"}
<1>1. conn[y] \in ps <=> p \in ps  BY DEF TypeOK
<1>2. \A c \in Call : With(c, ps)' = With(c, ps)
  <2> HIDE DEF ps
  <2> QED  BY <1>1, CountKept
<1>3. \A c \in Call : With(c, Progress \ {"connected", "closed"})' = With(c, Progress \ {"connected", "closed"})
  BY <1>2 DEF Progress
<1> QED  BY <1>3 DEF Sents, Sent

LEMMA SentsOpen ==
  ASSUME NEW y, y \notin DOMAIN conn, NEW p, conn' = Opened(y, p),
         y[1] \notin Call \/ p \in {"connected", "closed"}
  PROVE  Sents' = Sents
<1> DEFINE ps == Progress \ {"connected", "closed"}
<1>1. \A c \in Call : With(c, ps)' = With(c, ps)
  <2>1. \A c \in Call : y[1] # c \/ p \notin ps  OBVIOUS
  <2> HIDE DEF ps
  <2> QED  BY <2>1, CountOpened
<1>2. \A c \in Call : With(c, Progress \ {"connected", "closed"})' = With(c, Progress \ {"connected", "closed"})
  BY <1>1 DEF Progress
<1> QED  BY <1>2 DEF Sents, Sent

(* What the caller sees of a failed try. *)
LEMMA FailedTryRefines ==
  ASSUME IInv, NEW c \in Call, client[c] \in Waiting, Retry(c) \/ GiveUp(c),
         UNCHANGED <<pool, conn, backlog, serverVars>>
  PROVE  Requests!Fail(c) \/ UNCHANGED <<Phases, Sents, begun, ended>>
<1>1. TypeOK /\ Underway(c) /\ Phase(c) = "open"  BY DEF IInv, Underway, Waiting, Phase
<1>2. Sents' = Sents /\ UNCHANGED <<begun, ended>>  BY SentsStay DEF serverVars
<1>3. CASE Moves(c, "connecting")
  <2>1. "connecting" \in {"queued"} \cup Waiting  BY DEF Waiting
  <2> QED  BY <1>1, <1>2, <1>3, <2>1, StillOpen
<1>4. CASE Moves(c, "error")
  <2>1. PhaseOf("error") = "error"  BY DEF PhaseOf, Waiting
  <2>2. Phases' = [Phases EXCEPT ![c] = "error"]  BY <1>1, <1>4, <2>1, PhasesMove
  <2>3. Phases[c] = "open"  BY <1>1 DEF Phases
  <2> QED  BY <1>2, <2>2, <2>3 DEF Requests!Fail, Phases, Sents
<1> QED  BY <1>3, <1>4 DEF Retry, GiveUp

(* A try that is written is one request sent, of as many as there are tries. *)
LEMMA WriteRefines ==
  ASSUME IInv, NEW c \in Call, Write(c)
  PROVE  Requests!Send(c)
<1> DEFINE ps == Progress \ {"connected", "closed"}
           y == Current(c)
<1>1. /\ client[c] = "writing" /\ conn[y] = "connected" /\ Moves(c, "reading")
      /\ Becomes(y, "sent") /\ UNCHANGED <<begun, ended>>
  BY DEF Write, serverVars
<1>2. TypeOK /\ Underway(c) /\ Phase(c) = "open"  BY <1>1 DEF IInv, Underway, Waiting, Phase
<1>3. y \in DOMAIN conn /\ y[1] = c /\ y \in Conn
  BY <1>1 DEF IInv, ClientOK, TypeOK, Current
<1>4. Phases' = Phases
  <2>1. "reading" \in {"queued"} \cup Waiting  BY DEF Waiting
  <2> QED  BY <1>1, <1>2, <2>1, StillOpen
<1>5. conn[y] \notin ps /\ "sent" \in ps  BY <1>1 DEF Progress
<1>6. Sent(c) \in Nat /\ Sent(c) < Tries
  <2>1. With(c, ps) \subseteq {c} \X (1..Tries) /\ IsFiniteSet(With(c, ps)) /\ Cardinality(With(c, ps)) \in Nat
    <3> HIDE DEF ps
    <3> QED  BY <1>2, WithFinite
  <2>2. y \in {c} \X (1..Tries) /\ y \notin With(c, ps)
    <3>1. y \notin With(c, ps)  BY <1>5 DEF With
    <3>2. y = <<c, y[2]>> /\ y[2] \in 1..Tries  BY <1>2, <1>3 DEF Current, Conn
    <3> QED  BY <3>1, <3>2
  <2>3. IsFiniteSet({c} \X (1..Tries)) /\ Cardinality({c} \X (1..Tries)) = Tries
    <3>1. IsFiniteSet({c}) /\ Cardinality({c}) = 1  BY FS_Singleton
    <3>2. IsFiniteSet(1..Tries) /\ Cardinality(1..Tries) = Tries
      <4>1. Tries \in Nat \ {0} /\ Tries \in Int /\ 1 \in Int  OBVIOUS
      <4>2. IsFiniteSet(1..Tries) /\ Cardinality(1..Tries) = IF 1 > Tries THEN 0 ELSE Tries - 1 + 1
        BY <4>1, FS_Interval
      <4> QED  BY <4>1, <4>2
    <3>3. IsFiniteSet({c} \X (1..Tries)) /\ Cardinality({c} \X (1..Tries)) = Cardinality({c}) * Cardinality(1..Tries)
      BY <3>1, <3>2, FS_Product
    <3> QED  BY <3>1, <3>2, <3>3
  <2>4. Cardinality(With(c, ps)) # Tries /\ Cardinality(With(c, ps)) <= Tries
    <3> HIDE DEF ps
    <3>1. With(c, ps) \in SUBSET ({c} \X (1..Tries)) /\ With(c, ps) # {c} \X (1..Tries)  BY <2>1, <2>2
    <3> QED  BY <2>3, <3>1, FS_Subset
  <2> QED  BY <2>1, <2>4 DEF Sent
<1>7. Sents' = [Sents EXCEPT ![c] = @ + 1]
  <2>1. Cardinality(With(c, ps)') = Cardinality(With(c, ps)) + 1
    <3> HIDE DEF ps, y
    <3> QED  BY <1>1, <1>2, <1>3, <1>5, CountUp
  <2>2. \A e \in Call : e # c => With(e, ps)' = With(e, ps)
    <3> HIDE DEF ps, y
    <3> QED  BY <1>1, <1>2, <1>3, CountKept
  <2>3. \A e : (Progress \ {"connected", "closed"})' = ps /\ With(e, Progress \ {"connected", "closed"})' = With(e, ps)'
    BY DEF Progress
  <2>4. Sent(c)' = Sent(c) + 1 /\ \A e \in Call : e # c => Sent(e)' = Sent(e)
    <3>1. Sent(c)' = Sent(c) + 1  BY <2>1, <2>3 DEF Sent
    <3>2. \A e \in Call : e # c => Sent(e)' = Sent(e)  BY <2>2, <2>3 DEF Sent
    <3> QED  BY <3>1, <3>2
  <2> QED  BY <2>4 DEF Sents
<1>8. Phases[c] = "open" /\ Sents[c] < Tries  BY <1>2, <1>6 DEF Phases, Sents
<1> QED
  BY <1>1, <1>4, <1>7, <1>8 DEF Requests!Send, Requests!Incremented, Phases, Sents

(* A request that is answered was executed. *)
LEMMA ReadAnswerRefines ==
  ASSUME IInv, NEW c \in Call, ReadAnswer(c)
  PROVE  Requests!Succeed(c)
<1>1. /\ client[c] = "reading" /\ conn[Current(c)] = "answered" /\ Moves(c, "ok")
      /\ UNCHANGED <<conn, begun, ended>>
  BY DEF ReadAnswer, serverVars
<1>2. TypeOK /\ Phase(c) = "open"  BY <1>1 DEF IInv, Underway, Waiting, Phase
<1>3. PhaseOf("ok") = "ok"  BY DEF PhaseOf, Waiting
<1>4. Phases' = [Phases EXCEPT ![c] = "ok"]  BY <1>1, <1>2, <1>3, PhasesMove
<1>5. Sents' = Sents  BY <1>1, SentsStay
<1>6. ended[c] > 0
  <2>1. Current(c) \in With(c, {"answered"})
    <3>1. Current(c) \in DOMAIN conn /\ Current(c)[1] = c  BY <1>1 DEF IInv, ClientOK, Current
    <3> QED  BY <1>1, <3>1 DEF With
  <2>2. IsFiniteSet(With(c, {"answered"})) /\ Cardinality(With(c, {"answered"})) \in Nat
    BY <1>2, WithFinite
  <2>3. Cardinality(With(c, {"answered"})) # 0  BY <2>1, <2>2, FS_EmptySet
  <2> QED  BY <2>2, <2>3 DEF IInv, HistoryOK
<1>7. Phases[c] = "open"  BY <1>2 DEF Phases
<1> QED  BY <1>1, <1>4, <1>5, <1>6, <1>7 DEF Requests!Succeed, Phases, Sents

(* A connection that has not begun is sent and not counted as begun; one that
   runs is not counted as ended. *)
LEMMA CountsDiffer ==
  ASSUME TypeOK, NEW c \in Call, NEW y \in DOMAIN conn, y[1] = c,
         NEW ps, NEW qs, ps \subseteq qs, conn[y] \in qs, conn[y] \notin ps
  PROVE  Cardinality(With(c, ps)) < Cardinality(With(c, qs))
<1>1. With(c, ps) \subseteq With(c, qs) /\ y \in With(c, qs) /\ y \notin With(c, ps)
  BY DEF With
<1>2. /\ IsFiniteSet(With(c, qs)) /\ Cardinality(With(c, qs)) \in Nat
      /\ IsFiniteSet(With(c, ps)) /\ Cardinality(With(c, ps)) \in Nat
  BY WithFinite
<1>3. Cardinality(With(c, ps)) <= Cardinality(With(c, qs))
  BY <1>1, <1>2, FS_Subset
<1>4. Cardinality(With(c, ps)) # Cardinality(With(c, qs))
  BY <1>1, <1>2, FS_Subset
<1> QED  BY <1>2, <1>3, <1>4

LEMMA BeginRefines ==
  ASSUME IInv, NEW l \in Lane, Begin(l)
  PROVE  (\E c \in Call : Requests!Begin(c)) \/ UNCHANGED <<Phases, Sents, begun, ended>>
<1> DEFINE y == Head(lane[l])
<1>1. /\ lane[l] # <<>> /\ Becomes(y, "running")
      /\ begun' = IF y[1] \in Call THEN [begun EXCEPT ![y[1]] = @ + 1] ELSE begun
      /\ UNCHANGED <<client, ended>>
  BY DEF Begin, clientVars
<1>2. TypeOK  BY DEF IInv
<1>3. y \in DOMAIN conn /\ conn[y] = "queued"
  <2>1. lane[l] \in Seq(DOMAIN conn)  BY <1>2 DEF TypeOK
  <2>2. y \in DOMAIN conn /\ y = lane[l][1] /\ 1 \in DOMAIN lane[l]  BY <1>1, <2>1
  <2>3. conn[lane[l][1]] = "queued"  BY <2>2 DEF IInv, QueuesOK
  <2> QED  BY <2>2, <2>3
<1> HIDE DEF y
<1>4. Phases' = Phases  BY <1>1, PhasesStay
<1>5. Sents' = Sents
  <2>1. "running" \in Progress /\ (conn[y] \in {"connected", "closed"} <=> "running" \in {"connected", "closed"})
    BY <1>3 DEF Progress
  <2> QED  BY <1>1, <1>2, <1>3, <2>1, SentsMove
<1>6. CASE y[1] \in Call
  <2> DEFINE c == y[1]
             qs == Progress \ {"connected", "closed"}
  <2>1. {"running", "answered"} \subseteq qs /\ conn[y] \in qs /\ conn[y] \notin {"running", "answered"}
    BY <1>3 DEF Progress
  <2>2. Cardinality(With(c, {"running", "answered"})) < Cardinality(With(c, qs))
    <3> HIDE DEF qs
    <3> QED  BY <1>2, <1>3, <1>6, <2>1, CountsDiffer
  <2>3. begun[c] < Sents[c]  BY <1>6, <2>2 DEF IInv, HistoryOK, Sents, Sent
  <2>4. begun' = [begun EXCEPT ![c] = @ + 1]  BY <1>1, <1>6
  <2>5. Requests!Begin(c)
    BY <1>1, <1>4, <1>5, <2>3, <2>4 DEF Requests!Begin, Requests!Incremented, Phases, Sents
  <2> QED  BY <1>6, <2>5
<1>7. CASE y[1] \notin Call  BY <1>1, <1>4, <1>5, <1>7
<1> QED  BY <1>6, <1>7

LEMMA EndRefines ==
  ASSUME IInv, NEW y \in DOMAIN conn, End(y)
  PROVE  \E c \in Call : Requests!End(c)
<1> DEFINE c == y[1]
<1>1. /\ c \in Call /\ conn[y] = "running" /\ Becomes(y, "answered")
      /\ ended' = [ended EXCEPT ![c] = @ + 1] /\ UNCHANGED <<client, begun>>
  BY DEF End, clientVars
<1>2. TypeOK  BY DEF IInv
<1>4. Phases' = Phases  BY <1>1, PhasesStay
<1>5. Sents' = Sents
  <2>1. "answered" \in Progress /\ (conn[y] \in {"connected", "closed"} <=> "answered" \in {"connected", "closed"})
    BY <1>1 DEF Progress
  <2> QED  BY <1>1, <1>2, <2>1, SentsMove
<1>6. ended[c] < begun[c]
  <2>1. {"answered"} \subseteq {"running", "answered"} /\ conn[y] \in {"running", "answered"} /\ conn[y] \notin {"answered"}
    BY <1>1
  <2>2. Cardinality(With(c, {"answered"})) < Cardinality(With(c, {"running", "answered"}))
    BY <1>1, <1>2, <2>1, CountsDiffer
  <2> QED  BY <1>1, <2>2 DEF IInv, HistoryOK
<1>7. Requests!End(c)
  BY <1>1, <1>4, <1>5, <1>6 DEF Requests!End, Requests!Incremented, Phases, Sents
<1> QED  BY <1>1, <1>7

LEMMA StepRefines ==
  IInv /\ [Next]_vars => Requests!Next \/ UNCHANGED <<Phases, Sents, begun, ended>>
<1> SUFFICES ASSUME IInv, [Next]_vars
             PROVE  (\E c \in Call : \/ Requests!Open(c) \/ Requests!Send(c) \/ Requests!Begin(c)
                                     \/ Requests!End(c) \/ Requests!Succeed(c) \/ Requests!Fail(c))
                    \/ UNCHANGED <<Phases, Sents, begun, ended>>
  BY DEF Requests!Next
<1>0. TypeOK  BY DEF IInv
<1>1. ASSUME NEW c \in Call, Make(c) PROVE Requests!Open(c)
  <2>1. client[c] = "idle" /\ UNCHANGED <<conn, begun, ended>>  BY <1>1 DEF Make, serverVars
  <2>2. Phases[c] = "idle"  BY <2>1, PhaseIs DEF Phases, PhaseOf
  <2>3. Phases' = [Phases EXCEPT ![c] = "open"]
    <3>1. PhaseOf("submitting") = "open" /\ PhaseOf("connecting") = "open"  BY DEF PhaseOf, Waiting
    <3>2. Moves(c, "submitting") \/ Moves(c, "connecting")  BY <1>1 DEF Make
    <3> QED  BY <1>0, <3>1, <3>2, PhasesMove
  <2>4. Sents' = Sents  BY <2>1, SentsStay
  <2> QED  BY <2>1, <2>2, <2>3, <2>4 DEF Requests!Open, Phases, Sents
<1>2. ASSUME NEW c \in Call, Submit(c) PROVE UNCHANGED <<Phases, Sents, begun, ended>>
  <2>1. Underway(c) /\ Moves(c, "queued") /\ UNCHANGED <<conn, begun, ended>>
    BY <1>2 DEF Submit, Underway, serverVars
  <2>2. "queued" \in {"queued"} \cup Waiting  OBVIOUS
  <2> QED  BY <1>0, <2>1, <2>2, StillOpen, SentsStay
<1>3. ASSUME NEW c \in Call, ClientStep(c)
      PROVE  \/ Requests!Send(c) \/ Requests!Succeed(c) \/ Requests!Fail(c)
             \/ UNCHANGED <<Phases, Sents, begun, ended>>
  <2>1. CASE Connect(c)
    <3> DEFINE y == Current(c)
    <3>1. /\ client[c] = "connecting" /\ Moves(c, "writing") /\ conn' = Opened(y, "connected")
          /\ UNCHANGED <<begun, ended>>
      BY <2>1 DEF Connect, serverVars
    <3>2. y \notin DOMAIN conn
      <4>1. y[1] = c /\ y[2] = try[c]  BY DEF Current
      <4> QED  BY <3>1, <4>1 DEF IInv, ClientOK
    <3>3. Underway(c) /\ "writing" \in {"queued"} \cup Waiting  BY <3>1 DEF Underway, Waiting
    <3>4. Phases' = Phases  BY <1>0, <3>1, <3>3, StillOpen
    <3>5. Sents' = Sents
      <4> HIDE DEF y
      <4>1. "connected" \in {"connected", "closed"}  OBVIOUS
      <4> QED  BY <3>1, <3>2, <4>1, SentsOpen
    <3> QED  BY <3>1, <3>4, <3>5
  <2>2. CASE Write(c)  BY <2>2, WriteRefines
  <2>3. CASE ReadAnswer(c)  BY <2>3, ReadAnswerRefines
  <2>4. CASE ConnectFails(c) \/ WriteFails(c) \/ ReadTimeout(c)
    <3>1. client[c] \in Waiting /\ (Retry(c) \/ GiveUp(c)) /\ UNCHANGED <<pool, conn, backlog, serverVars>>
      BY <2>4, FailsIsRetry DEF ConnectFails, WriteFails, ReadTimeout, Waiting
    <3> QED  BY <3>1, FailedTryRefines
  <2> QED  BY <1>3, <2>1, <2>2, <2>3, <2>4 DEF ClientStep
<1>4. ASSUME Take PROVE UNCHANGED <<Phases, Sents, begun, ended>>
  <2> DEFINE c == Head(pool)
  <2>1. pool # <<>> /\ Moves(c, "connecting") /\ UNCHANGED <<conn, begun, ended>>
    BY <1>4 DEF Take, serverVars
  <2>2. c \in Call /\ Underway(c)
    <3>1. pool \in Seq(Pooled)  BY <1>0 DEF TypeOK
    <3>2. c \in Call /\ c = pool[1] /\ 1 \in DOMAIN pool  BY <2>1, <3>1
    <3>3. client[pool[1]] = "queued"  BY <3>2 DEF IInv, ClientOK
    <3> QED  BY <3>2, <3>3 DEF Underway
  <2>3. "connecting" \in {"queued"} \cup Waiting  BY DEF Waiting
  <2> HIDE DEF c
  <2> QED  BY <1>0, <2>1, <2>2, <2>3, StillOpen, SentsStay
<1>5. ASSUME NEW s \in Other, Visit(s) PROVE UNCHANGED <<Phases, Sents, begun, ended>>
  <2> DEFINE y == <<s, 1>>
  <2>1. PICK p : conn' = Opened(y, p)  BY <1>5 DEF Visit
  <2>2. y \notin DOMAIN conn /\ y[1] \notin Call /\ UNCHANGED <<client, begun, ended>>
    BY <1>5 DEF Visit, clientVars, serverVars
  <2> HIDE DEF y
  <2> QED  BY <2>1, <2>2, SentsOpen, PhasesStay
<1>6. ASSUME Accept \/ AcceptTimeout PROVE UNCHANGED <<Phases, Sents, begun, ended>>
  <2> DEFINE y == Head(backlog)
  <2>1. /\ backlog # <<>> /\ UNCHANGED <<client, begun, ended>>
        /\ \/ conn[y] = "sent" /\ Becomes(y, "queued")
           \/ conn[y] = "connected" /\ Becomes(y, "closed")
    BY <1>6 DEF Accept, AcceptTimeout, clientVars, serverVars
  <2>2. y \in DOMAIN conn
    <3>1. backlog \in Seq(DOMAIN conn)  BY <1>0 DEF TypeOK
    <3> QED  BY <2>1, <3>1
  <2> HIDE DEF y
  <2>3. "queued" \in Progress /\ "closed" \in Progress  BY DEF Progress
  <2>4. CASE conn[y] = "sent" /\ Becomes(y, "queued")
    <3>1. conn[y] \in {"connected", "closed"} <=> "queued" \in {"connected", "closed"}  BY <2>4
    <3> QED  BY <1>0, <2>1, <2>2, <2>3, <2>4, <3>1, SentsMove, PhasesStay
  <2>5. CASE conn[y] = "connected" /\ Becomes(y, "closed")
    <3>1. conn[y] \in {"connected", "closed"} <=> "closed" \in {"connected", "closed"}  BY <2>5
    <3> QED  BY <1>0, <2>1, <2>2, <2>3, <2>5, <3>1, SentsMove, PhasesStay
  <2> QED  BY <2>1, <2>4, <2>5
<1>7. ASSUME NEW l \in Lane, Begin(l)
      PROVE  (\E c \in Call : Requests!Begin(c)) \/ UNCHANGED <<Phases, Sents, begun, ended>>
  BY <1>7, BeginRefines
<1>8. ASSUME NEW x \in DOMAIN conn, End(x) PROVE \E c \in Call : Requests!End(c)
  BY <1>8, EndRefines
<1>9. ASSUME NEW s \in Orchestration, EndOrchestration(s)
      PROVE  UNCHANGED <<Phases, Sents, begun, ended>>
  <2> DEFINE y == <<s, 1>>
  <2>1. /\ y \in DOMAIN conn /\ conn[y] = "running" /\ Becomes(y, "answered")
        /\ UNCHANGED <<client, begun, ended>>
    BY <1>9 DEF EndOrchestration, clientVars, serverVars
  <2>2. "answered" \in Progress /\ (conn[y] \in {"connected", "closed"} <=> "answered" \in {"connected", "closed"})
    BY <2>1 DEF Progress
  <2> HIDE DEF y
  <2> QED  BY <1>0, <2>1, <2>2, SentsMove, PhasesStay
<1>10. CASE UNCHANGED vars
  <2>1. UNCHANGED <<client, conn, begun, ended>>  BY <1>10 DEF vars
  <2> QED  BY <2>1, PhasesStay, SentsStay
<1> QED
  BY <1>1, <1>2, <1>3, <1>4, <1>5, <1>6, <1>7, <1>8, <1>9, <1>10 DEF Next

(* Pools, retries, lanes, workers and those who keep them come to this for a
   caller: at most one execution for each time its request was sent, and an
   answer from an execution only. *)
THEOREM Refinement == Spec => ImplementsRpc
<1>1. Init => Requests!Init
  <2> SUFFICES ASSUME Init PROVE Requests!Init
    OBVIOUS
  <2>1. client = [c \in Call |-> "idle"] /\ DOMAIN conn = {} /\ begun = [c \in Call |-> 0] /\ ended = begun
    BY DEF Init
  <2>2. Phases = [c \in Call |-> "idle"]
    <3>1. \A c \in Call : Phase(c) = "idle"  BY <2>1, PhaseIs DEF PhaseOf
    <3> QED  BY <3>1 DEF Phases
  <2>3. Sents = [c \in Call |-> 0]
    <3>1. \A c \in Call : With(c, Progress \ {"connected", "closed"}) = {}  BY <2>1 DEF With
    <3> QED  BY <3>1, FS_EmptySet DEF Sents, Sent
  <2> QED  BY <2>1, <2>2, <2>3 DEF Requests!Init, Phases, Sents
<1>2. IInv /\ [Next]_vars => [Requests!Next]_(Requests!vars)
  BY StepRefines DEF Requests!vars, Phases, Sents
<1> QED  BY <1>1, <1>2, Invariance, PTL DEF Spec, ImplementsRpc, Requests!Spec

----------------------------------------------------------------------------
(* The end of a call. *)

(* What a caller has ahead is told by its own two variables. *)
LEMMA CallerAheadSame ==
  ASSUME NEW c, UNCHANGED <<client[c], try[c]>>
  PROVE  CallerAhead(c)' = CallerAhead(c)
BY DEF CallerAhead

LEMMA CallerAheadType ==
  ASSUME IInv, NEW c \in Call
  PROVE  CallerAhead(c) \in 0..(4 * Tries + 6)
<1>1. CallerRank[client[c]] \in 0..6
  <2>1. client[c] \in {"idle", "submitting", "queued"} \cup Waiting \cup Returned
    BY DEF IInv, TypeOK
  <2> QED  BY <2>1 DEF CallerRank, Waiting, Returned
<1>2. try[c] \in 0..Tries /\ Tries \in Nat  BY DEF IInv, TypeOK
<1> QED  BY <1>1, <1>2 DEF CallerAhead

(* On to a place that is nearer in the same try, or to the next try. *)
LEMMA PlaceIsNearer ==
  ASSUME IInv, NEW c \in Call, try'[c] = try[c], NEW p, client'[c] = p,
         CallerRank[p] \in Nat, CallerRank[p] < CallerRank[client[c]]
  PROVE  CallerAhead(c)' < CallerAhead(c)
<1>1. CallerRank[client[c]] \in Nat
  <2>1. client[c] \in {"idle", "submitting", "queued"} \cup Waiting \cup Returned
    BY DEF IInv, TypeOK
  <2> QED  BY <2>1 DEF CallerRank, Waiting, Returned
<1>2. try[c] \in Nat /\ Tries \in Nat  BY DEF IInv, TypeOK
<1> QED  BY <1>1, <1>2 DEF CallerAhead

LEMMA TryIsNearer ==
  ASSUME IInv, NEW c \in Call, try'[c] = try[c] + 1, client'[c] = "connecting",
         client[c] # "ok", client[c] # "error"
  PROVE  CallerAhead(c)' < CallerAhead(c)
<1>1. CallerRank[client[c]] \in 1..6
  <2>1. client[c] \in {"idle", "submitting", "queued"} \cup Waiting \cup Returned
    BY DEF IInv, TypeOK
  <2> QED  BY <2>1 DEF CallerRank, Waiting, Returned
<1>2. CallerRank[client'[c]] = 3  BY DEF CallerRank
<1>3. try[c] \in Nat /\ Tries \in Nat  BY DEF IInv, TypeOK
<1> QED  BY <1>1, <1>2, <1>3 DEF CallerAhead

LEMMA TriesMove ==
  ASSUME IInv, NEW c \in Call, client[c] \in Waiting, Retry(c) \/ GiveUp(c)
  PROVE  /\ CallerAhead(c)' < CallerAhead(c)
         /\ \A e \in Call : e # c => CallerAhead(e)' = CallerAhead(e)
<1>1. client \in [Call -> {"idle", "submitting", "queued"} \cup Waiting \cup Returned]
      /\ try \in [Call -> 0..Tries]
  BY DEF IInv, TypeOK
<1>2. CASE Moves(c, "connecting") /\ try' = [try EXCEPT ![c] = @ + 1]
  <2>1. CallerAhead(c)' < CallerAhead(c)
    BY <1>1, <1>2, TryIsNearer DEF Moves, Waiting
  <2> QED  BY <1>1, <1>2, <2>1, CallerAheadSame DEF Moves
<1>3. CASE Moves(c, "error") /\ UNCHANGED try
  <2>1. client'[c] = "error" /\ CallerRank["error"] = 0 /\ CallerRank[client[c]] > 0
    BY <1>1, <1>3 DEF Moves, Waiting, CallerRank
  <2>2. CallerAhead(c)' < CallerAhead(c)  BY <1>3, <2>1, PlaceIsNearer
  <2> QED  BY <1>1, <1>3, <2>2, CallerAheadSame DEF Moves
<1> QED  BY <1>2, <1>3 DEF Retry, GiveUp

(* A caller that goes on to the next thing to do for its request. *)
LEMMA PlaceMoves ==
  ASSUME IInv, NEW c \in Call, NEW p \in {"submitting", "queued", "writing", "reading", "ok"},
         Moves(c, p), UNCHANGED try,
         <<client[c], p>> \in {<<"idle", "submitting">>, <<"submitting", "queued">>,
                               <<"connecting", "writing">>, <<"writing", "reading">>, <<"reading", "ok">>}
  PROVE  /\ CallerAhead(c)' < CallerAhead(c)
         /\ \A e \in Call : e # c => CallerAhead(e)' = CallerAhead(e)
<1>1. client \in [Call -> {"idle", "submitting", "queued"} \cup Waiting \cup Returned]
  BY DEF IInv, TypeOK
<1>2. client'[c] = p /\ CallerRank[p] \in Nat /\ CallerRank[p] < CallerRank[client[c]]
  BY <1>1 DEF Moves, CallerRank
<1>3. CallerAhead(c)' < CallerAhead(c)  BY <1>2, PlaceIsNearer
<1> QED  BY <1>1, <1>3, CallerAheadSame DEF Moves

(* And one that is to connect for the first time. *)
LEMMA FirstTryMoves ==
  ASSUME IInv, NEW c \in Call, client[c] \in {"idle", "queued"},
         Moves(c, "connecting"), try' = [try EXCEPT ![c] = 1]
  PROVE  /\ CallerAhead(c)' < CallerAhead(c)
         /\ \A e \in Call : e # c => CallerAhead(e)' = CallerAhead(e)
<1>1. client \in [Call -> {"idle", "submitting", "queued"} \cup Waiting \cup Returned]
      /\ try \in [Call -> 0..Tries] /\ try[c] = 0
  BY DEF IInv, TypeOK, ClientOK
<1>2. client'[c] = "connecting" /\ try'[c] = try[c] + 1  BY <1>1 DEF Moves
<1>3. CallerAhead(c)' < CallerAhead(c)  BY <1>2, TryIsNearer
<1> QED  BY <1>1, <1>3, CallerAheadSame DEF Moves

LEMMA CallerIsNearer ==
  ASSUME IInv, NEW c \in Call, Make(c) \/ Submit(c) \/ ClientStep(c)
  PROVE  /\ CallerAhead(c)' < CallerAhead(c)
         /\ \A e \in Call : e # c => CallerAhead(e)' = CallerAhead(e)
<1>1. CASE Make(c)  BY <1>1, PlaceMoves, FirstTryMoves DEF Make
<1>2. CASE Submit(c)  BY <1>2, PlaceMoves DEF Submit
<1>3. CASE Connect(c) \/ Write(c) \/ ReadAnswer(c)
  BY <1>3, PlaceMoves DEF Connect, Write, ReadAnswer
<1>4. CASE ConnectFails(c) \/ WriteFails(c) \/ ReadTimeout(c)
  BY <1>4, TriesMove DEF ConnectFails, WriteFails, ReadTimeout, Fails, Waiting
<1> QED  BY <1>1, <1>2, <1>3, <1>4 DEF ClientStep

(* The pool moves the caller whose turn it is. *)
LEMMA TakeIsNearer ==
  ASSUME IInv, Take, NEW c \in Call
  PROVE  IF c = Head(pool) THEN CallerAhead(c)' < CallerAhead(c)
         ELSE CallerAhead(c)' = CallerAhead(c)
<1>1. Head(pool) \in Call /\ client[Head(pool)] = "queued"
  <2>1. pool \in Seq(Pooled) /\ pool # <<>>  BY DEF IInv, TypeOK, Take
  <2>2. 1 \in DOMAIN pool /\ Head(pool) = pool[1] /\ Head(pool) \in Pooled  BY <2>1
  <2>3. client[pool[1]] = "queued"  BY <2>2 DEF IInv, ClientOK
  <2>4. Pooled \subseteq Call  BY DaemonAssumption
  <2> QED  BY <2>2, <2>3, <2>4
<1>2. Moves(Head(pool), "connecting") /\ try' = [try EXCEPT ![Head(pool)] = 1]  BY DEF Take
<1> QED  BY <1>1, <1>2, FirstTryMoves

(* A caller has its answer or its error after at most 4 * Tries + 6 steps of its
   own, whatever agentd, the other callers and the workers do in between: none of
   their steps, the late answer of an earlier try included, puts its return off
   (socket_client.rs, socket_roundtrip). *)
THEOREM CallersProgress ==
  Spec => NearerTheReturn /\ [](\A c \in Call : CallerAhead(c) \in 0..(4 * Tries + 6))
<1>1. IInv /\ [Next]_vars
        => [\A c \in Call : IF CallerStep(c) THEN CallerAhead(c)' < CallerAhead(c)
                            ELSE CallerAhead(c)' = CallerAhead(c)]_vars
  <2> SUFFICES ASSUME IInv, Next, NEW c \in Call
               PROVE  IF CallerStep(c) THEN CallerAhead(c)' < CallerAhead(c)
                      ELSE CallerAhead(c)' = CallerAhead(c)
    OBVIOUS
  <2>1. CASE CallerStep(c)
    <3>1. CASE Make(c) \/ Submit(c) \/ ClientStep(c)  BY <2>1, <3>1, CallerIsNearer
    <3>2. CASE Take /\ c = Head(pool)  BY <2>1, <3>2, TakeIsNearer
    <3> QED  BY <2>1, <3>1, <3>2 DEF CallerStep
  <2>2. CASE ~CallerStep(c)
    <3>1. ASSUME NEW e \in Call, Make(e) \/ Submit(e) \/ ClientStep(e)
          PROVE  CallerAhead(c)' = CallerAhead(c)
      BY <2>2, <3>1, CallerIsNearer DEF CallerStep
    <3>2. ASSUME Take PROVE CallerAhead(c)' = CallerAhead(c)
      BY <2>2, <3>2, TakeIsNearer DEF CallerStep
    <3>3. ASSUME UNCHANGED clientVars PROVE CallerAhead(c)' = CallerAhead(c)
      BY <3>3, CallerAheadSame DEF clientVars
    <3>4. ASSUME \/ \E s \in Other : Visit(s)
                 \/ Accept \/ AcceptTimeout
                 \/ \E l \in Lane : Begin(l)
                 \/ \E x \in DOMAIN conn : End(x)
                 \/ \E s \in Orchestration : EndOrchestration(s)
          PROVE  UNCHANGED clientVars
      BY <3>4 DEF Visit, Accept, AcceptTimeout, Begin, End, EndOrchestration
    <3>5. CallerAhead(c)' = CallerAhead(c)  BY <3>1, <3>2, <3>3, <3>4 DEF Next
    <3> QED  BY <2>2, <3>5
  <2> QED  BY <2>1, <2>2
<1>2. IInv => \A c \in Call : CallerAhead(c) \in 0..(4 * Tries + 6)  BY CallerAheadType
<1> QED  BY <1>1, <1>2, Invariance, PTL DEF Spec, NearerTheReturn
=============================================================================
