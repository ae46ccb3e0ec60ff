--------------------------- MODULE DesktopProofs ---------------------------
(***************************************************************************)
(* Theorems about the desktop application for any sessions and any number  *)
(* of messages: whatever is started, loaded or stopped meanwhile, the lock *)
(* on orch_session keeps one conductor at work, on a message of its own.   *)
(***************************************************************************)
EXTENDS Desktop, TLAPS

USE DesktopAssumption

Place == Turn \cup {Stop} \cup Session

(* A conductor in state c has no message to answer. *)
Unoccupied(c) ==
  /\ c.stage # "busy"
  /\ \A i \in DOMAIN c.inbox : c.inbox[i] = Stop
  /\ c.stage = "ended" => c.inbox = <<>>

(* The members of the line for the lock are told apart. *)
LEMMA Distinct ==
  /\ Stop \notin Turn /\ None \notin Turn /\ Turn \cap Session = {} /\ Stop \notin Session
  /\ None # Stop
BY DEF Turn, Stop

(* Who has the lock keeps it while others join the line. *)
LEMMA JoinsLine ==
  ASSUME queue \in Seq(Place), NEW q \in Place, queue' = Append(queue, q)
  PROVE  /\ queue' \in Seq(Place)
         /\ \A p : Holds(p) => Holds(p)'
<1>1. Append(queue, q) \in Seq(Place)  OBVIOUS
<1>2. queue # <<>> => Head(Append(queue, q)) = Head(queue) /\ Append(queue, q) # <<>>
  OBVIOUS
<1> QED  BY <1>1, <1>2 DEF Holds

LEMMA LeavesLine ==
  ASSUME queue \in Seq(Place), NEW p, Unlocked(p)
  PROVE  queue' \in Seq(Place)
BY DEF Unlocked, Holds

(* A message keeps its session as it moves. *)
LEMMA TurnTyped ==
  ASSUME TypeOK, NEW n \in Turn, NEW a \in {"begun", "waiting", "sent", "shown", "unshown"},
         TurnIs(n, a)
  PROVE  turn' \in [Turn -> [session : Session \cup {None},
                            at : {"none", "queued", "begun", "waiting", "sent",
                                  "shown", "unshown"}]]
<1> DEFINE P == {"none", "queued", "begun", "waiting", "sent", "shown", "unshown"}
<1>1. turn \in [Turn -> [session : Session \cup {None}, at : P]] /\ a \in P
  BY DEF TypeOK
<1>2. turn' = [turn EXCEPT ![n].at = a]  BY DEF TurnIs
<1> HIDE DEF P
<1>3. turn' \in [Turn -> [session : Session \cup {None}, at : P]]
  BY <1>1, <1>2
<1> QED  BY <1>3 DEF P

LEMMA InitIInv == Init => IInv
<1> SUFFICES ASSUME Init PROVE IInv
  OBVIOUS
<1> USE DEF Init
<1>1. TypeOK
  <2>1. conductor \in [Turn -> [stage : {"none", "idle", "busy", "ended"},
                               inbox : Seq(Turn \cup {Stop}), job : Turn \cup {None}]]
    <3>1. <<>> \in Seq(Turn \cup {Stop})  OBVIOUS
    <3> QED  BY <3>1
  <2>2. turn \in [Turn -> [session : Session \cup {None},
                          at : {"none", "queued", "begun", "waiting", "sent",
                                "shown", "unshown"}]]
    OBVIOUS
  <2>3. commands \in Seq(Turn \cup {Stop}) /\ queue \in Seq(Turn \cup {Stop} \cup Session)
    OBVIOUS
  <2> QED  BY <2>1, <2>2, <2>3 DEF TypeOK
<1>2. ChannelOK  BY DEF ChannelOK
<1>3. SentHolds /\ OrchMade  BY DEF SentHolds, OrchMade
<1>4. \A k \in Turn : ConductorOK(k)  BY DEF ConductorOK
<1> QED  BY <1>1, <1>2, <1>3, <1>4 DEF IInv

(* A step that leaves messages, conductors and the channel alone, and takes the
   lock from nobody. *)
LEMMA AsideIInv ==
  ASSUME IInv, TypeOK', UNCHANGED <<commands, turn, orch, conductor>>,
         \A n \in Turn : Holds(n) => Holds(n)'
  PROVE  IInv'
<1>1. ChannelOK'  BY DEF IInv, ChannelOK
<1>2. SentHolds' /\ OrchMade'  BY DEF IInv, SentHolds, OrchMade
<1>3. ASSUME NEW k \in Turn PROVE ConductorOK(k)'
  BY DEF IInv, ConductorOK, SentTo
<1> QED  BY <1>1, <1>2, <1>3 DEF IInv

LEMMA AppIInv ==
  ASSUME IInv, NEW s \in Session,
         StartSession(s) \/ SessionBegins(s) \/ LoadSession(s)
  PROVE  IInv'
<1> USE DEF app, channel, chat, vars, StartIs
<1>1. UNCHANGED <<commands, stopping, turn, orch, conductor>>
  BY DEF StartSession, SessionBegins, LoadSession
<1>2. queue' = queue \/ queue' = Append(queue, s)
  BY DEF StartSession, SessionBegins, LoadSession
<1>3. queue \in Seq(Place) /\ s \in Place  BY DEF IInv, TypeOK, Place
<1>4. queue' \in Seq(Place) /\ \A p \in Turn : Holds(p) => Holds(p)'
  <2>1. CASE queue' = queue  BY <1>3, <2>1 DEF Holds
  <2>2. CASE queue' = Append(queue, s)  BY <1>3, <2>2, JoinsLine
  <2> QED  BY <1>2, <2>1, <2>2
<1>5. current' \in Session \cup {None}
  BY DEF IInv, TypeOK, StartSession, SessionBegins, LoadSession
<1>6. start' \in [Session -> {"none", "waiting", "dropped", "current", "done"}]
  BY DEF IInv, TypeOK, StartSession, SessionBegins, LoadSession
<1>7. TypeOK'
  BY <1>1, <1>4, <1>5, <1>6 DEF IInv, TypeOK, Place
<1> QED  BY <1>1, <1>4, <1>7, AsideIInv

(* A conductor that has been sent nothing has nothing to do. *)
LEMMA NothingSent ==
  ASSUME IInv, \A n \in Turn : turn[n].at # "sent", NEW k \in Turn
  PROVE  Unoccupied(conductor[k])
<1>1. conductor[k].inbox \in Seq(Turn \cup {Stop})  BY DEF IInv, TypeOK
<1>2. \A i \in DOMAIN conductor[k].inbox : conductor[k].inbox[i] \in Turn \cup {Stop}
  BY <1>1
<1> QED  BY <1>2 DEF IInv, ConductorOK, SentTo, Unoccupied

(* While a session that starts has the lock no message is with a conductor. *)
LEMMA SessionDropsIInv ==
  ASSUME IInv, NEW s \in Session, SessionDrops(s)
  PROVE  IInv'
<1> USE DEF app, channel, chat, StartIs
<1>1. /\ Holds(s) /\ Unlocked(s) /\ orch' = None
      /\ start' = [start EXCEPT ![s] = "dropped"]
      /\ UNCHANGED <<current, commands, stopping, turn, conductor>>
  BY DEF SessionDrops
<1>2. \A n \in Turn : turn[n].at # "sent"
  BY <1>1, Distinct DEF IInv, SentHolds, Holds
<1>3. TypeOK'
  <2>1. queue' \in Seq(Place)  BY <1>1, LeavesLine DEF IInv, TypeOK, Place
  <2> QED  BY <1>1, <2>1 DEF IInv, TypeOK, Place
<1>4. ChannelOK'  BY <1>1 DEF IInv, ChannelOK
<1>5. SentHolds' /\ OrchMade'  BY <1>1, <1>2 DEF SentHolds, OrchMade
<1>6. ASSUME NEW k \in Turn PROVE ConductorOK(k)'
  <2>1. Unoccupied(conductor[k])  BY <1>2, NothingSent
  <2> QED  BY <1>1, <2>1 DEF ConductorOK, Unoccupied
<1> QED  BY <1>3, <1>4, <1>5, <1>6 DEF IInv

(* The moves of one message that neither reach nor leave a conductor. *)
LEMMA TurnMovesIInv ==
  ASSUME IInv, NEW n \in Turn, turn[n].at # "sent",
         NEW a \in {"begun", "waiting", "shown"}, TurnIs(n, a),
         UNCHANGED <<orch, conductor>>,
         TypeOK', ChannelOK',
         \A m \in Turn : m # n /\ Holds(m) => Holds(m)' \/ turn[m].at # "sent"
  PROVE  IInv'
<1>1. \A m \in Turn : /\ m # n => turn'[m] = turn[m]
                      /\ turn'[m].session = turn[m].session
                      /\ turn[m].at # "none" => turn'[m].at # "none"
                      /\ turn'[m].at = "sent" <=> turn[m].at = "sent"
                      /\ turn'[m].at = "sent" => m # n
  BY DEF TurnIs, IInv, TypeOK
<1>2. SentHolds'
  BY <1>1 DEF IInv, SentHolds
<1>3. OrchMade'
  BY <1>1 DEF IInv, TypeOK, OrchMade
<1>4. ASSUME NEW k \in Turn PROVE ConductorOK(k)'
  <2>1. \A m \in Turn : SentTo(m, k) => SentTo(m, k)'
    BY <1>1 DEF SentTo
  <2>2. conductor[k].inbox \in Seq(Turn \cup {Stop})  BY DEF IInv, TypeOK
  <2>3. \A i \in DOMAIN conductor[k].inbox :
          conductor[k].inbox[i] # Stop => conductor[k].inbox[i] \in Turn
    BY <2>2
  <2> QED  BY <2>1, <2>3 DEF IInv, ConductorOK
<1> QED  BY <1>2, <1>3, <1>4 DEF IInv

(* The front of the channel. *)
LEMMA TakesFront ==
  ASSUME commands \in Seq(Turn \cup {Stop}), commands # <<>>, commands' = Tail(commands)
  PROVE  /\ commands' \in Seq(Turn \cup {Stop})
         /\ 1 \in DOMAIN commands /\ Head(commands) = commands[1]
         /\ Head(commands) \in Turn \cup {Stop}
         /\ \A i \in DOMAIN commands' : /\ i \in Nat \ {0} /\ i + 1 \in DOMAIN commands
                                        /\ commands'[i] = commands[i + 1]
OBVIOUS

LEMMA TakeTurnIInv ==
  ASSUME IInv, TakeTurn
  PROVE  IInv'
<1>1. PICK n \in Turn :
        /\ n = Head(commands) /\ commands # <<>> /\ commands' = Tail(commands)
        /\ TurnIs(n, "begun")
        /\ UNCHANGED <<current, start, stopping, queue, orch, conductor>>
  BY DEF IInv, TypeOK, TakeTurn, app, chat
<1>2. /\ commands' \in Seq(Turn \cup {Stop})
      /\ 1 \in DOMAIN commands /\ n = commands[1]
      /\ \A i \in DOMAIN commands' : /\ i \in Nat \ {0} /\ i + 1 \in DOMAIN commands
                                     /\ commands'[i] = commands[i + 1]
  BY <1>1, TakesFront DEF IInv, TypeOK
<1>3. turn[n].at = "queued"
  BY <1>2, Distinct DEF IInv, ChannelOK
<1>4. TypeOK'
  BY <1>1, <1>2, TurnTyped DEF IInv, TypeOK
<1>5. ChannelOK'
  <2>1. ASSUME NEW i \in DOMAIN commands', commands'[i] # Stop
        PROVE  turn'[commands'[i]].at = "queued"
    <3>1. /\ i + 1 \in DOMAIN commands /\ i + 1 # 1
          /\ commands'[i] = commands[i + 1] /\ commands'[i] \in Turn
      BY <1>2, <2>1
    <3>2. commands'[i] # n  BY <1>2, <2>1, <3>1 DEF IInv, ChannelOK
    <3>3. turn[commands'[i]].at = "queued"  BY <2>1, <3>1 DEF IInv, ChannelOK
    <3> QED  BY <1>1, <3>1, <3>2, <3>3 DEF TurnIs, IInv, TypeOK
  <2>2. \A i, j \in DOMAIN commands' : commands'[i] = commands'[j] /\ commands'[i] # Stop => i = j
    BY <1>2 DEF IInv, ChannelOK
  <2> QED  BY <2>1, <2>2 DEF ChannelOK
<1>6. \A m \in Turn : Holds(m) => Holds(m)'  BY <1>1 DEF Holds
<1> QED  BY <1>1, <1>3, <1>4, <1>5, <1>6, TurnMovesIInv

LEMMA TurnBeginsIInv ==
  ASSUME IInv, NEW n \in Turn, TurnBegins(n)
  PROVE  IInv'
<1>1. /\ turn[n].at = "begun"
      /\ \/ TurnIs(n, "shown") /\ UNCHANGED queue
         \/ TurnIs(n, "waiting") /\ queue' = Append(queue, n)
      /\ UNCHANGED <<current, start, commands, stopping, orch, conductor>>
  BY DEF TurnBegins, app, channel, chat
<1>2. /\ queue' \in Seq(Place)
      /\ \A m \in Turn : Holds(m) => Holds(m)'
  <2>1. CASE UNCHANGED queue  BY <2>1 DEF IInv, TypeOK, Place, Holds
  <2>2. CASE queue' = Append(queue, n)  BY <2>2, JoinsLine DEF IInv, TypeOK, Place
  <2> QED  BY <1>1, <2>1, <2>2
<1>3. TypeOK'
  BY <1>1, <1>2, TurnTyped DEF IInv, TypeOK, Place
<1>4. ChannelOK'
  <2>1. \A i \in DOMAIN commands : commands[i] # Stop => commands[i] # n /\ commands[i] \in Turn
    BY <1>1 DEF IInv, TypeOK, ChannelOK
  <2> QED  BY <1>1, <2>1 DEF IInv, TypeOK, ChannelOK, TurnIs
<1> QED  BY <1>1, <1>2, <1>3, <1>4, TurnMovesIInv

(* A turn that gives up the lock it waited for. *)
LEMMA TurnRefusedIInv ==
  ASSUME IInv, NEW n \in Turn, TurnRefused(n)
  PROVE  IInv'
<1>1. /\ turn[n].at = "waiting" /\ Holds(n) /\ TurnIs(n, "shown") /\ Unlocked(n)
      /\ UNCHANGED <<current, start, commands, stopping, orch, conductor>>
  BY DEF TurnRefused, app, channel, chat
<1>2. TypeOK'
  <2>1. queue' \in Seq(Place)  BY <1>1, LeavesLine DEF IInv, TypeOK, Place
  <2> QED  BY <1>1, <2>1, TurnTyped DEF IInv, TypeOK, Place
<1>3. ChannelOK'
  <2>1. \A i \in DOMAIN commands : commands[i] # Stop => commands[i] # n /\ commands[i] \in Turn
    BY <1>1 DEF IInv, TypeOK, ChannelOK
  <2> QED  BY <1>1, <2>1 DEF IInv, TypeOK, ChannelOK, TurnIs
<1>4. \A m \in Turn : m # n => ~Holds(m)  BY <1>1 DEF Holds
<1> QED  BY <1>1, <1>2, <1>3, <1>4, TurnMovesIInv

(* A new message at the end of the channel. *)
LEMMA PostedIInv ==
  ASSUME IInv, NEW s \in Session, Posted(s),
         UNCHANGED <<current, stopping, queue, orch, conductor>>,
         start' \in [Session -> {"none", "waiting", "dropped", "current", "done"}]
  PROVE  IInv'
<1>1. PICK n \in Turn :
        /\ turn[n].at = "none"
        /\ turn' = [turn EXCEPT ![n] = [session |-> s, at |-> "queued"]]
        /\ commands' = Append(commands, n)
  BY DEF Posted
<1>2. /\ commands \in Seq(Turn \cup {Stop}) /\ commands' \in Seq(Turn \cup {Stop})
      /\ \A i \in DOMAIN commands' :
           \/ i \in DOMAIN commands /\ commands'[i] = commands[i]
           \/ i = Len(commands) + 1 /\ i \notin DOMAIN commands /\ commands'[i] = n
  BY <1>1 DEF IInv, TypeOK
<1>3. TypeOK'
  BY <1>1, <1>2 DEF IInv, TypeOK
<1>4. \A m \in Turn : m # n => turn'[m] = turn[m]
  BY <1>1 DEF IInv, TypeOK
<1>5. turn'[n].at = "queued"  BY <1>1 DEF IInv, TypeOK
<1>6. ChannelOK'
  <2>1. \A i \in DOMAIN commands : commands[i] # Stop => commands[i] # n /\ commands[i] \in Turn
    BY <1>1, <1>2 DEF IInv, ChannelOK
  <2>2. \A i \in DOMAIN commands' : commands'[i] # Stop => turn'[commands'[i]].at = "queued"
    BY <1>2, <1>4, <1>5, <2>1 DEF IInv, ChannelOK
  <2>3. \A i, j \in DOMAIN commands' : commands'[i] = commands'[j] /\ commands'[i] # Stop => i = j
    BY <1>2, <2>1, Distinct DEF IInv, ChannelOK
  <2> QED  BY <2>2, <2>3 DEF ChannelOK
<1>7. SentHolds'
  BY <1>1, <1>4, <1>5 DEF IInv, SentHolds, Holds
<1>8. OrchMade'
  BY <1>1, <1>4, <1>5 DEF IInv, TypeOK, OrchMade
<1>9. ASSUME NEW k \in Turn PROVE ConductorOK(k)'
  <2>1. \A m \in Turn : SentTo(m, k) => SentTo(m, k)'
    BY <1>1, <1>4, Distinct DEF SentTo, IInv, OrchMade
  <2>2. conductor[k].inbox \in Seq(Turn \cup {Stop})  BY DEF IInv, TypeOK
  <2>3. \A i \in DOMAIN conductor[k].inbox :
          conductor[k].inbox[i] # Stop => conductor[k].inbox[i] \in Turn
    BY <2>2
  <2> QED  BY <2>1, <2>3 DEF IInv, ConductorOK
<1> QED  BY <1>3, <1>6, <1>7, <1>8, <1>9 DEF IInv

LEMMA SessionPostsIInv ==
  ASSUME IInv, NEW s \in Session, SessionPosts(s)
  PROVE  IInv'
<1>1. start' \in [Session -> {"none", "waiting", "dropped", "current", "done"}]
  BY DEF IInv, TypeOK, SessionPosts, StartIs
<1>2. UNCHANGED <<current, stopping, queue, orch, conductor>>
  BY DEF SessionPosts, chat
<1>3. CASE Posted(s)  BY <1>1, <1>2, <1>3, PostedIInv
<1>4. CASE UNCHANGED <<commands, turn>>
  <2>1. TypeOK'  BY <1>1, <1>2, <1>4 DEF IInv, TypeOK
  <2> QED  BY <1>2, <1>4, <2>1, AsideIInv DEF Holds
<1> QED  BY <1>3, <1>4 DEF SessionPosts

LEMMA SendMessageIInv ==
  ASSUME IInv, SendMessage
  PROVE  IInv'
<1>1. current \in Session /\ Posted(current)
  BY DEF IInv, TypeOK, SendMessage
<1>2. UNCHANGED <<current, start, stopping, queue, orch, conductor>>
  BY DEF SendMessage, app, chat
<1>3. start' \in [Session -> {"none", "waiting", "dropped", "current", "done"}]
  BY <1>2 DEF IInv, TypeOK
<1> QED  BY <1>1, <1>2, <1>3, PostedIInv

LEMMA StopSessionIInv ==
  ASSUME IInv, StopSession
  PROVE  IInv'
<1>1. commands' = Append(commands, Stop) /\ UNCHANGED <<current, start, stopping, turn, queue, orch, conductor>>
  BY DEF StopSession, app, chat
<1>2. /\ commands' \in Seq(Turn \cup {Stop})
      /\ \A i \in DOMAIN commands' : commands'[i] # Stop =>
           i \in DOMAIN commands /\ commands'[i] = commands[i]
  BY <1>1 DEF IInv, TypeOK
<1>3. TypeOK'  BY <1>1, <1>2 DEF IInv, TypeOK
<1>4. ChannelOK'  BY <1>1, <1>2 DEF IInv, ChannelOK
<1>5. SentHolds' /\ OrchMade'  BY <1>1 DEF IInv, SentHolds, OrchMade, Holds
<1>6. \A k \in Turn : ConductorOK(k)'  BY <1>1 DEF IInv, ConductorOK, SentTo
<1> QED  BY <1>3, <1>4, <1>5, <1>6 DEF IInv

LEMMA TakeStopIInv ==
  ASSUME IInv, TakeStop
  PROVE  IInv'
<1>1. /\ commands # <<>> /\ commands' = Tail(commands) /\ stopping' = TRUE
      /\ queue' = Append(queue, Stop)
      /\ UNCHANGED <<current, start, turn, orch, conductor>>
  BY DEF TakeStop, app, chat
<1>2. /\ commands' \in Seq(Turn \cup {Stop})
      /\ \A i \in DOMAIN commands' : /\ i \in Nat \ {0} /\ i + 1 \in DOMAIN commands
                                     /\ commands'[i] = commands[i + 1]
  BY <1>1, TakesFront DEF IInv, TypeOK
<1>3. queue' \in Seq(Place) /\ \A m \in Turn : Holds(m) => Holds(m)'
  BY <1>1, JoinsLine DEF IInv, TypeOK, Place
<1>4. TypeOK'  BY <1>1, <1>2, <1>3 DEF IInv, TypeOK, Place
<1>5. ChannelOK'  BY <1>1, <1>2 DEF IInv, ChannelOK
<1>6. SentHolds' /\ OrchMade'  BY <1>1, <1>3 DEF IInv, SentHolds, OrchMade
<1>7. \A k \in Turn : ConductorOK(k)'  BY <1>1 DEF IInv, ConductorOK, SentTo
<1> QED  BY <1>4, <1>5, <1>6, <1>7 DEF IInv

(* One conductor's state replaced by another of its type. *)
LEMMA ConductorTyped ==
  ASSUME TypeOK, NEW k \in Turn,
         NEW c \in [stage : {"none", "idle", "busy", "ended"},
                    inbox : Seq(Turn \cup {Stop}), job : Turn \cup {None}],
         conductor' = [conductor EXCEPT ![k] = c]
  PROVE  /\ conductor' \in [Turn -> [stage : {"none", "idle", "busy", "ended"},
                                     inbox : Seq(Turn \cup {Stop}), job : Turn \cup {None}]]
         /\ conductor'[k] = c
         /\ \A j \in Turn : j # k => conductor'[j] = conductor[j]
BY DEF TypeOK

(* An inbox with one thing more, or with the first thing less. *)
LEMMA Receiving ==
  ASSUME TypeOK, NEW k \in Turn, NEW m \in Turn \cup {Stop}, Receives(k, m)
  PROVE  /\ conductor' \in [Turn -> [stage : {"none", "idle", "busy", "ended"},
                                     inbox : Seq(Turn \cup {Stop}), job : Turn \cup {None}]]
         /\ \A j \in Turn : j # k => conductor'[j] = conductor[j]
         /\ conductor'[k].stage = conductor[k].stage /\ conductor'[k].job = conductor[k].job
         /\ \A i \in DOMAIN conductor'[k].inbox :
              \/ i \in DOMAIN conductor[k].inbox
                 /\ conductor'[k].inbox[i] = conductor[k].inbox[i]
              \/ i = Len(conductor[k].inbox) + 1 /\ conductor'[k].inbox[i] = m
<1> DEFINE c == conductor[k]
           d == [c EXCEPT !.inbox = Append(@, m)]
<1>1. /\ c \in [stage : {"none", "idle", "busy", "ended"},
                inbox : Seq(Turn \cup {Stop}), job : Turn \cup {None}]
      /\ c.inbox \in Seq(Turn \cup {Stop})
  BY DEF TypeOK
<1>2. Append(c.inbox, m) \in Seq(Turn \cup {Stop})  BY <1>1
<1>3. /\ d \in [stage : {"none", "idle", "busy", "ended"},
                inbox : Seq(Turn \cup {Stop}), job : Turn \cup {None}]
      /\ d.stage = c.stage /\ d.job = c.job /\ d.inbox = Append(c.inbox, m)
  BY <1>1, <1>2
<1>4. conductor' = [conductor EXCEPT ![k] = d]  BY DEF Receives
<1>5. \A i \in DOMAIN Append(c.inbox, m) :
        \/ i \in DOMAIN c.inbox /\ Append(c.inbox, m)[i] = c.inbox[i]
        \/ i = Len(c.inbox) + 1 /\ Append(c.inbox, m)[i] = m
  BY <1>1
<1> HIDE DEF d
<1>6. /\ conductor' \in [Turn -> [stage : {"none", "idle", "busy", "ended"},
                                  inbox : Seq(Turn \cup {Stop}), job : Turn \cup {None}]]
      /\ conductor'[k] = d
      /\ \A j \in Turn : j # k => conductor'[j] = conductor[j]
  BY <1>3, <1>4, ConductorTyped
<1> QED  BY <1>3, <1>5, <1>6

LEMMA StopConductorIInv ==
  ASSUME IInv, StopConductor
  PROVE  IInv'
<1>1. /\ Holds(Stop) /\ Unlocked(Stop) /\ stopping' = FALSE
      /\ \/ orch \in Turn /\ conductor[orch].stage # "ended" /\ Receives(orch, Stop)
         \/ UNCHANGED conductor
      /\ UNCHANGED <<current, start, commands, turn, orch>>
  BY DEF IInv, TypeOK, StopConductor, app
<1>2. \A n \in Turn : turn[n].at # "sent"
  BY <1>1, Distinct DEF IInv, SentHolds, Holds
<1>3. /\ conductor' \in [Turn -> [stage : {"none", "idle", "busy", "ended"},
                                  inbox : Seq(Turn \cup {Stop}), job : Turn \cup {None}]]
      /\ \A k \in Turn : Unoccupied(conductor'[k])
  <2>1. CASE UNCHANGED conductor
    BY <1>2, <2>1, NothingSent DEF IInv, TypeOK
  <2>2. CASE orch \in Turn /\ conductor[orch].stage # "ended" /\ Receives(orch, Stop)
    BY <1>2, <2>2, NothingSent, Receiving DEF IInv, Unoccupied
  <2> QED  BY <1>1, <2>1, <2>2
<1>4. TypeOK'
  <2>1. queue' \in Seq(Place)  BY <1>1, LeavesLine DEF IInv, TypeOK, Place
  <2> QED  BY <1>1, <1>3, <2>1 DEF IInv, TypeOK, Place
<1>5. ChannelOK'  BY <1>1 DEF IInv, ChannelOK
<1>6. SentHolds' /\ OrchMade'  BY <1>1, <1>2 DEF IInv, SentHolds, OrchMade
<1>7. \A k \in Turn : ConductorOK(k)'  BY <1>3 DEF ConductorOK, Unoccupied
<1> QED  BY <1>4, <1>5, <1>6, <1>7 DEF IInv

(* The message is given to a conductor made for it, or to the one of its
   session; either has nothing else to answer. *)
LEMMA TurnSentIInv ==
  ASSUME IInv, NEW n \in Turn, TurnSent(n)
  PROVE  IInv'
<1>1. /\ turn[n].at = "waiting" /\ Holds(n) /\ TurnIs(n, "sent")
      /\ UNCHANGED <<current, start, commands, stopping, queue>>
  BY DEF TurnSent, Sent, app, channel
<1>2. \A m \in Turn : turn[m].at # "sent"
  BY <1>1 DEF IInv, SentHolds, Holds
<1>3. /\ turn' \in [Turn -> [session : Session \cup {None},
                             at : {"none", "queued", "begun", "waiting", "sent",
                                   "shown", "unshown"}]]
      /\ turn'[n].at = "sent"
      /\ \A m \in Turn : /\ m # n => turn'[m] = turn[m]
                         /\ turn'[m].session = turn[m].session
                         /\ turn[m].at # "none" => turn'[m].at # "none"
  BY <1>1, TurnTyped DEF IInv, TypeOK, TurnIs
(* The conductor that has it. *)
<1>4. PICK k \in Turn :
        /\ orch' = k /\ turn[k].session = turn[n].session /\ turn[k].at # "none"
        /\ conductor' \in [Turn -> [stage : {"none", "idle", "busy", "ended"},
                                    inbox : Seq(Turn \cup {Stop}), job : Turn \cup {None}]]
        /\ \A j \in Turn : j # k => conductor'[j] = conductor[j]
        /\ conductor'[k].stage # "busy" /\ conductor'[k].stage # "ended"
        /\ \A i \in DOMAIN conductor'[k].inbox : conductor'[k].inbox[i] # Stop =>
             /\ conductor'[k].inbox[i] = n
             /\ \A j \in DOMAIN conductor'[k].inbox : conductor'[k].inbox[j] # Stop => i = j
  <2>1. CASE /\ orch' = n
             /\ conductor' = [conductor EXCEPT ![n] = [stage |-> "idle", inbox |-> <<n>>, job |-> None]]
    <3> DEFINE c == [stage |-> "idle", inbox |-> <<n>>, job |-> None]
    <3>1. c \in [stage : {"none", "idle", "busy", "ended"},
                 inbox : Seq(Turn \cup {Stop}), job : Turn \cup {None}]
      <4>1. <<n>> \in Seq(Turn \cup {Stop})  OBVIOUS
      <4> QED  BY <4>1
    <3>2. c.stage = "idle" /\ DOMAIN c.inbox = {1} /\ c.inbox[1] = n
      OBVIOUS
    <3> HIDE DEF c
    <3>3. /\ conductor' \in [Turn -> [stage : {"none", "idle", "busy", "ended"},
                                      inbox : Seq(Turn \cup {Stop}), job : Turn \cup {None}]]
          /\ conductor'[n] = c
          /\ \A j \in Turn : j # n => conductor'[j] = conductor[j]
      <4>1. conductor' = [conductor EXCEPT ![n] = c]  BY <2>1 DEF c
      <4> QED  BY <3>1, <4>1, ConductorTyped DEF IInv
    <3> QED  BY <1>1, <2>1, <3>2, <3>3
  <2>2. CASE /\ ~NeedsNew(n) /\ conductor[orch].stage # "ended"
             /\ Receives(orch, n) /\ UNCHANGED orch
    <3>1. orch \in Turn /\ turn[orch].session = turn[n].session /\ turn[orch].at # "none"
      BY <2>2, Distinct DEF NeedsNew, IInv, TypeOK, OrchMade
    <3>2. /\ conductor[orch].stage # "busy"
          /\ \A i \in DOMAIN conductor[orch].inbox : conductor[orch].inbox[i] = Stop
      BY <1>2, <3>1, NothingSent DEF Unoccupied
    <3>3. /\ conductor' \in [Turn -> [stage : {"none", "idle", "busy", "ended"},
                                      inbox : Seq(Turn \cup {Stop}), job : Turn \cup {None}]]
          /\ \A j \in Turn : j # orch => conductor'[j] = conductor[j]
          /\ conductor'[orch].stage = conductor[orch].stage
          /\ \A i \in DOMAIN conductor'[orch].inbox :
               \/ i \in DOMAIN conductor[orch].inbox
                  /\ conductor'[orch].inbox[i] = conductor[orch].inbox[i]
               \/ i = Len(conductor[orch].inbox) + 1 /\ conductor'[orch].inbox[i] = n
      BY <2>2, <3>1, Receiving DEF IInv
    <3> QED  BY <2>2, <3>1, <3>2, <3>3
  <2> QED  BY <2>1, <2>2 DEF TurnSent, Sent
<1>5. TypeOK'
  BY <1>1, <1>3, <1>4 DEF IInv, TypeOK
<1>6. ChannelOK'
  <2>1. \A i \in DOMAIN commands : commands[i] # Stop => commands[i] # n /\ commands[i] \in Turn
    BY <1>1 DEF IInv, TypeOK, ChannelOK
  <2> QED  BY <1>1, <1>3, <2>1 DEF IInv, ChannelOK
<1>7. SentHolds' /\ OrchMade'
  BY <1>1, <1>2, <1>3, <1>4 DEF SentHolds, OrchMade, Holds
<1>8. ASSUME NEW j \in Turn PROVE ConductorOK(j)'
  <2>1. CASE j = k
    <3>1. SentTo(n, k)'  BY <1>3, <1>4 DEF SentTo
    <3> QED  BY <1>4, <2>1, <3>1 DEF ConductorOK
  <2>2. CASE j # k
    <3>1. Unoccupied(conductor'[j])  BY <1>2, <1>4, <2>2, NothingSent
    <3> QED  BY <3>1 DEF ConductorOK, Unoccupied
  <2> QED  BY <2>1, <2>2
<1> QED  BY <1>5, <1>6, <1>7, <1>8 DEF IInv

(* The end of a message that had been sent: it had the lock, so no other is
   with a conductor. *)
LEMMA SettledIInv ==
  ASSUME IInv, NEW n \in Turn, turn[n].at = "sent", Unlocked(n),
         NEW a \in {"shown", "unshown"}, TurnIs(n, a),
         UNCHANGED <<current, start, commands, stopping, orch>>,
         conductor' \in [Turn -> [stage : {"none", "idle", "busy", "ended"},
                                  inbox : Seq(Turn \cup {Stop}), job : Turn \cup {None}]],
         \A k \in Turn : Unoccupied(conductor'[k])
  PROVE  IInv'
<1>1. Holds(n) /\ \A m \in Turn : m # n => turn[m].at # "sent"
  BY DEF IInv, SentHolds, Holds
<1>2. TypeOK'
  <2>1. queue' \in Seq(Place)  BY LeavesLine DEF IInv, TypeOK, Place
  <2> QED  BY <2>1, TurnTyped DEF IInv, TypeOK, Place
<1>3. ChannelOK'
  <2>1. \A i \in DOMAIN commands : commands[i] # Stop => commands[i] # n /\ commands[i] \in Turn
    BY DEF IInv, TypeOK, ChannelOK
  <2> QED  BY <2>1 DEF IInv, TypeOK, ChannelOK, TurnIs
<1>4. \A m \in Turn : /\ turn'[m].at # "sent"
                      /\ turn[m].at # "none" => turn'[m].at # "none"
  BY <1>1 DEF IInv, TypeOK, TurnIs
<1>5. SentHolds' /\ OrchMade'
  BY <1>4 DEF IInv, TypeOK, SentHolds, OrchMade
<1>6. \A k \in Turn : ConductorOK(k)'  BY DEF ConductorOK, Unoccupied
<1> QED  BY <1>2, <1>3, <1>5, <1>6 DEF IInv

(* What has not been sent to k is not with k. *)
LEMMA OthersUnoccupied ==
  ASSUME IInv, NEW k \in Turn, orch # k
  PROVE  Unoccupied(conductor[k])
<1>1. conductor[k].inbox \in Seq(Turn \cup {Stop})  BY DEF IInv, TypeOK
<1>2. \A i \in DOMAIN conductor[k].inbox : conductor[k].inbox[i] \in Turn \cup {Stop}
  BY <1>1
<1> QED  BY <1>2 DEF IInv, ConductorOK, SentTo, Unoccupied

(* The conductor that ended has dropped the message: nobody is at work. *)
LEMMA TurnDroppedIInv ==
  ASSUME IInv, NEW n \in Turn, TurnDropped(n)
  PROVE  IInv'
<1>1. /\ turn[n].at = "sent" /\ conductor[orch].stage = "ended"
      /\ TurnIs(n, "shown") /\ Unlocked(n)
      /\ UNCHANGED <<current, start, commands, stopping, orch, conductor>>
  BY DEF TurnDropped, app, channel, chat
<1>2. conductor' \in [Turn -> [stage : {"none", "idle", "busy", "ended"},
                               inbox : Seq(Turn \cup {Stop}), job : Turn \cup {None}]]
  BY <1>1 DEF IInv, TypeOK
<1>3. ASSUME NEW k \in Turn PROVE Unoccupied(conductor'[k])
  <2>1. CASE orch = k  BY <1>1, <2>1 DEF IInv, ConductorOK, Unoccupied
  <2>2. CASE orch # k  BY <1>1, <2>2, OthersUnoccupied
  <2> QED  BY <2>1, <2>2
<1> QED  BY <1>1, <1>2, <1>3, SettledIInv

(* Conductor k is done with its message, whichever way, and has no other. *)
LEMMA ConductorDoneIInv ==
  ASSUME IInv, NEW k \in Turn, conductor[k].stage = "busy",
         NEW a \in {"shown", "unshown"}, TurnIs(conductor[k].job, a), Unlocked(conductor[k].job),
         NEW c \in [stage : {"none", "idle", "busy", "ended"},
                    inbox : Seq(Turn \cup {Stop}), job : Turn \cup {None}],
         conductor' = [conductor EXCEPT ![k] = c],
         \/ c.stage = "idle" /\ c.inbox = conductor[k].inbox
         \/ c.stage = "ended" /\ c.inbox = <<>>,
         UNCHANGED <<app, channel, orch>>
  PROVE  IInv'
<1>1. PICK n \in Turn :
        /\ n = conductor[k].job
        /\ turn[n].at = "sent" /\ orch = k
        /\ TurnIs(n, a) /\ Unlocked(n)
        /\ UNCHANGED <<current, start, commands, stopping, orch>>
  BY DEF IInv, ConductorOK, SentTo, app, channel
<1>2. /\ conductor' \in [Turn -> [stage : {"none", "idle", "busy", "ended"},
                                  inbox : Seq(Turn \cup {Stop}), job : Turn \cup {None}]]
      /\ conductor'[k] = c
      /\ \A j \in Turn : j # k => conductor'[j] = conductor[j]
  BY ConductorTyped DEF IInv
<1>3. \A i \in DOMAIN conductor[k].inbox : conductor[k].inbox[i] = Stop
  BY DEF IInv, ConductorOK
<1>4. Unoccupied(c)
  <2>1. DOMAIN <<>> = {}  OBVIOUS
  <2> QED  BY <1>3, <2>1 DEF Unoccupied
<1>5. ASSUME NEW j \in Turn PROVE Unoccupied(conductor'[j])
  <2>1. CASE j = k  BY <1>2, <1>4, <2>1
  <2>2. CASE j # k  BY <1>1, <1>2, <2>2, OthersUnoccupied
  <2> QED  BY <2>1, <2>2
<1> QED  BY <1>1, <1>2, <1>5, SettledIInv

LEMMA ConductorRepliesIInv ==
  ASSUME IInv, NEW k \in Turn, ConductorReplies(k)
  PROVE  IInv'
<1> DEFINE c == [conductor[k] EXCEPT !.stage = "idle", !.job = None]
<1>1. conductor \in [Turn -> [stage : {"none", "idle", "busy", "ended"},
                              inbox : Seq(Turn \cup {Stop}), job : Turn \cup {None}]]
  BY DEF IInv, TypeOK
<1>2. /\ conductor[k].stage = "busy" /\ conductor' = [conductor EXCEPT ![k] = c]
      /\ Unlocked(conductor[k].job) /\ UNCHANGED <<app, channel, orch>>
  BY <1>1 DEF ConductorReplies
<1>3. PICK a \in {"shown", "unshown"} : TurnIs(conductor[k].job, a)  BY DEF ConductorReplies
<1>4. /\ c \in [stage : {"none", "idle", "busy", "ended"},
                inbox : Seq(Turn \cup {Stop}), job : Turn \cup {None}]
      /\ c.stage = "idle" /\ c.inbox = conductor[k].inbox
  BY <1>1
<1> HIDE DEF c
<1> QED  BY <1>2, <1>3, <1>4, ConductorDoneIInv

LEMMA ConductorPanicsIInv ==
  ASSUME IInv, NEW k \in Turn, ConductorPanics(k)
  PROVE  IInv'
<1> DEFINE c == [conductor[k] EXCEPT !.stage = "ended", !.inbox = <<>>, !.job = None]
<1>1. conductor \in [Turn -> [stage : {"none", "idle", "busy", "ended"},
                              inbox : Seq(Turn \cup {Stop}), job : Turn \cup {None}]]
  BY DEF IInv, TypeOK
<1>2. /\ conductor[k].stage = "busy" /\ conductor' = [conductor EXCEPT ![k] = c]
      /\ TurnIs(conductor[k].job, "shown") /\ Unlocked(conductor[k].job)
      /\ UNCHANGED <<app, channel, orch>>
  BY <1>1 DEF ConductorPanics
<1>3. /\ c \in [stage : {"none", "idle", "busy", "ended"},
                inbox : Seq(Turn \cup {Stop}), job : Turn \cup {None}]
      /\ c.stage = "ended" /\ c.inbox = <<>>
  <2>1. <<>> \in Seq(Turn \cup {Stop})  OBVIOUS
  <2> QED  BY <1>1, <2>1
<1> HIDE DEF c
<1> QED  BY <1>2, <1>3, ConductorDoneIInv

(* A step of conductor k that leaves its message, if any, unsettled. *)
LEMMA ConductorMovesIInv ==
  ASSUME IInv, NEW k \in Turn,
         NEW c \in [stage : {"none", "idle", "busy", "ended"},
                    inbox : Seq(Turn \cup {Stop}), job : Turn \cup {None}],
         conductor' = [conductor EXCEPT ![k] = c],
         UNCHANGED <<app, channel, turn, queue, orch>>,
         /\ c.stage = "busy" => c.job \in Turn /\ SentTo(c.job, k)
         /\ c.stage = "ended" => c.inbox = <<>>
         /\ \A i \in DOMAIN c.inbox : c.inbox[i] # Stop =>
              /\ SentTo(c.inbox[i], k)
              /\ c.stage # "busy"
              /\ \A j \in DOMAIN c.inbox : c.inbox[j] # Stop => i = j
  PROVE  IInv'
<1>1. /\ conductor' \in [Turn -> [stage : {"none", "idle", "busy", "ended"},
                                  inbox : Seq(Turn \cup {Stop}), job : Turn \cup {None}]]
      /\ conductor'[k] = c
      /\ \A j \in Turn : j # k => conductor'[j] = conductor[j]
  BY ConductorTyped DEF IInv
<1>2. UNCHANGED <<current, start, commands, stopping>>  BY DEF app, channel
<1>3. TypeOK'  BY <1>1, <1>2 DEF IInv, TypeOK
<1>4. ChannelOK'  BY <1>2 DEF IInv, ChannelOK
<1>5. SentHolds' /\ OrchMade'  BY DEF IInv, SentHolds, OrchMade, Holds
<1>6. ASSUME NEW j \in Turn PROVE ConductorOK(j)'
  <2>1. \A n : SentTo(n, j)' <=> SentTo(n, j)  BY DEF SentTo
  <2>2. CASE j = k  BY <1>1, <2>1, <2>2 DEF ConductorOK
  <2>3. CASE j # k  BY <1>1, <2>1, <2>3 DEF IInv, ConductorOK
  <2> QED  BY <2>2, <2>3
<1> QED  BY <1>3, <1>4, <1>5, <1>6 DEF IInv

LEMMA ConductorTakesIInv ==
  ASSUME IInv, NEW k \in Turn, ConductorTakes(k)
  PROVE  IInv'
<1> DEFINE q == conductor[k].inbox
           c == [stage |-> "busy", inbox |-> Tail(q), job |-> Head(q)]
<1>1. q \in Seq(Turn \cup {Stop}) /\ q # <<>> /\ Head(q) # Stop
  BY DEF IInv, TypeOK, ConductorTakes, HasMail
<1>2. /\ 1 \in DOMAIN q /\ Head(q) = q[1] /\ Head(q) \in Turn
      /\ Tail(q) \in Seq(Turn \cup {Stop})
      /\ \A i \in DOMAIN Tail(q) : i + 1 \in DOMAIN q /\ i + 1 # 1 /\ Tail(q)[i] = q[i + 1]
  BY <1>1
<1>3. /\ c \in [stage : {"none", "idle", "busy", "ended"},
                inbox : Seq(Turn \cup {Stop}), job : Turn \cup {None}]
      /\ c.stage = "busy" /\ c.job = Head(q) /\ c.inbox = Tail(q)
  BY <1>2
<1>4. /\ conductor' = [conductor EXCEPT ![k] = c]
      /\ UNCHANGED <<app, channel, turn, queue, orch>>
  BY DEF ConductorTakes
<1>5. /\ \A i \in DOMAIN q : q[i] # Stop =>
           SentTo(q[i], k) /\ \A j \in DOMAIN q : q[j] # Stop => i = j
  BY DEF IInv, ConductorOK
<1>6. SentTo(Head(q), k) /\ \A i \in DOMAIN Tail(q) : Tail(q)[i] = Stop
  BY <1>1, <1>2, <1>5
<1> HIDE DEF q, c
<1> QED  BY <1>2, <1>3, <1>4, <1>6, ConductorMovesIInv

LEMMA ConductorEndsIInv ==
  ASSUME IInv, NEW k \in Turn, ConductorEnds(k)
  PROVE  IInv'
<1> DEFINE c == [conductor[k] EXCEPT !.stage = "ended", !.inbox = <<>>]
<1>1. conductor \in [Turn -> [stage : {"none", "idle", "busy", "ended"},
                              inbox : Seq(Turn \cup {Stop}), job : Turn \cup {None}]]
  BY DEF IInv, TypeOK
<1>2. conductor' = [conductor EXCEPT ![k] = c] /\ UNCHANGED <<app, channel, turn, queue, orch>>
  BY <1>1 DEF ConductorEnds
<1>3. /\ c \in [stage : {"none", "idle", "busy", "ended"},
                inbox : Seq(Turn \cup {Stop}), job : Turn \cup {None}]
      /\ c.stage = "ended" /\ c.inbox = <<>> /\ DOMAIN c.inbox = {}
  <2>1. <<>> \in Seq(Turn \cup {Stop}) /\ DOMAIN <<>> = {}  OBVIOUS
  <2> QED  BY <1>1, <2>1
<1> HIDE DEF c
<1> QED  BY <1>2, <1>3, ConductorMovesIInv

----------------------------------------------------------------------------
(* The theorems. *)

(* The inductive invariant: whoever has a conductor at work has the lock. *)
THEOREM Invariance == Spec => []IInv
<1>1. IInv /\ [Next]_vars => IInv'
  <2> SUFFICES ASSUME IInv, [Next]_vars PROVE IInv'
    OBVIOUS
  <2>1. CASE UNCHANGED vars
    <3>1. UNCHANGED <<current, start, commands, stopping, turn, queue, orch, conductor>>
      BY <2>1 DEF vars, app, channel, chat
    <3>2. TypeOK'  BY <3>1 DEF IInv, TypeOK
    <3> QED  BY <3>1, <3>2, AsideIInv DEF Holds
  <2>2. ASSUME NEW s \in Session, StartSession(s) \/ StartStep(s) \/ LoadSession(s)
        PROVE  IInv'
    BY <2>2, AppIInv, SessionDropsIInv, SessionPostsIInv DEF StartStep
  <2>3. CASE ClearSession
    <3>1. UNCHANGED <<start, commands, stopping, turn, queue, orch, conductor>> /\ current' = None
      BY <2>3 DEF ClearSession, channel, chat
    <3>2. TypeOK'  BY <3>1 DEF IInv, TypeOK
    <3> QED  BY <3>1, <3>2, AsideIInv DEF Holds
  <2>4. CASE SendMessage \/ StopSession
    BY <2>4, SendMessageIInv, StopSessionIInv
  <2>5. CASE BridgeStep
    BY <2>5, TakeTurnIInv, TakeStopIInv, StopConductorIInv DEF BridgeStep
  <2>6. ASSUME NEW n \in Turn, TurnStep(n) \/ ConductorStep(n)
        PROVE  IInv'
    BY <2>6, TurnBeginsIInv, TurnRefusedIInv, TurnSentIInv, TurnDroppedIInv,
       ConductorTakesIInv, ConductorRepliesIInv, ConductorPanicsIInv, ConductorEndsIInv
    DEF TurnStep, ConductorStep
  <2> QED  BY <2>1, <2>2, <2>3, <2>4, <2>5, <2>6 DEF Next
<1> QED  BY <1>1, InitIInv, PTL DEF Spec

(* No message is answered by the conductor of another session, though sessions
   are compared long after the message was written. *)
THEOREM AnsweredByOwn == Spec => []MessageToOwn
<1>1. IInv => MessageToOwn  BY DEF IInv, ConductorOK, SentTo, MessageToOwn
<1> QED  BY <1>1, Invariance, PTL

(* No conductor is replaced or dropped in the middle of a message, so two are
   never at work in the one project. *)
THEOREM SoleConductor == Spec => []OneAtWork
<1>1. IInv => OneAtWork  BY DEF IInv, ConductorOK, SentTo, OneAtWork
<1> QED  BY <1>1, Invariance, PTL
=============================================================================
