------------------------------ MODULE Desktop ------------------------------
(***************************************************************************)
(* The desktop application (mowis-desktop/src-tauri): commands of the user *)
(* interface (commands.rs), the loop that carries them out and the turns   *)
(* it spawns (bridge_loop.rs), and the conductors they talk to             *)
(* (orch_bridge.rs).                                                       *)
(*                                                                         *)
(* A message is known by the number of its turn, and a conductor by the    *)
(* turn that made it.  What a conductor does with a message is one reply,  *)
(* told apart by whether the user is shown anything of it, or a panic; the *)
(* events on the way, and desktop-state.json, are left out.                *)
(***************************************************************************)
EXTENDS Naturals, Sequences, Functions

CONSTANTS
  Session,      \* ids start_session may draw
  MaxTurns,     \* bound on the messages
  None

ASSUME DesktopAssumption ==
  MaxTurns \in Nat \ {0} /\ None \notin Session \cup Nat /\ Session \cap Nat = {}

VARIABLES
  current,           \* current_session_id
  start,             \* how far each session's start_session is
  commands,          \* channel to the bridge loop: turns, and Stop
  stopping,          \* the bridge loop is at a stop
  turn,              \* each message's session and where it is
  queue,             \* orch_session: who holds its lock, and who waits
  orch,              \* the conductor in it
  conductor          \* each conductor's stage, inbox and message

app      == <<current, start>>
channel  == <<commands, stopping>>
chat     == <<orch, conductor>>
vars     == <<app, channel, turn, queue, chat>>

Turn == 1..MaxTurns
Stop == 0

TypeOK ==
  /\ current \in Session \cup {None}
  /\ start \in [Session -> {"none", "waiting", "dropped", "current", "done"}]
  /\ commands \in Seq(Turn \cup {Stop}) /\ stopping \in BOOLEAN
  /\ turn \in [Turn -> [session : Session \cup {None},
                        at : {"none", "queued", "begun", "waiting", "sent",
                              "shown", "unshown"}]]
  /\ queue \in Seq(Turn \cup {Stop} \cup Session)
  /\ orch \in Turn \cup {None}
  /\ conductor \in [Turn -> [stage : {"none", "idle", "busy", "ended"},
                             inbox : Seq(Turn \cup {Stop}), job : Turn \cup {None}]]

Init ==
  /\ current = None /\ start = [s \in Session |-> "none"]
  /\ commands = <<>> /\ stopping = FALSE
  /\ turn = [n \in Turn |-> [session |-> None, at |-> "none"]]
  /\ queue = <<>> /\ orch = None
  /\ conductor = [k \in Turn |-> [stage |-> "none", inbox |-> <<>>, job |-> None]]

Holds(p) == queue # <<>> /\ Head(queue) = p
Unlocked(p) == queue' = IF Holds(p) THEN Tail(queue) ELSE queue
StartIs(s, a) == start' = [start EXCEPT ![s] = a]
TurnIs(n, a) == turn' = [turn EXCEPT ![n].at = a]
Receives(k, m) == conductor' = [conductor EXCEPT ![k].inbox = Append(@, m)]

----------------------------------------------------------------------------
(* Commands of the user interface *)

(* The next message, of session s, is put in the channel. *)
Posted(s) ==
  \E n \in Turn :
    /\ turn[n].at = "none" /\ \A m \in 1..(n - 1) : turn[m].at # "none"
    /\ turn' = [turn EXCEPT ![n] = [session |-> s, at |-> "queued"]]
    /\ commands' = Append(commands, n)

(* start_session waits for the lock, *)
StartSession(s) ==
  /\ start[s] = "none" /\ StartIs(s, "waiting")
  /\ queue' = Append(queue, s)
  /\ UNCHANGED <<current, channel, turn, chat>>

(* drops the conductor that was there, *)
SessionDrops(s) ==
  /\ Holds(s) /\ StartIs(s, "dropped")
  /\ Unlocked(s) /\ orch' = None
  /\ UNCHANGED <<current, channel, turn, conductor>>

(* makes the session the current one, *)
SessionBegins(s) ==
  /\ start[s] = "dropped" /\ StartIs(s, "current")
  /\ current' = s
  /\ UNCHANGED <<channel, turn, queue, chat>>

(* and has its prompt sent unless the state cannot be saved. *)
SessionPosts(s) ==
  /\ start[s] = "current" /\ StartIs(s, "done")
  /\ \/ Posted(s)
     \/ UNCHANGED <<commands, turn>>
  /\ UNCHANGED <<current, stopping, queue, chat>>

(* send_message, for the session that is current when it comes; the interface
   calls it for a session's prompt too. *)
SendMessage ==
  /\ current # None /\ Posted(current)
  /\ UNCHANGED <<app, stopping, queue, chat>>

(* One stop at a time is under way. *)
StopSession ==
  /\ Stop \notin Range(commands) /\ ~stopping
  /\ commands' = Append(commands, Stop)
  /\ UNCHANGED <<app, stopping, turn, queue, chat>>

(* load_session and clear_current_session leave the conductor alone; once the
   last message is written, they are nothing to what follows. *)
MoreTurns == turn[MaxTurns].at = "none"

LoadSession(s) ==
  /\ MoreTurns
  /\ start[s] \in {"current", "done"} /\ current' = s
  /\ UNCHANGED <<start, channel, turn, queue, chat>>

ClearSession ==
  /\ MoreTurns
  /\ current' = None
  /\ UNCHANGED <<start, channel, turn, queue, chat>>

----------------------------------------------------------------------------
(* The bridge loop and its turns *)

(* A turn runs by itself, beside the turns before it. *)
TakeTurn ==
  /\ ~stopping /\ commands # <<>> /\ Head(commands) # Stop
  /\ TurnIs(Head(commands), "begun")
  /\ commands' = Tail(commands)
  /\ UNCHANGED <<app, stopping, queue, chat>>

TakeStop ==
  /\ ~stopping /\ commands # <<>> /\ Head(commands) = Stop
  /\ stopping' = TRUE
  /\ queue' = Append(queue, Stop)
  /\ commands' = Tail(commands)
  /\ UNCHANGED <<app, turn, chat>>

(* The loop waits for the lock, and tells the conductor, if it still reads; a
   second EndConversation says nothing new. *)
StopConductor ==
  /\ stopping /\ Holds(Stop)
  /\ stopping' = FALSE
  /\ IF orch # None /\ conductor[orch].stage # "ended" /\ Stop \notin Range(conductor[orch].inbox)
     THEN Receives(orch, Stop) ELSE UNCHANGED conductor
  /\ Unlocked(Stop)
  /\ UNCHANGED <<app, commands, turn, orch>>

(* The turn's model configuration is refused, or it waits for the lock.  An
   error of the turn itself is shown, here and below. *)
TurnBegins(n) ==
  /\ turn[n].at = "begun"
  /\ \/ TurnIs(n, "shown") /\ UNCHANGED queue
     \/ TurnIs(n, "waiting") /\ queue' = Append(queue, n)
  /\ UNCHANGED <<app, channel, chat>>

(* A variant: any conductor will do. *)
NeedsNewIfNone(n) == orch = None

NeedsNew(n) == orch # None => turn[orch].session # turn[n].session

(* No conductor can be made (no virtual machine, no model), or the one there is
   has ended. *)
TurnRefused(n) ==
  /\ turn[n].at = "waiting" /\ Holds(n)
  /\ ~NeedsNew(n) => conductor[orch].stage = "ended"
  /\ TurnIs(n, "shown") /\ Unlocked(n)
  /\ UNCHANGED <<app, channel, chat>>

Sent(n) ==
  /\ turn[n].at = "waiting" /\ Holds(n) /\ TurnIs(n, "sent")
  /\ \/ /\ NeedsNew(n)
        /\ orch' = n
        /\ conductor' = [conductor EXCEPT ![n] = [stage |-> "idle", inbox |-> <<n>>, job |-> None]]
     \/ /\ ~NeedsNew(n) /\ conductor[orch].stage # "ended"
        /\ Receives(orch, n) /\ UNCHANGED orch
  /\ UNCHANGED <<app, channel>>

(* A variant: the lock is given up while the conductor is at work. *)
TurnSentUnlocked(n) == Sent(n) /\ Unlocked(n)

(* A conductor of the session is made if need be, and given the message. *)
TurnSent(n) == Sent(n) /\ UNCHANGED queue

(* A message that its conductor did not read is an error: "conductor reply
   channel closed". *)
TurnDropped(n) ==
  /\ turn[n].at = "sent" /\ Holds(n) /\ conductor[orch].stage = "ended"
  /\ TurnIs(n, "shown") /\ Unlocked(n)
  /\ UNCHANGED <<app, channel, chat>>

----------------------------------------------------------------------------
(* The conductor's task *)

HasMail(k) == conductor[k].stage = "idle" /\ conductor[k].inbox # <<>>

ConductorTakes(k) ==
  /\ HasMail(k) /\ Head(conductor[k].inbox) # Stop
  /\ conductor' = [conductor EXCEPT ![k] = [stage |-> "busy", inbox |-> Tail(@.inbox),
                                             job |-> Head(@.inbox)]]
  /\ UNCHANGED <<app, channel, turn, queue, orch>>

(* The reply lets the turn give up the lock, and is then discarded: a user is
   shown the events there were on the way, and an error of the conductor, a
   patch or an empty answer has none. *)
ConductorReplies(k) ==
  /\ conductor[k].stage = "busy"
  /\ \E a \in {"shown", "unshown"} : TurnIs(conductor[k].job, a)
  /\ Unlocked(conductor[k].job)
  /\ conductor' = [conductor EXCEPT ![k].stage = "idle", ![k].job = None]
  /\ UNCHANGED <<app, channel, orch>>

(* truncate_str panics over the plan of an earlier message: the task is gone,
   and with it the channel of the reply, which is an error of the turn. *)
ConductorPanics(k) ==
  /\ conductor[k].stage = "busy" /\ conductor[k].job # k
  /\ TurnIs(conductor[k].job, "shown") /\ Unlocked(conductor[k].job)
  /\ conductor' = [conductor EXCEPT ![k].stage = "ended", ![k].inbox = <<>>, ![k].job = None]
  /\ UNCHANGED <<app, channel, orch>>

(* A variant: the conductor empties its inbox, and goes on. *)
ConductorEndsTurnsOnly(k) ==
  /\ HasMail(k) /\ Head(conductor[k].inbox) = Stop
  /\ conductor' = [conductor EXCEPT ![k].inbox = <<>>]
  /\ UNCHANGED <<app, channel, turn, queue, orch>>

(* EndConversation: what comes after it is not read.  Nor is there anything
   more to read once a conductor is replaced. *)
ConductorEnds(k) ==
  /\ \/ HasMail(k) /\ Head(conductor[k].inbox) = Stop
     \/ conductor[k].stage = "idle" /\ conductor[k].inbox = <<>> /\ orch # k
  /\ conductor' = [conductor EXCEPT ![k].stage = "ended", ![k].inbox = <<>>]
  /\ UNCHANGED <<app, channel, turn, queue, orch>>

----------------------------------------------------------------------------
StartStep(s) == SessionDrops(s) \/ SessionBegins(s) \/ SessionPosts(s)

BridgeStep == TakeTurn \/ TakeStop \/ StopConductor

TurnStep(n) == TurnBegins(n) \/ TurnRefused(n) \/ TurnSent(n) \/ TurnDropped(n)

ConductorStep(k) ==
  ConductorTakes(k) \/ ConductorReplies(k) \/ ConductorPanics(k) \/ ConductorEnds(k)

Next ==
  \/ \E s \in Session : StartSession(s) \/ StartStep(s) \/ LoadSession(s)
  \/ SendMessage \/ StopSession \/ ClearSession
  \/ BridgeStep
  \/ \E n \in Turn : TurnStep(n) \/ ConductorStep(n)

(* The runtime polls every task, model calls return, and a command that has the
   lock goes on. *)
Fairness ==
  /\ WF_vars(BridgeStep)
  /\ \A n \in Turn : WF_vars(TurnStep(n)) /\ WF_vars(ConductorStep(n))
  /\ \A s \in Session : WF_vars(StartStep(s))

Spec == Init /\ [][Next]_vars /\ Fairness

----------------------------------------------------------------------------
(* Properties *)

(* A message is answered by a conductor of the session it was written in,
   whatever was started, loaded or stopped between (run_orch_turn compares
   session ids under the lock). *)
MessageToOwn ==
  \A k \in Turn : conductor[k].stage = "busy" =>
    turn[conductor[k].job].session = turn[k].session

(* One conductor is at work at a time: none is in the middle of a message when
   it is replaced or dropped.  All of them write in one project (run_orch_turn
   keeps orch_session locked over the model call). *)
OneAtWork == \A k \in Turn : conductor[k].stage = "busy" => orch = k

(* Every message gives up the lock in the end, so that what waits behind it goes
   on, whether the conductor it is sent to replies, panics, or has been told to
   end and never reads it (run_orch_turn, StopOrchestration, start_session).
   The user has then been shown a reply or an error; of an error, a patch or an
   empty answer that the conductor itself returns, nothing: it is discarded. *)
Underway(n) == turn[n].at \in {"queued", "begun", "waiting", "sent"}
MessageSettled == \A n \in Turn : Underway(n) ~> turn[n].at \in {"shown", "unshown"}

----------------------------------------------------------------------------
(* The inductive invariant. *)

(* The channel holds each message once, and none that a turn has taken. *)
ChannelOK ==
  /\ \A i \in DOMAIN commands : commands[i] # Stop => turn[commands[i]].at = "queued"
  /\ \A i, j \in DOMAIN commands : commands[i] = commands[j] /\ commands[i] # Stop => i = j

(* A turn that waits for its conductor has the lock, so there is one at most. *)
SentHolds == \A n \in Turn : turn[n].at = "sent" => Holds(n)

OrchMade == orch # None => turn[orch].at # "none"

(* Conductor k is where message n has been sent, and is of its session. *)
SentTo(n, k) ==
  turn[n].at = "sent" /\ orch = k /\ turn[n].session = turn[k].session

(* A conductor has at most one message to answer, in hand or in its inbox. *)
ConductorOK(k) ==
  LET c == conductor[k]
  IN  /\ c.stage = "busy" => c.job \in Turn /\ SentTo(c.job, k)
      /\ c.stage = "ended" => c.inbox = <<>>
      /\ \A i \in DOMAIN c.inbox : c.inbox[i] # Stop =>
           /\ SentTo(c.inbox[i], k)
           /\ c.stage # "busy"
           /\ \A j \in DOMAIN c.inbox : c.inbox[j] # Stop => i = j

IInv ==
  /\ TypeOK
  /\ ChannelOK
  /\ SentHolds
  /\ OrchMade
  /\ \A k \in Turn : ConductorOK(k)
=============================================================================
