--------------------------- MODULE SchedulerLocks ---------------------------
(***************************************************************************)
(* The guards the handlers of Scheduler take, and the order they take them *)
(* in.  tokio's RwLock serves its waiters first come first served: a       *)
(* reader waits behind a writer that waits already, even while other       *)
(* readers hold the lock.  Which task a handler works on is left out; how  *)
(* long its cascade or its unlock loop is, is chosen when it starts.       *)
(***************************************************************************)
EXTENDS Integers, Sequences

CONSTANTS
  Agent,     \* the workers of the agent pool
  Outcomes,  \* how the agent of each worker may end: markOk, markErr
  Poller,    \* the task that reads the counts for the display
  MaxVisits, \* bound: ids one cascade or one unlock loop visits
  MoreTasks  \* bound: whether a worker finds a task after its first

ASSUME LocksAssumption ==
  /\ Outcomes \in [Agent -> SUBSET {"markOk", "markErr"}]
  /\ Poller \notin Agent
  /\ MaxVisits \in Nat /\ MoreTasks \in BOOLEAN

Handler == Agent \cup {Poller}

VARIABLES
  section, \* the critical section each worker is in, or about to enter
  taken,   \* how many of that section's guards it holds
  left,    \* ids its cascade or unlock loop has still to visit
  queue    \* per lock, the workers waiting for it in order of arrival

lockVars == <<section, taken, left, queue>>

----------------------------------------------------------------------------
Lock == {"ready_queues", "running", "completed", "failed", "skipped"}

Read(l)  == [lock |-> l, mode |-> "read"]
Write(l) == [lock |-> l, mode |-> "write"]

(* The guards of each critical section in the order of its .await points.
   "visit" is entered with the guard of "unlock" still held. *)
Acquires ==
  [pop       |-> <<Write("ready_queues")>>,
   stats     |-> <<Read("completed"), Read("failed"), Read("skipped"), Read("running")>>,
   start     |-> <<Write("running")>>,
   leave     |-> <<Write("running")>>,
   markOk    |-> <<Write("completed")>>,
   markErr   |-> <<Write("failed")>>,
   check     |-> <<Read("completed"), Read("skipped"), Read("failed")>>,
   decide    |-> <<Read("completed"), Read("failed"), Read("skipped")>>,
   insert    |-> <<Write("skipped")>>,
   purge     |-> <<Write("ready_queues")>>,
   unlock    |-> <<Write("ready_queues")>>,
   visit     |-> <<Read("failed"), Read("skipped")>>]

Section == DOMAIN Acquires
Cascade == {"check", "decide", "insert", "purge"}

(* A variant: skip_dependents purges the queues inside the block that holds
   skipped, its braces forgotten. *)
GuardsOneBlock(w) ==
  {Acquires[section[w]][i] : i \in 1..taken[w]}
    \cup (IF section[w] = "visit" THEN {Write("ready_queues")} ELSE {})
    \cup (IF section[w] = "purge" THEN {Write("skipped")} ELSE {})

Guards(w) ==
  {Acquires[section[w]][i] : i \in 1..taken[w]}
    \cup (IF section[w] = "visit" THEN {Write("ready_queues")} ELSE {})

Complete(w) == taken[w] = Len(Acquires[section[w]])
Wanted(w)   == Acquires[section[w]][taken[w] + 1]

Excludes(g, h) == g.lock = h.lock /\ "write" \in {g.mode, h.mode}

(* No other worker holds a guard that excludes the one w wants. *)
Free(w) ==
  \A v \in Handler \ {w} : \A g \in Guards(v) : ~Excludes(g, Wanted(w))

InQueue(w) == \E l \in Lock : \E i \in DOMAIN queue[l] : queue[l][i] = w

(* Every agent runs its first task. *)
LocksInit ==
  /\ section = [w \in Handler |-> IF w = Poller THEN "stats" ELSE "leave"]
  /\ taken = [w \in Handler |-> 0]
  /\ left = [w \in Handler |-> 0]
  /\ queue = [l \in Lock |-> <<>>]

----------------------------------------------------------------------------
(* read().await or write().await: served at once when nobody waits and no
   guard is in the way, else behind those who wait. *)
Acquire(w) ==
  /\ ~Complete(w) /\ ~InQueue(w)
  /\ LET l == Wanted(w).lock
     IN IF queue[l] = <<>> /\ Free(w)
        THEN taken' = [taken EXCEPT ![w] = @ + 1] /\ UNCHANGED queue
        ELSE queue' = [queue EXCEPT ![l] = Append(@, w)] /\ UNCHANGED taken
  /\ UNCHANGED <<section, left>>

(* The lock's semaphore hands its permits to the waiter at the front. *)
Grant(w) ==
  /\ InQueue(w)
  /\ LET l == Wanted(w).lock
     IN /\ Head(queue[l]) = w
        /\ Free(w)
        /\ queue' = [queue EXCEPT ![l] = Tail(@)]
  /\ taken' = [taken EXCEPT ![w] = @ + 1]
  /\ UNCHANGED <<section, left>>

(* The end of a critical section drops its guards; s is where control goes. *)
Enter(w, s) ==
  /\ Complete(w)
  /\ section' = [section EXCEPT ![w] = s]
  /\ taken' = [taken EXCEPT ![w] = 0]
  /\ UNCHANGED queue

(* The agent pool's loop: nothing to pop, so look at the counts; or a task,
   run to its end.  The poller looks at the counts and at nothing else. *)
Poll(w) ==
  /\ \/ section[w] = "pop"   /\ Enter(w, "stats")
     \/ section[w] = "pop"   /\ MoreTasks /\ Enter(w, "start")
     \/ section[w] = "stats" /\ Enter(w, IF w = Poller THEN "stats" ELSE "pop")
     \/ section[w] = "start" /\ Enter(w, "leave")
  /\ UNCHANGED left

(* handle_task_completion, up to the set that records the outcome. *)
Report(w) ==
  /\ section[w] = "leave"
  /\ \E s \in Outcomes[w] : Enter(w, s)
  /\ UNCHANGED left

(* Into the loop over n dependents, or back when there are none. *)
BeginLoop(w) ==
  \E n \in 0..MaxVisits :
    /\ left' = [left EXCEPT ![w] = n]
    /\ \/ section[w] = "markErr" /\ Enter(w, IF n = 0 THEN "pop" ELSE "check")
       \/ section[w] = "markOk"  /\ Enter(w, IF n = 0 THEN "pop" ELSE "unlock")

(* skip_dependents has popped an id and dropped it as finished, seen no reason
   to skip it, or skipped it: on to the next one. *)
NextVisit(w) ==
  /\ section[w] \in {"check", "decide", "purge"}
  /\ left' = [left EXCEPT ![w] = @ - 1]
  /\ Enter(w, IF left[w] = 1 THEN "pop" ELSE "check")

(* skip_dependents, going through with the id it is at. *)
SkipVisited(w) ==
  /\ \/ section[w] = "check"  /\ Enter(w, "decide")
     \/ section[w] = "decide" /\ Enter(w, "insert")
     \/ section[w] = "insert" /\ Enter(w, "purge")
  /\ UNCHANGED left

(* unlock_dependents: ready_queues stays locked over every visit. *)
UnlockVisit(w) ==
  \/ section[w] = "unlock" /\ Enter(w, "visit") /\ UNCHANGED left
  \/ /\ section[w] = "visit"
     /\ left' = [left EXCEPT ![w] = @ - 1]
     /\ Enter(w, IF left[w] = 1 THEN "pop" ELSE "visit")

LockStep(w) ==
  Acquire(w) \/ Grant(w) \/ Poll(w) \/ Report(w) \/ BeginLoop(w) \/ NextVisit(w)
    \/ SkipVisited(w) \/ UnlockVisit(w)

LocksNext == \E w \in Handler : LockStep(w)

LocksSpec == LocksInit /\ [][LocksNext]_lockVars

(* tokio polls every task that can proceed. *)
LocksFairSpec == LocksSpec /\ \A w \in Handler : WF_lockVars(LockStep(w))

----------------------------------------------------------------------------
(* Properties *)

(* Those whose guards, or whose place in the queue, keep w waiting. *)
WaitsOn(w) ==
  IF ~InQueue(w) THEN {}
  ELSE LET q == queue[Wanted(w).lock]
       IN {v \in Handler \ {w} : \E g \in Guards(v) : Excludes(g, Wanted(w))}
            \cup {q[i] : i \in {j \in DOMAIN q : \A k \in 1..j : q[k] # w}}

(* No ring of handlers, each waiting for a guard that the next one holds or
   is ahead for. *)
NoCircularWait ==
  \A ring \in (SUBSET Handler) \ {{}} : \E w \in ring : WaitsOn(w) \cap ring = {}

(* What a ring takes: a cascade that checks a dependent, one that marks one, and
   a failure that is recorded, at once. *)
RingsHaveThree ==
  \A ring \in (SUBSET Handler) \ {{}} :
    (\A w \in ring : WaitsOn(w) \cap ring # {})
      => {"check", "insert", "markErr"} \subseteq {section[w] : w \in ring}

(* Somebody waits for nobody: it may go on, or is first for a lock that is free. *)
SomebodyGoesOn ==
  \E w \in Handler : InQueue(w) => Head(queue[Wanted(w).lock]) = w /\ Free(w)

(* A failed task's dependents get marked: the cascade comes to its end. *)
CascadeEnds == \A w \in Handler : section[w] \in Cascade ~> section[w] \notin Cascade

----------------------------------------------------------------------------
(* The inductive invariant of SchedulerProofs. *)

LocksTypeOK ==
  /\ section \in [Handler -> Section]
  /\ taken \in [Handler -> Nat]
  /\ left \in [Handler -> 0..MaxVisits]
  /\ queue \in [Lock -> Seq(Handler)]

(* Who waits for a lock wants it next, and waits once. *)
QueueOK ==
  \A l \in Lock : \A i, j \in DOMAIN queue[l] :
    /\ ~Complete(queue[l][i]) /\ Wanted(queue[l][i]).lock = l
    /\ queue[l][i] = queue[l][j] => i = j

(* Only what may fail reports a failure, and only a loop has ids left. *)
SectionsOK ==
  /\ section[Poller] = "stats"
  /\ \A w \in Handler :
       /\ taken[w] <= Len(Acquires[section[w]])
       /\ section[w] \in Cascade \cup {"markErr"} => w \in Agent /\ "markErr" \in Outcomes[w]
       /\ section[w] \in Cascade \cup {"unlock", "visit"} => left[w] > 0

LocksIInv == LocksTypeOK /\ QueueOK /\ SectionsOK

(* As in the run: of any three workers, one does not fail. *)
AtMostTwoFail ==
  \A a, b, c \in Agent :
    "markErr" \in Outcomes[a] \cap Outcomes[b] \cap Outcomes[c] => a = b \/ b = c \/ a = c
=============================================================================
