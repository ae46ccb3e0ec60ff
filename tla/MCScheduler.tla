---------------------------- MODULE MCScheduler ----------------------------
(* Small instances of Scheduler: four tasks over two sandboxes, three workers. *)
EXTENDS Scheduler, TLC

CONSTANTS t1, t2, t3, t4, ghost, sA, default, w1, w2, w3

MCTask    == {t1, t2, t3, t4}
MCTaskId  == MCTask \cup {ghost}
MCSandbox == {sA, default}
MCWorker  == {w1, w2, w3}
MCHint    == t1 :> sA @@ t2 :> default @@ t3 :> default @@ t4 :> sA

(* Acyclic graphs with every shape of three tasks, and a fourth that is free,
   ends a chain or joins two others.  Then a cycle behind a task that runs, and
   a task that names a dependency nobody declares. *)
Graph(a, b, c, d) == t1 :> a @@ t2 :> b @@ t3 :> c @@ t4 :> d
Acyclic ==
  {Graph({}, b, c, d) : b \in SUBSET {t1}, c \in (SUBSET {t1, t2}) \ {{}},
                        d \in {{}, {t3}, {t2, t3}, {t1, t2}}}
Stuck == {Graph({}, {t1}, {t2, t4}, {t3}), Graph({}, {}, {t1, ghost}, {t2, t3})}
MCGraphs == Acyclic \cup Stuck
=============================================================================
