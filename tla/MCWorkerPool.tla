---------------------------- MODULE MCWorkerPool ----------------------------
(* Three tasks, two of them in one sandbox, and two workers. *)
EXTENDS WorkerPool, TLC

CONSTANTS t1, t2, t3, sA, sB, w1, w2, c1, c2, c3

MCTask      == {t1, t2, t3}
MCSandboxes == <<sA, sB>>
MCHint      == t1 :> sA @@ t2 :> sA @@ t3 :> sB
MCWorker    == {w1, w2}
MCContainer == {c1, c2, c3}

Graph(a, b, c) == t1 :> a @@ t2 :> b @@ t3 :> c

(* Free tasks, a chain, and a task that joins two others. *)
MCGraphs == {Graph({}, {}, {}), Graph({}, {t1}, {t2}), Graph({}, {}, {t1, t2})}

(* For tasks that are lost: one sandbox, and a task that waits for the first. *)
OneSandbox == <<sA>>
HintOne    == [t \in MCTask |-> sA]
PairGraph  == {Graph({}, {}, {t1})}
=============================================================================
