----------------------------- MODULE MCCaptain -----------------------------
(* Plans of up to three tasks; the budgets of crew.rs cut down to two rounds,
   two calls and two rounds of tokens. *)
EXTENDS Captain, TLC

CONSTANTS t1, t2, t3, ghost, p

MCTask   == {t1, t2, t3}
MCTaskId == MCTask \cup {ghost}

Pair(a, b) == t1 :> a @@ t2 :> b
(* No task, one wave of two, a chain, a fork and a join of three, a cycle
   behind a task that could run, and a dependency nobody declares. *)
MCPlans ==
  {<<>>, Pair({}, {}), Pair({}, {t1}), Pair({}, {ghost}),
   Pair({}, {t1}) @@ t3 :> {t1, t2}, Pair({}, {}) @@ t3 :> {t1, t2},
   Pair({}, {t1, t3}) @@ t3 :> {t2}}
=============================================================================
