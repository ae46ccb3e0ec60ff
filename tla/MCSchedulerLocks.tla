-------------------------- MODULE MCSchedulerLocks --------------------------
(* Three workers and the poller; with two that can fail at once, or all three. *)
EXTENDS SchedulerLocks, TLC

CONSTANTS w1, w2, w3, poller

MCAgent    == {w1, w2, w3}
TwoFail    == (w1 :> {"markOk", "markErr"}) @@ (w2 :> {"markOk", "markErr"}) @@ (w3 :> {"markOk"})
ThreeFail  == [w \in MCAgent |-> {"markErr"}]
MCSymmetry == Permutations({w1, w2})
=============================================================================
