----------------------------- MODULE MCDelivery -----------------------------
(* Two tasks in one sandbox and one in another, over two files and one whose
   path git quotes. *)
EXTENDS Delivery, TLC

CONSTANTS t1, t2, t3, sA, sB, f, h, g

MCTask      == {t1, t2, t3}
MCSandboxes == <<sA, sB>>
MCHint      == t1 :> sA @@ t2 :> sA @@ t3 :> sB
MCFile      == {f, h, g}
MCQuoted    == {g}

(* Nothing, one text or none, or two texts. *)
MCAnswers ==
  {[texts |-> 0, drops |-> 0], [texts |-> 1, drops |-> 0], [texts |-> 0, drops |-> 1],
   [texts |-> 2, drops |-> 0]}

(* The tasks of a sandbox are alike, and so are the files with plain paths. *)
MCSymmetry == {p @@ q : p \in Permutations({t1, t2}), q \in Permutations({f, h})}
=============================================================================
