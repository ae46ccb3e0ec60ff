---------------------------- MODULE MCTransport -----------------------------
(* Two clients on one connection, and three requests on it after the ping. *)
EXTENDS Transport, TLC

CONSTANTS b1, a1, boot1, c1, c2

MCName   == {b1}
MCAgent  == {a1}
MCClient == {c1, c2}

Req(op)  == [op |-> op, box |-> b1, agent |-> a1]
Shutdown == [op |-> "shutdown", box |-> None, agent |-> None]
MCMenu   ==
  (c1 :> {Req("create"), Req("overlay"), Req("agent"), Req("merge")})
  @@ (c2 :> {Req("exec"), Req("destroy"), Req("discard"), Req("status"), Shutdown})
=============================================================================
