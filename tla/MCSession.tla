----------------------------- MODULE MCSession ------------------------------
(* Three plans in a session, three rounds in a turn, two calls in an answer. *)
EXTENDS Session, TLC

CONSTANTS p1, p2, p3

MCPlanId == {p1, p2, p3}
All      == {"chat", "autonomous", "tui"}
=============================================================================
