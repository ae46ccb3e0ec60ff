----------------------------- MODULE MCDesktop -----------------------------
(* Two sessions and three messages. *)
EXTENDS Desktop
=============================================================================
