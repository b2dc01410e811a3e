----------------------------- MODULE MCProcess -----------------------------
(* Process on a small table, for TLC. *)
EXTENDS Process
=============================================================================
