----------------------------- MODULE MCTickQueue -----------------------------
(* TickQueue on small instances.                                            *)
EXTENDS TickQueue
=============================================================================
