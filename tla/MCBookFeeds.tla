----------------------------- MODULE MCBookFeeds -----------------------------
(* BookFeeds on small instances.                                            *)
EXTENDS BookFeeds
=============================================================================
