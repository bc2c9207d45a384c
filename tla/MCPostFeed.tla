------------------------------ MODULE MCPostFeed -------------------------------
(* Small instances of PostFeed for TLC. *)
EXTENDS PostFeed

CONSTANTS fa, yeybu
===============================================================================
