-------------------------- MODULE MCBackgroundTasks ---------------------------
(* Small instances of BackgroundTasks for TLC. *)
EXTENDS BackgroundTasks

CONSTANTS r1, r2
===============================================================================
