--------------------------- MODULE MCForegroundSync ---------------------------
(* Small instances of ForegroundSync for TLC. *)
EXTENDS ForegroundSync, TLC

CONSTANTS t1, t2, t3, none
===============================================================================
