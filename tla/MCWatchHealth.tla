--------------------------- MODULE MCWatchHealth ---------------------------
(* WatchHealth on small instances.                                         *)
EXTENDS WatchHealth
=============================================================================
