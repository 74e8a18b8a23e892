--------------------------- MODULE MCStatusMonitor --------------------------
(* StatusMonitor with pages that are dashboards, which watch all tablets.  *)
EXTENDS StatusMonitor

WatchAll == [p \in Pages |-> Tablets]
=============================================================================
