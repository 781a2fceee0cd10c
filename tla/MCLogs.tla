------------------------------- MODULE MCLogs -------------------------------
EXTENDS LogStore

Empty == [Created EXCEPT !.version = 0, !.tables = {}]

(* An empty file, a current one, and what a daemon must leave alone.       *)
LogDatabases ==
  {Empty, Created,
   [Empty EXCEPT !.tables = {"settings"}],
   [Created EXCEPT !.version = 2],
   [Created EXCEPT !.intact = FALSE],
   [Created EXCEPT !.tables = {"log_events"}],
   [Created EXCEPT !.altered = {"log_events"}],
   [Created EXCEPT !.indexed = FALSE],
   [Created EXCEPT !.cascades = FALSE]}
=============================================================================
