------------------------------ MODULE LogStore ------------------------------
(***************************************************************************)
(* The log rows of the daemon (logs.rs, database.rs, state/log_queries.rs) *)
(* with their two bounds.  Two pipes of Caddy and the operations of the    *)
(* runtime append; clients query; daemons come and go.  A row is its       *)
(* stream and its sequence number.  The text of a row, and what the        *)
(* redactor takes out of it, are left out.                                 *)
(*                                                                         *)
(* An insert and both of its deletions are one SQLite transaction.  An     *)
(* append that fails is not retried, and one that misses its deadline is   *)
(* reported as failed although it may have been committed.                 *)
(***************************************************************************)
EXTENDS Naturals, FiniteSets

CONSTANTS
  Streams,     \* canonical log streams
  PerStream,   \* rows retained per stream: 1000
  Total,       \* rows retained in all: 5000
  MaxSequence, \* bound: how many rows are ever inserted
  Databases,   \* the files a daemon may find: see Acceptable
  Faults       \* "storage", "deadline"

ASSUME RetentionAssumption == PerStream \in Nat \ {0} /\ Total \in Nat \ {0}

VARIABLES
  database,    \* the file: its integrity, its version, its schema
  open,        \* whether a daemon has it open
  rows,        \* the table log_events
  sequence,    \* sqlite_sequence: the last number given, which is not reused
  durability   \* durability_error: whether the last append is known to be in

vars == <<database, open, rows, sequence, durability>>

Tables == {"domains", "entrypoints", "log_events"}

(* create_schema.  What a table is made of is left out, except for whether *)
(* it is what it was created with.                                         *)
Created ==
  [intact |-> TRUE, version |-> 1, tables |-> Tables, altered |-> {},
   indexed |-> TRUE, cascades |-> TRUE]

Row == [stream : Streams, number : Nat]

LogsTypeOK ==
  /\ database \in Databases \cup {Created} /\ open \in BOOLEAN
  /\ rows \subseteq Row /\ IsFiniteSet(rows)
  /\ sequence \in Nat
  /\ durability \in {"ok", "failed"}

Init ==
  /\ database \in Databases /\ open = FALSE
  /\ rows = {} /\ sequence = 0 /\ durability = "ok"

(* validate_columns.                                                       *)
ColumnsAsCreated(d, table) == table \notin d.altered

(* validate_schema.                                                        *)
SchemaAsCreated(d) ==
  /\ d.tables = Tables
  /\ \A table \in Tables : ColumnsAsCreated(d, table)
  /\ d.indexed   \* log_events_stream_sequence_idx
  /\ d.cascades  \* the foreign key of the domains

(* Only an empty database or one of this schema is opened.  Any other is   *)
(* left alone, and the daemon does not start.                              *)
Acceptable(d) ==
  /\ d.intact
  /\ \/ d.version = 0 /\ d.tables = {}
     \/ d.version = 1 /\ SchemaAsCreated(d)

OpenDatabase ==
  /\ ~open /\ Acceptable(database)
  /\ database' = Created
  /\ open' = TRUE /\ durability' = "ok"
  /\ UNCHANGED <<rows, sequence>>

(* The daemon closes it, or crashes: SQLite loses nothing it committed.    *)
CloseDatabase ==
  /\ open /\ open' = FALSE
  /\ UNCHANGED <<database, rows, sequence, durability>>

(* ORDER BY sequence DESC LIMIT n                                          *)
NewestOf(R, n) ==
  {r \in R : Cardinality({q \in R : q.number >= r.number}) <= n}

RowsOf(R, s) == {r \in R : r.stream = s}

(* Mutant: the bound of a stream counts the rows of every stream.          *)
TrimStreamByAll(R, s) ==
  (R \ RowsOf(R, s)) \cup (RowsOf(R, s) \cap NewestOf(R, PerStream))

(* The two deletions of append_log, after the insert.                      *)
TrimStream(R, s) == (R \ RowsOf(R, s)) \cup NewestOf(RowsOf(R, s), PerStream)

(* Mutant: the row just inserted is not counted.                           *)
TrimAllButOne(R) == NewestOf(R, Total + 1)

TrimAll(R) == NewestOf(R, Total)

Insert(s) ==
  /\ rows' = TrimAll(TrimStream(rows \cup {[stream |-> s,
                                            number |-> sequence + 1]}, s))
  /\ sequence' = sequence + 1

(* append: the caller goes on with or without its row.                     *)
AppendLog(s) ==
  /\ open /\ UNCHANGED <<database, open>>
  /\ sequence < MaxSequence
  /\ \/ Insert(s) /\ durability' = "ok"
     \/ "deadline" \in Faults /\ Insert(s) /\ durability' = "failed"
     \/ "storage" \in Faults /\ durability' = "failed"
        /\ UNCHANGED <<rows, sequence>>

Next == OpenDatabase \/ CloseDatabase \/ \E s \in Streams : AppendLog(s)

Spec == Init /\ [][Next]_vars

(* What a client asks for, and what a query of one stream returns.         *)
ClampedLimit(n) == IF n < 1 THEN 1 ELSE IF n > 200 THEN 200 ELSE n

QueryLogs(s, limit, active) ==
  LET entries == NewestOf(RowsOf(rows, s), ClampedLimit(limit)) IN
  [entries |-> entries,
   status |-> IF entries = {} THEN IF active THEN "empty" ELSE "removed"
                              ELSE IF active THEN "active" ELSE "stale"]

(***************************************************************************)
(* Retention (OBS-002): a new row is in, whatever is full; the rows that   *)
(* go are older than every row of their stream that stays; a stream loses  *)
(* a row of its own only when it has reached its bound, and to the rows of *)
(* another stream only its oldest, when that is the oldest of a full table;*)
(* and the new row is what a query for one row of its stream returns next. *)
(***************************************************************************)
LogsKeepNewest ==
  [][\E new \in rows' \ rows :
       LET gone == rows \ rows' IN
       /\ rows' \ rows = {new}
       /\ \A r \in rows : r.number < new.number
       /\ \A g \in gone, k \in rows' :
            g.stream = k.stream => g.number < k.number
       /\ \A g \in gone :
            \/ /\ g.stream = new.stream
               /\ Cardinality(RowsOf(rows', g.stream)) = PerStream
            \/ /\ Cardinality(rows') = Total
               /\ \A r \in rows : g.number <= r.number
       /\ \A limit \in 0..1 :
            QueryLogs(new.stream, limit, TRUE)'.entries = {new}
    ]_rows

(* Both bounds hold whenever a query may look (OBS-002).                   *)
LogsBounded ==
  /\ Cardinality(rows) <= Total
  /\ \A s \in Streams : Cardinality(RowsOf(rows, s)) <= PerStream
=============================================================================
