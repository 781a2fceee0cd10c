-------------------------- MODULE LogStore_proofs ---------------------------
(***************************************************************************)
(* Proofs about LogStore, for every set of streams and both bounds.        *)
(***************************************************************************)
EXTENDS LogStore, FiniteSetTheorems, NaturalsInduction, TLAPS

-----------------------------------------------------------------------------
(* Sets of rows.                                                           *)

LEMMA Oldest ==
  ASSUME NEW R \in SUBSET Row, R # {}
  PROVE  \E m \in R : \A r \in R : m.number <= r.number
<1> DEFINE numbers == {r.number : r \in R}
           less == OpToRel(<, Nat)
<1>1. numbers \subseteq Nat /\ numbers # {}
  BY DEF Row
<1>2. \A i, j \in Nat : <<i, j>> \notin less => j <= i
  BY DEF OpToRel
<1>3. IsWellFoundedOn(less, Nat)
  BY NatLessThanWellFounded
<1> HIDE DEF less
<1>4. PICK n \in numbers : \A k \in numbers : ~(<<k, n>> \in less)
  <2> HIDE DEF numbers
  <2> QED
    BY <1>1, <1>3, WFMin
<1>5. \A k \in numbers : n <= k
  BY <1>1, <1>2, <1>4
<1> QED
  BY <1>5

(* The deletions keep at most as many rows as they are told to: the oldest *)
(* row that stays is followed by no more than that.                        *)
LEMMA NewestOfBounded ==
  ASSUME NEW R \in SUBSET Row, IsFiniteSet(R), NEW n \in Nat
  PROVE  /\ NewestOf(R, n) \subseteq R
         /\ IsFiniteSet(NewestOf(R, n))
         /\ Cardinality(NewestOf(R, n)) <= n
<1> DEFINE kept == NewestOf(R, n)
<1>1. kept \in SUBSET R /\ kept \in SUBSET Row
  BY DEF NewestOf
<1>2. IsFiniteSet(kept)
  BY <1>1, FS_Subset
<1>3. CASE kept = {}
  BY <1>1, <1>3, FS_EmptySet
<1>4. CASE kept # {}
  <2>1. PICK m \in kept : \A r \in kept : m.number <= r.number
    BY <1>1, <1>4, Oldest
  <2> DEFINE after == {q \in R : q.number >= m.number}
  <2>2. Cardinality(after) <= n
    BY <2>1 DEF NewestOf
  <2>3. kept \in SUBSET after
    BY <1>1, <2>1 DEF Row
  <2>4. IsFiniteSet(after)
    BY FS_Subset
  <2>5. Cardinality(kept) <= Cardinality(after)
    BY <2>3, <2>4, FS_Subset
  <2>6. Cardinality(kept) \in Nat /\ Cardinality(after) \in Nat
    BY <1>2, <2>4, FS_CardinalityType
  <2> QED
    BY <1>1, <1>2, <2>2, <2>5, <2>6
<1> QED
  BY <1>3, <1>4

(* One order for both cuts: what stays is newer than what goes.            *)
LEMMA NewestAreNewer ==
  ASSUME NEW R \in SUBSET Row, IsFiniteSet(R), NEW n \in Nat,
         NEW k \in NewestOf(R, n), NEW g \in R \ NewestOf(R, n)
  PROVE  g.number < k.number
<1> SUFFICES ASSUME k.number <= g.number PROVE FALSE
  BY DEF Row, NewestOf
<1> DEFINE fromG == {q \in R : q.number >= g.number}
           fromK == {q \in R : q.number >= k.number}
<1>1. fromG \in SUBSET fromK
  BY DEF Row, NewestOf
<1>2. IsFiniteSet(fromK)
  BY FS_Subset
<1>3. IsFiniteSet(fromG) /\ Cardinality(fromG) <= Cardinality(fromK)
  BY <1>1, <1>2, FS_Subset
<1>4. Cardinality(fromG) \in Nat /\ Cardinality(fromK) \in Nat
  BY <1>2, <1>3, FS_CardinalityType
<1>5. Cardinality(fromK) <= n
  BY DEF NewestOf
<1>6. ~(Cardinality(fromG) <= n)
  BY DEF NewestOf
<1> QED
  BY <1>3, <1>4, <1>5, <1>6

Distinct(R) == \A r, q \in R : r.number = q.number => r = q

LEMMA Newest ==
  ASSUME NEW R \in SUBSET Row, R # {}, NEW bound \in Nat,
         \A r \in R : r.number <= bound
  PROVE  \E m \in R : \A r \in R : r.number <= m.number
<1> DEFINE distances == {bound - r.number : r \in R}
           less == OpToRel(<, Nat)
<1>1. distances \subseteq Nat /\ distances # {}
  BY DEF Row
<1>2. \A i, j \in Nat : <<i, j>> \notin less => j <= i
  BY DEF OpToRel
<1>3. IsWellFoundedOn(less, Nat)
  BY NatLessThanWellFounded
<1> HIDE DEF less
<1>4. PICK n \in distances : \A k \in distances : ~(<<k, n>> \in less)
  <2> HIDE DEF distances
  <2> QED
    BY <1>1, <1>3, WFMin
<1>5. \A k \in distances : n <= k
  BY <1>1, <1>2, <1>4
<1>6. PICK m \in R : n = bound - m.number
  OBVIOUS
<1>7. ASSUME NEW r \in R PROVE r.number <= m.number
  <2>1. bound - r.number \in distances
    OBVIOUS
  <2>2. bound - m.number <= bound - r.number
    BY <1>5, <1>6, <2>1
  <2>3. r.number \in Nat /\ m.number \in Nat
    BY DEF Row
  <2> HIDE DEF distances
  <2> QED
    BY <2>2, <2>3
<1> QED
  BY <1>7

(* A cut that drops a row leaves a full table.                             *)
LEMMA DropsFromFull ==
  ASSUME NEW R \in SUBSET Row, IsFiniteSet(R), Distinct(R), NEW n \in Nat,
         NEW bound \in Nat, \A r \in R : r.number <= bound,
         R # NewestOf(R, n)
  PROVE  Cardinality(NewestOf(R, n)) = n
<1> DEFINE kept == NewestOf(R, n)
<1>1. kept \subseteq R /\ IsFiniteSet(kept) /\ Cardinality(kept) <= n
  BY NewestOfBounded
<1>2. PICK g \in R \ kept : \A r \in R \ kept : r.number <= g.number
  <2>1. R \ kept \in SUBSET Row /\ R \ kept # {}
    BY <1>1
  <2> HIDE DEF kept
  <2> QED
    BY <2>1, Newest
<1> DEFINE after == {q \in R : q.number >= g.number}
<1>3. after \in SUBSET (kept \cup {g})
  BY <1>2 DEF Distinct, Row
<1>4. /\ IsFiniteSet(kept \cup {g})
      /\ Cardinality(kept \cup {g}) = Cardinality(kept) + 1
  BY <1>1, <1>2, FS_AddElement
<1>5. IsFiniteSet(after) /\ Cardinality(after) <= Cardinality(kept) + 1
  BY <1>3, <1>4, FS_Subset
<1>6. ~(Cardinality(after) <= n)
  BY <1>2 DEF NewestOf
<1>7. Cardinality(after) \in Nat /\ Cardinality(kept) \in Nat
  BY <1>1, <1>5, FS_CardinalityType
<1> QED
  BY <1>1, <1>5, <1>6, <1>7

LEMMA DropsNothing ==
  ASSUME NEW R \in SUBSET Row, IsFiniteSet(R), NEW n \in Nat,
         Cardinality(R) <= n
  PROVE  NewestOf(R, n) = R
<1>1. ASSUME NEW r \in R PROVE r \in NewestOf(R, n)
  <2> DEFINE after == {q \in R : q.number >= r.number}
  <2>1. after \in SUBSET R
    OBVIOUS
  <2>2. IsFiniteSet(after) /\ Cardinality(after) <= Cardinality(R)
    BY <2>1, FS_Subset
  <2>3. Cardinality(after) \in Nat /\ Cardinality(R) \in Nat
    BY <2>2, FS_CardinalityType
  <2>4. Cardinality(after) <= n
    BY <2>2, <2>3
  <2> QED
    BY <2>4 DEF NewestOf
<1> QED
  BY <1>1 DEF NewestOf

(* The newest row stays, and stays alone if only one may.                  *)
LEMMA NewestStays ==
  ASSUME NEW R \in SUBSET Row, IsFiniteSet(R), NEW n \in Nat \ {0},
         NEW new \in R, \A r \in R : r # new => r.number < new.number
  PROVE  /\ new \in NewestOf(R, n)
         /\ n = 1 => NewestOf(R, n) = {new}
<1>1. {q \in R : q.number >= new.number} = {new}
  BY DEF Row
<1>2. Cardinality({new}) = 1 /\ IsFiniteSet({new})
  BY FS_Singleton
<1>3. new \in NewestOf(R, n)
  BY <1>1, <1>2 DEF NewestOf
<1>4. ASSUME n = 1 PROVE NewestOf(R, n) = {new}
  <2>1. IsFiniteSet(NewestOf(R, n)) /\ Cardinality(NewestOf(R, n)) <= 1
    BY <1>4, NewestOfBounded
  <2>2. {new} \in SUBSET NewestOf(R, n)
    BY <1>3
  <2>3. Cardinality({new}) <= Cardinality(NewestOf(R, n))
    BY <2>1, <2>2, FS_Subset
  <2>4. Cardinality(NewestOf(R, n)) = Cardinality({new})
    BY <1>2, <2>1, <2>3, FS_CardinalityType
  <2> QED
    BY <2>1, <2>2, <2>4, FS_Subset
<1> QED
  BY <1>3, <1>4

-----------------------------------------------------------------------------
(* The bounds.                                                             *)

(* An append changes the table and nothing else of the type.               *)
LEMMA InsertBounded ==
  ASSUME LogsTypeOK, LogsBounded, NEW s \in Streams, Insert(s)
  PROVE  rows' \subseteq Row /\ IsFiniteSet(rows') /\ LogsBounded'
<1> DEFINE new == [stream |-> s, number |-> sequence + 1]
           all == rows \cup {new}
           trimmed == TrimStream(all, s)
<1>1. all \in SUBSET Row /\ IsFiniteSet(all)
  <2>1. new \in Row
    BY DEF LogsTypeOK, Row
  <2>2. IsFiniteSet(rows \cup {new})
    BY FS_AddElement DEF LogsTypeOK
  <2> QED
    BY <2>1, <2>2 DEF LogsTypeOK
<1>2. RowsOf(all, s) \in SUBSET all
  BY DEF RowsOf
<1>3. RowsOf(all, s) \in SUBSET Row /\ IsFiniteSet(RowsOf(all, s))
  BY <1>1, <1>2, FS_Subset
<1>4. /\ NewestOf(RowsOf(all, s), PerStream) \subseteq RowsOf(all, s)
      /\ IsFiniteSet(NewestOf(RowsOf(all, s), PerStream))
      /\ Cardinality(NewestOf(RowsOf(all, s), PerStream)) <= PerStream
  BY <1>3, NewestOfBounded, RetentionAssumption
<1>5. trimmed \in SUBSET all
  BY <1>2, <1>4 DEF TrimStream
<1>6. trimmed \in SUBSET Row /\ IsFiniteSet(trimmed)
  BY <1>1, <1>5, FS_Subset
<1>7. rows' = NewestOf(trimmed, Total)
  BY DEF Insert, TrimAll
<1>8. /\ rows' \subseteq trimmed
      /\ IsFiniteSet(rows')
      /\ Cardinality(rows') <= Total
  BY <1>6, <1>7, NewestOfBounded, RetentionAssumption
<1>9. ASSUME NEW t \in Streams
      PROVE  Cardinality(RowsOf(rows', t)) <= PerStream
  <2> DEFINE kept == IF t = s THEN NewestOf(RowsOf(all, s), PerStream)
                     ELSE RowsOf(rows, t)
  <2>1. IsFiniteSet(kept) /\ Cardinality(kept) <= PerStream
    <3>1. RowsOf(rows, t) \in SUBSET rows
      BY DEF RowsOf
    <3>2. IsFiniteSet(RowsOf(rows, t))
      BY <3>1, FS_Subset DEF LogsTypeOK
    <3> QED
      BY <1>4, <3>2 DEF LogsBounded
  <2>2. RowsOf(rows', t) \in SUBSET kept
    <3>1. RowsOf(rows', t) \subseteq RowsOf(trimmed, t)
      BY <1>8 DEF RowsOf
    <3>2. CASE t = s
      BY <3>1, <3>2 DEF RowsOf, TrimStream
    <3>3. CASE t # s
      BY <1>5, <3>1, <3>3 DEF RowsOf
    <3> QED
      BY <3>2, <3>3
  <2>3. /\ IsFiniteSet(RowsOf(rows', t))
        /\ Cardinality(RowsOf(rows', t)) <= Cardinality(kept)
    BY <2>1, <2>2, FS_Subset
  <2>4. Cardinality(RowsOf(rows', t)) \in Nat /\ Cardinality(kept) \in Nat
    BY <2>1, <2>3, FS_CardinalityType
  <2> HIDE DEF kept
  <2> QED
    BY <2>1, <2>3, <2>4, RetentionAssumption
<1> QED
  BY <1>6, <1>8, <1>9 DEF LogsBounded

(* Types and both retention bounds, inductive together (database.rs,      *)
(* append_log).                                                           *)
THEOREM LogsInvariant == Spec => [](LogsTypeOK /\ LogsBounded)
<1>1. Init => LogsTypeOK /\ LogsBounded
  <2> SUFFICES ASSUME Init PROVE LogsTypeOK /\ LogsBounded
    OBVIOUS
  <2>1. rows = {} /\ \A s \in Streams : RowsOf(rows, s) = {}
    BY DEF Init, RowsOf
  <2>2. LogsTypeOK
    BY <2>1, FS_EmptySet DEF Init, LogsTypeOK
  <2>3. LogsBounded
    BY <2>1, FS_EmptySet, RetentionAssumption DEF LogsBounded
  <2> QED
    BY <2>2, <2>3
<1>2. LogsTypeOK /\ LogsBounded /\ [Next]_vars => (LogsTypeOK /\ LogsBounded)'
  <2> SUFFICES ASSUME LogsTypeOK, LogsBounded, [Next]_vars
               PROVE  LogsTypeOK' /\ LogsBounded'
    OBVIOUS
  <2>1. CASE UNCHANGED rows /\ sequence' = sequence
    <3>1. LogsBounded'
      BY <2>1 DEF LogsBounded, RowsOf
    <3>2. /\ database' \in Databases \cup {Created} /\ open' \in BOOLEAN
          /\ durability' \in {"ok", "failed"}
      BY DEF LogsTypeOK, Next, OpenDatabase, CloseDatabase, AppendLog, vars
    <3> QED
      BY <2>1, <3>1, <3>2 DEF LogsTypeOK
  <2>2. ASSUME NEW s \in Streams, AppendLog(s), Insert(s)
        PROVE  LogsTypeOK' /\ LogsBounded'
    <3>1. sequence' \in Nat
      BY <2>2 DEF Insert, LogsTypeOK
    <3>2. UNCHANGED <<database, open>> /\ durability' \in {"ok", "failed"}
      BY <2>2 DEF AppendLog, LogsTypeOK
    <3> QED
      BY <2>2, <3>1, <3>2, InsertBounded DEF LogsTypeOK
  <2> QED
    BY <2>1, <2>2 DEF Next, OpenDatabase, CloseDatabase, AppendLog, vars
<1> QED
  BY <1>1, <1>2, PTL DEF Spec

(* However many rows are appended, in whatever order and with whatever     *)
(* failures, both retention bounds hold (database.rs, append_log).         *)
THEOREM LogsBoundedThm == Spec => []LogsBounded
  BY LogsInvariant, PTL

(* Rows and their numbers stay well typed; a number is never used twice   *)
(* (database.rs, append_log).                                             *)
THEOREM LogsTypeCorrect == Spec => []LogsTypeOK
  BY LogsInvariant, PTL

-----------------------------------------------------------------------------
(* Retention.                                                              *)

(* Rows are numbered once and for all.                                     *)
Numbered == Distinct(rows) /\ \A r \in rows : r.number <= sequence

(* LogsKeepNewest, of one append.                                          *)
KeepsNewest(new) ==
  LET gone == rows \ rows' IN
  /\ rows' \ rows = {new}
  /\ \A r \in rows : r.number < new.number
  /\ \A g \in gone, k \in rows' :
       g.stream = k.stream => g.number < k.number
  /\ \A g \in gone :
       \/ /\ g.stream = new.stream
          /\ Cardinality(RowsOf(rows', g.stream)) = PerStream
       \/ /\ Cardinality(rows') = Total
          /\ \A r \in rows : g.number <= r.number
  /\ \A limit \in 0..1 :
       NewestOf(RowsOf(rows', new.stream), ClampedLimit(limit)) = {new}

LEMMA InsertKeepsNewest ==
  ASSUME LogsTypeOK, LogsBounded, Numbered, NEW s \in Streams, Insert(s)
  PROVE  Numbered' /\ \E new \in rows' \ rows : KeepsNewest(new)
<1> DEFINE new == [stream |-> s, number |-> sequence + 1]
           all == rows \cup {new}
           own == RowsOf(all, s)
           stay == NewestOf(own, PerStream)
           trimmed == TrimStream(all, s)
<1>1. new \in Row /\ sequence \in Nat /\ new.stream = s /\ new \notin rows
  BY DEF LogsTypeOK, Row, Numbered
<1>2. \A r \in rows : r \in Row /\ r.number < new.number
  BY <1>1 DEF Numbered, LogsTypeOK, Row
<1>3. all \in SUBSET Row /\ IsFiniteSet(all) /\ Cardinality(all) = Cardinality(rows) + 1
  BY <1>1, FS_AddElement DEF LogsTypeOK
<1>4. Distinct(all) /\ \A r \in all : r.number <= sequence + 1
  BY <1>1, <1>2 DEF Distinct, Numbered, Row
<1>5. own \in SUBSET all /\ IsFiniteSet(own) /\ new \in own
  BY <1>1, <1>3, FS_Subset DEF RowsOf
<1>6. stay \subseteq own /\ IsFiniteSet(stay) /\ Cardinality(stay) <= PerStream
  BY <1>3, <1>5, NewestOfBounded, RetentionAssumption
<1>7. trimmed = (all \ own) \cup stay
  BY DEF TrimStream
<1>8. rows' = NewestOf(trimmed, Total) /\ sequence' = sequence + 1
  BY DEF Insert, TrimAll
<1>9. Cardinality(rows) \in Nat /\ Cardinality(rows) <= Total
  BY FS_CardinalityType DEF LogsTypeOK, LogsBounded
<1> HIDE DEF new, all, own, stay, trimmed
<1>10. trimmed \in SUBSET all /\ trimmed \in SUBSET Row /\ IsFiniteSet(trimmed)
  BY <1>3, <1>5, <1>6, <1>7, FS_Subset
<1>11. rows' \subseteq trimmed /\ IsFiniteSet(rows') /\ Cardinality(rows') <= Total
  BY <1>8, <1>10, NewestOfBounded, RetentionAssumption
<1>12. \A r \in all : r # new => r.number < new.number
  BY <1>2 DEF all
<1>13. new \in stay
  BY <1>3, <1>5, <1>12, NewestStays, RetentionAssumption DEF stay
<1>14. new \in rows'
  BY <1>7, <1>8, <1>10, <1>12, <1>13, NewestStays, RetentionAssumption
<1>15. rows' \ rows = {new}
  BY <1>1, <1>10, <1>11, <1>14 DEF all
<1>16. Numbered'
  BY <1>4, <1>8, <1>10, <1>11 DEF Numbered, Distinct
(* A row that goes goes by one of the cuts, never by both in one append.   *)
<1>17. ASSUME trimmed # all
       PROVE  rows' = trimmed /\ Cardinality(stay) = PerStream
  <2>1. own # stay
    BY <1>5, <1>7, <1>17
  <2>2. Cardinality(stay) = PerStream
    BY <1>1, <1>3, <1>4, <1>5, <2>1, DropsFromFull, RetentionAssumption
       DEF stay, Distinct
  <2>3. /\ Cardinality(trimmed) <= Cardinality(all)
        /\ Cardinality(trimmed) # Cardinality(all)
    BY <1>3, <1>10, <1>17, FS_Subset
  <2>4. Cardinality(trimmed) <= Total
    BY <1>3, <1>9, <1>10, <2>3, FS_CardinalityType, RetentionAssumption
  <2> QED
    BY <1>8, <1>10, <2>2, <2>4, DropsNothing, RetentionAssumption
<1>18. ASSUME NEW g \in rows \ rows', NEW k \in rows', g.stream = k.stream
       PROVE  g.number < k.number
  <2>1. CASE g \in trimmed
    BY <1>8, <1>10, <1>18, <2>1, NewestAreNewer, RetentionAssumption
  <2>2. CASE g \notin trimmed
    <3>1. g \in own \ stay
      BY <1>7, <2>2 DEF all
    <3>2. k \in stay
      BY <1>7, <1>10, <1>11, <1>18, <3>1 DEF own, RowsOf
    <3> QED
      BY <1>3, <1>5, <3>1, <3>2, NewestAreNewer, RetentionAssumption DEF stay
  <2> QED
    BY <2>1, <2>2
<1>19. ASSUME NEW g \in rows \ rows'
       PROVE  \/ /\ g.stream = new.stream
                 /\ Cardinality(RowsOf(rows', g.stream)) = PerStream
              \/ /\ Cardinality(rows') = Total
                 /\ \A r \in rows : g.number <= r.number
  <2>1. CASE trimmed # all
    <3>1. g \in own \ stay
      BY <1>7, <1>17, <2>1 DEF all
    <3>2. g.stream = s
      BY <3>1 DEF own, RowsOf
    <3>3. RowsOf(rows', s) = stay
      BY <1>6, <1>7, <1>17, <2>1 DEF own, RowsOf
    <3> QED
      BY <1>1, <1>17, <2>1, <3>2, <3>3
  <2>2. CASE trimmed = all
    <3>1. g \in all /\ g \notin NewestOf(all, Total)
      BY <1>8, <2>2 DEF all
    <3>2. Cardinality(rows') = Total
      BY <1>1, <1>3, <1>4, <1>8, <2>2, <3>1, DropsFromFull, RetentionAssumption
    <3>3. IsFiniteSet(rows' \cup {g}) /\ Cardinality(rows' \cup {g}) = Total + 1
      BY <1>11, <1>19, <3>2, FS_AddElement
    <3>4. rows' \cup {g} \in SUBSET all
      BY <1>10, <1>11, <3>1
    <3>5. Cardinality(rows' \cup {g}) <= Cardinality(all)
      BY <1>3, <3>4, FS_Subset
    <3>6. Cardinality(all) = Total + 1
      BY <1>3, <1>9, <3>3, <3>5, RetentionAssumption
    <3>7. all = rows' \cup {g}
      BY <1>3, <3>3, <3>4, <3>6, FS_Subset
    <3>8. ASSUME NEW r \in rows PROVE g.number <= r.number
      <4>1. CASE r = g
        BY <1>2, <4>1 DEF Row
      <4>2. CASE r # g
        <5>1. r \in NewestOf(all, Total)
          BY <1>8, <2>2, <3>7, <3>8, <4>2 DEF all
        <5>2. g.number < r.number
          BY <1>3, <3>1, <5>1, NewestAreNewer, RetentionAssumption
        <5> QED
          BY <1>2, <1>19, <5>2 DEF Row
      <4> QED
        BY <4>1, <4>2
    <3> QED
      BY <3>2, <3>8
  <2> QED
    BY <2>1, <2>2
<1>20. ASSUME NEW limit \in 0..1
       PROVE  NewestOf(RowsOf(rows', new.stream), ClampedLimit(limit)) = {new}
  <2>1. ClampedLimit(limit) = 1
    BY DEF ClampedLimit
  <2>2. RowsOf(rows', new.stream) \in SUBSET rows'
    BY DEF RowsOf
  <2>3. /\ RowsOf(rows', new.stream) \in SUBSET Row
        /\ IsFiniteSet(RowsOf(rows', new.stream))
        /\ new \in RowsOf(rows', new.stream)
    BY <1>10, <1>11, <1>14, <2>2, FS_Subset DEF RowsOf
  <2>4. \A r \in RowsOf(rows', new.stream) : r # new => r.number < new.number
    BY <1>10, <1>11, <1>12, <2>2
  <2> QED
    BY <2>1, <2>3, <2>4, NewestStays
<1>21. KeepsNewest(new)
  BY <1>2, <1>15, <1>18, <1>19, <1>20 DEF KeepsNewest
<1> QED
  BY <1>15, <1>16, <1>21

(* For any bounds, streams and failures: an append keeps the new row,      *)
(* drops nothing but the oldest, and only from what is full (database.rs,  *)
(* append_log).                                                            *)
THEOREM LogsKeepNewestThm == Spec => LogsKeepNewest
<1>1. Init => Numbered
  BY DEF Init, Numbered, Distinct
<1>2. LogsTypeOK /\ LogsBounded /\ Numbered /\ [Next]_vars => Numbered'
  <2> SUFFICES ASSUME LogsTypeOK, LogsBounded, Numbered, [Next]_vars
               PROVE  Numbered'
    OBVIOUS
  <2>1. CASE UNCHANGED <<rows, sequence>>
    BY <2>1 DEF Numbered, Distinct
  <2>2. ASSUME NEW s \in Streams, Insert(s) PROVE Numbered'
    BY <2>2, InsertKeepsNewest
  <2> QED
    BY <2>1, <2>2 DEF Next, OpenDatabase, CloseDatabase, AppendLog, vars
<1> DEFINE Keeps ==
      \E new \in rows' \ rows :
        LET gone == rows \ rows' IN
        /\ rows' \ rows = {new}
        /\ \A r \in rows : r.number < new.number
        /\ \A g \in gone, k \in rows' :
             g.stream = k.stream => g.number < k.number
        /\ \A g \in gone :
             \/ /\ g.stream = new.stream
                /\ Cardinality(RowsOf(rows', g.stream)) = PerStream
             \/ /\ Cardinality(rows') = Total
                /\ \A r \in rows : g.number <= r.number
        /\ \A limit \in 0..1 :
             QueryLogs(new.stream, limit, TRUE)'.entries = {new}
<1>3. LogsTypeOK /\ LogsBounded /\ Numbered /\ [Next]_vars => [Keeps]_rows
  <2> SUFFICES ASSUME LogsTypeOK, LogsBounded, Numbered, Next, rows' # rows
               PROVE  Keeps
    BY DEF vars
  <2>1. PICK s \in Streams : Insert(s)
    BY DEF Next, OpenDatabase, CloseDatabase, AppendLog
  <2>2. PICK new \in rows' \ rows : KeepsNewest(new)
    BY <2>1, InsertKeepsNewest
  <2>3. \A limit \in 0..1 :
          QueryLogs(new.stream, limit, TRUE)'.entries
            = NewestOf(RowsOf(rows', new.stream), ClampedLimit(limit))
    BY DEF QueryLogs
  <2> QED
    BY <2>2, <2>3 DEF KeepsNewest
<1> QED
  BY <1>1, <1>2, <1>3, LogsInvariant, PTL DEF Spec, LogsKeepNewest
=============================================================================
